------------------------ MODULE FuncResolutionProofs ------------------------
(***************************************************************************)
(* Theorems about FuncResolution, for all programs, any nesting of         *)
(* compilations and any number of them.                                    *)
(***************************************************************************)
EXTENDS FuncResolution, FiniteSetTheorems, SequenceTheorems, NaturalsInduction,
        WellFoundedInduction, TLAPS

(***************************************************************************)
(* The inductive invariant.                                                *)
(***************************************************************************)

SymbolNames == {None} \cup UNION {{p.name[fn] : fn \in Funcs} : p \in Programs}
OpType == [fn : Funcs, symbol : SymbolNames, inlined : BOOLEAN]
CallSites == Nat \X Nat
Targets == UNION {[D -> Nat] : D \in SUBSET CallSites}
FrameType ==
  [kind : {"top", "inner"}, fn : Funcs, call : {None} \cup CallSites,
   at : {"typing", "passes", "lowered"}, ops : Seq(OpType),
   target : Targets, saved : Nat]
Dicts == UNION {[D -> Funcs] : D \in SUBSET SymbolNames}

Typed ==
  /\ program \in Programs
  /\ frames \in Seq(FrameType)
  /\ active_funcs_stack \in Seq(Dicts)
  /\ active_module \in Nat
  /\ default_inline \in {"never", "always"}
  /\ compiles \in 0 .. MaxCompiles

\* Which frames there are above which: an inner backend above a backend that runs
\* its passes, a backend above one whose function is being typed.
Shape ==
  \A j \in DOMAIN frames :
    /\ frames[j].kind = "inner" =>
         frames[j].at \in {"typing", "lowered"} /\ j > 1 /\ frames[j - 1].at = "passes"
    /\ frames[j].kind = "top" =>
         frames[j].at \in {"typing", "passes"} /\ (j > 1 => frames[j - 1].at = "typing")
    /\ frames[j].at # "passes" =>
         frames[j].ops = << >> /\ DOMAIN frames[j].target = {} /\ frames[j].saved = 0

\* The backends among the first j frames, and the last of them (0 for none).
Starts(fr, j) == {i \in 1 .. j : fr[i].at = "passes"}
LastStart(fr, j, m) == m \in Starts(fr, j) \cup {0} /\ \A i \in Starts(fr, j) : i <= m

\* What each backend saved is what is active when it is left.
Globals ==
  /\ LastStart(frames, Depth, active_module)
  /\ \A j \in Starts(frames, Depth) : LastStart(frames, j - 1, frames[j].saved)
  /\ Len(active_funcs_stack) = Cardinality(Starts(frames, Depth))

CallsOf(fn) == {program.calls[fn][k] : k \in DOMAIN program.calls[fn]}
CallsIn(ops) == UNION {CallsOf(ops[i].fn) : i \in DOMAIN ops}

\* The dictionary of a backend has the calls of its module, and only them.
DictOK(ops, dict) ==
  /\ \A fn \in CallsIn(ops) : program.name[fn] \in DOMAIN dict
  /\ \A n \in DOMAIN dict : dict[n] \in CallsIn(ops) /\ program.name[dict[n]] = n

DictsMatch ==
  \A j \in Starts(frames, Depth) :
    DictOK(frames[j].ops, active_funcs_stack[Cardinality(Starts(frames, j))])

\* A module begins with the function compiled; the others get their names, once.
ModuleOK(f) ==
  /\ f.ops # << >>
  /\ f.ops[1].fn = f.fn /\ f.ops[1].symbol = None
  /\ \A i \in DOMAIN f.ops : f.ops[i].symbol # None => f.ops[i].symbol = program.name[f.ops[i].fn]
  /\ \A i, k \in DOMAIN f.ops : f.ops[i].symbol = f.ops[k].symbol /\ i # k => f.ops[i].symbol = None
  /\ DOMAIN f.target \subseteq Calls(f)
  /\ \A c \in DOMAIN f.target : f.target[c] \in DOMAIN f.ops

ModulesOK == \A j \in Starts(frames, Depth) : ModuleOK(frames[j])

\* What an inner backend compiles is a call of the module below, for which that has
\* nothing yet.
PendingOK(f, fn, c) ==
  /\ c \in Calls(f)
  /\ SymbolOf(f, Name(f, c)) = {}
  /\ fn \in CallsIn(f.ops)
  /\ program.name[fn] = Name(f, c)

Pending ==
  \A j \in DOMAIN frames :
    frames[j].kind = "inner" => PendingOK(frames[j - 1], frames[j].fn, frames[j].call)

\* Between MlirBackendInner and the return of get_func nothing else happens.
Lowered ==
  frames # << >> /\ Top.at = "lowered" =>
    LET ops == frames[Depth - 1].ops
    IN  /\ last_compiled[2] = Len(ops)
        /\ Len(ops) > 1
        /\ ops[Len(ops)].fn = Top.fn

FuncInv ==
  /\ Typed
  /\ Shape
  /\ Globals
  /\ DictsMatch
  /\ ModulesOK
  /\ Pending
  /\ Lowered

(***************************************************************************)
(* Counting the backends in progress.                                      *)
(***************************************************************************)

LEMMA StartsFinite ==
  ASSUME NEW fr, NEW j \in Nat
  PROVE  /\ IsFiniteSet(Starts(fr, j)) /\ Cardinality(Starts(fr, j)) \in Nat
         /\ Starts(fr, j) \subseteq 1 .. j
<1>1. IsFiniteSet(1 .. j)
  BY FS_Interval
<1>2. Starts(fr, j) \in SUBSET (1 .. j)
  BY DEF Starts
<1> QED BY <1>1, <1>2, FS_Subset, FS_CardinalityType

\* Each backend has a dictionary of its own.
LEMMA RankGrows ==
  ASSUME NEW fr, NEW i \in Nat, NEW j \in Nat, i < j, fr[j].at = "passes"
  PROVE  Cardinality(Starts(fr, i)) < Cardinality(Starts(fr, j))
<1>1. Starts(fr, i) \subseteq Starts(fr, j) /\ j \in Starts(fr, j) /\ j \notin Starts(fr, i)
  BY DEF Starts
<1>2. Starts(fr, i) \in SUBSET Starts(fr, j) /\ Starts(fr, i) # Starts(fr, j)
  BY <1>1
<1>3. /\ Cardinality(Starts(fr, i)) <= Cardinality(Starts(fr, j))
      /\ Cardinality(Starts(fr, j)) # Cardinality(Starts(fr, i))
  BY <1>2, StartsFinite, FS_Subset
<1> QED BY <1>3, StartsFinite

\* The dictionaries of the first n frames' backends are the first ones.
LEMMA RankBound ==
  ASSUME NEW fr, NEW n \in Nat, NEW j \in Starts(fr, n)
  PROVE  Cardinality(Starts(fr, j)) \in 1 .. Cardinality(Starts(fr, n))
<1>1. j \in Nat /\ j > 0 /\ j <= n /\ fr[j].at = "passes"
  BY DEF Starts
<1>2. Starts(fr, j) \in SUBSET Starts(fr, n)
  BY <1>1 DEF Starts
<1>3. Cardinality(Starts(fr, j)) <= Cardinality(Starts(fr, n))
  BY <1>2, StartsFinite, FS_Subset
<1>4. Cardinality(Starts(fr, 0)) < Cardinality(Starts(fr, j))
  BY <1>1, RankGrows
<1> QED BY <1>1, <1>3, <1>4, StartsFinite

LEMMA StartsSame ==
  ASSUME NEW fr, NEW gr, NEW j \in Nat,
         \A i \in 1 .. j : fr[i].at = "passes" <=> gr[i].at = "passes"
  PROVE  Starts(fr, j) = Starts(gr, j)
BY DEF Starts

\* One more frame.
LEMMA StartsNext ==
  ASSUME NEW fr, NEW j \in Nat
  PROVE  /\ fr[j + 1].at = "passes" =>
              /\ Starts(fr, j + 1) = Starts(fr, j) \cup {j + 1}
              /\ Cardinality(Starts(fr, j + 1)) = Cardinality(Starts(fr, j)) + 1
         /\ fr[j + 1].at # "passes" => Starts(fr, j + 1) = Starts(fr, j)
<1>1. fr[j + 1].at # "passes" => Starts(fr, j + 1) = Starts(fr, j)
  BY DEF Starts
<1>2. ASSUME fr[j + 1].at = "passes"
      PROVE  /\ Starts(fr, j + 1) = Starts(fr, j) \cup {j + 1}
             /\ Cardinality(Starts(fr, j + 1)) = Cardinality(Starts(fr, j)) + 1
  <2>1. Starts(fr, j + 1) = Starts(fr, j) \cup {j + 1} /\ j + 1 \notin Starts(fr, j)
    BY <1>2 DEF Starts
  <2> QED BY <2>1, StartsFinite, FS_AddElement
<1> QED BY <1>1, <1>2

\* The last frame.
LEMMA StartsLast ==
  ASSUME NEW fr, NEW j \in Nat, j > 0
  PROVE  /\ fr[j].at = "passes" =>
              /\ Starts(fr, j) = Starts(fr, j - 1) \cup {j}
              /\ Cardinality(Starts(fr, j)) = Cardinality(Starts(fr, j - 1)) + 1
         /\ fr[j].at # "passes" => Starts(fr, j) = Starts(fr, j - 1)
<1>1. PICK i \in Nat : j = i + 1
  <2>1. j - 1 \in Nat /\ j = (j - 1) + 1
    OBVIOUS
  <2> QED BY <2>1
<1>2. j - 1 = i
  BY <1>1
<1>3. /\ fr[i + 1].at = "passes" =>
           /\ Starts(fr, i + 1) = Starts(fr, i) \cup {i + 1}
           /\ Cardinality(Starts(fr, i + 1)) = Cardinality(Starts(fr, i)) + 1
      /\ fr[i + 1].at # "passes" => Starts(fr, i + 1) = Starts(fr, i)
  BY StartsNext
<1> QED BY <1>1, <1>2, <1>3, Zenon

(***************************************************************************)
(* Names and dictionaries.                                                 *)
(***************************************************************************)

LEMMA LeastExists ==
  ASSUME NEW S \in SUBSET Nat, S # {}
  PROVE  \E n \in S : \A m \in S : n <= m
<1>1. IsWellFoundedOn(OpToRel(<, Nat), Nat)
  BY NatLessThanWellFounded
<1>2. PICK n \in S : \A m \in S : ~(<<m, n>> \in OpToRel(<, Nat))
  BY <1>1, WFMin
<1>3. ASSUME NEW m \in S PROVE n <= m
  <2>1. ~(m < n)
    BY <1>2 DEF OpToRel
  <2> QED BY <2>1
<1> QED BY <1>3

LEMMA GreatestExists ==
  ASSUME NEW n \in Nat, NEW S \in SUBSET (1 .. n), S # {}
  PROVE  \E m \in S : \A i \in S : i <= m
<1> DEFINE T == {n - i : i \in S}
<1>1. T \in SUBSET Nat /\ T # {}
  <2>1. \A i \in S : n - i \in Nat
    OBVIOUS
  <2>2. PICK i \in S : TRUE
    OBVIOUS
  <2>3. n - i \in T
    OBVIOUS
  <2> QED BY <2>1, <2>3
<1> HIDE DEF T
<1>2. PICK t \in T : \A u \in T : t <= u
  BY <1>1, LeastExists
<1>3. PICK m \in S : t = n - m
  BY <1>2 DEF T
<1>4. ASSUME NEW i \in S PROVE i <= m
  <2>1. n - i \in T
    BY DEF T
  <2>2. n - m <= n - i
    BY <1>2, <1>3, <2>1
  <2> QED BY <2>2
<1> QED BY <1>4

LEMMA CallsTyped ==
  ASSUME program \in Programs, NEW fn \in Funcs
  PROVE  /\ program.calls[fn] \in Seq(Funcs)
         /\ DOMAIN program.calls[fn] = 1 .. Len(program.calls[fn])
         /\ Len(program.calls[fn]) \in Nat
         /\ CallsOf(fn) \subseteq Funcs
<1>1. program.calls[fn] \in Seq(Funcs)
  BY ProgramsAssumption
<1> QED BY <1>1, LenProperties DEF CallsOf

\* The functions that fn calls are in the dictionary, and what was there before
\* and has another name.
LEMMA RegisteredOK ==
  ASSUME program \in Programs, NEW fn \in Funcs, NEW dict \in Dicts
  PROVE  /\ Registered(dict, fn) \in Dicts
         /\ \A g \in CallsOf(fn) : program.name[g] \in DOMAIN Registered(dict, fn)
         /\ DOMAIN dict \subseteq DOMAIN Registered(dict, fn)
         /\ \A n \in DOMAIN Registered(dict, fn) :
              \/ /\ Registered(dict, fn)[n] \in CallsOf(fn)
                 /\ program.name[Registered(dict, fn)[n]] = n
              \/ n \in DOMAIN dict /\ Registered(dict, fn)[n] = dict[n]
<1> DEFINE called == program.calls[fn]
           names  == {program.name[called[k]] : k \in DOMAIN called}
           IsLast(n, k) == /\ program.name[called[k]] = n
                           /\ \A j \in k + 1 .. Len(called) : program.name[called[j]] # n
           last(n) == CHOOSE k \in DOMAIN called : IsLast(n, k)
           R == [n \in names \cup DOMAIN dict |-> IF n \in names THEN called[last(n)] ELSE dict[n]]
<1>1. Registered(dict, fn) = R
  BY Zenon DEF Registered
<1>2. DOMAIN called = 1 .. Len(called) /\ Len(called) \in Nat /\ called \in Seq(Funcs)
  BY CallsTyped
<1> HIDE DEF called
<1>3. ASSUME NEW n \in names
      PROVE  last(n) \in DOMAIN called /\ program.name[called[last(n)]] = n
  <2> DEFINE S == {k \in DOMAIN called : program.name[called[k]] = n}
  <2>1. S \in SUBSET (1 .. Len(called)) /\ S # {}
    BY <1>2
  <2>2. PICK m \in S : \A i \in S : i <= m
    BY <1>2, <2>1, GreatestExists
  <2>3. m \in DOMAIN called /\ IsLast(n, m)
    BY <1>2, <2>1, <2>2
  <2> QED BY <2>3
<1>4. CallsOf(fn) = {called[k] : k \in DOMAIN called}
  BY DEF CallsOf, called
<1>5. names \subseteq SymbolNames
  BY <1>2 DEF SymbolNames
<1>6. DOMAIN dict \subseteq SymbolNames /\ \A n \in DOMAIN dict : dict[n] \in Funcs
  BY DEF Dicts
<1>7. DOMAIN R = names \cup DOMAIN dict
  OBVIOUS
<1>8. \A n \in names : R[n] = called[last(n)]
  OBVIOUS
<1>9. \A n \in DOMAIN dict : n \notin names => R[n] = dict[n]
  OBVIOUS
<1>10. \A n \in names : R[n] \in CallsOf(fn) /\ program.name[R[n]] = n
  BY <1>3, <1>4, <1>8, Zenon
<1>11. \A g \in CallsOf(fn) : program.name[g] \in names
  BY <1>4
<1>12. CallsOf(fn) \subseteq Funcs
  BY CallsTyped
<1>13. R \in Dicts
  <2>1. \A n \in names \cup DOMAIN dict : R[n] \in Funcs
    BY <1>6, <1>9, <1>10, <1>12
  <2>2. R \in [names \cup DOMAIN dict -> Funcs]
    BY <2>1
  <2>3. names \cup DOMAIN dict \in SUBSET SymbolNames
    BY <1>5, <1>6
  <2> HIDE DEF R
  <2> QED BY <2>2, <2>3 DEF Dicts
<1> HIDE DEF R, names
<1> QED BY <1>1, <1>7, <1>9, <1>10, <1>11, <1>13, Zenon

\* A module gets a function: its calls are calls of the module.
LEMMA CallsGrow ==
  ASSUME NEW ops \in Seq(OpType), NEW op \in OpType
  PROVE  CallsIn(Append(ops, op)) = CallsIn(ops) \cup CallsOf(op.fn)
<1>1. /\ Len(ops) \in Nat /\ DOMAIN ops = 1 .. Len(ops)
      /\ DOMAIN Append(ops, op) = 1 .. Len(ops) + 1
      /\ \A i \in 1 .. Len(ops) : Append(ops, op)[i] = ops[i]
      /\ Append(ops, op)[Len(ops) + 1] = op
  BY AppendProperties, LenProperties
<1>2. CallsIn(Append(ops, op)) = UNION {CallsOf(Append(ops, op)[i].fn) : i \in 1 .. Len(ops) + 1}
  BY <1>1, Zenon DEF CallsIn
<1>3. CallsIn(ops) = UNION {CallsOf(ops[i].fn) : i \in 1 .. Len(ops)}
  BY <1>1, Zenon DEF CallsIn
<1>4. \A i \in 1 .. Len(ops) + 1 : i \in 1 .. Len(ops) \/ i = Len(ops) + 1
  BY <1>1
<1>5. \A i \in 1 .. Len(ops) : i \in 1 .. Len(ops) + 1
  BY <1>1
<1>6. Len(ops) + 1 \in 1 .. Len(ops) + 1
  BY <1>1
<1> QED BY <1>1, <1>2, <1>3, <1>4, <1>5, <1>6

LEMMA CallsInTyped ==
  ASSUME program \in Programs, NEW ops \in Seq(OpType)
  PROVE  CallsIn(ops) \subseteq Funcs
<1> SUFFICES ASSUME NEW g \in CallsIn(ops) PROVE g \in Funcs
  OBVIOUS
<1>1. PICK i \in DOMAIN ops : g \in CallsOf(ops[i].fn)
  BY DEF CallsIn
<1>2. i \in 1 .. Len(ops)
  BY LenProperties
<1>3. ops[i] \in OpType
  BY <1>2, ElementOfSeq
<1>4. ops[i].fn \in Funcs
  BY <1>3 DEF OpType
<1> QED BY <1>1, <1>4, CallsTyped

LEMMA DictGrows ==
  ASSUME program \in Programs, NEW ops \in Seq(OpType), NEW op \in OpType,
         NEW dict \in Dicts, DictOK(ops, dict)
  PROVE  DictOK(Append(ops, op), Registered(dict, op.fn)) /\ Registered(dict, op.fn) \in Dicts
<1> DEFINE R == Registered(dict, op.fn)
<1>1. op.fn \in Funcs
  BY DEF OpType
<1>2. /\ R \in Dicts
      /\ \A g \in CallsOf(op.fn) : program.name[g] \in DOMAIN R
      /\ DOMAIN dict \subseteq DOMAIN R
      /\ \A n \in DOMAIN R : \/ R[n] \in CallsOf(op.fn) /\ program.name[R[n]] = n
                             \/ n \in DOMAIN dict /\ R[n] = dict[n]
  BY <1>1, RegisteredOK, Zenon
<1>3. CallsIn(Append(ops, op)) = CallsIn(ops) \cup CallsOf(op.fn)
  BY CallsGrow
<1> HIDE DEF R
<1>4. \A g \in CallsIn(Append(ops, op)) : program.name[g] \in DOMAIN R
  BY <1>2, <1>3 DEF DictOK
<1>5. ASSUME NEW n \in DOMAIN R
      PROVE  R[n] \in CallsIn(Append(ops, op)) /\ program.name[R[n]] = n
  BY <1>2, <1>3 DEF DictOK
<1> QED BY <1>2, <1>4, <1>5 DEF DictOK, R

LEMMA FirstDict ==
  ASSUME program \in Programs, NEW op \in OpType
  PROVE  DictOK(<<op>>, Registered(<< >>, op.fn)) /\ Registered(<< >>, op.fn) \in Dicts
<1>1. << >> \in Seq(OpType) /\ Append(<< >>, op) = <<op>>
  BY EmptySeq
<1>2. << >> \in Dicts
  <2>1. << >> \in [{} -> Funcs]
    OBVIOUS
  <2> QED BY <2>1 DEF Dicts
<1>3. DictOK(<< >>, << >>)
  BY DEF DictOK, CallsIn
<1> QED BY <1>1, <1>2, <1>3, DictGrows

(***************************************************************************)
(* The steps.                                                              *)
(***************************************************************************)

LEMMA InitFunc == Init => FuncInv
<1> SUFFICES ASSUME Init PROVE FuncInv
  OBVIOUS
<1>1. Starts(<< >>, 0) = {}
  BY DEF Starts
<1>2. frames = << >> /\ Depth = 0 /\ active_funcs_stack = << >> /\ active_module = 0
  BY DEF Init, Depth
<1>3. Typed
  BY <1>2, EmptySeq, BoundAssumption DEF Init, Typed
<1>4. Globals
  BY <1>1, <1>2, FS_EmptySet DEF Globals, LastStart
<1> QED BY <1>1, <1>2, <1>3, <1>4
    DEF FuncInv, Shape, DictsMatch, ModulesOK, Pending, Lowered

\* A new compilation starts above one that types its function, or, for an inner
\* backend, above one that resolves a call.
Pushed(e) ==
  /\ frames' = Append(frames, e)
  /\ UNCHANGED <<program, active_funcs_stack, active_module, last_compiled, default_inline>>
  /\ compiles' \in 0 .. MaxCompiles
  /\ e \in FrameType
  /\ e.at = "typing" /\ e.ops = << >> /\ DOMAIN e.target = {} /\ e.saved = 0
  /\ e.kind = "top" => frames = << >> \/ Top.at = "typing"
  /\ e.kind = "inner" => frames # << >> /\ Top.at = "passes" /\ PendingOK(Top, e.fn, e.call)

\* The predicates on one frame depend on the frame and the program only.
LEMMA ProgramKept ==
  ASSUME program' = program
  PROVE  /\ \A f : ModuleOK(f)' <=> ModuleOK(f)
         /\ \A ops, dict : DictOK(ops, dict)' <=> DictOK(ops, dict)
         /\ \A f, fn, c : PendingOK(f, fn, c)' <=> PendingOK(f, fn, c)
<1>1. ASSUME NEW f PROVE Calls(f)' = Calls(f)
  BY Zenon DEF Calls
<1>2. ASSUME NEW ops PROVE CallsIn(ops)' = CallsIn(ops)
  <2>1. \A fn : CallsOf(fn)' = CallsOf(fn)
    BY Zenon DEF CallsOf
  <2> QED BY <2>1, Zenon DEF CallsIn
<1>3. ASSUME NEW f, NEW c PROVE Name(f, c)' = Name(f, c)
  BY Zenon DEF Name, Callee
<1>4. ASSUME NEW f PROVE ModuleOK(f)' <=> ModuleOK(f)
  BY <1>1, Zenon DEF ModuleOK
<1>5. ASSUME NEW ops, NEW dict PROVE DictOK(ops, dict)' <=> DictOK(ops, dict)
  BY <1>2, Zenon DEF DictOK
<1>6. ASSUME NEW f, NEW fn, NEW c PROVE PendingOK(f, fn, c)' <=> PendingOK(f, fn, c)
  BY <1>1, <1>2, <1>3, Zenon DEF PendingOK, SymbolOf
<1> QED BY <1>4, <1>5, <1>6

LEMMA PushKeeps == ASSUME NEW e PROVE FuncInv /\ Pushed(e) => FuncInv'
<1> SUFFICES ASSUME FuncInv, Pushed(e) PROVE FuncInv'
  OBVIOUS
<1>1. /\ frames \in Seq(FrameType) /\ Depth \in Nat /\ DOMAIN frames = 1 .. Depth
      /\ frames' \in Seq(FrameType) /\ Depth' = Depth + 1 /\ DOMAIN frames' = 1 .. Depth + 1
      /\ \A j \in 1 .. Depth : frames'[j] = frames[j]
      /\ frames'[Depth + 1] = e
  BY AppendProperties, LenProperties DEF FuncInv, Typed, Pushed, Depth
<1>2. /\ \A j \in 0 .. Depth : Starts(frames', j) = Starts(frames, j)
      /\ Starts(frames', Depth + 1) = Starts(frames, Depth)
  <2>1. \A j \in 0 .. Depth : Starts(frames', j) = Starts(frames, j)
    BY <1>1, StartsSame
  <2>2. frames'[Depth + 1].at # "passes"
    BY <1>1 DEF Pushed
  <2>3. Starts(frames', Depth + 1) = Starts(frames', Depth)
    BY <1>1, <2>2, StartsNext, Zenon
  <2> QED BY <1>1, <2>1, <2>3
<1>3. /\ Starts(frames, Depth) \subseteq 1 .. Depth
      /\ \A j \in Starts(frames, Depth) : j - 1 \in 0 .. Depth
  BY <1>1 DEF Starts
<1>4. Typed'
  BY <1>1 DEF FuncInv, Typed, Pushed
<1>5. Shape'
  <2> SUFFICES ASSUME NEW j \in 1 .. Depth + 1
               PROVE  /\ frames'[j].kind = "inner" => /\ frames'[j].at \in {"typing", "lowered"}
                                                      /\ j > 1 /\ frames'[j - 1].at = "passes"
                      /\ frames'[j].kind = "top" => /\ frames'[j].at \in {"typing", "passes"}
                                                    /\ j > 1 => frames'[j - 1].at = "typing"
                      /\ frames'[j].at # "passes" => /\ frames'[j].ops = << >>
                                                     /\ DOMAIN frames'[j].target = {}
                                                     /\ frames'[j].saved = 0
    BY <1>1, Zenon DEF Shape
  <2>1. CASE j \in 1 .. Depth
    <3>1. frames'[j] = frames[j] /\ (j > 1 => frames'[j - 1] = frames[j - 1])
      BY <1>1, <2>1
    <3> QED BY <1>1, <2>1, <3>1 DEF FuncInv, Shape
  <2>2. CASE j = Depth + 1
    <3>1. frames'[j] = e /\ (j > 1 => frames'[j - 1] = Top)
      BY <1>1, <2>2 DEF Top
    <3>2. frames # << >> => Depth > 0
      BY <1>1, EmptySeq DEF Depth
    <3>3. frames = << >> => Depth = 0
      BY DEF Depth
    <3> QED BY <1>1, <2>2, <3>1, <3>2, <3>3 DEF Pushed
  <2> QED BY <1>1, <2>1, <2>2
<1>6. Globals'
  <2>1. ASSUME NEW j \in Starts(frames, Depth) PROVE LastStart(frames', j - 1, frames'[j].saved)
    BY <1>1, <1>2, <1>3, Zenon DEF FuncInv, Globals, LastStart
  <2> QED BY <1>1, <1>2, <2>1, Zenon DEF FuncInv, Globals, Pushed, LastStart
<1>7. DictsMatch'
  <2>1. \A ops, dict : DictOK(ops, dict)' <=> DictOK(ops, dict)
    BY ProgramKept DEF Pushed
  <2>2. ASSUME NEW j \in Starts(frames', Depth')
        PROVE  DictOK(frames[j].ops, active_funcs_stack[Cardinality(Starts(frames, j))])'
    <3>1. /\ j \in Starts(frames, Depth) /\ frames'[j] = frames[j]
          /\ Starts(frames', j) = Starts(frames, j)
      BY <1>1, <1>2, <1>3
    <3>2. DictOK(frames[j].ops, active_funcs_stack[Cardinality(Starts(frames, j))])
      BY <3>1 DEF FuncInv, DictsMatch
    <3> QED BY <2>1, <3>1, <3>2, Zenon DEF Pushed
  <2> QED BY <2>2 DEF DictsMatch
<1>8. ModulesOK'
  <2>1. \A f : ModuleOK(f)' <=> ModuleOK(f)
    BY ProgramKept DEF Pushed
  <2>2. ASSUME NEW j \in Starts(frames', Depth') PROVE ModuleOK(frames[j])'
    <3>1. j \in Starts(frames, Depth) /\ frames'[j] = frames[j]
      BY <1>1, <1>2, <1>3
    <3> QED BY <2>1, <3>1, Zenon DEF FuncInv, ModulesOK
  <2> QED BY <2>2 DEF ModulesOK
<1>9. Pending'
  <2>1. \A f, fn, c : PendingOK(f, fn, c)' <=> PendingOK(f, fn, c)
    BY ProgramKept DEF Pushed
  <2>2. ASSUME NEW j \in DOMAIN frames', frames'[j].kind = "inner"
        PROVE  PendingOK(frames[j - 1], frames[j].fn, frames[j].call)'
    <3>1. CASE j \in 1 .. Depth
      <4>1. frames'[j] = frames[j] /\ frames[j].kind = "inner" /\ j > 1
        BY <1>1, <2>2, <3>1 DEF FuncInv, Shape
      <4>2. frames'[j - 1] = frames[j - 1]
        BY <1>1, <3>1, <4>1
      <4>3. PendingOK(frames[j - 1], frames[j].fn, frames[j].call)
        BY <1>1, <3>1, <4>1 DEF FuncInv, Pending
      <4> QED BY <2>1, <4>1, <4>2, <4>3, Zenon
    <3>2. CASE j = Depth + 1
      <4>1. frames'[j] = e /\ Depth > 0
        BY <1>1, <2>2, <3>2, EmptySeq DEF Pushed, Depth
      <4>2. frames'[j - 1] = Top
        BY <1>1, <3>2, <4>1 DEF Top
      <4>3. PendingOK(Top, e.fn, e.call)
        BY <2>2, <4>1 DEF Pushed
      <4> QED BY <2>1, <4>1, <4>2, <4>3, Zenon
    <3> QED BY <1>1, <3>1, <3>2
  <2> QED BY <2>2 DEF Pending
<1>10. Lowered'
  BY <1>1 DEF Lowered, Pushed, Top
<1> QED BY <1>4, <1>5, <1>6, <1>7, <1>8, <1>9, <1>10 DEF FuncInv

LEMMA ExceptTwo ==
  ASSUME NEW S, NEW s \in Seq(S), NEW i \in 1 .. Len(s), NEW k \in 1 .. Len(s), i # k,
         NEW a \in S, NEW b \in S, NEW t, t = [[s EXCEPT ![i] = a] EXCEPT ![k] = b]
  PROVE  /\ t \in Seq(S) /\ Len(t) = Len(s) /\ t[i] = a /\ t[k] = b
         /\ \A j \in 1 .. Len(s) : j # i /\ j # k => t[j] = s[j]
<1> DEFINE mid == [s EXCEPT ![i] = a]
<1>1. /\ mid \in Seq(S) /\ Len(mid) = Len(s)
      /\ \A j \in 1 .. Len(s) : mid[j] = IF j = i THEN a ELSE s[j]
  BY ExceptSeq
<1>2. t = [mid EXCEPT ![k] = b]
  OBVIOUS
<1> HIDE DEF mid
<1>3. /\ t \in Seq(S) /\ Len(t) = Len(mid)
      /\ \A j \in 1 .. Len(mid) : t[j] = IF j = k THEN b ELSE mid[j]
  BY <1>1, <1>2, ExceptSeq
<1> QED BY <1>1, <1>3

LEMMA FramesTyped ==
  FuncInv => /\ frames \in Seq(FrameType) /\ Depth \in Nat /\ DOMAIN frames = 1 .. Depth
             /\ Starts(frames, Depth) \subseteq 1 .. Depth
             /\ frames # << >> => Depth > 0 /\ Top \in FrameType
             /\ \A j \in 1 .. Depth : frames[j] \in FrameType
<1> SUFFICES ASSUME FuncInv
             PROVE  /\ frames \in Seq(FrameType) /\ Depth \in Nat /\ DOMAIN frames = 1 .. Depth
                    /\ Starts(frames, Depth) \subseteq 1 .. Depth
                    /\ frames # << >> => Depth > 0 /\ Top \in FrameType
                    /\ \A j \in 1 .. Depth : frames[j] \in FrameType
  OBVIOUS
<1>1. frames \in Seq(FrameType)
  BY DEF FuncInv, Typed
<1>2. Depth \in Nat /\ DOMAIN frames = 1 .. Depth /\ \A j \in 1 .. Depth : frames[j] \in FrameType
  BY <1>1, LenProperties, ElementOfSeq DEF Depth
<1>3. frames # << >> => Depth > 0
  BY <1>1, EmptySeq DEF Depth
<1>4. Starts(frames, Depth) \subseteq 1 .. Depth
  BY DEF Starts
<1> QED BY <1>1, <1>2, <1>3, <1>4 DEF Top

LEMMA InlineTyped ==
  ASSUME FuncInv, NEW fn \in Funcs
  PROVE  InlineAfter(fn) \in {"never", "always"}
<1> DEFINE called == program.calls[fn]
           given  == {k \in DOMAIN called : program.inline[called[k]] # "unset"}
<1>1. called \in Seq(Funcs) /\ DOMAIN called = 1 .. Len(called) /\ Len(called) \in Nat
  BY CallsTyped DEF FuncInv, Typed
<1>2. InlineAfter(fn) = IF given = {} THEN default_inline
                        ELSE program.inline[called[CHOOSE k \in given : \A j \in given : j <= k]]
  BY DEF InlineAfter
<1>3. ASSUME NEW k \in given PROVE program.inline[called[k]] \in {"never", "always"}
  BY <1>1, ProgramsAssumption DEF FuncInv, Typed, Options
<1>4. given # {} => \E k \in given : \A j \in given : j <= k
  BY <1>1, GreatestExists
<1> HIDE DEF called, given
<1> QED BY <1>2, <1>3, <1>4 DEF FuncInv, Typed

LEMMA BackendKeeps == FuncInv /\ Backend => FuncInv'
<1> SUFFICES ASSUME FuncInv, Backend PROVE FuncInv'
  OBVIOUS
<1> DEFINE op == FuncOp(Top.fn, FALSE)
           e == [Top EXCEPT !.at = "passes", !.saved = active_module, !.ops = <<op>>]
<1>1. /\ frames \in Seq(FrameType) /\ Depth \in Nat /\ DOMAIN frames = 1 .. Depth
      /\ Depth > 0 /\ Top \in FrameType /\ Starts(frames, Depth) \subseteq 1 .. Depth
      /\ Top.kind = "top" /\ Top.at = "typing" /\ Top = frames[Depth]
      /\ program \in Programs /\ program' = program
      /\ active_funcs_stack \in Seq(Dicts) /\ active_module \in Nat
  BY FramesTyped DEF Backend, FuncInv, Typed, Top
<1>2. op \in OpType /\ op.fn = Top.fn /\ op.symbol = None /\ Top.fn \in Funcs
  BY <1>1 DEF FuncOp, OpType, FrameType, SymbolNames
<1>3. frames' = [frames EXCEPT ![Depth] = e]
  BY <1>1 DEF Backend, Top
<1> HIDE DEF op
<1>4. /\ e \in FrameType /\ e.at = "passes" /\ e.saved = active_module /\ e.ops = <<op>>
      /\ e.fn = Top.fn /\ e.kind = "top" /\ DOMAIN e.target = {}
  <2>1. <<op>> \in Seq(OpType)
    BY <1>2
  <2>2. DOMAIN Top.target = {}
    BY <1>1 DEF FuncInv, Shape
  <2> QED BY <1>1, <2>1, <2>2 DEF FrameType
<1> HIDE DEF e
<1>5. /\ DOMAIN frames' = 1 .. Depth /\ Depth' = Depth
      /\ frames' \in Seq(FrameType)
      /\ \A j \in 1 .. Depth : j # Depth => frames'[j] = frames[j]
      /\ frames'[Depth] = e /\ Top' = e
  <2>1. /\ frames' \in Seq(FrameType) /\ Len(frames') = Len(frames)
        /\ \A j \in 1 .. Depth : j # Depth => frames'[j] = frames[j]
        /\ frames'[Depth] = e
    BY <1>1, <1>3, <1>4, ExceptSeq DEF Depth
  <2> QED BY <1>1, <2>1, LenProperties DEF Depth, Top
<1>6. /\ \A j \in 0 .. Depth - 1 : Starts(frames', j) = Starts(frames, j)
      /\ Starts(frames, Depth) = Starts(frames, Depth - 1)
      /\ Starts(frames', Depth) = Starts(frames, Depth) \cup {Depth}
      /\ Cardinality(Starts(frames', Depth)) = Len(active_funcs_stack) + 1
  <2>1. \A j \in 0 .. Depth - 1 : Starts(frames', j) = Starts(frames, j)
    BY <1>1, <1>5, StartsSame
  <2>2. Depth - 1 \in 0 .. Depth - 1 /\ frames[Depth].at # "passes"
    BY <1>1
  <2>3. Starts(frames, Depth) = Starts(frames, Depth - 1)
    BY <1>1, <2>2, StartsLast
  <2>4. frames'[Depth].at = "passes"
    BY <1>4, <1>5
  <2>5. /\ Starts(frames', Depth) = Starts(frames', Depth - 1) \cup {Depth}
        /\ Cardinality(Starts(frames', Depth)) = Cardinality(Starts(frames', Depth - 1)) + 1
    BY <1>1, <2>4, StartsLast
  <2>6. Starts(frames', Depth - 1) = Starts(frames, Depth - 1)
    BY <2>1, <2>2
  <2> QED BY <2>1, <2>3, <2>5, <2>6 DEF FuncInv, Globals
<1>7. DictOK(<<op>>, Registered(<< >>, Top.fn)) /\ Registered(<< >>, Top.fn) \in Dicts
  BY <1>1, <1>2, FirstDict
<1>8. /\ active_funcs_stack' \in Seq(Dicts)
      /\ Len(active_funcs_stack') = Len(active_funcs_stack) + 1
      /\ \A i \in 1 .. Len(active_funcs_stack) : active_funcs_stack'[i] = active_funcs_stack[i]
      /\ active_funcs_stack'[Len(active_funcs_stack) + 1] = Registered(<< >>, Top.fn)
  BY <1>1, <1>7, AppendProperties DEF Backend
<1>9. Typed'
  BY <1>1, <1>2, <1>5, <1>8, InlineTyped DEF FuncInv, Typed, Backend
<1>10. Shape'
  <2> SUFFICES ASSUME NEW j \in 1 .. Depth
               PROVE  /\ frames'[j].kind = "inner" => /\ frames'[j].at \in {"typing", "lowered"}
                                                      /\ j > 1 /\ frames'[j - 1].at = "passes"
                      /\ frames'[j].kind = "top" => /\ frames'[j].at \in {"typing", "passes"}
                                                    /\ j > 1 => frames'[j - 1].at = "typing"
                      /\ frames'[j].at # "passes" => /\ frames'[j].ops = << >>
                                                     /\ DOMAIN frames'[j].target = {}
                                                     /\ frames'[j].saved = 0
    BY <1>5, Zenon DEF Shape
  <2>1. j > 1 => frames'[j - 1] = frames[j - 1]
    BY <1>1, <1>5
  <2>2. CASE j = Depth
    <3>1. j > 1 => frames[j - 1].at = "typing"
      BY <1>1, <2>2 DEF FuncInv, Shape
    <3> QED BY <1>4, <1>5, <2>1, <2>2, <3>1
  <2>3. CASE j # Depth
    <3>1. frames'[j] = frames[j]
      BY <1>5, <2>3
    <3> QED BY <1>1, <2>1, <3>1 DEF FuncInv, Shape
  <2> QED BY <2>2, <2>3
<1>11. Globals'
  <2>1. active_module' = Depth
    BY DEF Backend
  <2>2. LastStart(frames', Depth, Depth)
    BY <1>1, <1>6 DEF LastStart
  <2>3. ASSUME NEW j \in Starts(frames', Depth) PROVE LastStart(frames', j - 1, frames'[j].saved)
    <3>1. CASE j = Depth
      <4>1. LastStart(frames, Depth, active_module)
        BY DEF FuncInv, Globals
      <4>2. Starts(frames', Depth - 1) = Starts(frames, Depth)
        BY <1>1, <1>6
      <4> QED BY <1>4, <1>5, <3>1, <4>1, <4>2 DEF LastStart
    <3>2. CASE j # Depth
      <4>1. j \in Starts(frames, Depth) /\ j - 1 \in 0 .. Depth - 1 /\ frames'[j] = frames[j]
        BY <1>1, <1>5, <1>6, <3>2
      <4>2. Starts(frames', j - 1) = Starts(frames, j - 1)
        BY <1>6, <4>1
      <4> QED BY <4>1, <4>2, Zenon DEF FuncInv, Globals, LastStart
    <3> QED BY <3>1, <3>2
  <2> QED BY <1>5, <1>6, <1>8, <2>1, <2>2, <2>3 DEF Globals
<1>12. DictsMatch'
  <2>1. \A ops, dict : DictOK(ops, dict)' <=> DictOK(ops, dict)
    BY <1>1, ProgramKept
  <2>2. ASSUME NEW j \in Starts(frames', Depth')
        PROVE  DictOK(frames[j].ops, active_funcs_stack[Cardinality(Starts(frames, j))])'
    <3>1. CASE j = Depth
      <4>1. active_funcs_stack'[Cardinality(Starts(frames', j))] = Registered(<< >>, Top.fn)
        BY <1>6, <1>8, <3>1
      <4>2. frames'[j].ops = <<op>>
        BY <1>4, <1>5, <3>1
      <4> QED BY <1>7, <2>1, <4>1, <4>2, Zenon
    <3>2. CASE j # Depth
      <4>1. j \in Starts(frames, Depth) /\ j \in 0 .. Depth - 1 /\ frames'[j] = frames[j]
        BY <1>1, <1>5, <1>6, <2>2, <3>2
      <4>2. Starts(frames', j) = Starts(frames, j)
        BY <1>6, <4>1
      <4>3. Cardinality(Starts(frames, j)) \in 1 .. Len(active_funcs_stack)
        BY <1>1, <4>1, RankBound DEF FuncInv, Globals
      <4>4. DictOK(frames[j].ops, active_funcs_stack[Cardinality(Starts(frames, j))])
        BY <4>1 DEF FuncInv, DictsMatch
      <4> QED BY <1>8, <2>1, <4>1, <4>2, <4>3, <4>4, Zenon
    <3> QED BY <3>1, <3>2
  <2> QED BY <2>2 DEF DictsMatch
<1>13. ModulesOK'
  <2>1. \A f : ModuleOK(f)' <=> ModuleOK(f)
    BY <1>1, ProgramKept
  <2>2. ModuleOK(e)
    BY <1>2, <1>4 DEF ModuleOK
  <2>3. ASSUME NEW j \in Starts(frames', Depth') PROVE ModuleOK(frames[j])'
    <3>1. CASE j = Depth
      BY <1>5, <2>1, <2>2, <3>1, Zenon
    <3>2. CASE j # Depth
      <4>1. j \in Starts(frames, Depth) /\ frames'[j] = frames[j]
        BY <1>1, <1>5, <1>6, <2>3, <3>2
      <4> QED BY <2>1, <4>1, Zenon DEF FuncInv, ModulesOK
    <3> QED BY <3>1, <3>2
  <2> QED BY <2>3 DEF ModulesOK
<1>14. Pending'
  <2>1. \A f, fn, c : PendingOK(f, fn, c)' <=> PendingOK(f, fn, c)
    BY <1>1, ProgramKept
  <2>2. ASSUME NEW j \in DOMAIN frames', frames'[j].kind = "inner"
        PROVE  PendingOK(frames[j - 1], frames[j].fn, frames[j].call)'
    <3>1. frames'[j] = frames[j] /\ frames[j].kind = "inner" /\ j > 1
      BY <1>1, <1>4, <1>5, <2>2 DEF FuncInv, Shape
    <3>2. frames'[j - 1] = frames[j - 1]
      BY <1>1, <1>5, <3>1
    <3>3. PendingOK(frames[j - 1], frames[j].fn, frames[j].call)
      BY <1>1, <1>5, <3>1 DEF FuncInv, Pending
    <3> QED BY <2>1, <3>1, <3>2, <3>3, Zenon
  <2> QED BY <2>2 DEF Pending
<1>15. Lowered'
  BY <1>4, <1>5 DEF Lowered
<1> QED BY <1>9, <1>10, <1>11, <1>12, <1>13, <1>14, <1>15 DEF FuncInv

\* A module gets a function: its calls and what they are stay.
Grown(f, op) == [f EXCEPT !.ops = Append(@, op)]

LEMMA ModuleGrows ==
  ASSUME program \in Programs, NEW f \in FrameType, NEW op \in OpType, op.symbol = None, ModuleOK(f)
  PROVE  /\ Grown(f, op) \in FrameType
         /\ ModuleOK(Grown(f, op))
         /\ \A fn, c : PendingOK(f, fn, c) => PendingOK(Grown(f, op), fn, c)
<1> DEFINE g == Grown(f, op)
           n == Len(f.ops)
<1>1. /\ f.ops \in Seq(OpType) /\ n \in Nat /\ DOMAIN f.ops = 1 .. n
      /\ Append(f.ops, op) \in Seq(OpType) /\ DOMAIN Append(f.ops, op) = 1 .. n + 1
      /\ \A i \in 1 .. n : Append(f.ops, op)[i] = f.ops[i]
      /\ Append(f.ops, op)[n + 1] = op
  BY AppendProperties, LenProperties DEF FrameType
<1>2. /\ g \in FrameType /\ g.ops = Append(f.ops, op) /\ g.target = f.target /\ g.fn = f.fn
  BY <1>1 DEF Grown, FrameType
<1> HIDE DEF g
<1>3. n > 0
  BY <1>1, EmptySeq DEF ModuleOK
<1> HIDE DEF n
<1>4. /\ DOMAIN g.ops = 1 .. n + 1 /\ 1 .. n \subseteq 1 .. n + 1
      /\ \A i \in 1 .. n : g.ops[i] = f.ops[i]
      /\ g.ops[n + 1] = op /\ \A i \in 1 .. n + 1 : i \in 1 .. n \/ i = n + 1
  BY <1>1, <1>2
<1>5. Calls(f) \subseteq Calls(g) /\ \A c \in Calls(f) : c[1] \in 1 .. n /\ Name(g, c) = Name(f, c)
  <2>1. ASSUME NEW c \in Calls(f) PROVE c \in Calls(g) /\ c[1] \in 1 .. n /\ Name(g, c) = Name(f, c)
    <3>1. PICK i \in 1 .. n : c \in {i} \X DOMAIN program.calls[f.ops[i].fn]
      BY <1>1 DEF Calls
    <3>2. c[1] = i /\ i \in 1 .. n + 1 /\ g.ops[i] = f.ops[i]
      BY <1>4, <3>1
    <3>3. c \in {i} \X DOMAIN program.calls[g.ops[i].fn]
      BY <3>1, <3>2
    <3>4. c \in Calls(g)
      BY <1>4, <3>2, <3>3 DEF Calls
    <3> QED BY <3>2, <3>4 DEF Name, Callee
  <2> QED BY <2>1
<1>6. ModuleOK(g)
  <2>1. g.ops # << >>
    BY <1>1, <1>2, AppendProperties DEF FrameType
  <2>2. g.ops[1] = f.ops[1]
    BY <1>1, <1>3, <1>4
  <2>3. \A i \in DOMAIN g.ops : g.ops[i].symbol # None => g.ops[i].symbol = program.name[g.ops[i].fn]
    BY <1>1, <1>4 DEF ModuleOK
  <2>4. \A i, k \in DOMAIN g.ops : g.ops[i].symbol = g.ops[k].symbol /\ i # k => g.ops[i].symbol = None
    BY <1>1, <1>4 DEF ModuleOK
  <2>5. \A c \in DOMAIN g.target : g.target[c] \in DOMAIN g.ops
    BY <1>1, <1>2, <1>4 DEF ModuleOK
  <2>6. DOMAIN g.target \subseteq Calls(g)
    BY <1>2, <1>5 DEF ModuleOK
  <2> QED BY <1>2, <2>1, <2>2, <2>3, <2>4, <2>5, <2>6 DEF ModuleOK
<1>7. ASSUME NEW fn, NEW c, PendingOK(f, fn, c) PROVE PendingOK(g, fn, c)
  <2>1. c \in Calls(f) /\ SymbolOf(f, Name(f, c)) = {} /\ fn \in CallsIn(f.ops) /\ program.name[fn] = Name(f, c)
    BY <1>7 DEF PendingOK
  <2>2. Name(f, c) # None
    <3>1. fn \in Funcs
      BY <1>1, <2>1, CallsInTyped
    <3> QED BY <2>1, <3>1, ProgramsAssumption
  <2>3. SymbolOf(g, Name(g, c)) = {}
    BY <1>1, <1>4, <1>5, <2>1, <2>2 DEF SymbolOf
  <2>4. fn \in CallsIn(g.ops)
    BY <1>1, <1>2, <2>1, CallsGrow
  <2> QED BY <1>5, <2>1, <2>3, <2>4 DEF PendingOK
<1> QED BY <1>2, <1>6, <1>7 DEF g

\* Above an inner backend's frame there is none, below is that of the module it
\* adds to, which is the active one and has the last dictionary.
LEMMA InnerContext ==
  ASSUME FuncInv, frames # << >>, Top.kind = "inner"
  PROVE  /\ Depth > 1 /\ Depth - 1 \in Starts(frames, Depth) /\ Depth \notin Starts(frames, Depth)
         /\ frames[Depth - 1].at = "passes" /\ active_module = Depth - 1
         /\ PendingOK(frames[Depth - 1], Top.fn, Top.call)
         /\ Cardinality(Starts(frames, Depth - 1)) = Len(active_funcs_stack)
<1>1. Depth \in Nat /\ Depth > 0 /\ DOMAIN frames = 1 .. Depth /\ Top = frames[Depth]
  BY FramesTyped DEF Top
<1>2. Depth > 1 /\ frames[Depth - 1].at = "passes" /\ frames[Depth].at \in {"typing", "lowered"}
  BY <1>1 DEF FuncInv, Shape
<1>3. /\ Depth - 1 \in Starts(frames, Depth) /\ Depth \notin Starts(frames, Depth)
      /\ Starts(frames, Depth) \subseteq 1 .. Depth
  BY <1>1, <1>2 DEF Starts
<1>4. active_module = Depth - 1
  <2>1. LastStart(frames, Depth, active_module)
    BY DEF FuncInv, Globals
  <2>2. active_module \in Starts(frames, Depth) \cup {0} /\ Depth - 1 <= active_module
    BY <1>3, <2>1 DEF LastStart
  <2> QED BY <1>1, <1>2, <1>3, <2>2
<1>5. Starts(frames, Depth) = Starts(frames, Depth - 1)
  BY <1>1, <1>2, StartsLast
<1>6. Cardinality(Starts(frames, Depth - 1)) = Len(active_funcs_stack)
  BY <1>5 DEF FuncInv, Globals
<1>7. PendingOK(frames[Depth - 1], Top.fn, Top.call)
  BY <1>1 DEF FuncInv, Pending
<1> QED BY <1>2, <1>3, <1>4, <1>6, <1>7

LEMMA BackendInnerKeeps == FuncInv /\ BackendInner => FuncInv'
<1> SUFFICES ASSUME FuncInv, BackendInner PROVE FuncInv'
  OBVIOUS
<1> DEFINE d == Depth - 1
           f == frames[d]
           op == FuncOp(Top.fn, default_inline = "always")
           e == Grown(f, op)
           l == [Top EXCEPT !.at = "lowered"]
           rank == Len(active_funcs_stack)
<1>1. /\ frames \in Seq(FrameType) /\ Depth \in Nat /\ DOMAIN frames = 1 .. Depth
      /\ d = Depth - 1 /\ d \in 1 .. Depth /\ Depth \in 1 .. Depth /\ d # Depth
      /\ \A j \in 1 .. Depth : j - 1 = d => j = Depth
      /\ f = frames[d] /\ rank = Len(active_funcs_stack)
      /\ Top \in FrameType /\ f \in FrameType /\ Starts(frames, Depth) \subseteq 1 .. Depth
      /\ Top.kind = "inner" /\ Top.at = "typing" /\ Top = frames[Depth]
      /\ f.at = "passes" /\ active_module = d
      /\ program \in Programs /\ program' = program
      /\ active_funcs_stack \in Seq(Dicts)
      /\ d \in Starts(frames, Depth) /\ Depth \notin Starts(frames, Depth)
      /\ Cardinality(Starts(frames, d)) = rank
      /\ PendingOK(f, Top.fn, Top.call)
  <2>1. Depth \in Nat /\ Depth > 1
    BY FramesTyped, InnerContext DEF BackendInner
  <2>2. /\ d \in 1 .. Depth /\ Depth \in 1 .. Depth /\ d # Depth /\ \A j \in 1 .. Depth : j - 1 = d => j = Depth
    BY <2>1
  <2>3. f \in FrameType
    BY <2>2, FramesTyped
  <2> QED BY <2>1, <2>2, <2>3, FramesTyped, InnerContext DEF BackendInner, FuncInv, Typed, Top
<1>2. op \in OpType /\ op.fn = Top.fn /\ op.symbol = None /\ Top.fn \in Funcs
  BY <1>1 DEF FuncOp, OpType, FrameType, SymbolNames
<1>3. ModuleOK(f) /\ DictOK(f.ops, active_funcs_stack[rank])
  <2>1. DictOK(f.ops, active_funcs_stack[Cardinality(Starts(frames, d))])
    BY <1>1 DEF FuncInv, DictsMatch
  <2> QED BY <1>1, <2>1 DEF FuncInv, ModulesOK
<1>4. /\ e \in FrameType /\ ModuleOK(e) /\ PendingOK(e, Top.fn, Top.call)
      /\ e.at = f.at /\ e.kind = f.kind /\ e.saved = f.saved /\ e.ops = Append(f.ops, op)
  <2>1. /\ e.at = f.at /\ e.kind = f.kind /\ e.saved = f.saved /\ e.ops = Append(f.ops, op)
    BY <1>1 DEF Grown, FrameType
  <2> QED BY <1>1, <1>2, <1>3, <2>1, ModuleGrows
<1>5. /\ l \in FrameType /\ l.at = "lowered" /\ l.kind = Top.kind /\ l.saved = Top.saved
      /\ l.ops = Top.ops /\ l.target = Top.target /\ l.fn = Top.fn /\ l.call = Top.call
  BY <1>1 DEF FrameType
<1>6. frames' = [[frames EXCEPT ![d] = e] EXCEPT ![Depth] = l]
  <2>1. frames' = [frames EXCEPT ![active_module].ops = Append(@, op), ![Depth].at = "lowered"]
    BY DEF BackendInner
  <2> QED BY <1>1, <2>1 DEF Grown, Top
<1>7. /\ rank \in 1 .. rank /\ active_funcs_stack[rank] \in Dicts
  BY <1>1, RankBound, ElementOfSeq, LenProperties DEF FuncInv, Globals
<1>8. DictOK(e.ops, Registered(active_funcs_stack[rank], Top.fn))
      /\ Registered(active_funcs_stack[rank], Top.fn) \in Dicts
  <2>1. f.ops \in Seq(OpType)
    BY <1>1 DEF FrameType
  <2>2. DictOK(Append(f.ops, op), Registered(active_funcs_stack[rank], op.fn))
        /\ Registered(active_funcs_stack[rank], op.fn) \in Dicts
    BY <1>1, <1>2, <1>3, <1>7, <2>1, DictGrows, Zenon
  <2> QED BY <1>2, <1>4, <2>2, Zenon
<1>9. /\ active_funcs_stack' \in Seq(Dicts) /\ Len(active_funcs_stack') = rank
      /\ \A i \in 1 .. rank : i # rank => active_funcs_stack'[i] = active_funcs_stack[i]
      /\ active_funcs_stack'[rank] = Registered(active_funcs_stack[rank], Top.fn)
  <2>1. active_funcs_stack' =
          [active_funcs_stack EXCEPT ![rank] = Registered(active_funcs_stack[rank], Top.fn)]
    BY DEF BackendInner, AddInnerNames
  <2> QED BY <1>1, <1>7, <1>8, <2>1, ExceptSeq
<1> HIDE DEF d, e, f, l, op, rank
<1>10. /\ frames' \in Seq(FrameType) /\ DOMAIN frames' = 1 .. Depth /\ Depth' = Depth
       /\ \A j \in 1 .. Depth : j # d /\ j # Depth => frames'[j] = frames[j]
       /\ frames'[d] = e /\ frames'[Depth] = l /\ Top' = l
  <2>1. d \in 1 .. Len(frames) /\ Depth \in 1 .. Len(frames) /\ d # Depth
    BY <1>1 DEF Depth
  <2>2. /\ frames' \in Seq(FrameType) /\ Len(frames') = Len(frames)
        /\ \A j \in 1 .. Len(frames) : j # d /\ j # Depth => frames'[j] = frames[j]
        /\ frames'[d] = e /\ frames'[Depth] = l
    BY <1>1, <1>4, <1>5, <1>6, <2>1, ExceptTwo
  <2> QED BY <1>1, <2>2, LenProperties DEF Depth, Top
<1>11. \A j \in 0 .. Depth : Starts(frames', j) = Starts(frames, j)
  <2>1. \A j \in 1 .. Depth : frames'[j].at = "passes" <=> frames[j].at = "passes"
    BY <1>1, <1>4, <1>5, <1>10
  <2>2. ASSUME NEW j \in 0 .. Depth PROVE Starts(frames', j) = Starts(frames, j)
    BY <1>1, <2>1, StartsSame
  <2> QED BY <2>2
<1>12. Typed'
  BY <1>1, <1>2, <1>9, <1>10, InlineTyped DEF FuncInv, Typed, BackendInner
<1>13. Shape'
  <2> SUFFICES ASSUME NEW j \in 1 .. Depth
               PROVE  /\ frames'[j].kind = "inner" => /\ frames'[j].at \in {"typing", "lowered"}
                                                      /\ j > 1 /\ frames'[j - 1].at = "passes"
                      /\ frames'[j].kind = "top" => /\ frames'[j].at \in {"typing", "passes"}
                                                    /\ j > 1 => frames'[j - 1].at = "typing"
                      /\ frames'[j].at # "passes" => /\ frames'[j].ops = << >>
                                                     /\ DOMAIN frames'[j].target = {}
                                                     /\ frames'[j].saved = 0
    BY <1>10, Zenon DEF Shape
  <2>1. j > 1 => j - 1 \in 1 .. Depth /\ j - 1 # Depth
    BY <1>1
  <2>2. j > 1 => frames'[j - 1].at = frames[j - 1].at
    BY <1>1, <1>4, <1>10, <2>1
  <2>3. /\ frames[j].kind = "inner" => /\ frames[j].at \in {"typing", "lowered"}
                                       /\ j > 1 /\ frames[j - 1].at = "passes"
        /\ frames[j].kind = "top" => /\ frames[j].at \in {"typing", "passes"}
                                     /\ j > 1 => frames[j - 1].at = "typing"
        /\ frames[j].at # "passes" => /\ frames[j].ops = << >>
                                      /\ DOMAIN frames[j].target = {}
                                      /\ frames[j].saved = 0
    BY <1>1 DEF FuncInv, Shape
  <2>4. CASE j = Depth
    BY <1>1, <1>5, <1>10, <2>2, <2>3, <2>4
  <2>5. CASE j = d
    BY <1>1, <1>4, <1>10, <2>2, <2>3, <2>5
  <2>6. CASE j # d /\ j # Depth
    BY <1>10, <2>2, <2>3, <2>6
  <2> QED BY <2>4, <2>5, <2>6
<1>14. Globals'
  <2>1. ASSUME NEW j \in Starts(frames, Depth) PROVE LastStart(frames', j - 1, frames'[j].saved)
    <3>1. frames'[j].saved = frames[j].saved /\ j - 1 \in 0 .. Depth
      <4>1. j \in 1 .. Depth /\ j # Depth
        BY <1>1
      <4>2. j = d => frames'[j].saved = frames[j].saved
        BY <1>1, <1>4, <1>10
      <4>3. j # d => frames'[j].saved = frames[j].saved
        BY <1>10, <4>1
      <4> QED BY <1>1, <4>1, <4>2, <4>3
    <3> QED BY <1>11, <3>1, Zenon DEF FuncInv, Globals, LastStart
  <2>2. Depth \in 0 .. Depth
    BY <1>1
  <2>3. LastStart(frames', Depth, active_module')
    BY <1>11, <2>2, Zenon DEF FuncInv, Globals, LastStart, BackendInner
  <2>4. Starts(frames', Depth') = Starts(frames, Depth)
    BY <1>10, <1>11, <2>2, Zenon
  <2>5. Len(active_funcs_stack') = Cardinality(Starts(frames', Depth'))
    BY <1>1, <1>9, <2>4 DEF FuncInv, Globals
  <2> QED BY <1>10, <2>1, <2>3, <2>4, <2>5, Zenon DEF Globals
<1>15. DictsMatch'
  <2>1. \A ops, dict : DictOK(ops, dict)' <=> DictOK(ops, dict)
    BY <1>1, ProgramKept
  <2>2. ASSUME NEW j \in Starts(frames', Depth')
        PROVE  DictOK(frames[j].ops, active_funcs_stack[Cardinality(Starts(frames, j))])'
    <3>1. j \in Starts(frames, Depth) /\ j \in 0 .. Depth /\ Starts(frames', j) = Starts(frames, j)
      BY <1>1, <1>10, <1>11
    <3>2. CASE j = d
      BY <1>1, <1>8, <1>9, <1>10, <2>1, <3>1, <3>2, Zenon
    <3>3. CASE j # d
      <4>1. frames'[j] = frames[j] /\ j < d /\ j \in Nat /\ d \in Nat
        BY <1>1, <1>10, <3>1, <3>3
      <4>2. Cardinality(Starts(frames, j)) # rank
        BY <1>1, <4>1, StartsFinite, RankGrows
      <4>3. Cardinality(Starts(frames, j)) \in 1 .. rank
        BY <1>1, <3>1, RankBound DEF FuncInv, Globals
      <4>4. DictOK(frames[j].ops, active_funcs_stack[Cardinality(Starts(frames, j))])
        BY <3>1 DEF FuncInv, DictsMatch
      <4> QED BY <1>9, <2>1, <3>1, <4>1, <4>2, <4>3, <4>4, Zenon
    <3> QED BY <3>2, <3>3
  <2> QED BY <2>2 DEF DictsMatch
<1>16. ModulesOK'
  <2>1. \A g : ModuleOK(g)' <=> ModuleOK(g)
    BY <1>1, ProgramKept
  <2>2. ASSUME NEW j \in Starts(frames', Depth') PROVE ModuleOK(frames[j])'
    <3>1. j \in Starts(frames, Depth) /\ j \in 0 .. Depth
      BY <1>1, <1>10, <1>11
    <3>2. CASE j = d
      BY <1>4, <1>10, <2>1, <3>2, Zenon
    <3>3. CASE j # d
      <4>1. frames'[j] = frames[j]
        BY <1>1, <1>10, <3>1, <3>3
      <4> QED BY <2>1, <3>1, <4>1, Zenon DEF FuncInv, ModulesOK
    <3> QED BY <3>2, <3>3
  <2> QED BY <2>2 DEF ModulesOK
<1>17. Pending'
  <2>1. \A g, fn, c : PendingOK(g, fn, c)' <=> PendingOK(g, fn, c)
    BY <1>1, ProgramKept
  <2>2. ASSUME NEW j \in DOMAIN frames', frames'[j].kind = "inner"
        PROVE  PendingOK(frames[j - 1], frames[j].fn, frames[j].call)'
    <3>1. CASE j = Depth
      BY <1>1, <1>4, <1>5, <1>10, <2>1, <3>1, Zenon
    <3>2. CASE j # Depth
      <4>1. j # d
        BY <1>1, <1>4, <1>10, <2>2 DEF FuncInv, Shape
      <4>2. frames'[j] = frames[j] /\ frames[j].kind = "inner" /\ j > 1
        BY <1>1, <1>10, <2>2, <3>2, <4>1 DEF FuncInv, Shape
      <4>3. frames'[j - 1] = frames[j - 1]
        BY <1>1, <1>10, <2>2, <3>2, <4>2
      <4>4. PendingOK(frames[j - 1], frames[j].fn, frames[j].call)
        BY <1>1, <1>10, <2>2, <4>2 DEF FuncInv, Pending
      <4> QED BY <2>1, <4>2, <4>3, <4>4, Zenon
    <3> QED BY <3>1, <3>2
  <2> QED BY <2>2 DEF Pending
<1>18. Lowered'
  <2>1. last_compiled'[2] = Len(f.ops) + 1
    BY <1>1 DEF BackendInner, InnerIsLast
  <2>2. f.ops \in Seq(OpType) /\ f.ops # << >>
    BY <1>1, <1>3 DEF FrameType, ModuleOK
  <2>3. Len(f.ops) + 1 > 1 /\ Len(e.ops) = Len(f.ops) + 1 /\ e.ops[Len(e.ops)] = op
    BY <1>2, <1>4, <2>2, EmptySeq, AppendProperties
  <2> QED BY <1>1, <1>2, <1>5, <1>10, <2>1, <2>3 DEF Lowered
<1> QED BY <1>12, <1>13, <1>14, <1>15, <1>16, <1>17, <1>18 DEF FuncInv

\* A call gets one of the functions brought in, one that has its name.
LinkedBy(f, g, c, i) ==
  /\ i # 1 /\ program.name[f.ops[i].fn] = Name(f, c)
  /\ g.fn = f.fn /\ DOMAIN g.ops = DOMAIN f.ops
  /\ \A k \in DOMAIN f.ops : g.ops[k].fn = f.ops[k].fn /\ g.ops[k].inlined = f.ops[k].inlined
  /\ DOMAIN g.target = DOMAIN f.target \cup {c} /\ g.target[c] = i
  /\ \A d \in DOMAIN f.target : d # c => g.target[d] = f.target[d]

Linked(f, g) == \E c \in Calls(f), i \in DOMAIN f.ops : LinkedBy(f, g, c, i)

\* A call of the innermost module is resolved: there is no frame above it any more,
\* its functions are those of before, its backend goes on.
ResolvedAt(d, e) ==
  /\ d \in 1 .. Depth /\ frames[d].at = "passes"
  /\ \A j \in d + 1 .. Depth : frames[j].at # "passes"
  /\ frames' = [Below(d) EXCEPT ![d] = e]
  /\ UNCHANGED <<program, active_funcs_stack, active_module, last_compiled, default_inline, compiles>>
  /\ e \in FrameType /\ e.at = "passes" /\ e.kind = frames[d].kind /\ e.saved = frames[d].saved
  /\ CallsIn(e.ops) = CallsIn(frames[d].ops)
  /\ ModuleOK(e)
  /\ Linked(frames[d], e)

LEMMA ResolvedKeeps == ASSUME NEW d, NEW e PROVE FuncInv /\ ResolvedAt(d, e) => FuncInv'
<1> SUFFICES ASSUME FuncInv, ResolvedAt(d, e) PROVE FuncInv'
  OBVIOUS
<1>1. /\ frames \in Seq(FrameType) /\ Depth \in Nat /\ DOMAIN frames = 1 .. Depth
      /\ d \in 1 .. Depth /\ 1 .. d \subseteq 1 .. Depth /\ d \in 1 .. d /\ d \in 0 .. d
      /\ frames[d].at = "passes" /\ frames[d].kind = "top"
      /\ program \in Programs /\ program' = program
  <2>1. /\ frames \in Seq(FrameType) /\ Depth \in Nat /\ DOMAIN frames = 1 .. Depth
        /\ d \in 1 .. Depth /\ frames[d].at = "passes" /\ frames[d].kind \in {"top", "inner"}
    BY FramesTyped DEF ResolvedAt, FrameType
  <2>2. frames[d].kind = "top"
    BY <2>1 DEF FuncInv, Shape
  <2> QED BY <2>1, <2>2 DEF FuncInv, Typed, ResolvedAt
<1>2. /\ frames' \in Seq(FrameType) /\ Depth' = d /\ DOMAIN frames' = 1 .. d
      /\ \A j \in 1 .. d : j # d => frames'[j] = frames[j]
      /\ frames'[d] = e /\ Top' = e
  <2>1. /\ Below(d) \in Seq(FrameType) /\ Len(Below(d)) = d
        /\ \A j \in 1 .. d : Below(d)[j] = frames[j]
    <3>1. \A j \in 1 .. d : frames[j] \in FrameType
      BY <1>1, FramesTyped
    <3> QED BY <1>1, <3>1, SubSeqProperties DEF Below
  <2>2. /\ frames' \in Seq(FrameType) /\ Len(frames') = d
        /\ \A j \in 1 .. d : frames'[j] = IF j = d THEN e ELSE Below(d)[j]
    <3>1. frames' = [Below(d) EXCEPT ![d] = e] /\ e \in FrameType
      BY DEF ResolvedAt
    <3> QED BY <1>1, <2>1, <3>1, ExceptSeq
  <2> QED BY <1>1, <2>1, <2>2, LenProperties DEF Depth, Top
<1>3. /\ \A j \in 0 .. d : Starts(frames', j) = Starts(frames, j)
      /\ Starts(frames, d) = Starts(frames, Depth)
  <2>1. \A j \in 1 .. d : frames'[j].at = frames[j].at
    BY <1>1, <1>2 DEF ResolvedAt
  <2>2. \A j \in 0 .. d : Starts(frames', j) = Starts(frames, j)
    BY <1>1, <2>1, StartsSame
  <2>3. \A j \in 1 .. Depth : frames[j].at = "passes" => j \in 1 .. d
    BY <1>1 DEF ResolvedAt
  <2> QED BY <1>1, <2>2, <2>3 DEF Starts
<1>4. Starts(frames, d) \subseteq 1 .. d /\ \A j \in 1 .. d : j - 1 \in 0 .. d
  BY <1>1 DEF Starts
<1>5. Typed'
  BY <1>2 DEF FuncInv, Typed, ResolvedAt
<1>6. Shape'
  <2> SUFFICES ASSUME NEW j \in 1 .. d
               PROVE  /\ frames'[j].kind = "inner" => /\ frames'[j].at \in {"typing", "lowered"}
                                                      /\ j > 1 /\ frames'[j - 1].at = "passes"
                      /\ frames'[j].kind = "top" => /\ frames'[j].at \in {"typing", "passes"}
                                                    /\ j > 1 => frames'[j - 1].at = "typing"
                      /\ frames'[j].at # "passes" => /\ frames'[j].ops = << >>
                                                     /\ DOMAIN frames'[j].target = {}
                                                     /\ frames'[j].saved = 0
    BY <1>2, Zenon DEF Shape
  <2>1. j > 1 => frames'[j - 1] = frames[j - 1]
    BY <1>1, <1>2
  <2>2. CASE j = d
    <3>1. j > 1 => frames[j - 1].at = "typing"
      BY <1>1, <2>2 DEF FuncInv, Shape
    <3> QED BY <1>1, <1>2, <2>1, <2>2, <3>1 DEF ResolvedAt
  <2>3. CASE j # d
    <3>1. frames'[j] = frames[j]
      BY <1>2, <2>3
    <3> QED BY <1>1, <2>1, <3>1 DEF FuncInv, Shape
  <2> QED BY <2>2, <2>3
<1>7. Globals'
  <2>1. ASSUME NEW j \in Starts(frames, d) PROVE LastStart(frames', j - 1, frames'[j].saved)
    <3>1. frames'[j].saved = frames[j].saved
      BY <1>2, <1>4 DEF ResolvedAt
    <3>2. LastStart(frames, j - 1, frames[j].saved)
      BY <1>3 DEF FuncInv, Globals
    <3> QED BY <1>3, <1>4, <3>1, <3>2, Zenon DEF LastStart
  <2>2. LastStart(frames', d, active_module')
    BY <1>1, <1>3, Zenon DEF FuncInv, Globals, LastStart, ResolvedAt
  <2>3. Starts(frames', Depth') = Starts(frames, d)
    BY <1>1, <1>2, <1>3
  <2>4. Len(active_funcs_stack') = Cardinality(Starts(frames', Depth'))
    BY <1>3, <2>3 DEF FuncInv, Globals, ResolvedAt
  <2> QED BY <1>2, <2>1, <2>2, <2>3, <2>4, Zenon DEF Globals
<1>8. DictsMatch'
  <2>1. \A ops, dict : DictOK(ops, dict)' <=> DictOK(ops, dict)
    BY <1>1, ProgramKept
  <2>2. ASSUME NEW j \in Starts(frames', Depth')
        PROVE  DictOK(frames[j].ops, active_funcs_stack[Cardinality(Starts(frames, j))])'
    <3>1. j \in 0 .. d /\ j \in 1 .. d /\ j \in Starts(frames, Depth)
      BY <1>1, <1>2, <1>3, <1>4
    <3>2. Starts(frames', j) = Starts(frames, j)
      BY <1>3, <3>1
    <3>3. DictOK(frames[j].ops, active_funcs_stack[Cardinality(Starts(frames, j))])
      BY <3>1 DEF FuncInv, DictsMatch
    <3>4. CallsIn(frames'[j].ops) = CallsIn(frames[j].ops)
      BY <1>2, <3>1 DEF ResolvedAt
    <3>5. DictOK(frames'[j].ops, active_funcs_stack[Cardinality(Starts(frames, j))])
      BY <3>3, <3>4, Zenon DEF DictOK
    <3> QED BY <2>1, <3>2, <3>5, Zenon DEF ResolvedAt
  <2> QED BY <2>2 DEF DictsMatch
<1>9. ModulesOK'
  <2>1. \A g : ModuleOK(g)' <=> ModuleOK(g)
    BY <1>1, ProgramKept
  <2>2. ASSUME NEW j \in Starts(frames', Depth') PROVE ModuleOK(frames[j])'
    <3>1. j \in 1 .. d /\ j \in Starts(frames, Depth)
      BY <1>1, <1>2, <1>3, <1>4
    <3>2. ModuleOK(frames'[j])
      BY <1>2, <3>1 DEF FuncInv, ModulesOK, ResolvedAt
    <3> QED BY <2>1, <3>2, Zenon
  <2> QED BY <2>2 DEF ModulesOK
<1>10. Pending'
  <2>1. \A f, fn, c : PendingOK(f, fn, c)' <=> PendingOK(f, fn, c)
    BY <1>1, ProgramKept
  <2>2. ASSUME NEW j \in DOMAIN frames', frames'[j].kind = "inner"
        PROVE  PendingOK(frames[j - 1], frames[j].fn, frames[j].call)'
    <3>1. j \in 1 .. d /\ j # d
      BY <1>1, <1>2, <2>2 DEF ResolvedAt
    <3>2. frames'[j] = frames[j] /\ frames[j].kind = "inner"
      BY <1>2, <2>2, <3>1
    <3>3. j > 1 /\ j \in DOMAIN frames
      BY <1>1, <3>1, <3>2 DEF FuncInv, Shape
    <3>4. frames'[j - 1] = frames[j - 1]
      BY <1>1, <1>2, <3>1, <3>3
    <3>5. PendingOK(frames[j - 1], frames[j].fn, frames[j].call)
      BY <3>2, <3>3 DEF FuncInv, Pending
    <3> QED BY <2>1, <3>2, <3>4, <3>5, Zenon
  <2> QED BY <2>2 DEF Pending
<1>11. Lowered'
  BY <1>2 DEF Lowered, ResolvedAt
<1> QED BY <1>5, <1>6, <1>7, <1>8, <1>9, <1>10, <1>11 DEF FuncInv

LEMMA CallSitesOf ==
  ASSUME program \in Programs, NEW f \in FrameType, NEW c \in Calls(f)
  PROVE  c \in CallSites /\ Callee(f, c) \in CallsIn(f.ops) /\ Name(f, c) # None
<1>1. f.ops \in Seq(OpType) /\ DOMAIN f.ops = 1 .. Len(f.ops) /\ Len(f.ops) \in Nat
  BY LenProperties DEF FrameType
<1>2. PICK i \in DOMAIN f.ops : c \in {i} \X DOMAIN program.calls[f.ops[i].fn]
  BY DEF Calls
<1>3. f.ops[i] \in OpType
  BY <1>1, <1>2, ElementOfSeq
<1>4. f.ops[i].fn \in Funcs
  BY <1>3 DEF OpType
<1>5. c[1] = i /\ c[2] \in DOMAIN program.calls[f.ops[i].fn] /\ c = <<c[1], c[2]>>
  BY <1>2
<1>6. c \in CallSites
  BY <1>1, <1>4, <1>5, CallsTyped DEF CallSites
<1>7. Callee(f, c) \in CallsOf(f.ops[i].fn)
  BY <1>5 DEF Callee, CallsOf
<1>8. Callee(f, c) \in CallsIn(f.ops)
  BY <1>7 DEF CallsIn
<1>9. Callee(f, c) \in Funcs
  BY <1>1, <1>8, CallsInTyped
<1> QED BY <1>6, <1>8, <1>9, ProgramsAssumption DEF Name

LEMMA EmptyTyped == << >> \in Seq(OpType) /\ << >> \in Targets /\ DOMAIN << >> = {}
<1>1. << >> \in Seq(OpType) /\ << >> \in [{} -> Nat] /\ DOMAIN << >> = {}
  BY EmptySeq
<1> QED BY <1>1 DEF Targets

LEMMA ResolvedTyped ==
  ASSUME NEW target \in Targets, NEW c \in CallSites, NEW i \in Nat
  PROVE  /\ Resolved(target, c, i) \in Targets
         /\ DOMAIN Resolved(target, c, i) = DOMAIN target \cup {c}
         /\ Resolved(target, c, i)[c] = i
         /\ \A d \in DOMAIN target : d # c => Resolved(target, c, i)[d] = target[d]
<1>1. DOMAIN target \subseteq CallSites /\ \A d \in DOMAIN target : target[d] \in Nat
  BY DEF Targets
<1>2. /\ DOMAIN Resolved(target, c, i) = DOMAIN target \cup {c}
      /\ Resolved(target, c, i)[c] = i
      /\ \A d \in DOMAIN target : d # c => Resolved(target, c, i)[d] = target[d]
  BY DEF Resolved
<1>3. Resolved(target, c, i) \in [DOMAIN target \cup {c} -> Nat]
  BY <1>1 DEF Resolved
<1>4. DOMAIN target \cup {c} \in SUBSET CallSites
  BY <1>1
<1> QED BY <1>2, <1>3, <1>4 DEF Targets

\* The global dictionaries have every call of the module whose passes run.
LEMMA Found ==
  ASSUME FuncInv, AtPasses, NEW c \in Calls(Top)
  PROVE  /\ FindActive(Name(Top, c)) \in CallsIn(Top.ops)
         /\ program.name[FindActive(Name(Top, c))] = Name(Top, c)
         /\ FindActive(Name(Top, c)) # None
<1> DEFINE n == Len(active_funcs_stack)
           name == Name(Top, c)
           has == {k \in DOMAIN active_funcs_stack : name \in DOMAIN active_funcs_stack[k]}
<1>1. /\ Depth \in Nat /\ Depth > 0 /\ Top = frames[Depth] /\ Top \in FrameType
      /\ Top.at = "passes" /\ program \in Programs
  BY FramesTyped DEF AtPasses, Top, FuncInv, Typed
<1>2. Depth \in Starts(frames, Depth) /\ Cardinality(Starts(frames, Depth)) = n
  BY <1>1 DEF Starts, FuncInv, Globals
<1>3. n \in 1 .. n /\ DOMAIN active_funcs_stack = 1 .. n /\ n \in Nat
  BY <1>1, <1>2, RankBound, LenProperties DEF FuncInv, Typed
<1>4. DictOK(Top.ops, active_funcs_stack[n])
  BY <1>1, <1>2 DEF FuncInv, DictsMatch
<1>5. Callee(Top, c) \in CallsIn(Top.ops) /\ program.name[Callee(Top, c)] = name
  BY <1>1, CallSitesOf DEF Name
<1>6. name \in DOMAIN active_funcs_stack[n]
  BY <1>4, <1>5, Zenon DEF DictOK
<1>7. n \in has /\ has \subseteq 1 .. n
  BY <1>3, <1>6
<1>8. FindActive(name) = IF has = {} THEN None
                         ELSE active_funcs_stack[CHOOSE k \in has : \A j \in has : j <= k][name]
  BY Zenon DEF FindActive
<1> HIDE DEF has, name, n
<1>9. (CHOOSE k \in has : \A j \in has : j <= k) = n
  <2>1. \E k \in has : \A j \in has : j <= k
    BY <1>3, <1>7
  <2> DEFINE m == CHOOSE k \in has : \A j \in has : j <= k
  <2>2. m \in has /\ \A j \in has : j <= m
    BY <2>1, Zenon
  <2> HIDE DEF m
  <2>3. m = n
    BY <1>3, <1>7, <2>2
  <2> QED BY <2>3 DEF m
<1>10. FindActive(name) = active_funcs_stack[n][name]
  BY <1>7, <1>8, <1>9
<1>11. active_funcs_stack[n][name] \in CallsIn(Top.ops)
       /\ program.name[active_funcs_stack[n][name]] = name
  BY <1>4, <1>6, Zenon DEF DictOK
<1>12. FindActive(name) \in Funcs
  <2>1. CallsIn(Top.ops) \subseteq Funcs
    BY <1>1, CallsInTyped DEF FrameType
  <2> QED BY <1>10, <1>11, <2>1
<1> QED BY <1>10, <1>11, <1>12, ProgramsAssumption DEF name

LEMMA CallFoundResolves ==
  ASSUME NEW c PROVE FuncInv /\ CallFound(c) => \E d, e : ResolvedAt(d, e)
<1> SUFFICES ASSUME FuncInv, CallFound(c) PROVE \E d, e : ResolvedAt(d, e)
  OBVIOUS
<1>1. PICK i \in SymbolOf(Top, Name(Top, c)) :
        frames' = [frames EXCEPT ![Depth].target = Resolved(@, c, i)]
  BY DEF CallFound
<1> DEFINE e == [Top EXCEPT !.target = Resolved(Top.target, c, i)]
<1>2. /\ frames \in Seq(FrameType) /\ Depth \in Nat /\ DOMAIN frames = 1 .. Depth
      /\ Depth \in 1 .. Depth /\ Top \in FrameType /\ Top = frames[Depth] /\ Top.at = "passes"
      /\ program \in Programs /\ c \in Calls(Top) /\ i \in DOMAIN Top.ops
      /\ Depth \in Starts(frames, Depth)
  <2>1. Top.at = "passes" /\ c \in Calls(Top) /\ i \in DOMAIN Top.ops /\ Depth > 0 /\ Depth \in Nat
    BY <1>1, FramesTyped DEF CallFound, AtPasses, Unresolved, SymbolOf
  <2>2. Depth \in Starts(frames, Depth)
    BY <2>1 DEF Starts, Top
  <2> QED BY <2>1, <2>2, FramesTyped DEF CallFound, AtPasses, FuncInv, Typed, Top
<1>3. c \in CallSites /\ i \in Nat
  BY <1>2, CallSitesOf, LenProperties DEF FrameType
<1>4. /\ Resolved(Top.target, c, i) \in Targets
      /\ DOMAIN Resolved(Top.target, c, i) = DOMAIN Top.target \cup {c}
      /\ Resolved(Top.target, c, i)[c] = i
      /\ \A d \in DOMAIN Top.target : d # c => Resolved(Top.target, c, i)[d] = Top.target[d]
  <2>1. Top.target \in Targets
    BY <1>2 DEF FrameType
  <2> QED BY <1>3, <2>1, ResolvedTyped
<1>5. /\ e \in FrameType /\ e.at = "passes" /\ e.kind = Top.kind /\ e.saved = Top.saved
      /\ e.ops = Top.ops /\ e.fn = Top.fn /\ e.target = Resolved(Top.target, c, i)
  BY <1>2, <1>4 DEF FrameType
<1>6. frames' = [Below(Depth) EXCEPT ![Depth] = e]
  <2>1. Below(Depth) = frames
    BY <1>2, SubSeqFull DEF Below, Depth
  <2> QED BY <1>1, <1>2, <2>1
<1> HIDE DEF e
<1>7. ModuleOK(e)
  <2>1. ModuleOK(Top)
    BY <1>2 DEF FuncInv, ModulesOK
  <2>2. Calls(e) = Calls(Top)
    BY <1>5, Zenon DEF Calls
  <2> QED BY <1>2, <1>4, <1>5, <2>1, <2>2 DEF ModuleOK
<1>8. ResolvedAt(Depth, e)
  <2>1. \A j \in Depth + 1 .. Depth : frames[j].at # "passes"
    BY <1>2
  <2>2. CallsIn(e.ops) = CallsIn(frames[Depth].ops)
    BY <1>2, <1>5
  <2>3. Linked(Top, e)
    <3>1. Top.ops[i].symbol = Name(Top, c) /\ Name(Top, c) # None
      BY <1>1, <1>2, CallSitesOf DEF SymbolOf
    <3>2. ModuleOK(Top)
      BY <1>2 DEF FuncInv, ModulesOK
    <3>3. i # 1 /\ program.name[Top.ops[i].fn] = Name(Top, c)
      BY <1>2, <3>1, <3>2 DEF ModuleOK
    <3>4. LinkedBy(Top, e, c, i)
      BY <1>2, <1>4, <1>5, <3>3 DEF LinkedBy
    <3> QED BY <1>2, <3>4, Zenon DEF Linked
  <2> QED BY <1>2, <1>5, <1>6, <1>7, <2>1, <2>2, <2>3, Zenon DEF ResolvedAt, CallFound
<1> QED BY <1>8

LEMMA CallCompiledPushes == ASSUME NEW c PROVE FuncInv /\ CallCompiled(c) => \E e : Pushed(e)
<1> SUFFICES ASSUME FuncInv, CallCompiled(c) PROVE \E e : Pushed(e)
  OBVIOUS
<1> DEFINE fn == FindActive(Name(Top, c))
           e == Frame("inner", fn, c)
<1>1. c \in Calls(Top) /\ AtPasses /\ frames # << >> /\ SymbolOf(Top, Name(Top, c)) = {}
  BY DEF CallCompiled, AtPasses, Unresolved
<1>2. Top \in FrameType /\ program \in Programs
  BY <1>1, FramesTyped DEF FuncInv, Typed
<1>3. fn \in CallsIn(Top.ops) /\ program.name[fn] = Name(Top, c)
  BY <1>1, Found
<1> HIDE DEF fn
<1>4. fn \in Funcs /\ c \in CallSites
  BY <1>1, <1>2, <1>3, CallSitesOf, CallsInTyped DEF FrameType
<1>5. /\ e \in FrameType /\ e.kind = "inner" /\ e.fn = fn /\ e.call = c
      /\ e.at = "typing" /\ e.ops = << >> /\ DOMAIN e.target = {} /\ e.saved = 0
  <2>1. << >> \in Seq(OpType) /\ << >> \in Targets
    BY EmptyTyped
  <2> QED BY <1>4, <2>1 DEF Frame, FrameType
<1>6. frames' = Append(frames, e)
  BY DEF CallCompiled, fn
<1> HIDE DEF e
<1>7. PendingOK(Top, e.fn, e.call)
  BY <1>1, <1>3, <1>5 DEF PendingOK
<1>8. compiles' \in 0 .. MaxCompiles
  BY DEF CallCompiled, FuncInv, Typed
<1>9. Pushed(e)
  BY <1>1, <1>5, <1>6, <1>7, <1>8 DEF Pushed, CallCompiled, AtPasses
<1> QED BY <1>9

LEMMA ReturnInnerResolves == FuncInv /\ ReturnInner => \E d, e : ResolvedAt(d, e)
<1> SUFFICES ASSUME FuncInv, ReturnInner PROVE \E d, e : ResolvedAt(d, e)
  OBVIOUS
<1> DEFINE d == Depth - 1
           f == frames[d]
           c == Top.call
           n == Len(f.ops)
           named == [f.ops[n] EXCEPT !.symbol = Name(f, c)]
           ops == [f.ops EXCEPT ![n] = named]
           e == [f EXCEPT !.ops = ops, !.target = Resolved(f.target, c, n)]
<1>1. /\ Depth \in Nat /\ Depth > 1 /\ frames # << >> /\ Top.at = "lowered" /\ Top.kind = "inner"
      /\ Top = frames[Depth]
  <2>1. /\ Depth \in Nat /\ Depth > 0 /\ frames # << >> /\ Top.at = "lowered"
        /\ Top \in FrameType /\ DOMAIN frames = 1 .. Depth
    BY FramesTyped DEF ReturnInner
  <2>2. Top.kind = "inner"
    BY <2>1 DEF FuncInv, Shape, FrameType, Top
  <2> QED BY <2>1, <2>2, InnerContext DEF Top
<1>2. /\ d \in 1 .. Depth /\ f.at = "passes" /\ PendingOK(f, Top.fn, c)
      /\ d \in Starts(frames, Depth) /\ \A j \in d + 1 .. Depth : frames[j].at # "passes"
  <2>1. \A j \in d + 1 .. Depth : j = Depth
    BY <1>1
  <2>2. d \in 1 .. Depth
    BY <1>1
  <2> QED BY <1>1, <2>1, <2>2, InnerContext
<1>3. /\ f \in FrameType /\ program \in Programs /\ Top.fn \in Funcs
      /\ n \in Nat /\ n > 1 /\ f.ops[n].fn = Top.fn /\ last_compiled[2] = n
      /\ f.ops \in Seq(OpType) /\ DOMAIN f.ops = 1 .. n
  <2>1. f \in FrameType /\ Top \in FrameType
    BY <1>1, <1>2, FramesTyped
  <2>2. last_compiled[2] = n /\ n > 1 /\ f.ops[n].fn = Top.fn
    BY <1>1 DEF FuncInv, Lowered
  <2>3. f.ops \in Seq(OpType)
    BY <2>1 DEF FrameType
  <2>4. Top.fn \in Funcs
    BY <2>1 DEF FrameType
  <2> QED BY <2>1, <2>2, <2>3, <2>4, LenProperties DEF FuncInv, Typed
<1>4. frames' = [Below(d) EXCEPT ![d] = e]
  <2>1. frames' = [Below(d) EXCEPT ![d].ops[n].symbol = Name(f, c),
                                   ![d].target = Resolved(@, c, n)]
    BY <1>3 DEF ReturnInner
  <2>2. Below(d)[d] = f
    <3>1. \A j \in 1 .. d : frames[j] \in FrameType
      BY <1>1, <1>2, FramesTyped
    <3> QED BY <1>1, <1>2, <3>1, SubSeqProperties DEF Below
  <2> QED BY <2>1, <2>2
<1>5. /\ c \in Calls(f) /\ SymbolOf(f, Name(f, c)) = {} /\ program.name[Top.fn] = Name(f, c)
  BY <1>2 DEF PendingOK
<1>6. c \in CallSites /\ Name(f, c) # None
  BY <1>3, <1>5, CallSitesOf
<1> HIDE DEF f, c, d
<1>7. /\ f.ops[n] \in OpType /\ named \in OpType /\ named.fn = Top.fn /\ named.symbol = Name(f, c)
  <2>1. f.ops[n] \in OpType
    <3>1. n \in 1 .. Len(f.ops)
      BY <1>3
    <3> QED BY <1>3, <3>1, ElementOfSeq, Zenon
  <2>2. Name(f, c) \in SymbolNames
    BY <1>3, <1>5 DEF SymbolNames
  <2> QED BY <1>3, <2>1, <2>2 DEF OpType
<1> HIDE DEF named
<1>8. /\ ops \in Seq(OpType) /\ DOMAIN ops = 1 .. n
      /\ \A i \in 1 .. n : i # n => ops[i] = f.ops[i]
      /\ ops[n] = named
  <2>1. n \in 1 .. Len(f.ops)
    BY <1>3
  <2>2. /\ ops \in Seq(OpType) /\ Len(ops) = Len(f.ops)
        /\ \A j \in 1 .. Len(f.ops) : ops[j] = IF j = n THEN named ELSE f.ops[j]
    BY <1>3, <1>7, <2>1, ExceptSeq
  <2> QED BY <1>3, <2>1, <2>2, LenProperties
<1>9. /\ Resolved(f.target, c, n) \in Targets
      /\ DOMAIN Resolved(f.target, c, n) = DOMAIN f.target \cup {c}
      /\ Resolved(f.target, c, n)[c] = n
      /\ \A b \in DOMAIN f.target : b # c => Resolved(f.target, c, n)[b] = f.target[b]
  <2>1. f.target \in Targets
    BY <1>3 DEF FrameType
  <2> QED BY <1>3, <1>6, <2>1, ResolvedTyped
<1> HIDE DEF ops
<1>10. /\ e \in FrameType /\ e.at = "passes" /\ e.kind = f.kind /\ e.saved = f.saved
       /\ e.ops = ops /\ e.fn = f.fn /\ e.target = Resolved(f.target, c, n)
  BY <1>2, <1>3, <1>8, <1>9 DEF FrameType
<1> HIDE DEF e, n
<1>11. \A i \in 1 .. n : ops[i].fn = f.ops[i].fn
  BY <1>3, <1>7, <1>8
<1>12. CallsIn(e.ops) = CallsIn(f.ops)
  <2>1. CallsIn(ops) = UNION {CallsOf(ops[i].fn) : i \in 1 .. n}
    BY <1>8, Zenon DEF CallsIn
  <2>2. CallsIn(f.ops) = UNION {CallsOf(f.ops[i].fn) : i \in 1 .. n}
    BY <1>3, Zenon DEF CallsIn
  <2> QED BY <1>10, <1>11, <2>1, <2>2
<1>13. Calls(e) = Calls(f)
  <2>1. Calls(e) = UNION {{i} \X DOMAIN program.calls[ops[i].fn] : i \in 1 .. n}
    BY <1>8, <1>10, Zenon DEF Calls
  <2>2. Calls(f) = UNION {{i} \X DOMAIN program.calls[f.ops[i].fn] : i \in 1 .. n}
    BY <1>3, Zenon DEF Calls
  <2>3. {{i} \X DOMAIN program.calls[ops[i].fn] : i \in 1 .. n}
          = {{i} \X DOMAIN program.calls[f.ops[i].fn] : i \in 1 .. n}
    BY <1>11, Zenon
  <2> QED BY <2>1, <2>2, <2>3, Zenon
<1>14. ModuleOK(e)
  <2>1. ModuleOK(f)
    BY <1>2 DEF FuncInv, ModulesOK, f
  <2>2. e.ops # << >> /\ e.ops[1].fn = e.fn /\ e.ops[1].symbol = None
    <3>1. 1 \in 1 .. n /\ 1 # n
      BY <1>3
    <3>2. ops[1] = f.ops[1]
      BY <1>8, <3>1
    <3>3. ops # << >>
      BY <1>8, <3>1, EmptyTyped
    <3> QED BY <1>10, <2>1, <3>2, <3>3 DEF ModuleOK
  <2>3. \A i \in DOMAIN e.ops : e.ops[i].symbol # None => e.ops[i].symbol = program.name[e.ops[i].fn]
    BY <1>3, <1>5, <1>7, <1>8, <1>10, <2>1 DEF ModuleOK
  <2>4. \A i, k \in DOMAIN e.ops :
          e.ops[i].symbol = e.ops[k].symbol /\ i # k => e.ops[i].symbol = None
    <3>1. \A i \in 1 .. n : f.ops[i].symbol # Name(f, c)
      BY <1>3, <1>5 DEF SymbolOf
    <3> QED BY <1>3, <1>7, <1>8, <1>10, <2>1, <3>1 DEF ModuleOK
  <2>5. DOMAIN e.target \subseteq Calls(e)
    BY <1>5, <1>9, <1>10, <1>13, <2>1 DEF ModuleOK
  <2>6. \A b \in DOMAIN e.target : e.target[b] \in DOMAIN e.ops
    <3>1. n \in 1 .. n
      BY <1>3
    <3> QED BY <1>3, <1>8, <1>9, <1>10, <2>1, <3>1 DEF ModuleOK
  <2> QED BY <2>2, <2>3, <2>4, <2>5, <2>6 DEF ModuleOK
<1>15. Linked(f, e)
  <2>1. \A i \in 1 .. n : ops[i].fn = f.ops[i].fn /\ ops[i].inlined = f.ops[i].inlined
    <3>1. named.inlined = f.ops[n].inlined
      BY <1>7 DEF named, OpType
    <3> QED BY <1>3, <1>7, <1>8, <3>1
  <2>2. n # 1 /\ n \in DOMAIN f.ops /\ program.name[f.ops[n].fn] = Name(f, c)
    BY <1>3, <1>5
  <2>3. LinkedBy(f, e, c, n)
    BY <1>3, <1>5, <1>8, <1>9, <1>10, <2>1, <2>2 DEF LinkedBy
  <2> QED BY <1>5, <2>2, <2>3, Zenon DEF Linked
<1>16. ResolvedAt(d, e)
  BY <1>2, <1>4, <1>10, <1>12, <1>14, <1>15, Zenon DEF ResolvedAt, ReturnInner, f
<1> QED BY <1>16

\* The frames above the k-th are left; that one, if there is one, types its function.
Unwound(k) ==
  /\ k \in 0 .. Depth
  /\ k > 0 => frames[k].at = "typing"
  /\ Unwind(k)
  /\ UNCHANGED <<program, last_compiled, default_inline, compiles>>

\* The backends that are left are those that there are above the k-th frame.
LEMMA LeftBackends ==
  ASSUME FuncInv, NEW k \in 0 .. Depth
  PROVE  /\ Cardinality(Starts(frames, k)) = Len(active_funcs_stack) - Cardinality(Backends(k))
         /\ Cardinality(Starts(frames, k)) <= Len(active_funcs_stack)
         /\ Backends(k) = {} => LastStart(frames, k, active_module)
         /\ Backends(k) # {} =>
              LastStart(frames, k, frames[CHOOSE j \in Backends(k) : \A i \in Backends(k) : j <= i].saved)
<1>1. Depth \in Nat /\ k \in Nat /\ k <= Depth
  BY FramesTyped
<1>2. /\ Starts(frames, Depth) = Starts(frames, k) \cup Backends(k)
      /\ Starts(frames, k) \cap Backends(k) = {}
      /\ Backends(k) \in SUBSET Starts(frames, Depth)
  BY <1>1 DEF Starts, Backends
<1>3. /\ IsFiniteSet(Starts(frames, k)) /\ Cardinality(Starts(frames, k)) \in Nat
      /\ IsFiniteSet(Starts(frames, Depth))
  BY <1>1, StartsFinite
<1>4. IsFiniteSet(Backends(k)) /\ Cardinality(Backends(k)) \in Nat
  BY <1>2, <1>3, FS_Subset, FS_CardinalityType
<1>5. Cardinality(Starts(frames, Depth)) = Cardinality(Starts(frames, k)) + Cardinality(Backends(k))
  <2>1. Cardinality(Starts(frames, k) \cup Backends(k))
          = Cardinality(Starts(frames, k)) + Cardinality(Backends(k))
              - Cardinality(Starts(frames, k) \cap Backends(k))
    BY <1>3, <1>4, FS_Union
  <2> QED BY <1>2, <1>3, <1>4, <2>1, FS_EmptySet
<1>6. Len(active_funcs_stack) = Cardinality(Starts(frames, Depth))
  BY DEF FuncInv, Globals
<1>7. ASSUME Backends(k) = {} PROVE LastStart(frames, k, active_module)
  <2>1. Starts(frames, Depth) = Starts(frames, k)
    BY <1>2, <1>7
  <2> QED BY <2>1 DEF FuncInv, Globals, LastStart
<1>8. ASSUME Backends(k) # {}
      PROVE  LastStart(frames, k, frames[CHOOSE j \in Backends(k) : \A i \in Backends(k) : j <= i].saved)
  <2> DEFINE m == CHOOSE j \in Backends(k) : \A i \in Backends(k) : j <= i
  <2>1. Backends(k) \in SUBSET Nat
    BY <1>1 DEF Backends
  <2>2. \E j \in Backends(k) : \A i \in Backends(k) : j <= i
    BY <1>8, <2>1, LeastExists
  <2>3. m \in Backends(k) /\ \A i \in Backends(k) : m <= i
    BY <2>2, Zenon
  <2> HIDE DEF m
  <2>4. m \in k + 1 .. Depth /\ m \in Starts(frames, Depth)
    BY <1>2, <2>3 DEF Backends
  <2>5. LastStart(frames, m - 1, frames[m].saved)
    BY <2>4 DEF FuncInv, Globals
  <2>6. ASSUME NEW i \in 1 .. m - 1, frames[i].at = "passes" PROVE i \in 1 .. k
    <3>1. ~(m <= i) /\ i \in 1 .. Depth
      BY <1>1, <2>4
    <3>2. i \notin Backends(k)
      BY <2>3, <3>1
    <3> QED BY <1>1, <2>6, <3>1, <3>2 DEF Backends
  <2>7. Starts(frames, m - 1) = Starts(frames, k)
    BY <1>1, <2>4, <2>6 DEF Starts
  <2> QED BY <2>5, <2>7, Zenon DEF LastStart, m
<1> QED BY <1>3, <1>4, <1>5, <1>6, <1>7, <1>8

LEMMA UnwoundKeeps == ASSUME NEW k PROVE FuncInv /\ Unwound(k) => FuncInv'
<1> SUFFICES ASSUME FuncInv, Unwound(k) PROVE FuncInv'
  OBVIOUS
<1> DEFINE rank == Cardinality(Starts(frames, k))
<1>1. /\ frames \in Seq(FrameType) /\ Depth \in Nat /\ DOMAIN frames = 1 .. Depth
      /\ k \in 0 .. Depth /\ k \in Nat /\ k \in 0 .. k /\ 1 .. k \subseteq 1 .. Depth
      /\ program \in Programs /\ program' = program
      /\ active_funcs_stack \in Seq(Dicts) /\ Len(active_funcs_stack) \in Nat
  BY FramesTyped, LenProperties DEF Unwound, FuncInv, Typed
<1>2. /\ frames' \in Seq(FrameType) /\ Depth' = k /\ DOMAIN frames' = 1 .. k
      /\ \A j \in 1 .. k : frames'[j] = frames[j]
  <2>1. \A j \in 1 .. k : frames[j] \in FrameType
    BY <1>1, FramesTyped
  <2>2. frames' = SubSeq(frames, 1, k)
    BY DEF Unwound, Unwind, Below
  <2>3. /\ frames' \in Seq(FrameType) /\ Len(frames') = k
        /\ \A j \in 1 .. k : frames'[j] = frames[j]
    BY <1>1, <2>1, <2>2, SubSeqProperties
  <2> QED BY <2>3, LenProperties DEF Depth
<1>3. \A j \in 0 .. k : Starts(frames', j) = Starts(frames, j)
  BY <1>1, <1>2, StartsSame
<1>4. /\ Starts(frames, k) \subseteq 1 .. k /\ \A j \in 1 .. k : j - 1 \in 0 .. k
      /\ Starts(frames, k) \subseteq Starts(frames, Depth)
  BY <1>1 DEF Starts
<1>5. /\ rank \in Nat /\ rank = Len(active_funcs_stack) - Cardinality(Backends(k))
      /\ rank <= Len(active_funcs_stack)
      /\ LastStart(frames, k, active_module')
  BY <1>1, LeftBackends, StartsFinite DEF Unwound, Unwind, RestoreModule
<1> HIDE DEF rank
<1>6. /\ active_funcs_stack' \in Seq(Dicts) /\ Len(active_funcs_stack') = rank
      /\ \A i \in 1 .. rank : active_funcs_stack'[i] = active_funcs_stack[i]
  <2>1. active_funcs_stack' = SubSeq(active_funcs_stack, 1, rank)
    BY <1>5 DEF Unwound, Unwind, PopDicts
  <2>2. \A i \in 1 .. rank : active_funcs_stack[i] \in Dicts
    BY <1>1, <1>5, ElementOfSeq
  <2> QED BY <1>5, <2>1, <2>2, SubSeqProperties
<1>7. Typed'
  <2>1. active_module' \in Nat
    BY <1>1, <1>4, <1>5 DEF LastStart
  <2> QED BY <1>2, <1>6, <2>1 DEF FuncInv, Typed, Unwound
<1>8. Shape'
  <2> SUFFICES ASSUME NEW j \in 1 .. k
               PROVE  /\ frames'[j].kind = "inner" => /\ frames'[j].at \in {"typing", "lowered"}
                                                      /\ j > 1 /\ frames'[j - 1].at = "passes"
                      /\ frames'[j].kind = "top" => /\ frames'[j].at \in {"typing", "passes"}
                                                    /\ j > 1 => frames'[j - 1].at = "typing"
                      /\ frames'[j].at # "passes" => /\ frames'[j].ops = << >>
                                                     /\ DOMAIN frames'[j].target = {}
                                                     /\ frames'[j].saved = 0
    BY <1>2, Zenon DEF Shape
  <2>1. frames'[j] = frames[j] /\ (j > 1 => frames'[j - 1] = frames[j - 1])
    BY <1>1, <1>2
  <2> QED BY <1>1, <2>1 DEF FuncInv, Shape
<1>9. Globals'
  <2>1. ASSUME NEW j \in Starts(frames, k) PROVE LastStart(frames', j - 1, frames'[j].saved)
    <3>1. frames'[j] = frames[j] /\ j - 1 \in 0 .. k
      BY <1>2, <1>4
    <3>2. LastStart(frames, j - 1, frames[j].saved)
      BY <1>4 DEF FuncInv, Globals
    <3> QED BY <1>3, <3>1, <3>2, Zenon DEF LastStart
  <2>2. LastStart(frames', k, active_module')
    BY <1>1, <1>3, <1>5, Zenon DEF LastStart
  <2>3. Starts(frames', Depth') = Starts(frames, k)
    BY <1>1, <1>2, <1>3
  <2> QED BY <1>2, <1>6, <2>1, <2>2, <2>3, Zenon DEF Globals, rank
<1>10. DictsMatch'
  <2>1. \A ops, dict : DictOK(ops, dict)' <=> DictOK(ops, dict)
    BY <1>1, ProgramKept
  <2>2. ASSUME NEW j \in Starts(frames', Depth')
        PROVE  DictOK(frames[j].ops, active_funcs_stack[Cardinality(Starts(frames, j))])'
    <3>1. j \in Starts(frames, k) /\ j \in 0 .. k /\ frames'[j] = frames[j]
      BY <1>1, <1>2, <1>3, <1>4
    <3>2. Starts(frames', j) = Starts(frames, j)
      BY <1>3, <3>1
    <3>3. Cardinality(Starts(frames, j)) \in 1 .. rank
      BY <1>1, <3>1, RankBound DEF rank
    <3>4. DictOK(frames[j].ops, active_funcs_stack[Cardinality(Starts(frames, j))])
      BY <1>4, <3>1 DEF FuncInv, DictsMatch
    <3> QED BY <1>6, <2>1, <3>1, <3>2, <3>3, <3>4, Zenon
  <2> QED BY <2>2 DEF DictsMatch
<1>11. ModulesOK'
  <2>1. \A g : ModuleOK(g)' <=> ModuleOK(g)
    BY <1>1, ProgramKept
  <2>2. ASSUME NEW j \in Starts(frames', Depth') PROVE ModuleOK(frames[j])'
    <3>1. j \in Starts(frames, Depth) /\ frames'[j] = frames[j]
      BY <1>1, <1>2, <1>3, <1>4
    <3> QED BY <2>1, <3>1, Zenon DEF FuncInv, ModulesOK
  <2> QED BY <2>2 DEF ModulesOK
<1>12. Pending'
  <2>1. \A f, fn, c : PendingOK(f, fn, c)' <=> PendingOK(f, fn, c)
    BY <1>1, ProgramKept
  <2>2. ASSUME NEW j \in DOMAIN frames', frames'[j].kind = "inner"
        PROVE  PendingOK(frames[j - 1], frames[j].fn, frames[j].call)'
    <3>1. frames'[j] = frames[j] /\ frames[j].kind = "inner" /\ j \in DOMAIN frames /\ j > 1
      BY <1>1, <1>2, <2>2 DEF FuncInv, Shape
    <3>2. frames'[j - 1] = frames[j - 1]
      BY <1>1, <1>2, <3>1
    <3>3. PendingOK(frames[j - 1], frames[j].fn, frames[j].call)
      BY <3>1 DEF FuncInv, Pending
    <3> QED BY <2>1, <3>1, <3>2, <3>3, Zenon
  <2> QED BY <2>2 DEF Pending
<1>13. Lowered'
  <2>1. CASE k = 0
    <3>1. frames' = << >>
      BY <1>2, <2>1, EmptySeq DEF Depth
    <3> QED BY <3>1 DEF Lowered
  <2>2. CASE k > 0
    <3>1. Top' = frames[k]
      BY <1>1, <1>2, <2>2 DEF Top
    <3> QED BY <2>2, <3>1 DEF Lowered, Unwound
  <2> QED BY <1>1, <2>1, <2>2
<1> QED BY <1>7, <1>8, <1>9, <1>10, <1>11, <1>12, <1>13 DEF FuncInv

LEMMA TopPushed ==
  ASSUME FuncInv, NEW fn \in Funcs,
         frames' = Append(frames, Frame("top", fn, None)),
         frames = << >> \/ Top.at = "typing",
         compiles < MaxCompiles, compiles' = compiles + 1,
         UNCHANGED <<program, active_funcs_stack, active_module, last_compiled, default_inline>>
  PROVE  \E e : Pushed(e)
<1> DEFINE e == Frame("top", fn, None)
<1>1. /\ e \in FrameType /\ e.kind = "top" /\ e.at = "typing" /\ e.ops = << >>
      /\ DOMAIN e.target = {} /\ e.saved = 0
  <2>1. << >> \in Seq(OpType) /\ << >> \in Targets
    BY EmptyTyped
  <2> QED BY <2>1 DEF Frame, FrameType
<1>2. compiles' \in 0 .. MaxCompiles
  BY BoundAssumption DEF FuncInv, Typed
<1> HIDE DEF e
<1>3. Pushed(e)
  BY <1>1, <1>2 DEF Pushed, e
<1> QED BY <1>3

\* Every step is one of these.
LEMMA NextCases ==
  FuncInv /\ [Next]_vars =>
    \/ Backend
    \/ BackendInner
    \/ \E e : Pushed(e)
    \/ \E d, e : ResolvedAt(d, e)
    \/ \E k : Unwound(k)
    \/ UNCHANGED vars
<1> DEFINE Goal == \/ Backend \/ BackendInner
                   \/ \E e : Pushed(e)
                   \/ \E d, e : ResolvedAt(d, e)
                   \/ \E k : Unwound(k)
                   \/ UNCHANGED vars
<1> SUFFICES ASSUME FuncInv, [Next]_vars PROVE Goal
  OBVIOUS
<1>1. ASSUME NEW fn \in Funcs, Request(fn) PROVE Goal
  <2>1. frames' = Append(frames, Frame("top", fn, None))
    BY <1>1 DEF Request
  <2>2. \E e : Pushed(e)
    BY <1>1, <2>1, TopPushed DEF Request
  <2> QED BY <2>2, Zenon
<1>2. ASSUME NEW fn \in Funcs, TypeCallee(fn) PROVE Goal
  <2>1. \E e : Pushed(e)
    BY <1>2, TopPushed DEF TypeCallee
  <2> QED BY <2>1, Zenon
<1>3. ASSUME NEW c, CallFound(c) PROVE Goal
  BY <1>3, CallFoundResolves, Zenon
<1>4. ASSUME NEW c, CallCompiled(c) PROVE Goal
  BY <1>4, CallCompiledPushes, Zenon
<1>5. CASE ReturnInner
  BY <1>5, ReturnInnerResolves, Zenon
<1>6. CASE Finish
  <2>1. /\ Depth \in Nat /\ Depth > 0 /\ Top.at = "passes" /\ Top \in FrameType
        /\ Top = frames[Depth] /\ DOMAIN frames = 1 .. Depth
    BY <1>6, FramesTyped DEF Finish, AtPasses, Top
  <2>2. Top.kind = "top"
    BY <2>1 DEF FuncInv, Shape, FrameType
  <2>3. Depth - 1 \in 0 .. Depth /\ (Depth - 1 > 0 => frames[Depth - 1].at = "typing")
    BY <2>1, <2>2 DEF FuncInv, Shape
  <2>4. Unwound(Depth - 1)
    BY <1>6, <2>3 DEF Unwound, Finish
  <2> QED BY <2>4, Zenon
<1>7. CASE Raise
  <2>1. PICK k \in {0} \cup {j \in 1 .. Depth - 1 : frames[j].at = "typing"} : Unwind(k)
    BY <1>7 DEF Raise
  <2>2. k \in 0 .. Depth /\ (k > 0 => frames[k].at = "typing")
    BY <2>1, FramesTyped
  <2>3. Unwound(k)
    BY <1>7, <2>1, <2>2 DEF Unwound, Raise
  <2> QED BY <2>3, Zenon
<1> HIDE DEF Goal
<1>8. (Backend => Goal) /\ (BackendInner => Goal) /\ (UNCHANGED vars => Goal)
  BY Zenon DEF Goal
<1> QED BY <1>1, <1>2, <1>3, <1>4, <1>5, <1>6, <1>7, <1>8, Zenon DEF Next, Idle

LEMMA FuncNext == FuncInv /\ [Next]_vars => FuncInv'
<1> SUFFICES ASSUME FuncInv, [Next]_vars PROVE FuncInv'
  OBVIOUS
<1>1. CASE UNCHANGED vars
  <2>1. /\ program' = program /\ frames' = frames /\ active_funcs_stack' = active_funcs_stack
        /\ active_module' = active_module /\ last_compiled' = last_compiled
        /\ default_inline' = default_inline /\ compiles' = compiles
    BY <1>1 DEF vars
  <2>2. Typed' /\ Shape' /\ Lowered'
    BY <2>1 DEF FuncInv, Typed, Shape, Lowered, Top, Depth
  <2>3. Globals'
    BY <2>1, Zenon DEF FuncInv, Globals, Depth
  <2>4. DictsMatch' /\ ModulesOK' /\ Pending'
    BY <2>1, ProgramKept, Zenon DEF FuncInv, DictsMatch, ModulesOK, Pending, Depth
  <2> QED BY <2>2, <2>3, <2>4 DEF FuncInv
<1> QED
  BY <1>1, NextCases, BackendKeeps, BackendInnerKeeps, PushKeeps, ResolvedKeeps, UnwoundKeeps, Zenon

LEMMA FuncInvariant == Spec => []FuncInv
BY InitFunc, FuncNext, PTL DEF Spec

(***************************************************************************)
(* The theorems.                                                           *)
(***************************************************************************)

\* Compilations and global variables are well formed in every state: a call that
\* a CallLowerer replaced calls a function of its own module.
THEOREM FuncTypeCorrect == Spec => []TypeOK
<1>1. FuncInv => TypeOK
  <2> SUFFICES ASSUME FuncInv PROVE TypeOK
    OBVIOUS
  <2>1. /\ Depth \in Nat /\ DOMAIN frames = 1 .. Depth
        /\ \A j \in 1 .. Depth : frames[j] \in FrameType
    BY FramesTyped
  <2>2. ASSUME NEW j \in DOMAIN frames
        PROVE  LET f == frames[j]
               IN  /\ f.fn \in Funcs
                   /\ f.kind = "inner" => f.at \in {"typing", "lowered"} /\ j > 1
                   /\ f.kind = "top" => f.at \in {"typing", "passes"}
                   /\ DOMAIN f.target \subseteq Calls(f)
                   /\ \A c \in DOMAIN f.target : f.target[c] \in DOMAIN f.ops
                   /\ f.saved \in 0 .. j - 1
    <3> DEFINE f == frames[j]
    <3>1. f.fn \in Funcs
      BY <2>1 DEF FrameType
    <3>2. /\ f.kind = "inner" => f.at \in {"typing", "lowered"} /\ j > 1
          /\ f.kind = "top" => f.at \in {"typing", "passes"}
      BY DEF FuncInv, Shape
    <3>3. CASE f.at = "passes"
      <4>1. j \in Starts(frames, Depth)
        BY <2>1, <3>3 DEF Starts
      <4>2. ModuleOK(f)
        BY <4>1 DEF FuncInv, ModulesOK
      <4>3. LastStart(frames, j - 1, f.saved)
        BY <4>1 DEF FuncInv, Globals
      <4>4. f.saved \in 0 .. j - 1
        BY <2>1, <4>3 DEF LastStart, Starts
      <4> QED BY <3>1, <3>2, <4>2, <4>4, Zenon DEF ModuleOK
    <3>4. CASE f.at # "passes"
      <4>1. DOMAIN f.target = {} /\ f.saved = 0
        BY <3>4 DEF FuncInv, Shape
      <4> QED BY <2>1, <3>1, <3>2, <4>1
    <3> QED BY <3>3, <3>4
  <2>3. active_module \in 0 .. Depth
    BY <2>1 DEF FuncInv, Globals, LastStart, Starts
  <2> QED BY <2>2, <2>3 DEF TypeOK, FuncInv, Typed
<1> QED BY <1>1, FuncInvariant, PTL

\* However compilations nest and wherever one raises, the global variables of the
\* compiler have one dictionary for each backend in progress and the module of the
\* innermost of them.
THEOREM FuncContextMatches == Spec => []ContextMatches
<1>1. FuncInv => ContextMatches
  <2> SUFFICES ASSUME FuncInv PROVE ContextMatches
    OBVIOUS
  <2> DEFINE S == Backends(0)
             last == CHOOSE j \in S : \A i \in S : i <= j
  <2>1. S = Starts(frames, Depth)
    BY FramesTyped DEF Backends, Starts
  <2>2. Len(active_funcs_stack) = Cardinality(S) /\ LastStart(frames, Depth, active_module)
    BY <2>1 DEF FuncInv, Globals
  <2>3. S \subseteq 1 .. Depth /\ Depth \in Nat
    BY <2>1, FramesTyped
  <2>4. /\ active_module \in S \cup {0} /\ \A i \in S : i <= active_module
    BY <2>1, <2>2 DEF LastStart
  <2> HIDE DEF S
  <2>5. S # {} => last = active_module
    <3> SUFFICES ASSUME S # {} PROVE last = active_module
      OBVIOUS
    <3>1. active_module \in S
      <4>1. PICK i \in S : i \in 1 .. Depth /\ i <= active_module
        BY <2>3, <2>4
      <4> QED BY <2>4, <4>1
    <3>2. last \in S /\ \A i \in S : i <= last
      BY <2>4, <3>1, Zenon
    <3> HIDE DEF last
    <3> QED BY <2>3, <2>4, <3>1, <3>2
  <2>6. S = {} => active_module = 0
    BY <2>4
  <2>7. active_module = IF S = {} THEN 0 ELSE last
    BY <2>5, <2>6
  <2> QED BY <2>2, <2>7, Zenon DEF ContextMatches, S, last
<1> QED BY <1>1, FuncInvariant, PTL

\* No module gets a function under a name it has already.
THEOREM FuncOneCopy == Spec => []OneCopy
<1>1. FuncInv => OneCopy
  <2> SUFFICES ASSUME FuncInv, NEW j \in DOMAIN frames
               PROVE  \A i, k \in DOMAIN frames[j].ops :
                        frames[j].ops[i].symbol = frames[j].ops[k].symbol /\ i # k
                          => frames[j].ops[i].symbol = None
    BY DEF OneCopy
  <2>1. CASE frames[j].at = "passes"
    <3>1. j \in Starts(frames, Depth)
      BY <2>1, FramesTyped DEF Starts
    <3>2. ModuleOK(frames[j])
      BY <3>1 DEF FuncInv, ModulesOK
    <3> QED BY <3>2, Zenon DEF ModuleOK
  <2>2. CASE frames[j].at # "passes"
    BY <2>2, EmptyTyped DEF FuncInv, Shape
  <2> QED BY <2>1, <2>2
<1> QED BY <1>1, FuncInvariant, PTL

\* Whatever calls the functions in a module make, and whichever other function
\* brought them in, the registry knows the name when the passes come to the call.
THEOREM FuncNamesAvailable == Spec => []NamesAvailable
<1>1. FuncInv => NamesAvailable
  BY Found DEF NamesAvailable, Unresolved
<1> QED BY <1>1, FuncInvariant, PTL

(***************************************************************************)
(* What a step does to a module, for the properties of the single modules. *)
(***************************************************************************)

\* The function of the compilation, alone.
Started(g) ==
  /\ g.fn \in Funcs
  /\ g.ops = <<FuncOp(g.fn, FALSE)>> /\ DOMAIN g.target = {}
  /\ default_inline' = InlineAfter(g.fn)

\* A function that one in the module calls.
Extended(f, g) ==
  \E fn \in CallsIn(f.ops) :
    /\ g = Grown(f, FuncOp(fn, default_inline = "always"))
    /\ default_inline' = InlineAfter(fn)

EachModule ==
  \A j \in Starts(frames', Depth') :
    \/ Started(frames'[j])
    \/ /\ j \in Starts(frames, Depth)
       /\ frames'[j] = frames[j] \/ Extended(frames[j], frames'[j]) \/ Linked(frames[j], frames'[j])

\* The flag changes only when a backend resolves the calls of its function.
LEMMA FlagTyped ==
  ASSUME FuncInv, [Next]_vars
  PROVE  default_inline' = default_inline \/ \E fn \in Funcs : default_inline' = InlineAfter(fn)
<1>1. CASE Backend \/ BackendInner
  <2>1. Top \in FrameType
    BY <1>1, FramesTyped DEF Backend, BackendInner
  <2>2. Top.fn \in Funcs
    BY <2>1 DEF FrameType
  <2> QED BY <1>1, <2>2 DEF Backend, BackendInner
<1>2. CASE ~(Backend \/ BackendInner)
  BY <1>2
  DEF Next, Request, TypeCallee, CallFound, CallCompiled, ReturnInner, Finish, Raise, Idle, vars
<1> QED BY <1>1, <1>2

LEMMA PushModules == ASSUME NEW e PROVE FuncInv /\ Pushed(e) => EachModule
<1> SUFFICES ASSUME FuncInv, Pushed(e), NEW j \in Starts(frames', Depth')
             PROVE  j \in Starts(frames, Depth) /\ frames'[j] = frames[j]
  BY DEF EachModule
<1>1. /\ Depth \in Nat /\ Depth' = Depth + 1
      /\ \A i \in 1 .. Depth : frames'[i] = frames[i]
      /\ frames'[Depth + 1] = e /\ e.at # "passes"
  BY AppendProperties, LenProperties DEF FuncInv, Typed, Pushed, Depth
<1>2. j \in 1 .. Depth + 1 /\ frames'[j].at = "passes"
  BY <1>1 DEF Starts
<1>3. j \in 1 .. Depth
  BY <1>1, <1>2
<1> QED BY <1>1, <1>2, <1>3 DEF Starts

LEMMA UnwoundModules == ASSUME NEW k PROVE FuncInv /\ Unwound(k) => EachModule
<1> SUFFICES ASSUME FuncInv, Unwound(k), NEW j \in Starts(frames', Depth')
             PROVE  j \in Starts(frames, Depth) /\ frames'[j] = frames[j]
  BY DEF EachModule
<1>1. /\ Depth \in Nat /\ k \in 0 .. Depth /\ frames' = SubSeq(frames, 1, k)
      /\ \A i \in 1 .. Depth : frames[i] \in FrameType
  BY FramesTyped DEF Unwound, Unwind, Below
<1>2. Depth' = k /\ \A i \in 1 .. k : frames'[i] = frames[i]
  <2>1. \A i \in 1 .. k : frames[i] \in FrameType
    BY <1>1
  <2> QED BY <1>1, <2>1, SubSeqProperties DEF Depth
<1>3. j \in 1 .. k /\ j \in 1 .. Depth /\ frames'[j].at = "passes"
  BY <1>1, <1>2 DEF Starts
<1> QED BY <1>2, <1>3 DEF Starts

LEMMA BackendModules == FuncInv /\ Backend => EachModule
<1> SUFFICES ASSUME FuncInv, Backend, NEW j \in Starts(frames', Depth')
             PROVE  \/ Started(frames'[j])
                    \/ j \in Starts(frames, Depth) /\ frames'[j] = frames[j]
  BY DEF EachModule
<1>1. /\ frames \in Seq(FrameType) /\ Depth \in Nat /\ Depth > 0 /\ DOMAIN frames = 1 .. Depth
      /\ Top \in FrameType /\ Top = frames[Depth] /\ Top.at = "typing"
  BY FramesTyped DEF Backend, Top
<1>2. DOMAIN Top.target = {}
  BY <1>1 DEF FuncInv, Shape
<1>3. Depth' = Depth
  <2>1. DOMAIN frames' = DOMAIN frames
    BY DEF Backend
  <2>2. frames' \in Seq(FrameType)
    BY BackendKeeps DEF FuncInv, Typed
  <2> QED BY <1>1, <2>1, <2>2, LenProperties DEF Depth
<1>4. j \in 1 .. Depth /\ frames'[j].at = "passes"
  BY <1>3 DEF Starts
<1>5. CASE j = Depth
  <2> DEFINE ops == <<FuncOp(Top.fn, FALSE)>>
  <2>1. frames' = [frames EXCEPT ![Depth].at = "passes", ![Depth].saved = active_module,
                                 ![Depth].ops = ops]
    BY DEF Backend
  <2> HIDE DEF ops
  <2>2. /\ frames'[j].fn = Top.fn /\ frames'[j].ops = ops /\ frames'[j].target = Top.target
    BY <1>1, <1>5, <2>1 DEF FrameType
  <2>3. Top.fn \in Funcs
    BY <1>1 DEF FrameType
  <2> QED BY <1>2, <2>2, <2>3, Zenon DEF Started, Backend, ops
<1>6. CASE j # Depth
  <2>1. frames'[j] = frames[j]
    BY <1>1, <1>4, <1>6 DEF Backend
  <2> QED BY <1>4, <2>1 DEF Starts
<1> QED BY <1>5, <1>6

LEMMA BackendInnerModules == FuncInv /\ BackendInner => EachModule
<1> SUFFICES ASSUME FuncInv, BackendInner, NEW j \in Starts(frames', Depth')
             PROVE  /\ j \in Starts(frames, Depth)
                    /\ frames'[j] = frames[j] \/ Extended(frames[j], frames'[j])
  BY DEF EachModule
<1>1. /\ Depth \in Nat /\ DOMAIN frames = 1 .. Depth /\ frames \in Seq(FrameType)
      /\ Depth > 1 /\ frames[Depth - 1].at = "passes" /\ active_module = Depth - 1
      /\ PendingOK(frames[Depth - 1], Top.fn, Top.call) /\ Top = frames[Depth]
  BY FramesTyped, InnerContext DEF BackendInner, Top
<1>2. Depth' = Depth
  <2>1. DOMAIN frames' = DOMAIN frames
    BY DEF BackendInner
  <2>2. frames' \in Seq(FrameType)
    BY BackendInnerKeeps DEF FuncInv, Typed
  <2> QED BY <1>1, <2>1, <2>2, LenProperties DEF Depth
<1>3. j \in 1 .. Depth /\ frames'[j].at = "passes"
  BY <1>2 DEF Starts
<1>4. j # Depth
  <2>1. Top \in FrameType
    BY FramesTyped DEF BackendInner
  <2>2. frames'[Depth].at = "lowered"
    BY <1>1, <2>1 DEF BackendInner, FrameType
  <2> QED BY <1>3, <2>2
<1>5. CASE j = Depth - 1
  <2>1. frames'[j] = Grown(frames[j], FuncOp(Top.fn, default_inline = "always"))
    BY <1>1, <1>3, <1>4, <1>5 DEF BackendInner, Grown
  <2>2. Top.fn \in CallsIn(frames[j].ops)
    BY <1>1, <1>5 DEF PendingOK
  <2>3. default_inline' = InlineAfter(Top.fn)
    BY DEF BackendInner
  <2>4. Extended(frames[j], frames'[j])
    BY <2>1, <2>2, <2>3, Zenon DEF Extended
  <2> QED BY <1>1, <1>3, <1>5, <2>4 DEF Starts
<1>6. CASE j # Depth - 1
  <2>1. frames'[j] = frames[j]
    BY <1>1, <1>3, <1>4, <1>6 DEF BackendInner
  <2> QED BY <1>3, <2>1 DEF Starts
<1> QED BY <1>5, <1>6

LEMMA ResolvedModules == ASSUME NEW d, NEW e PROVE FuncInv /\ ResolvedAt(d, e) => EachModule
<1> SUFFICES ASSUME FuncInv, ResolvedAt(d, e), NEW j \in Starts(frames', Depth')
             PROVE  /\ j \in Starts(frames, Depth)
                    /\ frames'[j] = frames[j] \/ Linked(frames[j], frames'[j])
  BY DEF EachModule
<1>1. /\ Depth \in Nat /\ d \in 1 .. Depth /\ frames' = [Below(d) EXCEPT ![d] = e]
      /\ \A i \in 1 .. Depth : frames[i] \in FrameType
      /\ e \in FrameType /\ frames[d].at = "passes" /\ Linked(frames[d], e)
  BY FramesTyped DEF ResolvedAt
<1>2. Below(d) \in Seq(FrameType) /\ Len(Below(d)) = d /\ \A i \in 1 .. d : Below(d)[i] = frames[i]
  <2>1. \A i \in 1 .. d : frames[i] \in FrameType
    BY <1>1
  <2> QED BY <1>1, <2>1, SubSeqProperties DEF Below
<1>3. Depth' = d /\ \A i \in 1 .. d : frames'[i] = IF i = d THEN e ELSE Below(d)[i]
  <2>1. d \in 1 .. Len(Below(d))
    BY <1>1, <1>2
  <2>2. /\ Len(frames') = Len(Below(d))
        /\ \A i \in 1 .. Len(Below(d)) : frames'[i] = IF i = d THEN e ELSE Below(d)[i]
    BY <1>1, <1>2, <2>1, ExceptSeq
  <2> QED BY <1>2, <2>2 DEF Depth
<1>4. j \in 1 .. d /\ j \in 1 .. Depth /\ frames'[j].at = "passes"
  BY <1>1, <1>3 DEF Starts
<1>5. CASE j = d
  BY <1>1, <1>3, <1>4, <1>5 DEF Starts
<1>6. CASE j # d
  BY <1>2, <1>3, <1>4, <1>6 DEF Starts
<1> QED BY <1>5, <1>6

LEMMA NextModules == FuncInv /\ [Next]_vars => EachModule
<1> SUFFICES ASSUME FuncInv, [Next]_vars PROVE EachModule
  OBVIOUS
<1>1. CASE UNCHANGED vars
  BY <1>1, Zenon DEF EachModule, vars, Depth
<1> QED BY <1>1, NextCases, BackendModules, BackendInnerModules, PushModules, ResolvedModules,
           UnwoundModules, Zenon

(***************************************************************************)
(* A call calls its callee: the functions brought into a module are reached*)
(* from its own one, where a name means one function.                      *)
(***************************************************************************)

Lineage(f, R) ==
  /\ R \in SUBSET Funcs /\ CallsOf(f.fn) \subseteq R
  /\ \A g \in R : CallsOf(g) \subseteq R
  /\ \A g, h \in R : program.name[g] = program.name[h] => g = h
  /\ \A i \in DOMAIN f.ops : i # 1 => f.ops[i].fn \in R

Callees(f) == \A c \in DOMAIN f.target : f.ops[f.target[c]].fn = Callee(f, c)

Lineages == \A j \in Starts(frames, Depth) : Callees(frames[j]) /\ \E R : Lineage(frames[j], R)

LEMMA LineageKept ==
  ASSUME program' = program
  PROVE  /\ \A f : Callees(f)' <=> Callees(f)
         /\ \A f, R : Lineage(f, R)' <=> Lineage(f, R)
<1>1. \A f, c : Callee(f, c)' = Callee(f, c)
  BY Zenon DEF Callee
<1>2. \A fn : CallsOf(fn)' = CallsOf(fn)
  BY Zenon DEF CallsOf
<1>3. ASSUME NEW f PROVE Callees(f)' <=> Callees(f)
  BY <1>1, Zenon DEF Callees
<1>4. ASSUME NEW f, NEW R PROVE Lineage(f, R)' <=> Lineage(f, R)
  BY <1>2, Zenon DEF Lineage
<1> QED BY <1>3, <1>4

LEMMA LineageCalls ==
  ASSUME NEW f, NEW R, ModuleOK(f), Lineage(f, R)
  PROVE  CallsIn(f.ops) \subseteq R
<1> SUFFICES ASSUME NEW g \in CallsIn(f.ops) PROVE g \in R
  OBVIOUS
<1>1. PICK i \in DOMAIN f.ops : g \in CallsOf(f.ops[i].fn)
  BY DEF CallsIn
<1>2. CASE i = 1
  BY <1>1, <1>2 DEF ModuleOK, Lineage
<1>3. CASE i # 1
  BY <1>1, <1>3 DEF Lineage
<1> QED BY <1>2, <1>3

LEMMA StartedCallees ==
  ASSUME program \in Programs, NamesApart(program), NEW g, Started(g)
  PROVE  Callees(g) /\ \E R : Lineage(g, R)
<1>1. PICK R \in SUBSET Funcs :
        /\ \A h \in R \cup {g.fn} : \A k \in DOMAIN program.calls[h] : program.calls[h][k] \in R
        /\ \A h, k \in R : program.name[h] = program.name[k] => h = k
  BY Zenon DEF NamesApart, Started
<1>2. \A h \in R \cup {g.fn} : CallsOf(h) \subseteq R
  BY <1>1 DEF CallsOf
<1>3. DOMAIN g.ops = {1}
  <2>1. g.ops = <<FuncOp(g.fn, FALSE)>>
    BY DEF Started
  <2> QED BY <2>1
<1>4. Lineage(g, R)
  BY <1>1, <1>2, <1>3 DEF Lineage
<1>5. Callees(g)
  BY DEF Callees, Started
<1> QED BY <1>4, <1>5

LEMMA ExtendedCallees ==
  ASSUME program \in Programs, NEW f \in FrameType, NEW g, ModuleOK(f), Callees(f),
         NEW R, Lineage(f, R), Extended(f, g)
  PROVE  Callees(g) /\ Lineage(g, R)
<1>1. PICK fn \in CallsIn(f.ops) : g = Grown(f, FuncOp(fn, default_inline = "always"))
  BY DEF Extended
<1> DEFINE op == FuncOp(fn, default_inline = "always")
           n == Len(f.ops)
<1>2. fn \in R /\ fn \in Funcs
  BY LineageCalls DEF Lineage
<1>3. op \in OpType /\ op.fn = fn
  BY <1>2 DEF FuncOp, OpType, SymbolNames
<1> HIDE DEF op
<1>4. /\ f.ops \in Seq(OpType) /\ n \in Nat /\ DOMAIN f.ops = 1 .. n
      /\ DOMAIN Append(f.ops, op) = 1 .. n + 1
      /\ \A i \in 1 .. n : Append(f.ops, op)[i] = f.ops[i]
      /\ Append(f.ops, op)[n + 1] = op
  BY <1>3, AppendProperties, LenProperties DEF FrameType
<1>5. g.ops = Append(f.ops, op) /\ g.target = f.target /\ g.fn = f.fn
  BY <1>1 DEF Grown, FrameType, op
<1> HIDE DEF n
<1>6. Lineage(g, R)
  <2>1. \A i \in DOMAIN g.ops : i # 1 => g.ops[i].fn \in R
    BY <1>2, <1>3, <1>4, <1>5 DEF Lineage
  <2> QED BY <1>5, <2>1 DEF Lineage
<1>7. ASSUME NEW c \in DOMAIN g.target PROVE g.ops[g.target[c]].fn = Callee(g, c)
  <2>1. c \in DOMAIN f.target /\ c \in Calls(f) /\ f.target[c] \in 1 .. n
    BY <1>4, <1>5 DEF ModuleOK
  <2>2. PICK i \in 1 .. n : c \in {i} \X DOMAIN program.calls[f.ops[i].fn]
    BY <1>4, <2>1 DEF Calls
  <2>3. g.ops[c[1]] = f.ops[c[1]]
    BY <1>4, <1>5, <2>2
  <2>4. Callee(g, c) = Callee(f, c)
    BY <2>3, Zenon DEF Callee
  <2> QED BY <1>4, <1>5, <2>1, <2>4 DEF Callees
<1> QED BY <1>6, <1>7 DEF Callees

LEMMA LinkedCallees ==
  ASSUME program \in Programs, NEW f \in FrameType, NEW g, ModuleOK(f), Callees(f),
         NEW R, Lineage(f, R), Linked(f, g)
  PROVE  Callees(g) /\ Lineage(g, R)
<1>1. PICK c \in Calls(f) : \E i \in DOMAIN f.ops : LinkedBy(f, g, c, i)
  BY Zenon DEF Linked
<1>2. PICK i \in DOMAIN f.ops : LinkedBy(f, g, c, i)
  BY <1>1
<1>3. Callee(f, c) \in R /\ f.ops[i].fn \in R
  BY <1>2, CallSitesOf, LineageCalls DEF LinkedBy, Lineage
<1>4. f.ops[i].fn = Callee(f, c)
  BY <1>2, <1>3 DEF LinkedBy, Lineage, Name
<1>5. Lineage(g, R)
  BY <1>2 DEF LinkedBy, Lineage
<1>6. ASSUME NEW b \in DOMAIN g.target PROVE g.ops[g.target[b]].fn = Callee(g, b)
  <2>1. b \in Calls(f)
    BY <1>2 DEF LinkedBy, ModuleOK
  <2>2. PICK k \in DOMAIN f.ops : b \in {k} \X DOMAIN program.calls[f.ops[k].fn]
    BY <2>1 DEF Calls
  <2>3. b[1] = k /\ g.ops[k].fn = f.ops[k].fn
    BY <1>2, <2>2 DEF LinkedBy
  <2>4. Callee(g, b) = Callee(f, b)
    BY <2>3, Zenon DEF Callee
  <2>5. CASE b = c
    BY <1>2, <1>4, <2>4, <2>5 DEF LinkedBy
  <2>6. CASE b # c
    <3>1. b \in DOMAIN f.target /\ g.target[b] = f.target[b] /\ f.target[b] \in DOMAIN f.ops
      BY <1>2, <2>6 DEF LinkedBy, ModuleOK
    <3>2. g.ops[f.target[b]].fn = f.ops[f.target[b]].fn
      BY <1>2, <3>1 DEF LinkedBy
    <3> QED BY <2>4, <3>1, <3>2 DEF Callees
  <2> QED BY <2>5, <2>6
<1> QED BY <1>5, <1>6 DEF Callees

LEMMA LineagesNext ==
  ASSUME \A p \in Programs : NamesApart(p)
  PROVE  FuncInv /\ Lineages /\ [Next]_vars => Lineages'
<1> SUFFICES ASSUME FuncInv, Lineages, [Next]_vars, NEW j \in Starts(frames', Depth')
             PROVE  (Callees(frames[j]) /\ \E R : Lineage(frames[j], R))'
  BY DEF Lineages
<1>1. program \in Programs /\ program' = program
  BY DEF FuncInv, Typed, Next, Request, TypeCallee, Backend, BackendInner, CallFound, CallCompiled,
         ReturnInner, Finish, Raise, Idle, vars
<1>2. /\ \A f : Callees(f)' <=> Callees(f)
      /\ \A f, R : Lineage(f, R)' <=> Lineage(f, R)
  BY <1>1, LineageKept
<1>3. Callees(frames'[j]) /\ \E R : Lineage(frames'[j], R)
  <2>1. CASE Started(frames'[j])
    BY <1>1, <2>1, StartedCallees
  <2>2. CASE /\ j \in Starts(frames, Depth)
             /\ frames'[j] = frames[j] \/ Extended(frames[j], frames'[j]) \/ Linked(frames[j], frames'[j])
    <3>1. frames[j] \in FrameType /\ ModuleOK(frames[j])
      BY <2>2, FramesTyped DEF FuncInv, ModulesOK
    <3>2. Callees(frames[j]) /\ \E R : Lineage(frames[j], R)
      BY <2>2 DEF Lineages
    <3>3. PICK R : Lineage(frames[j], R)
      BY <3>2
    <3> QED BY <1>1, <2>2, <3>1, <3>2, <3>3, ExtendedCallees, LinkedCallees, Zenon
  <2> QED BY <2>1, <2>2, NextModules DEF EachModule
<1> QED BY <1>2, <1>3, Zenon

\* A call in the compiled code calls the function that the Python code calls, in
\* every program where the functions that one function reaches have names of
\* their own.
THEOREM FuncCallsTheCallee ==
  ASSUME \A p \in Programs : NamesApart(p)
  PROVE  Spec => []CallsTheCallee
<1>1. Init => Lineages
  BY EmptySeq DEF Init, Lineages, Starts, Depth
<1>2. FuncInv /\ Lineages /\ [Next]_vars => Lineages'
  BY LineagesNext
<1>3. FuncInv /\ Lineages => CallsTheCallee
  <2> SUFFICES ASSUME FuncInv, Lineages, NEW j \in DOMAIN frames
               PROVE  Callees(frames[j])
    BY DEF CallsTheCallee, Callees
  <2>1. CASE frames[j].at = "passes"
    BY <2>1, FramesTyped DEF Starts, Lineages
  <2>2. CASE frames[j].at # "passes"
    BY <2>2 DEF FuncInv, Shape, Callees
  <2> QED BY <2>1, <2>2
<1> QED BY <1>1, <1>2, <1>3, FuncInvariant, PTL DEF Spec

(***************************************************************************)
(* Inlining: the flag is set before a callee that wants it is compiled.    *)
(***************************************************************************)

Wanted(fn) == program.inline[fn] = "always"

\* For a module: a callee that wants it has set the flag, and those brought in have
\* got the mark.
Flagged(f) == \A g \in CallsIn(f.ops) : Wanted(g) => default_inline = "always"
Marked(f) == \A i \in DOMAIN f.ops : i # 1 /\ Wanted(f.ops[i].fn) => f.ops[i].inlined

Marks == \A j \in Starts(frames, Depth) : Flagged(frames[j]) /\ Marked(frames[j])

LEMMA InlineSet ==
  ASSUME FuncInv, NoNever(program), NEW fn \in Funcs
  PROVE  /\ default_inline = "always" => InlineAfter(fn) = "always"
         /\ \A g \in CallsOf(fn) : Wanted(g) => InlineAfter(fn) = "always"
<1> DEFINE called == program.calls[fn]
           given  == {k \in DOMAIN called : program.inline[called[k]] # "unset"}
           last   == CHOOSE k \in given : \A j \in given : j <= k
<1>1. called \in Seq(Funcs) /\ DOMAIN called = 1 .. Len(called) /\ Len(called) \in Nat
  BY CallsTyped DEF FuncInv, Typed
<1>2. InlineAfter(fn) = IF given = {} THEN default_inline ELSE program.inline[called[last]]
  BY DEF InlineAfter
<1>3. ASSUME NEW k \in given PROVE program.inline[called[k]] = "always"
  BY <1>1, ProgramsAssumption DEF FuncInv, Typed, Options, NoNever
<1>4. given # {} => last \in given
  <2>1. given # {} => \E k \in given : \A j \in given : j <= k
    BY <1>1, GreatestExists
  <2> HIDE DEF given
  <2> QED BY <2>1, Zenon
<1>5. ASSUME NEW g \in CallsOf(fn), Wanted(g) PROVE given # {}
  <2>1. PICK k \in DOMAIN called : g = called[k]
    BY DEF CallsOf
  <2>2. k \in given
    BY <1>5, <2>1 DEF Wanted
  <2> QED BY <2>2
<1> HIDE DEF given, last
<1> QED BY <1>2, <1>3, <1>4, <1>5

LEMMA ModuleMarks ==
  ASSUME FuncInv, NoNever(program), [Next]_vars, NEW f \in FrameType, NEW g,
         Flagged(f), Marked(f), g = f \/ Extended(f, g) \/ Linked(f, g)
  PROVE  /\ \A h \in CallsIn(g.ops) : Wanted(h) => default_inline' = "always"
         /\ Marked(g)
<1>1. default_inline = "always" => default_inline' = "always"
  BY FlagTyped, InlineSet
<1>2. f.ops \in Seq(OpType)
  BY DEF FrameType
<1>3. CASE g = f
  BY <1>1, <1>3 DEF Flagged
<1>4. CASE Extended(f, g)
  <2>1. PICK fn \in CallsIn(f.ops) : /\ g = Grown(f, FuncOp(fn, default_inline = "always"))
                                     /\ default_inline' = InlineAfter(fn)
    BY <1>4 DEF Extended
  <2> DEFINE op == FuncOp(fn, default_inline = "always")
             n == Len(f.ops)
  <2>2. fn \in Funcs
    BY <1>2, CallsInTyped DEF FuncInv, Typed
  <2>3. op \in OpType /\ op.fn = fn /\ op.inlined = (default_inline = "always")
    BY <2>2 DEF FuncOp, OpType, SymbolNames
  <2>4. g.ops = Append(f.ops, op)
    BY <2>1 DEF Grown, FrameType
  <2> HIDE DEF op
  <2>5. /\ n \in Nat /\ DOMAIN f.ops = 1 .. n /\ DOMAIN g.ops = 1 .. n + 1
        /\ \A i \in 1 .. n : g.ops[i] = f.ops[i]
        /\ g.ops[n + 1] = op
    BY <1>2, <2>3, <2>4, AppendProperties, LenProperties
  <2>6. CallsIn(g.ops) = CallsIn(f.ops) \cup CallsOf(fn)
    BY <1>2, <2>3, <2>4, CallsGrow
  <2>7. ASSUME NEW h \in CallsIn(g.ops), Wanted(h) PROVE default_inline' = "always"
    BY <1>1, <2>1, <2>2, <2>6, <2>7, InlineSet DEF Flagged
  <2>8. Wanted(fn) => op.inlined
    BY <2>1, <2>3, Zenon DEF Flagged
  <2>9. ASSUME NEW i \in DOMAIN g.ops, i # 1, Wanted(g.ops[i].fn) PROVE g.ops[i].inlined
    <3>1. CASE i \in 1 .. n
      <4>1. g.ops[i] = f.ops[i]
        BY <2>5, <3>1
      <4> QED BY <2>5, <2>9, <3>1, <4>1, Zenon DEF Marked
    <3>2. CASE i = n + 1
      <4>1. g.ops[i] = op
        BY <2>5, <3>2
      <4> QED BY <2>3, <2>8, <2>9, <4>1, Zenon
    <3> QED BY <2>5, <3>1, <3>2
  <2> QED BY <2>7, <2>9, Zenon DEF Marked
<1>5. CASE Linked(f, g)
  <2>1. PICK c \in Calls(f) : \E i \in DOMAIN f.ops : LinkedBy(f, g, c, i)
    BY <1>5, Zenon DEF Linked
  <2>2. /\ DOMAIN g.ops = DOMAIN f.ops
        /\ \A k \in DOMAIN f.ops : g.ops[k].fn = f.ops[k].fn /\ g.ops[k].inlined = f.ops[k].inlined
    BY <2>1, Zenon DEF LinkedBy
  <2>3. CallsIn(g.ops) = CallsIn(f.ops)
    <3>1. CallsIn(g.ops) = UNION {CallsOf(g.ops[i].fn) : i \in DOMAIN f.ops}
      BY <2>2, Zenon DEF CallsIn
    <3>2. {CallsOf(g.ops[i].fn) : i \in DOMAIN f.ops} = {CallsOf(f.ops[i].fn) : i \in DOMAIN f.ops}
      BY <2>2, Zenon
    <3> QED BY <3>1, <3>2, Zenon DEF CallsIn
  <2>4. Marked(g)
    BY <2>2, Zenon DEF Marked
  <2> QED BY <1>1, <2>3, <2>4 DEF Flagged
<1> QED BY <1>3, <1>4, <1>5

LEMMA MarksNext ==
  ASSUME \A p \in Programs : NoNever(p)
  PROVE  FuncInv /\ Marks /\ [Next]_vars => Marks'
<1> SUFFICES ASSUME FuncInv, Marks, [Next]_vars, NEW j \in Starts(frames', Depth')
             PROVE  (Flagged(frames[j]) /\ Marked(frames[j]))'
  BY DEF Marks
<1>1. program \in Programs /\ program' = program /\ NoNever(program)
  BY DEF FuncInv, Typed, Next, Request, TypeCallee, Backend, BackendInner, CallFound, CallCompiled,
         ReturnInner, Finish, Raise, Idle, vars
<1>2. /\ \A ops : CallsIn(ops)' = CallsIn(ops)
      /\ \A fn : Wanted(fn)' <=> Wanted(fn)
  <2>1. \A fn : CallsOf(fn)' = CallsOf(fn)
    BY <1>1, Zenon DEF CallsOf
  <2>2. \A ops : CallsIn(ops)' = CallsIn(ops)
    BY <2>1, Zenon DEF CallsIn
  <2> QED BY <1>1, <2>2, Zenon DEF Wanted
<1>3. /\ \A h \in CallsIn(frames'[j].ops) : Wanted(h) => default_inline' = "always"
      /\ Marked(frames'[j])
  <2> DEFINE g == frames'[j]
  <2>1. CASE Started(g)
    <3>1. g.fn \in Funcs /\ g.ops = <<FuncOp(g.fn, FALSE)>> /\ default_inline' = InlineAfter(g.fn)
      BY <2>1 DEF Started
    <3> HIDE DEF g
    <3>2. DOMAIN g.ops = {1} /\ g.ops[1].fn = g.fn
      BY <3>1 DEF FuncOp
    <3>3. CallsIn(g.ops) = CallsOf(g.fn)
      BY <3>2 DEF CallsIn
    <3>4. Marked(g)
      BY <3>2 DEF Marked
    <3>5. \A h \in CallsOf(g.fn) : Wanted(h) => InlineAfter(g.fn) = "always"
      BY <1>1, <3>1, InlineSet
    <3> QED BY <3>1, <3>3, <3>4, <3>5 DEF g
  <2>2. CASE /\ j \in Starts(frames, Depth)
             /\ g = frames[j] \/ Extended(frames[j], g) \/ Linked(frames[j], g)
    <3>1. frames[j] \in FrameType /\ Flagged(frames[j]) /\ Marked(frames[j])
      BY <2>2, FramesTyped DEF Marks
    <3> QED BY <1>1, <2>2, <3>1, ModuleMarks, Zenon
  <2> QED BY <2>1, <2>2, NextModules DEF EachModule
<1> QED BY <1>2, <1>3, Zenon DEF Flagged, Marked

\* A function that asks to be inlined everywhere is marked so in every module it is
\* brought into, if none asks never to be.
THEOREM FuncInlineHonoured ==
  ASSUME \A p \in Programs : NoNever(p)
  PROVE  Spec => []InlineHonoured
<1>1. Init => Marks
  BY EmptySeq DEF Init, Marks, Starts, Depth
<1>2. FuncInv /\ Marks /\ [Next]_vars => Marks'
  BY MarksNext
<1>3. FuncInv /\ Marks => InlineHonoured
  <2> SUFFICES ASSUME FuncInv, Marks, NEW j \in DOMAIN frames, NEW i \in 2 .. Len(frames[j].ops),
                      Wanted(frames[j].ops[i].fn)
               PROVE  frames[j].ops[i].inlined
    BY DEF InlineHonoured, Wanted
  <2>1. frames[j] \in FrameType
    BY FramesTyped
  <2>2. i # 1 /\ i \in DOMAIN frames[j].ops
    BY <2>1, LenProperties DEF FrameType
  <2>3. CASE frames[j].at = "passes"
    <3>1. j \in Starts(frames, Depth)
      BY <2>3, FramesTyped DEF Starts
    <3> QED BY <2>2, <3>1, Zenon DEF Marks, Marked
  <2>4. CASE frames[j].at # "passes"
    BY <2>2, <2>4, EmptyTyped DEF FuncInv, Shape
  <2> QED BY <2>3, <2>4
<1> QED BY <1>1, <1>2, <1>3, FuncInvariant, PTL DEF Spec
=============================================================================
