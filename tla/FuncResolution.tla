--------------------------- MODULE FuncResolution ---------------------------
(***************************************************************************)
(* How a call of another jitted function finds the code it calls           *)
(* (passes.py, func_registry.py, inner_compiler.py, py_func_resolver.cpp   *)
(* and the CallLowerers of the pipelines). Compilations nest on the Python *)
(* stack: MlirBackend compiles a function into a module of its own, and    *)
(* while the passes run on it every call they resolve may start an inner   *)
(* compilation (MlirBackendInner) that lowers the callee into the active   *)
(* module; numba's type inference may, at any level, first compile a       *)
(* called dispatcher with a MlirBackend of its own. Between them the       *)
(* levels share global variables only.                                     *)
(*                                                                         *)
(* A function stands for the function with the argument types of its       *)
(* calls; a name for the module and qualified name of the function.        *)
(***************************************************************************)
EXTENDS Naturals, Sequences, FiniteSets

CONSTANTS
  Funcs,       \* Python functions with a jit decorator
  None,
  Programs,    \* set of [calls, name, inline]: what the functions call, in order,
               \* their names, and their inline option ("unset", "always", "never")
  MaxCompiles  \* bound on the compilations with a module of their own

Options == {"unset", "always", "never"}

ASSUME ProgramsAssumption ==
  /\ None \notin Funcs
  /\ \A p \in Programs :
       /\ p.calls \in [Funcs -> Seq(Funcs)]
       /\ DOMAIN p.name = Funcs
       /\ \A fn \in Funcs : p.name[fn] # None
       /\ p.inline \in [Funcs -> Options]
ASSUME BoundAssumption == MaxCompiles \in Nat

\* Of the functions that one function reaches, no two have one name.
NamesApart(p) ==
  \A fn \in Funcs : \E R \in SUBSET Funcs :
    /\ \A g \in R \cup {fn} : \A k \in DOMAIN p.calls[g] : p.calls[g][k] \in R
    /\ \A g, h \in R : p.name[g] = p.name[h] => g = h

\* No function asks not to be inlined.
NoNever(p) == \A fn \in Funcs : p.inline[fn] # "never"

VARIABLES
  program,
  frames,             \* the compilations in progress, innermost last
  active_funcs_stack, \* of func_registry: sequence of partial functions name -> function
  active_module,      \* _mlir_active_module: the frame that owns the module, or 0
  last_compiled,      \* _mlir_last_compiled_func: <<frame of its module, index>>, or None
  default_inline,     \* DEFAULT_FLAGS.inline
  compiles

vars == <<program, frames, active_funcs_stack, active_module, last_compiled,
          default_inline, compiles>>

\* A frame is a compilation of fn. at says what it is doing: "typing" in numba's
\* passes before the backend, "passes" in compile_module (kind "top"), and
\* "lowered" after MlirBackendInner (kind "inner"). A top frame has the module
\* ops and what its calls <<op, position>> have been replaced by, an inner one
\* the call of the frame below that it compiles.
Frame(kind, fn, call) ==
  [kind |-> kind, fn |-> fn, call |-> call, at |-> "typing",
   ops |-> <<>>, target |-> <<>>, saved |-> 0]

FuncOp(fn, inlined) == [fn |-> fn, symbol |-> None, inlined |-> inlined]

Depth == Len(frames)
Top   == frames[Depth]
Below(k) == SubSeq(frames, 1, k)
-----------------------------------------------------------------------------
Init ==
  /\ program \in Programs
  /\ frames = <<>>
  /\ active_funcs_stack = <<>>
  /\ active_module = 0
  /\ last_compiled = None
  /\ default_inline = "never"
  /\ compiles = 0

\* The calls in the module of frame f, and what the program calls there.
Calls(f)      == UNION {{i} \X DOMAIN program.calls[f.ops[i].fn] : i \in DOMAIN f.ops}
Unresolved(f) == Calls(f) \ DOMAIN f.target
Callee(f, c)  == program.calls[f.ops[c[1]].fn][c[2]]
Name(f, c)    == program.name[Callee(f, c)]

\* The CallLowerer replaces call c by a call of the i-th function.
Resolved(target, c, i) == [d \in DOMAIN target \cup {c} |-> IF d = c THEN i ELSE target[d]]

\* A user calls a function that has to be compiled.
Request(fn) ==
  /\ frames = <<>>
  /\ compiles < MaxCompiles
  /\ frames' = <<Frame("top", fn, None)>>
  /\ compiles' = compiles + 1
  /\ UNCHANGED <<program, active_funcs_stack, active_module, last_compiled, default_inline>>

\* Type inference compiles a dispatcher that the function calls, for argument
\* types it was not compiled for yet.
TypeCallee(fn) ==
  /\ frames # <<>>
  /\ Top.at = "typing"
  /\ \E k \in DOMAIN program.calls[Top.fn] : program.calls[Top.fn][k] = fn
  /\ compiles < MaxCompiles
  /\ frames' = Append(frames, Frame("top", fn, None))
  /\ compiles' = compiles + 1
  /\ UNCHANGED <<program, active_funcs_stack, active_module, last_compiled, default_inline>>

\* add_active_funcs for every call of fn, in order: the last of a name stays.
Registered(dict, fn) ==
  LET called == program.calls[fn]
      names  == {program.name[called[k]] : k \in DOMAIN called}
      last(n) == CHOOSE k \in DOMAIN called :
                   /\ program.name[called[k]] = n
                   /\ \A j \in k + 1 .. Len(called) : program.name[called[j]] # n
  IN  [n \in names \cup DOMAIN dict |-> IF n \in names THEN called[last(n)] ELSE dict[n]]

\* MUTANT of InlineAfter: each callee gets flags of its own, DEFAULT_FLAGS keeps
\* those of the last.
InlineAfterOfLast(fn) ==
  IF program.calls[fn] = <<>> THEN default_inline
  ELSE LET option == program.inline[program.calls[fn][Len(program.calls[fn])]]
       IN  IF option = "unset" THEN "never" ELSE option

\* DEFAULT_FLAGS.inline once the calls of fn are resolved to names: a callee with
\* the option sets it for good.
InlineAfter(fn) ==
  LET called == program.calls[fn]
      given  == {k \in DOMAIN called : program.inline[called[k]] # "unset"}
  IN  IF given = {} THEN default_inline
      ELSE program.inline[called[CHOOSE k \in given : \A j \in given : j <= k]]

\* MlirBackend.run_pass up to compile_module: a new dictionary, a new module,
\* and the function lowered into it.
Backend ==
  /\ frames # <<>>
  /\ Top.kind = "top" /\ Top.at = "typing"
  /\ active_funcs_stack' = Append(active_funcs_stack, Registered(<<>>, Top.fn))
  /\ active_module' = Depth
  /\ frames' = [frames EXCEPT ![Depth].at = "passes",
                              ![Depth].saved = active_module,
                              ![Depth].ops = <<FuncOp(Top.fn, FALSE)>>]
  /\ last_compiled' = <<Depth, 1>>
  /\ default_inline' = InlineAfter(Top.fn)
  /\ UNCHANGED <<program, compiles>>

\* MUTANT of InnerIsLast: MlirBackendInner leaves the global alone.
InnerIsNotLast == UNCHANGED last_compiled

\* MlirBackendInner assigns _mlir_last_compiled_func the function it appended.
InnerIsLast == last_compiled' = <<active_module, Len(frames[active_module].ops) + 1>>

\* MUTANT of AddInnerNames: the names go into a dictionary of the inner backend's
\* own, which is popped when it is done.
AddInnerNamesOwnDict == UNCHANGED active_funcs_stack

\* MlirBackendInner has no dictionary of its own (push_func_stack=False).
AddInnerNames ==
  active_funcs_stack' =
    [active_funcs_stack EXCEPT ![Len(active_funcs_stack)] = Registered(@, Top.fn)]

\* MlirBackendInner.run_pass: the function is lowered into the active module, as
\* force-inlined if DEFAULT_FLAGS say so by then.
BackendInner ==
  /\ frames # <<>>
  /\ Top.kind = "inner" /\ Top.at = "typing"
  /\ active_module \in DOMAIN frames
  /\ frames' = [frames EXCEPT ![active_module].ops = Append(@, FuncOp(Top.fn, default_inline = "always")),
                              ![Depth].at = "lowered"]
  /\ AddInnerNames
  /\ InnerIsLast
  /\ default_inline' = InlineAfter(Top.fn)
  /\ UNCHANGED <<program, active_module, compiles>>

\* find_active_func: the innermost dictionary that has the name.
FindActive(name) ==
  LET has == {k \in DOMAIN active_funcs_stack : name \in DOMAIN active_funcs_stack[k]}
  IN  IF has = {} THEN None
      ELSE active_funcs_stack[CHOOSE k \in has : \A j \in has : j <= k][name]

\* MUTANT of SymbolOf: calls of the same function are not looked up.
SymbolOfNothing(f, name) == {}

\* mod.lookupSymbol of the mangled name.
SymbolOf(f, name) == {i \in DOMAIN f.ops : f.ops[i].symbol = name}

AtPasses == frames # <<>> /\ Top.at = "passes"

\* A CallLowerer finds the function in the module ...
CallFound(c) ==
  /\ AtPasses
  /\ c \in Unresolved(Top)
  /\ \E i \in SymbolOf(Top, Name(Top, c)) :
       frames' = [frames EXCEPT ![Depth].target = Resolved(@, c, i)]
  /\ UNCHANGED <<program, active_funcs_stack, active_module, last_compiled, default_inline, compiles>>

\* ... or has PyFuncResolver::get_func compile what the registry has for the name.
CallCompiled(c) ==
  /\ AtPasses
  /\ c \in Unresolved(Top)
  /\ SymbolOf(Top, Name(Top, c)) = {}
  /\ FindActive(Name(Top, c)) # None
  /\ frames' = Append(frames, Frame("inner", FindActive(Name(Top, c)), c))
  /\ UNCHANGED <<program, active_funcs_stack, active_module, last_compiled, default_inline, compiles>>

\* compile_func returns get_mlir_func(); the CallLowerer names that function and
\* calls it.
ReturnInner ==
  /\ frames # <<>>
  /\ Top.at = "lowered"
  /\ LET c    == Top.call
         f    == Depth - 1
         func == last_compiled[2]
     IN  frames' = [Below(f) EXCEPT ![f].ops[func].symbol = Name(frames[f], c),
                                    ![f].target = Resolved(@, c, func)]
  /\ UNCHANGED <<program, active_funcs_stack, active_module, last_compiled, default_inline, compiles>>

\* The frames above the k-th whose backend has started, and so runs its finally
\* blocks when it is left.
Backends(k) == {j \in k + 1 .. Depth : frames[j].at = "passes"}

\* MUTANT of PopDicts: pop_active_funcs_stack only when the backend succeeds.
PopDictsOnSuccess(k) ==
  active_funcs_stack' =
    SubSeq(active_funcs_stack, 1,
           Len(active_funcs_stack)
             - IF k = Depth - 1 /\ AtPasses /\ Unresolved(Top) = {} THEN 1 ELSE 0)

\* pop_active_funcs_stack, in MlirBackendBase.run_pass.
PopDicts(k) ==
  active_funcs_stack' =
    SubSeq(active_funcs_stack, 1, Len(active_funcs_stack) - Cardinality(Backends(k)))

\* MUTANT of RestoreModule: the module stays active.
RestoreModuleNever(k) == UNCHANGED active_module

\* _mlir_active_module = old_module, in MlirBackend.run_pass_impl.
RestoreModule(k) ==
  active_module' = IF Backends(k) = {} THEN active_module
                   ELSE frames[CHOOSE j \in Backends(k) : \A i \in Backends(k) : j <= i].saved

\* The frames above the k-th are left, by a return or by an exception.
Unwind(k) == frames' = Below(k) /\ PopDicts(k) /\ RestoreModule(k)

\* The passes are done.
Finish ==
  /\ AtPasses
  /\ Unresolved(Top) = {}
  /\ Unwind(Depth - 1)
  /\ UNCHANGED <<program, last_compiled, default_inline, compiles>>

\* Typing, a pass or get_func raises. The exception reaches the user or a type
\* inference that was compiling a dispatcher, which tries another signature.
Raise ==
  /\ frames # <<>>
  /\ Top.at # "lowered"
  /\ \E k \in {0} \cup {j \in 1 .. Depth - 1 : frames[j].at = "typing"} : Unwind(k)
  /\ UNCHANGED <<program, last_compiled, default_inline, compiles>>

\* Nobody has to call another function.
Idle == frames = <<>> /\ UNCHANGED vars

Next ==
  \/ \E fn \in Funcs : Request(fn) \/ TypeCallee(fn)
  \/ Backend
  \/ BackendInner
  \/ frames # <<>> /\ \E c \in Calls(Top) : CallFound(c) \/ CallCompiled(c)
  \/ ReturnInner
  \/ Finish
  \/ Raise
  \/ Idle

Spec == Init /\ [][Next]_vars
-----------------------------------------------------------------------------
\* Frames and globals are well formed; a resolved call has a function of its module.
TypeOK ==
  /\ \A j \in DOMAIN frames :
       LET f == frames[j]
       IN  /\ f.fn \in Funcs
           /\ f.kind = "inner" => f.at \in {"typing", "lowered"} /\ j > 1
           /\ f.kind = "top" => f.at \in {"typing", "passes"}
           /\ DOMAIN f.target \subseteq Calls(f)
           /\ \A c \in DOMAIN f.target : f.target[c] \in DOMAIN f.ops
           /\ f.saved \in 0 .. j - 1
  /\ active_module \in 0 .. Depth
  /\ default_inline \in {"never", "always"}
  /\ compiles \in 0 .. MaxCompiles

\* A call in the compiled code calls the function that the Python code calls.
CallsTheCallee ==
  \A j \in DOMAIN frames : \A c \in DOMAIN frames[j].target :
    frames[j].ops[frames[j].target[c]].fn = Callee(frames[j], c)

\* The global variables belong to the backends in progress, also after an
\* exception: one dictionary for each, and the module of the innermost.
ContextMatches ==
  LET started == Backends(0)
  IN  /\ Len(active_funcs_stack) = Cardinality(started)
      /\ active_module = IF started = {} THEN 0
                         ELSE CHOOSE j \in started : \A i \in started : i <= j

\* A module does not get a function twice: MLIR would refuse the second symbol.
OneCopy ==
  \A j \in DOMAIN frames : \A i, k \in DOMAIN frames[j].ops :
    frames[j].ops[i].symbol = frames[j].ops[k].symbol /\ i # k => frames[j].ops[i].symbol = None

\* Calls that are still to be resolved, the ones in functions brought in by other
\* calls too, can be: the name is known when the passes reach it.
NamesAvailable ==
  AtPasses => \A c \in Unresolved(Top) : FindActive(Name(Top, c)) # None

\* A function with inline="always" is marked for inlining when another brings it in.
InlineHonoured ==
  \A j \in DOMAIN frames : \A i \in 2 .. Len(frames[j].ops) :
    program.inline[frames[j].ops[i].fn] = "always" => frames[j].ops[i].inlined
=============================================================================
