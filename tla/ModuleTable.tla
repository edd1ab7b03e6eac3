----------------------------- MODULE ModuleTable -----------------------------
(***************************************************************************)
(* The modules of a process (lx_loader.c): loading a program with all it    *)
(* imports, DosLoadModule, reference counts, the initialisation and         *)
(* termination routines of libraries, and lxTerminate.  Loading recurses    *)
(* through the imports, and an initialisation routine may load again:       *)
(* `stack` holds the calls in progress.  One thread loads at a time.        *)
(* Every library that is not native is an LX library with an entry point.   *)
(***************************************************************************)
EXTENDS Integers, SequencesExt, FiniteSetsExt

CONSTANTS Name,         \* names of libraries
          Module,       \* the structures malloc has, numbered
          Worlds,       \* what the disk may hold, see below
          MaxDepth,     \* 32 in the code
          MaxLoads,     \* how often the program may load a library itself
          Null

(* A disk: the imports of the program; for each library its imports and the *)
(* part of its loading that fails; and the libraries that are native.       *)
ASSUME WorldsAssumption ==
    \A w \in Worlds :
        /\ w.exe \in Seq(Name)
        /\ w.imports \in [w.files -> Seq(Name)] /\ w.files \subseteq Name
        /\ w.fails \in [w.files \cup {"exe"} -> {"never", "early", "late"}]
        /\ w.native \subseteq Name
ASSUME ModuleAssumption ==
    /\ Module \subseteq Nat /\ IsFiniteSet(Module) /\ Null \notin Int
    /\ MaxDepth \in Nat /\ MaxLoads \in Nat
    /\ "exe" \notin Name

VARIABLES world,
          mod,            \* Module -> what the structure holds
          loaded_modules, \* the list, its head first
          main_module,
          stack,          \* calls in progress, the innermost first
          result,         \* what the last loading call gave its caller
          roots,          \* ghost: how often the program was given a module and has it yet
          phase           \* "start", "running", "exit", "ended" or "crashed"

vars == <<world, mod, loaded_modules, main_module, stack, result, roots, phase>>

NoResult == -1

(* life follows `initialized`: new, in its initialisation routine, up, or   *)
(* down once its last reference is gone and its termination routine has run.*)
Unused == [name |-> "exe", refcount |-> 0, dependencies |-> <<>>, native |-> FALSE, life |-> "unused"]

New(name, dependencies, native, life) ==
    [name |-> name, refcount |-> 1, dependencies |-> dependencies, native |-> native, life |-> life]

Frame(at, name, depth, m, i) == [at |-> at, name |-> name, depth |-> depth, mod |-> m, i |-> i]

TypeOK ==
    /\ DOMAIN mod = Module
    /\ \A m \in Module :
          /\ mod[m].name \in Name \cup {"exe"} /\ mod[m].native \in BOOLEAN
          /\ mod[m].refcount \in Nat
          /\ mod[m].dependencies \in Seq(Module \cup {Null})
          /\ mod[m].life \in {"unused", "new", "in", "up", "down"}
    /\ loaded_modules \in Seq(Module)
    /\ main_module \in Module \cup {Null}
    /\ \A k \in DOMAIN stack :
          /\ stack[k].at \in {"name", "module", "init", "failed", "unref", "free", "terminate"}
          /\ stack[k].depth \in 0..(MaxDepth + 1)
    /\ result \in Module \cup {Null, NoResult}
    /\ roots \in [Module -> Nat]
    /\ phase \in {"start", "running", "exit", "ended", "crashed"}

Init ==
    /\ world \in Worlds
    /\ mod = [m \in Module |-> Unused]
    /\ loaded_modules = <<>> /\ main_module = Null
    /\ stack = <<>> /\ result = NoResult
    /\ roots = [m \in Module |-> 0]
    /\ phase = "start"

-----------------------------------------------------------------------------
Top == stack[1]
InCall(at) == phase # "crashed" /\ stack # <<>> /\ Top.at = at
Replace(frame) == stack' = <<frame>> \o Tail(stack)

FreeModules == {m \in Module : mod[m].life = "unused"}
Imports(name) == IF name = "exe" THEN world.exe ELSE world.imports[name]
Fails(name, part) == world.fails[name] = part

(* The program runs, or the initialisation routine of a library. *)
ProgramsTurn == phase # "crashed" /\ IF stack = <<>> THEN phase = "running" ELSE Top.at = "init"

(* The innermost call returns r: to a call of the loader, or to the program. *)
Return(r) ==
    LET rest == Tail(stack)
        toProgram == rest = <<>> \/ rest[1].at = "init"
    IN /\ stack' = rest
       /\ result' = IF toProgram THEN NoResult ELSE r
       /\ roots' = IF toProgram /\ r # Null THEN [roots EXCEPT ![r] = @ + 1] ELSE roots
       /\ phase' = IF phase = "start" /\ rest = <<>>
                   THEN IF r = Null THEN "ended" ELSE "running"
                   ELSE phase

(* loadLxModule and loadNeModule, up to the first import: the structure,    *)
(* and the depth of the recursion.  Without memory there is nothing to free.*)
LoadModule(name, depth, callers) ==
    IF FreeModules = {}
      THEN stack' = <<Frame("failed", name, depth, Null, 0)>> \o callers /\ UNCHANGED <<mod, main_module>>
      ELSE LET m == Min(FreeModules) IN
           /\ mod' = [mod EXCEPT ![m] = New(name, [i \in DOMAIN Imports(name) |-> Null], FALSE, "new")]
           /\ main_module' = IF name = "exe" THEN m ELSE main_module
           /\ stack' = <<Frame("module", name, depth + 1, m, 1)>> \o callers

(* main: the program itself. *)
LoadProgram ==
    /\ phase = "start" /\ stack = <<>>
    /\ LoadModule("exe", 0, stack)
    /\ UNCHANGED <<world, loaded_modules, result, roots, phase>>

(* DosLoadModule, with a name or with the path of a file. *)
MayLoad == ProgramsTurn /\ MapThenSumSet(LAMBDA m : roots[m], Module) < MaxLoads

DosLoadModule(name) ==
    /\ MayLoad
    /\ stack' = <<Frame("name", name, 0, Null, 0)>> \o stack
    /\ UNCHANGED <<world, mod, loaded_modules, main_module, result, roots, phase>>

DosLoadModulePath(name) ==
    /\ MayLoad /\ name \in world.files
    /\ LoadModule(name, 0, stack)
    /\ UNCHANGED <<world, loaded_modules, result, roots, phase>>

-----------------------------------------------------------------------------
(* loadModuleByModuleNameInternal: a module of that name is loaded... *)
Loaded(name) == {k \in DOMAIN loaded_modules : mod[loaded_modules[k]].name = name}

FoundIsNotCounted ==
    /\ InCall("name") /\ Top.i = 0 /\ Loaded(Top.name) # {}
    /\ Return(loaded_modules[Min(Loaded(Top.name))])
    /\ UNCHANGED <<world, mod, loaded_modules, main_module>>

NameFound ==
    /\ InCall("name") /\ Top.i = 0 /\ Loaded(Top.name) # {}
    /\ LET m == loaded_modules[Min(Loaded(Top.name))] IN
          /\ mod' = [mod EXCEPT ![m].refcount = @ + 1]
          /\ Return(m)
    /\ UNCHANGED <<world, loaded_modules, main_module>>

(* ...or there is a file, which is tried first... *)
NameHasFile ==
    /\ InCall("name") /\ Top.i = 0 /\ Loaded(Top.name) = {} /\ Top.name \in world.files
    /\ LoadModule(Top.name, Top.depth, <<[Top EXCEPT !.i = 1]>> \o Tail(stack))
    /\ UNCHANGED <<world, loaded_modules, result, roots, phase>>

FileLoaded ==
    /\ InCall("name") /\ Top.i = 1 /\ result \in Module
    /\ Return(result)
    /\ UNCHANGED <<world, mod, loaded_modules, main_module>>

(* ...and when there is none, or it is no good, a native library. *)
loadNativeModule ==
    /\ InCall("name")
    /\ \/ Top.i = 1 /\ result = Null
       \/ Top.i = 0 /\ Loaded(Top.name) = {} /\ Top.name \notin world.files
    /\ IF Top.name \in world.native /\ FreeModules # {}
         THEN LET m == Min(FreeModules) IN
              /\ mod' = [mod EXCEPT ![m] = New(Top.name, <<>>, TRUE, "up")]
              /\ loaded_modules' = <<m>> \o loaded_modules
              /\ Return(m)
         ELSE Return(Null) /\ UNCHANGED <<mod, loaded_modules>>
    /\ UNCHANGED <<world, main_module>>

-----------------------------------------------------------------------------
(* The rest of loadLxModule and loadNeModule: the imports in their order... *)
AllImported(f) == f.i > Len(mod[f.mod].dependencies)
GivesUp(f) ==
    \/ f.i = 1 /\ f.depth > MaxDepth
    \/ f.i = 1 /\ Fails(f.name, "early")
    \/ AllImported(f) /\ Fails(f.name, "late")

ImportNext ==
    /\ InCall("module") /\ result = NoResult /\ ~GivesUp(Top) /\ ~AllImported(Top)
    /\ stack' = <<Frame("name", Imports(Top.name)[Top.i], Top.depth, Null, 0)>> \o stack
    /\ UNCHANGED <<world, mod, loaded_modules, main_module, result, roots, phase>>

Imported ==
    /\ InCall("module") /\ result \in Module
    /\ mod' = [mod EXCEPT ![Top.mod].dependencies[Top.i] = result]
    /\ Replace([Top EXCEPT !.i = @ + 1])
    /\ result' = NoResult
    /\ UNCHANGED <<world, loaded_modules, main_module, roots, phase>>

(* ...then fixups and permissions; the initialisation routine of a library  *)
(* runs before it is in the list.                                           *)
ModuleComplete ==
    /\ InCall("module") /\ result = NoResult /\ ~GivesUp(Top) /\ AllImported(Top)
    /\ IF Top.name = "exe"
         THEN /\ mod' = [mod EXCEPT ![Top.mod].life = "up"]
              /\ Return(Top.mod)
         ELSE /\ mod' = [mod EXCEPT ![Top.mod].life = "in"]
              /\ Replace([Top EXCEPT !.at = "init"])
              /\ UNCHANGED <<result, roots, phase>>
    /\ UNCHANGED <<world, loaded_modules, main_module>>

InitReturns ==
    /\ InCall("init")
    /\ mod' = [mod EXCEPT ![Top.mod].life = "up"]
    /\ loaded_modules' = <<Top.mod>> \o loaded_modules
    /\ Return(Top.mod)
    /\ UNCHANGED <<world, main_module>>

(* loadlx_failed: what was loaded so far is freed. *)
ModuleFails ==
    /\ InCall("module")
    /\ result = Null \/ (result = NoResult /\ GivesUp(Top))
    /\ stack' = <<[Top EXCEPT !.at = "unref"], [Top EXCEPT !.at = "failed"]>> \o Tail(stack)
    /\ result' = NoResult
    /\ UNCHANGED <<world, mod, loaded_modules, main_module, roots, phase>>

FailureReturns ==
    /\ InCall("failed")
    /\ Return(Null)
    /\ UNCHANGED <<world, mod, loaded_modules, main_module>>

-----------------------------------------------------------------------------
(* freeLxModule: somebody may still use the module...                       *)
StillInUse ==
    /\ InCall("unref") /\ mod[Top.mod].refcount > 1
    /\ mod' = [mod EXCEPT ![Top.mod].refcount = @ - 1]
    /\ stack' = Tail(stack)
    /\ UNCHANGED <<world, loaded_modules, main_module, result, roots, phase>>

(* The list when m is unlinked, which a module that failed is not in.       *)
Without(list, m) ==
    IF m \in ToSet(list) THEN RemoveAt(list, Min({k \in DOMAIN list : list[k] = m})) ELSE list

(* ...or nobody does: its termination routine, on the stack of the program  *)
(* unless that runs already, and out of the list...                         *)
LastReference ==
    /\ InCall("unref") /\ mod[Top.mod].refcount <= 1
    /\ LET m == Top.mod
           terminates == mod[m].life = "up" /\ m # main_module
       IN /\ phase' = IF terminates /\ ~mod[m].native /\ phase = "start" /\ main_module = Null
                      THEN "crashed" ELSE phase
          /\ mod' = [mod EXCEPT ![m].refcount = 0, ![m].life = IF @ = "up" THEN "down" ELSE @]
          /\ loaded_modules' = Without(loaded_modules, m)
          /\ main_module' = IF m = main_module THEN Null ELSE main_module
          /\ Replace([Top EXCEPT !.at = "free", !.i = Len(mod[m].dependencies)])
    /\ UNCHANGED <<world, result, roots>>

(* ...its imports, the last first, and the structure. *)
FreeImport ==
    /\ InCall("free") /\ Top.i > 0
    /\ LET d == mod[Top.mod].dependencies[Top.i]
           rest == <<[Top EXCEPT !.i = @ - 1]>> \o Tail(stack)
       IN stack' = IF d = Null THEN rest ELSE <<Frame("unref", mod[d].name, 0, d, 0)>> \o rest
    /\ UNCHANGED <<world, mod, loaded_modules, main_module, result, roots, phase>>

Freed ==
    /\ InCall("free") /\ Top.i = 0
    /\ mod' = [mod EXCEPT ![Top.mod] = Unused]
    /\ stack' = Tail(stack)
    /\ UNCHANGED <<world, loaded_modules, main_module, result, roots, phase>>

(* lxTerminate: the program, then whatever is in front of the list. *)
lxTerminate ==
    /\ phase = "running" /\ stack = <<>>
    /\ phase' = "exit"
    /\ stack' = <<Frame("unref", "exe", 0, main_module, 0), Frame("terminate", "exe", 0, Null, 0)>>
    /\ roots' = [roots EXCEPT ![main_module] = 0]
    /\ UNCHANGED <<world, mod, loaded_modules, main_module, result>>

TerminateOldestFirst ==
    /\ InCall("terminate") /\ loaded_modules # <<>>
    /\ LET m == Last(loaded_modules) IN
          /\ mod' = [mod EXCEPT ![m].refcount = 1]
          /\ stack' = <<Frame("unref", mod[m].name, 0, m, 0)>> \o stack
          /\ roots' = [roots EXCEPT ![m] = 0]
    /\ UNCHANGED <<world, loaded_modules, main_module, result, phase>>

TerminateNext ==
    /\ InCall("terminate") /\ loaded_modules # <<>>
    /\ LET m == Head(loaded_modules) IN
          /\ mod' = [mod EXCEPT ![m].refcount = 1]
          /\ stack' = <<Frame("unref", mod[m].name, 0, m, 0)>> \o stack
          /\ roots' = [roots EXCEPT ![m] = 0]
    /\ UNCHANGED <<world, loaded_modules, main_module, result, phase>>

TerminateEnds ==
    /\ InCall("terminate") /\ loaded_modules = <<>>
    /\ phase' = "ended" /\ stack' = <<>>
    /\ UNCHANGED <<world, mod, loaded_modules, main_module, result, roots>>

Next ==
    \/ LoadProgram \/ \E name \in Name : DosLoadModule(name) \/ DosLoadModulePath(name)
    \/ NameFound \/ NameHasFile \/ FileLoaded \/ loadNativeModule
    \/ ImportNext \/ Imported \/ ModuleComplete \/ InitReturns \/ ModuleFails \/ FailureReturns
    \/ StillInUse \/ LastReference \/ FreeImport \/ Freed
    \/ lxTerminate \/ TerminateNext \/ TerminateEnds

Spec == Init /\ [][Next]_vars

-----------------------------------------------------------------------------
(* Properties *)

ImportsOf(m) == ToSet(mod[m].dependencies) \ {Null}

(* What imports m: the places in the tables of dependencies.                *)
References(m) ==
    UNION {{d} \X {i \in DOMAIN mod[d].dependencies : mod[d].dependencies[i] = m} : d \in Module}

(* Between calls a module is counted once for every import that refers to   *)
(* it and once for every time the program was given it: a failed load, in   *)
(* whatever depth, has returned every reference it had taken.               *)
RefcountsExact ==
    (stack = <<>> /\ phase = "running") =>
        \A m \in Module : mod[m].refcount = roots[m] + Cardinality(References(m))

(* lx_loader.c:711-714: the list is sorted in order of dependency, and      *)
(* holds exactly the libraries that are up.                                 *)
InOrderOfDependency ==
    /\ ToSet(loaded_modules) = {m \in Module : mod[m].life = "up" /\ mod[m].name # "exe"}
    /\ \A i, j \in DOMAIN loaded_modules : i <= j => loaded_modules[i] \notin ImportsOf(loaded_modules[j])

(* The list and the counts of its modules agree with what imports what.     *)
ModuleListIsSound == RefcountsExact /\ InOrderOfDependency

(* The routines of a library run while everything it imports is up: its     *)
(* initialisation after theirs, and its termination, once, before theirs,   *)
(* when nothing that imports it is up any more.  When the process ends      *)
(* after its program ran nothing is left.                                   *)
LibraryCallsInOrder ==
    [][/\ \A m \in Module :
            (mod'[m].life # mod[m].life /\ mod'[m].life \in {"in", "down"}) =>
                /\ \A d \in ImportsOf(m) : mod[d].life = "up"
                /\ \A u \in Module : m \in ImportsOf(u) => mod[u].life \notin {"in", "up"}
       /\ (phase = "exit" /\ phase' = "ended") => \A m \in Module : mod[m].life = "unused"]_vars
=============================================================================
