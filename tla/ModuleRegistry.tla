--------------------------- MODULE ModuleRegistry ---------------------------
(***************************************************************************)
(* The modules of a program (rtsrc/WrenRuntime.cpp): they are initialised  *)
(* on demand, by the host or by an import in Wren code.  An initialiser is *)
(* Wren code: it imports other modules, assigns the variables they import, *)
(* starts fibres that import modules, yields in the middle, or aborts.     *)
(* What it does next is chosen as it runs, since it runs only once.        *)
(*                                                                         *)
(* Each module has one variable that others import.  A fibre is called     *)
(* with try; one that is left suspended may be called again or not.        *)
(***************************************************************************)
EXTENDS Naturals, Sequences, FiniteSets, SequencesExt

CONSTANTS UserModules,   \* the tables that get_globals functions return
          HostModules,   \* those that the host initialises
          ImportFibres,  \* the fibres the program starts
          MaxInitCalls   \* bound: calls of wrencInitModule

ASSUME RegistryAssumption ==
    HostModules \subseteq UserModules /\ "main" \notin ImportFibres

VARIABLES m_userModules,  \* the modules registered
          initialising,   \* per fibre: the modules whose initialisers are on
                          \* its stack, the innermost last
          chain,          \* the fibres waiting for one another, the running
                          \* one last; empty while the host runs
          idle,           \* the fibres that can be called (again)
          assigned,       \* the modules that have assigned their variable
          complete,       \* those whose initialiser has returned
          failed,         \* those whose initialiser has aborted
          starts,         \* per module: how often its initialiser was entered
          early,          \* modules whose variable was imported without a value
          interrupted,    \* those whose initialiser was left by a yield
          depends,        \* which initialisers needed which others to return
          requests        \* calls of wrencInitModule so far

registryVars == <<m_userModules, initialising, chain, idle, assigned, complete,
                  failed, starts, early, interrupted, depends, requests>>

MainFibre == "main"
RegistryFibres == {MainFibre} \cup ImportFibres

RegistryInit ==
    /\ m_userModules = {}
    /\ initialising = [f \in RegistryFibres |-> <<>>]
    /\ chain = <<>>
    /\ idle = ImportFibres
    /\ assigned = {} /\ complete = {} /\ failed = {}
    /\ starts = [m \in UserModules |-> 0]
    /\ early = {} /\ interrupted = {} /\ depends = {}
    /\ requests = 0

RunningFibre == chain[Len(chain)]
Runs == chain # <<>>
Importing == initialising[RunningFibre]

(* The innermost initialiser that is running or waiting: its own fibre may  *)
(* be further up the chain.                                                 *)
Busy == {i \in DOMAIN chain : initialising[chain[i]] # <<>>}
Innermost ==
    {Last(initialising[chain[i]]) : i \in {i \in Busy : \A j \in Busy : j <= i}}
DependsOn(ms) == depends' = depends \cup (Innermost \X (ms \ (complete \cup failed)))

(* wren_get_module_global after an import: the value as it is now.          *)
CopyVariable(m) == early' = IF m \in assigned THEN early ELSE early \cup {m}

(* Faulty variant: the variable is read before the initialiser has run.     *)
InitModuleAfterImport(f, m) ==
    /\ m \notin m_userModules
    /\ m_userModules' = m_userModules \cup {m}
    /\ initialising' = [initialising EXCEPT ![f] = Append(@, m)]
    /\ starts' = [starts EXCEPT ![m] = @ + 1]
    /\ CopyVariable(m)

(* GetOrInitModule for a module that is not registered yet: it is           *)
(* registered and its initialiser starts.  If it has none, or lacks the     *)
(* variable that is imported, the fibre aborts: AbortFibre.                 *)
InitModule(f, m) ==
    /\ m \notin m_userModules
    /\ m_userModules' = m_userModules \cup {m}
    /\ initialising' = [initialising EXCEPT ![f] = Append(@, m)]
    /\ starts' = [starts EXCEPT ![m] = @ + 1]
    /\ UNCHANGED early

(* wrencInitModule.  A module that is registered is not looked at again.    *)
RequestModule(m) ==
    /\ ~Runs
    /\ requests < MaxInitCalls
    /\ requests' = requests + 1
    /\ \/ /\ InitModule(MainFibre, m)
          /\ chain' = <<MainFibre>>
       \/ /\ m \in m_userModules
          /\ UNCHANGED <<m_userModules, initialising, starts, early, chain>>
    /\ UNCHANGED <<idle, assigned, complete, failed, interrupted, depends>>

(* wren_import_module and, if the module is there already, the variable.    *)
Import(m) ==
    /\ Runs
    /\ \/ InitModule(RunningFibre, m)
       \/ /\ m \in m_userModules
          /\ CopyVariable(m)
          /\ UNCHANGED <<m_userModules, initialising, starts>>
    /\ DependsOn({m})
    /\ UNCHANGED <<chain, idle, assigned, complete, failed, interrupted, requests>>

(* The initialiser assigns the module's variable. *)
AssignVariable ==
    /\ Runs /\ Importing # <<>>
    /\ assigned' = assigned \cup {Importing[Len(Importing)]}
    /\ assigned' # assigned
    /\ UNCHANGED <<m_userModules, initialising, chain, idle, complete, failed,
                   starts, early, interrupted, depends, requests>>

(* An initialiser returns, to the import or to the host that started it.    *)
InitialiserReturns ==
    /\ Runs /\ Importing # <<>>
    /\ LET m == Importing[Len(Importing)]
           byHost == RunningFibre = MainFibre /\ Len(Importing) = 1
       IN
       /\ m \in assigned
       /\ initialising' = [initialising EXCEPT ![RunningFibre] = Front(@)]
       /\ complete' = complete \cup {m}
       /\ chain' = IF byHost THEN <<>> ELSE chain
    /\ UNCHANGED <<m_userModules, idle, assigned, failed, starts, early, interrupted,
                   depends, requests>>

(* Fiber.try on a new fibre, or on one that has yielded. *)
TryFibre(f) ==
    /\ Runs
    /\ f \in idle
    /\ chain' = Append(chain, f)
    /\ idle' = idle \ {f}
    /\ DependsOn(ToSet(initialising[f]))
    /\ UNCHANGED <<m_userModules, initialising, assigned, complete, failed, starts,
                   early, interrupted, requests>>

YieldFibre ==
    /\ Runs /\ RunningFibre # MainFibre
    /\ chain' = Front(chain)
    /\ idle' = idle \cup {RunningFibre}
    /\ interrupted' = interrupted \cup ToSet(Importing)
    /\ UNCHANGED <<m_userModules, initialising, assigned, complete, failed, starts,
                   early, depends, requests>>

FibreReturns ==
    /\ Runs /\ RunningFibre # MainFibre /\ Importing = <<>>
    /\ chain' = Front(chain)
    /\ UNCHANGED <<m_userModules, initialising, idle, assigned, complete, failed,
                   starts, early, interrupted, depends, requests>>

(* Faulty variant: a module that fails is taken off the list again.         *)
AbortFibreForgetting ==
    /\ Runs
    /\ failed' = failed \cup ToSet(Importing)
    /\ m_userModules' = m_userModules \ ToSet(Importing)
    /\ initialising' = [initialising EXCEPT ![RunningFibre] = <<>>]
    /\ chain' = Front(chain)
    /\ UNCHANGED <<idle, assigned, complete, starts, early, interrupted, depends,
                   requests>>

(* An abort leaves every initialiser on the fibre's stack; the try that     *)
(* called the fibre returns, or wrencInitModule does, with false.  The      *)
(* modules stay registered.                                                 *)
AbortFibre ==
    /\ Runs
    /\ failed' = failed \cup ToSet(Importing)
    /\ initialising' = [initialising EXCEPT ![RunningFibre] = <<>>]
    /\ chain' = Front(chain)
    /\ UNCHANGED <<m_userModules, idle, assigned, complete, starts, early,
                   interrupted, depends, requests>>

RegistryNext ==
    \/ \E m \in HostModules : RequestModule(m)
    \/ \E m \in UserModules : Import(m)
    \/ AssignVariable \/ InitialiserReturns
    \/ \E f \in ImportFibres : TryFibre(f)
    \/ YieldFibre \/ FibreReturns \/ AbortFibre

RegistrySpec == RegistryInit /\ [][RegistryNext]_registryVars

-----------------------------------------------------------------------------
InProgress == UNION {ToSet(initialising[f]) : f \in RegistryFibres}

(* A module's initialiser is entered at most once, however imports form     *)
(* cycles, fibres overlap, initialisers fail and the host asks again.  The  *)
(* registry holds the modules that were ever started, and the run of each   *)
(* is accounted for: it is complete, it failed, or it is on exactly one     *)
(* stack.                                                                   *)
RegistryExact ==
    /\ \A m \in UserModules : starts[m] <= 1
    /\ m_userModules = complete \cup failed \cup InProgress
    /\ complete \cap failed = {}
    /\ (complete \cup failed) \cap InProgress = {}
    /\ \A f, g \in RegistryFibres :
          \A i \in DOMAIN initialising[f], j \in DOMAIN initialising[g] :
              initialising[f][i] = initialising[g][j] => f = g /\ i = j

(* The initialiser of m needs itself to return, perhaps by way of others:   *)
(* m is in every set that what it needs leads to.                           *)
DependsOnItself(m) ==
    \A X \in SUBSET UserModules :
        (\A x \in X \cup {m}, y \in UserModules : <<x, y>> \in depends => y \in X)
          => m \in X

(* An import finds a variable without its value only where the program      *)
(* brought that about itself: the module's initialiser failed, was left by  *)
(* a yield, or depends on itself.                                           *)
EarlyOnlyInCycle ==
    \A m \in early : m \in failed \cup interrupted \/ DependsOnItself(m)
=============================================================================
