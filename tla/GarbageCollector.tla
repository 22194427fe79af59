-------------------------- MODULE GarbageCollector --------------------------
(***************************************************************************)
(* The tri-colour collector (rtsrc/GCTracingScanner.cpp and                *)
(* WrenRuntime::RunGC) next to the program whose objects it collects.      *)
(* System.gc() is the only thing that starts a cycle, so a cycle never     *)
(* interleaves with Wren code; marking is one step per iteration of the    *)
(* loop in EndGCCycle.  Fibres are objects too: the running one is         *)
(* ObjFibre::currentFibre, the others keep the values of their suspended   *)
(* stacks alive.  The main fibre is a static object: it is marked like any *)
(* other but is not in the allocator and is never swept.                   *)
(*                                                                         *)
(* refs[o] are the fields of o; for a fibre its function, the values on    *)
(* its stack while it has one, and its error when it has failed.  The      *)
(* program may drop any of them for the running fibre: that it cannot drop *)
(* the function leaves fewer behaviours than are checked here.             *)
(* Call, transfer, yield and termination are those of module Fibres, cut   *)
(* down to what the collector sees of them.                                *)
(***************************************************************************)
EXTENDS Naturals, FiniteSets

CONSTANTS Objects,            \* addresses of objects, the static ones included
          FibreObjs,          \* those that hold fibres
          Main,               \* the static main fibre
          ImportsAfterGC,     \* the program imports modules after it has
                              \* called System.gc(), not only before
          HoldsRunningFibre,  \* the program only calls System.gc() while it
                              \* also holds a reference to the running fibre
          NULL,               \* a null pointer
          MaxRefs, MaxCycles, MaxImports  \* bounds of the instance

ASSUME GCAssumption ==
    /\ FibreObjs \subseteq Objects /\ Main \in FibreObjs /\ NULL \notin Objects
    /\ ImportsAfterGC \in BOOLEAN
    /\ HoldsRunningFibre \in BOOLEAN
    /\ MaxRefs \in Nat /\ MaxCycles \in Nat /\ MaxImports \in Nat

VARIABLES
    live,          \* the objects that are allocated
    refs,          \* what each object refers to
    parent,        \* ObjFibre::m_parent
    state,         \* ObjFibre::m_state
    globals,       \* what the module roots report
    current,       \* ObjFibre::currentFibre
    gcWord,        \* Obj::gcWord
    hasScanner,    \* m_gcScanner is not null
    cycles,        \* cycles begun by this scanner
    totalCycles,   \* cycles begun in all (bounded)
    imports,       \* modules imported so far (bounded)
    marking        \* between BeginGCCycle and the end of EndGCCycle

program == <<live, refs, parent, state, globals, current>>
scanner == <<hasScanner, cycles, totalCycles, marking>>
gcVars == <<program, gcWord, scanner, imports>>

(***************************************************************************)
(* The GC word: a grey object's is a pointer, hence even; here 0, as only  *)
(* the set of the objects on the grey list matters, not its order.  Black  *)
(* and white words are odd numbers.                                        *)
(***************************************************************************)
GreyWord == 0
INITIAL_GC_WORD == 1
FirstWhiteNumber == 11259137   \* 0xabcd01, the initial m_currentWhiteNumber

(* m_currentWhiteNumber once a scanner has begun its k-th cycle. *)
WhiteNumber(k) == FirstWhiteNumber + 2 * k

IsGrey(o) == gcWord[o] = GreyWord
IsWhite(o) == gcWord[o] = WhiteNumber(cycles)

(* Faulty variant: an object that has been scanned is added again. *)
AddWhiteAgain(word, white, objs) ==
    [o \in Objects |-> IF o \in objs THEN GreyWord ELSE word[o]]

(* AddToGreyList for a set of objects: grey and white ones stay as they are.*)
AddToGreyList(word, white, objs) ==
    [o \in Objects |->
        IF o \in objs /\ word[o] # GreyWord /\ word[o] # white
          THEN GreyWord ELSE word[o]]

(***************************************************************************)
(* Reachability.  A fibre's MarkGCValues reports its parent as well.       *)
(***************************************************************************)
Reports(o) ==
    refs[o] \cup {p \in Objects : o \in FibreObjs /\ parent[o] = p}
Closed(X) == \A o \in X : Reports(o) \subseteq X
ReachableFrom(S) ==
    {o \in Objects : \A X \in SUBSET Objects : S \subseteq X /\ Closed(X) => o \in X}

(* What the cycle starts from: modules and the current thread. *)
Roots == globals \cup Reports(current)

(* What the program can still get at: the runtime itself holds on to the    *)
(* running fibre.                                                           *)
InUse == ReachableFrom(globals \cup {current})

GCInit ==
    /\ live = {Main}
    /\ refs = [o \in Objects |-> {}]
    /\ parent = [f \in FibreObjs |-> NULL]
    /\ state = [f \in FibreObjs |-> IF f = Main THEN "RUNNING" ELSE "NOT_STARTED"]
    /\ globals = {}
    /\ current = Main
    /\ gcWord = [o \in Objects |-> INITIAL_GC_WORD]
    /\ hasScanner = FALSE
    /\ cycles = 0 /\ totalCycles = 0 /\ imports = 0
    /\ marking = FALSE

(***************************************************************************)
(* The program.                                                            *)
(***************************************************************************)
ProgramRuns == ~marking

(* A new object ends up on the running fibre's stack.  It may refer to one  *)
(* of its constructor's arguments: a fibre to its function, for instance.   *)
Allocate(o, argument) ==
    /\ ProgramRuns
    /\ o \notin live
    /\ argument \subseteq InUse
    /\ Cardinality(refs[current]) < MaxRefs
    /\ live' = live \cup {o}
    /\ refs' = [refs EXCEPT ![o] = argument, ![current] = @ \cup {o}]
    /\ gcWord' = [gcWord EXCEPT ![o] = INITIAL_GC_WORD]
    /\ UNCHANGED <<parent, state, globals, current, scanner, imports>>

(* The program changes fields and the running fibre's stack; the stacks of  *)
(* the other fibres stand still.                                            *)
CanBeWritten(p) == p \in InUse /\ (p \in FibreObjs => p = current)

Store(p, o) ==
    /\ ProgramRuns
    /\ CanBeWritten(p)
    /\ o \in InUse
    /\ o \notin refs[p]
    /\ Cardinality(refs[p]) < MaxRefs
    /\ refs' = [refs EXCEPT ![p] = @ \cup {o}]
    /\ UNCHANGED <<live, parent, state, globals, current, gcWord, scanner, imports>>

Drop(p, o) ==
    /\ ProgramRuns
    /\ CanBeWritten(p)
    /\ o \in refs[p]
    /\ refs' = [refs EXCEPT ![p] = @ \ {o}]
    /\ UNCHANGED <<live, parent, state, globals, current, gcWord, scanner, imports>>

AssignGlobal(o) ==
    /\ ProgramRuns
    /\ o \in InUse
    /\ globals' = {o}
    /\ globals' # globals
    /\ UNCHANGED <<live, refs, parent, state, current, gcWord, scanner, imports>>

(* f.call() and f.transfer().  The caller's frame keeps f alive only if it  *)
(* uses f again afterwards.                                                 *)
SwitchTo(f, callerState) ==
    /\ ProgramRuns
    /\ f \in InUse
    /\ state[f] \in {"NOT_STARTED", "SUSPENDED"}
    /\ state' = [state EXCEPT ![current] = callerState, ![f] = "RUNNING"]
    /\ current' = f
    /\ \E kept \in {refs[current], refs[current] \ {f}} :
         refs' = [refs EXCEPT ![current] = kept]
    /\ UNCHANGED <<live, globals, gcWord, scanner, imports>>

CallFibre(f) ==
    /\ f # Main
    /\ SwitchTo(f, "WAITING")
    /\ parent' = [parent EXCEPT ![f] = current]

TransferTo(f) ==
    /\ SwitchTo(f, "SUSPENDED")
    /\ UNCHANGED parent

(* The parent is resumed; ResumeSuspended abort()s if it cannot be.         *)
BackToParent(left) ==
    /\ ProgramRuns
    /\ parent[current] # NULL
    /\ state[parent[current]] \in {"SUSPENDED", "WAITING"}
    /\ current' = parent[current]
    /\ state' = [state EXCEPT ![current] = left, ![current'] = "RUNNING"]
    /\ UNCHANGED <<live, parent, globals, gcWord, scanner, imports>>

Yield ==
    /\ BackToParent("SUSPENDED")
    /\ UNCHANGED refs

(* The fibre's function returns or aborts: HandleResumed drops the stack    *)
(* and the function; an error may be kept.                                  *)
Finish ==
    /\ BackToParent("DONE")
    /\ \E error \in {{}} \cup {{o} : o \in refs[current]} :
         refs' = [refs EXCEPT ![current] = error]

(* GetOrInitModule destroys the scanner, to have its table of functions     *)
(* rebuilt.                                                                 *)
ImportModule ==
    /\ ProgramRuns
    /\ imports < MaxImports
    /\ hasScanner => ImportsAfterGC
    /\ imports' = imports + 1
    /\ hasScanner' = FALSE
    /\ cycles' = 0
    /\ UNCHANGED <<program, gcWord, totalCycles, marking>>

(***************************************************************************)
(* RunGC.                                                                  *)
(***************************************************************************)

(* Creates the scanner if there is none, BeginGCCycle, and the roots.       *)
(* MarkCurrentThreadRoots has the current fibre report its values; it does  *)
(* not mark the fibre itself.                                               *)
BeginCycle ==
    /\ ProgramRuns
    /\ totalCycles < MaxCycles
    /\ HoldsRunningFibre => current \in ReachableFrom(Roots) \cup {Main}
    /\ hasScanner' = TRUE
    /\ cycles' = cycles + 1
    /\ totalCycles' = totalCycles + 1
    /\ gcWord' = AddToGreyList(gcWord, WhiteNumber(cycles'), Roots)
    /\ marking' = TRUE
    /\ UNCHANGED <<program, imports>>

(* Faulty variant: the object is coloured, its references are not. *)
MarkOnlyObject(o) ==
    /\ marking
    /\ IsGrey(o)
    /\ gcWord' = [gcWord EXCEPT ![o] = WhiteNumber(cycles)]
    /\ UNCHANGED <<program, scanner, imports>>

(* One iteration of EndGCCycle's loop.  The object is still grey while it   *)
(* reports its references, so it does not add itself again.                 *)
MarkObject(o) ==
    /\ marking
    /\ IsGrey(o)
    /\ gcWord' = [AddToGreyList(gcWord, WhiteNumber(cycles), Reports(o))
                     EXCEPT ![o] = WhiteNumber(cycles)]
    /\ UNCHANGED <<program, scanner, imports>>

(* The memory of a freed object holds no object any more. *)
Freed(kept) ==
    /\ refs' = [o \in Objects |-> IF o \in kept THEN refs[o] ELSE {}]
    /\ parent' = [f \in FibreObjs |-> IF f \in kept THEN parent[f] ELSE NULL]
    /\ state' = [f \in FibreObjs |-> IF f \in kept THEN state[f] ELSE "NOT_STARTED"]
    /\ gcWord' = [o \in Objects |-> IF o \in kept THEN gcWord[o] ELSE INITIAL_GC_WORD]

(* Faulty variants: the sweep is given the previous cycle's white number;   *)
(* it frees only what was never marked.                                     *)
SweepPreviousWhite ==
    /\ marking
    /\ \A o \in Objects : ~IsGrey(o)
    /\ live' = {o \in live : gcWord[o] = WhiteNumber(cycles - 1) \/ o = Main}
    /\ Freed(live')
    /\ marking' = FALSE
    /\ UNCHANGED <<globals, current, hasScanner, cycles, totalCycles, imports>>
SweepNeverMarked ==
    /\ marking
    /\ \A o \in Objects : ~IsGrey(o)
    /\ live' = {o \in live : gcWord[o] # INITIAL_GC_WORD \/ o = Main}
    /\ Freed(live')
    /\ marking' = FALSE
    /\ UNCHANGED <<globals, current, hasScanner, cycles, totalCycles, imports>>

(* DeallocateUnreachableObjects.  ~ObjFibre does nothing, so the stack of a *)
(* fibre that is freed stays mapped.                                        *)
Sweep ==
    /\ marking
    /\ \A o \in Objects : ~IsGrey(o)
    /\ live' = {o \in live : IsWhite(o) \/ o = Main}
    /\ Freed(live')
    /\ marking' = FALSE
    /\ UNCHANGED <<globals, current, hasScanner, cycles, totalCycles, imports>>

GCNext ==
    \/ \E o, a \in Objects : Allocate(o, {}) \/ Allocate(o, {a})
    \/ \E p, o \in Objects : Store(p, o) \/ Drop(p, o)
    \/ \E o \in Objects : AssignGlobal(o)
    \/ \E f \in FibreObjs : CallFibre(f) \/ TransferTo(f)
    \/ Yield
    \/ Finish
    \/ ImportModule
    \/ BeginCycle
    \/ \E o \in Objects : MarkObject(o)
    \/ Sweep

GCSpec == GCInit /\ [][GCNext]_gcVars

(***************************************************************************)
(* What makes the collector correct.                                       *)
(***************************************************************************)

(* Nothing the program can still reach has been freed: EndGCCycle           *)
(* deallocates black objects only, "as we've confirmed they're unreachable".*)
InUseIsLive == InUse \subseteq live

(* A sweep frees all the garbage and nothing else: what remains allocated   *)
(* is exactly what the roots reach (and the static main fibre).             *)
CollectionIsExact ==
    [][marking /\ ~marking' => live' = live \cap (ReachableFrom(Roots) \cup {Main})]_gcVars

(* The tri-colour invariant: an object that has been scanned in this cycle  *)
(* refers to no black object, and the roots are not black.  Between cycles  *)
(* no object is grey, or BeginGCCycle would abort().                        *)
TriColour ==
    /\ marking =>
         /\ \A o \in live : IsWhite(o) => \A r \in Reports(o) : IsGrey(r) \/ IsWhite(r)
         /\ \A r \in Roots : IsGrey(r) \/ IsWhite(r)
    /\ ~marking => \A o \in Objects : ~IsGrey(o)

(* An object is scanned at most once in a cycle and every step of the       *)
(* marking loop scans one, so that the loop ends, cycles in the object      *)
(* graph notwithstanding.                                                   *)
ScannedOnce ==
    [][marking /\ marking' =>
          \E o \in Objects : /\ ~IsWhite(o)
                            /\ IsWhite(o)'
                            /\ \A p \in Objects : IsWhite(p) => IsWhite(p)']_gcVars
=============================================================================
