------------------------------ MODULE GCProofs ------------------------------
(***************************************************************************)
(* Proofs about the collector, for any set of objects, any object graph    *)
(* and any number of cycles: the tri-colour invariant, that what is in use *)
(* stays allocated, and that a sweep frees exactly what the roots do not   *)
(* reach.  They are about programs that import no module once they have    *)
(* collected; run gc_import shows what happens otherwise.                  *)
(***************************************************************************)
EXTENDS GarbageCollector, TLAPS

FibreStates == {"NOT_STARTED", "RUNNING", "SUSPENDED", "WAITING", "DONE"}

GCTypeOK ==
    /\ live \subseteq Objects
    /\ refs \in [Objects -> SUBSET Objects]
    /\ parent \in [FibreObjs -> FibreObjs \cup {NULL}]
    /\ state \in [FibreObjs -> FibreStates]
    /\ globals \subseteq Objects
    /\ current \in FibreObjs
    /\ gcWord \in [Objects -> Nat]
    /\ hasScanner \in BOOLEAN
    /\ cycles \in Nat /\ totalCycles \in Nat /\ imports \in Nat
    /\ marking \in BOOLEAN

(* What the scanner relies on: no word is ahead of the current white number,*)
(* so that a new cycle starts with no white object.                         *)
WordsBehind ==
    /\ ~hasScanner => cycles = 0
    /\ \A o \in Objects : gcWord[o] <= WhiteNumber(cycles)

(* The tri-colour invariant, for every object; and only what the roots      *)
(* reach is marked.                                                         *)
MarkingSound ==
    marking =>
        /\ \A o \in Objects : IsWhite(o) => \A r \in Reports(o) : IsGrey(r) \/ IsWhite(r)
        /\ \A r \in Roots : IsGrey(r) \/ IsWhite(r)
MarkingPrecise ==
    marking => \A o \in Objects : IsGrey(o) \/ IsWhite(o) => o \in ReachableFrom(Roots)
NothingGrey == ~marking => \A o \in Objects : ~IsGrey(o)

ScannerInv == WordsBehind /\ MarkingSound /\ MarkingPrecise /\ NothingGrey

(* Memory that holds no fibre has no parent in it. *)
FreeHasNoParent == \A f \in FibreObjs : f \notin live => parent[f] = NULL

(* The program has promised to hold on to the running fibre when it         *)
(* collects.                                                                *)
RunningFibreHeld ==
    marking /\ HoldsRunningFibre => current \in ReachableFrom(Roots) \cup {Main}

HeapInv == InUseIsLive /\ FreeHasNoParent /\ RunningFibreHeld

(***************************************************************************)
(* Types.                                                                  *)
(***************************************************************************)

(* White numbers grow from cycle to cycle and are no other word. *)
LEMMA WhiteNumbers ==
    ASSUME NEW k \in Nat
    PROVE  WhiteNumber(k) \in Nat /\ WhiteNumber(k) > INITIAL_GC_WORD
           /\ WhiteNumber(k) # GreyWord /\ WhiteNumber(k + 1) > WhiteNumber(k)
  BY DEF WhiteNumber, FirstWhiteNumber, INITIAL_GC_WORD, GreyWord

(* What MarkGCValues of an object reports are objects. *)
LEMMA ReportsAreObjects ==
    ASSUME GCTypeOK, NEW o \in Objects PROVE Reports(o) \subseteq Objects
  BY DEF GCTypeOK, Reports

(* The roots, the current fibre among them, are objects. *)
LEMMA RootsAreObjects ==
    ASSUME GCTypeOK PROVE Roots \subseteq Objects /\ current \in Objects
  BY ReportsAreObjects, GCAssumption DEF GCTypeOK, Roots

(* AddToGreyList leaves a number in the GC word of every object. *)
LEMMA AddToGreyListType ==
    ASSUME NEW word \in [Objects -> Nat], NEW white, NEW objs
    PROVE  AddToGreyList(word, white, objs) \in [Objects -> Nat]
  BY DEF AddToGreyList, GreyWord

(* The heap has its type when the program starts. *)
LEMMA InitType == GCInit => GCTypeOK
  <1> SUFFICES ASSUME GCInit PROVE GCTypeOK
    OBVIOUS
  <1>1. state \in [FibreObjs -> FibreStates]
    BY DEF GCInit, FibreStates
  <1>2. refs \in [Objects -> SUBSET Objects] /\ parent \in [FibreObjs -> FibreObjs \cup {NULL}]
    BY DEF GCInit
  <1> QED
    BY <1>1, <1>2, GCAssumption DEF GCInit, GCTypeOK, INITIAL_GC_WORD

(* Switching to another fibre preserves the type. *)
LEMMA SwitchType ==
    ASSUME GCTypeOK, NEW f \in FibreObjs, NEW s \in FibreStates, SwitchTo(f, s),
           parent' \in [FibreObjs -> FibreObjs \cup {NULL}]
    PROVE  GCTypeOK'
  <1>1. PICK kept \in {refs[current], refs[current] \ {f}} :
          refs' = [refs EXCEPT ![current] = kept]
    BY DEF SwitchTo
  <1>2. refs' \in [Objects -> SUBSET Objects]
    BY <1>1, GCAssumption DEF GCTypeOK
  <1> QED
    BY <1>2 DEF SwitchTo, GCTypeOK, scanner, FibreStates

(* Returning to the parent of the current fibre preserves the type. *)
LEMMA BackType ==
    ASSUME GCTypeOK, NEW s \in FibreStates, BackToParent(s),
           refs' \in [Objects -> SUBSET Objects]
    PROVE  GCTypeOK'
  BY DEF BackToParent, GCTypeOK, scanner, FibreStates

(* Every step of program and collector preserves the type. *)
LEMMA NextType == GCTypeOK /\ [GCNext]_gcVars => GCTypeOK'
  <1> SUFFICES ASSUME GCTypeOK, [GCNext]_gcVars PROVE GCTypeOK'
    OBVIOUS
  <1>1. ASSUME NEW o \in Objects, NEW a \in SUBSET Objects, Allocate(o, a) PROVE GCTypeOK'
    BY <1>1, GCAssumption DEF Allocate, GCTypeOK, scanner, INITIAL_GC_WORD
  <1>2. ASSUME NEW p \in Objects, NEW o \in Objects, Store(p, o) \/ Drop(p, o)
        PROVE GCTypeOK'
    BY <1>2 DEF Store, Drop, GCTypeOK, scanner
  <1>3. ASSUME NEW o \in Objects, AssignGlobal(o) PROVE GCTypeOK'
    BY <1>3 DEF AssignGlobal, GCTypeOK, scanner
  <1>4. ASSUME NEW f \in FibreObjs, CallFibre(f) PROVE GCTypeOK'
    BY <1>4, SwitchType DEF CallFibre, FibreStates, GCTypeOK
  <1>5. ASSUME NEW f \in FibreObjs, TransferTo(f) PROVE GCTypeOK'
    BY <1>5, SwitchType DEF TransferTo, FibreStates, GCTypeOK
  <1>6. CASE Yield
    BY <1>6, BackType DEF Yield, FibreStates, GCTypeOK
  <1>7. CASE Finish
    <2>1. PICK error \in {{}} \cup {{o} : o \in refs[current]} :
            refs' = [refs EXCEPT ![current] = error]
      BY <1>7, Zenon DEF Finish
    <2>2. error \subseteq Objects
      <3>1. refs[current] \subseteq Objects
        BY GCAssumption DEF GCTypeOK
      <3> QED
        BY <2>1, <3>1
    <2>3. refs' \in [Objects -> SUBSET Objects]
      BY <2>1, <2>2 DEF GCTypeOK
    <2> QED
      BY <1>7, <2>3, BackType DEF Finish, FibreStates
  <1>8. CASE ImportModule
    <2>1. /\ imports' = imports + 1 /\ hasScanner' = FALSE /\ cycles' = 0
          /\ UNCHANGED <<live, refs, parent, state, globals, current, gcWord, totalCycles,
                         marking>>
      BY <1>8 DEF ImportModule, program
    <2>2. imports' \in Nat /\ cycles' \in Nat /\ totalCycles' \in Nat
      BY <2>1 DEF GCTypeOK
    <2>3. hasScanner' \in BOOLEAN /\ marking' \in BOOLEAN
      BY <2>1, Zenon DEF GCTypeOK
    <2> QED
      BY <2>1, <2>2, <2>3, Zenon DEF GCTypeOK
  <1>9. CASE BeginCycle
    BY <1>9, AddToGreyListType DEF BeginCycle, program, GCTypeOK
  <1>10. ASSUME NEW o \in Objects, MarkObject(o) PROVE GCTypeOK'
    <2>1. /\ AddToGreyList(gcWord, WhiteNumber(cycles), Reports(o)) \in [Objects -> Nat]
          /\ WhiteNumber(cycles) \in Nat
      BY AddToGreyListType, WhiteNumbers DEF GCTypeOK
    <2>2. gcWord' \in [Objects -> Nat]
      BY <1>10, <2>1 DEF MarkObject
    <2> QED
      BY <1>10, <2>2 DEF MarkObject, program, scanner, GCTypeOK
  <1>11. CASE Sweep
    BY <1>11 DEF Sweep, Freed, GCTypeOK, FibreStates, INITIAL_GC_WORD
  <1>12. CASE UNCHANGED gcVars
    BY <1>12 DEF gcVars, program, scanner, GCTypeOK
  <1>13. ASSUME NEW o \in Objects, NEW a \in Objects, Allocate(o, {}) \/ Allocate(o, {a})
         PROVE GCTypeOK'
    BY <1>1, <1>13
  <1> QED
    BY <1>2, <1>3, <1>4, <1>5, <1>6, <1>7, <1>8, <1>9, <1>10, <1>11, <1>12, <1>13
    DEF GCNext

(***************************************************************************)
(* Reachability.                                                           *)
(***************************************************************************)

(* A closed set that holds the roots holds all that they reach. *)
LEMMA ReachableLeast ==
    ASSUME NEW S, NEW X \in SUBSET Objects, S \subseteq X, Closed(X)
    PROVE  ReachableFrom(S) \subseteq X
  BY DEF ReachableFrom

(* What is reachable from a set contains the set. *)
LEMMA ReachableHolds ==
    ASSUME NEW S \in SUBSET Objects PROVE S \subseteq ReachableFrom(S)
  BY DEF ReachableFrom

(* What is reachable is closed under what MarkGCValues reports. *)
LEMMA ReachableClosed ==
    ASSUME GCTypeOK, NEW S, NEW o \in ReachableFrom(S), NEW r \in Reports(o)
    PROVE  r \in ReachableFrom(S)
  <1>1. o \in Objects /\ r \in Objects
    BY ReportsAreObjects DEF ReachableFrom
  <1>2. ASSUME NEW X \in SUBSET Objects, S \subseteq X, Closed(X) PROVE r \in X
    BY <1>2 DEF ReachableFrom, Closed
  <1> QED
    BY <1>1, <1>2 DEF ReachableFrom

(***************************************************************************)
(* The scanner.                                                            *)
(***************************************************************************)

(* Steps that leave the object graph and the words alone, or change them    *)
(* only between cycles.                                                     *)
LEMMA ProgramScanner ==
    ASSUME GCTypeOK, ScannerInv, ~marking, UNCHANGED <<hasScanner, cycles, marking>>,
           \A o \in Objects : gcWord'[o] \in {gcWord[o], INITIAL_GC_WORD}
    PROVE  ScannerInv'
  <1>1. \A o \in Objects : gcWord'[o] <= WhiteNumber(cycles)
    <2> TAKE o \in Objects
    <2>1. cycles \in Nat /\ gcWord[o] <= WhiteNumber(cycles)
      BY DEF GCTypeOK, ScannerInv, WordsBehind
    <2>2. INITIAL_GC_WORD <= WhiteNumber(cycles)
      BY <2>1 DEF WhiteNumber, FirstWhiteNumber, INITIAL_GC_WORD
    <2> QED
      BY <2>1, <2>2
  <1>2. \A o \in Objects : gcWord'[o] # GreyWord
    BY DEF ScannerInv, NothingGrey, IsGrey, GreyWord, INITIAL_GC_WORD
  <1> QED
    BY <1>1, <1>2 DEF ScannerInv, WordsBehind, MarkingSound, MarkingPrecise, NothingGrey,
                      IsGrey, WhiteNumber

(* While the program stands still, what an object reports, the roots and
   reachability stay as they are. *)
LEMMA ReportsUnchanged ==
    ASSUME UNCHANGED program
    PROVE  /\ \A o \in Objects : Reports(o)' = Reports(o)
           /\ Roots' = Roots
           /\ \A S : ReachableFrom(S)' = ReachableFrom(S)
  BY DEF program, Reports, Roots, ReachableFrom, Closed

(* BeginGCCycle preserves the scanner's invariant: exactly the roots turn grey,
   everything else that is allocated is white for the new cycle. *)
LEMMA BeginScanner ==
    ASSUME GCTypeOK, ScannerInv, BeginCycle PROVE ScannerInv'
  <1>1. /\ ~marking /\ marking' /\ hasScanner' = TRUE /\ cycles \in Nat
        /\ cycles' = cycles + 1 /\ UNCHANGED program
        /\ gcWord' = AddToGreyList(gcWord, WhiteNumber(cycles'), Roots)
    BY DEF BeginCycle, ProgramRuns, GCTypeOK
  <1>2. /\ Roots \subseteq Objects
        /\ \A o \in Objects : gcWord[o] \in Nat /\ gcWord[o] <= WhiteNumber(cycles)
                               /\ gcWord[o] # GreyWord
    BY <1>1, RootsAreObjects DEF GCTypeOK, ScannerInv, WordsBehind, NothingGrey, IsGrey
  <1>3. \A o \in Objects : gcWord[o] < WhiteNumber(cycles')
    BY <1>1, <1>2, WhiteNumbers DEF WhiteNumber, FirstWhiteNumber
  <1>4. \A o \in Objects : gcWord'[o] = IF o \in Roots THEN GreyWord ELSE gcWord[o]
    BY <1>1, <1>2, <1>3 DEF AddToGreyList
  <1>5. \A o \in Objects : ~IsWhite(o)' /\ (IsGrey(o)' <=> o \in Roots)
    BY <1>1, <1>2, <1>3, <1>4 DEF IsWhite, IsGrey, GreyWord, WhiteNumber, FirstWhiteNumber
  <1>6. Roots' = Roots /\ ReachableFrom(Roots)' = ReachableFrom(Roots)
    BY <1>1, ReportsUnchanged DEF program, Reports, Roots, ReachableFrom, Closed
  <1>7. WordsBehind'
    BY <1>1, <1>2, <1>3, <1>4 DEF WordsBehind, GreyWord, WhiteNumber, FirstWhiteNumber
  <1>8. MarkingSound'
    BY <1>2, <1>5, <1>6 DEF MarkingSound
  <1>9. MarkingPrecise'
    BY <1>2, <1>5, <1>6, ReachableHolds DEF MarkingPrecise
  <1> QED
    BY <1>1, <1>7, <1>8, <1>9 DEF ScannerInv, NothingGrey

(* What an iteration of the marking loop does to the colours. *)
LEMMA MarkColours ==
    ASSUME GCTypeOK, NEW o \in Objects, MarkObject(o)
    PROVE  /\ IsWhite(o)' /\ ~IsWhite(o)
           /\ \A p \in Objects : IsWhite(p) => IsWhite(p)'
           /\ \A p \in Objects : IsWhite(p)' => p = o \/ IsWhite(p)
           /\ \A p \in Objects : IsGrey(p) \/ IsWhite(p) \/ p \in Reports(o)
                                 => IsGrey(p)' \/ IsWhite(p)'
           /\ \A p \in Objects : IsGrey(p)' => IsGrey(p) \/ p \in Reports(o)
           /\ \A p \in Objects : gcWord'[p] \in {gcWord[p], GreyWord, WhiteNumber(cycles)}
  <1>1. /\ gcWord[o] = GreyWord /\ cycles' = cycles /\ cycles \in Nat
        /\ WhiteNumber(cycles) # GreyWord
    BY WhiteNumbers DEF MarkObject, IsGrey, scanner, GCTypeOK
  <1>2. \A p \in Objects :
          gcWord'[p] = IF p = o THEN WhiteNumber(cycles)
                       ELSE IF p \in Reports(o) /\ gcWord[p] # WhiteNumber(cycles)
                         THEN GreyWord ELSE gcWord[p]
    BY DEF MarkObject, AddToGreyList, GCTypeOK
  <1>3. \A p \in Objects : /\ IsWhite(p)' <=> gcWord'[p] = WhiteNumber(cycles)
                           /\ IsGrey(p)' <=> gcWord'[p] = GreyWord
    BY <1>1 DEF IsWhite, IsGrey, WhiteNumber, GreyWord
  <1> HIDE DEF WhiteNumber, GreyWord
  <1> QED
    BY <1>1, <1>2, <1>3 DEF IsWhite, IsGrey

(* One turn of the marking loop preserves the scanner's invariant: the scanned
   object turns black, what it reports is at least grey. *)
LEMMA MarkScanner ==
    ASSUME GCTypeOK, ScannerInv, NEW o \in Objects, MarkObject(o) PROVE ScannerInv'
  <1>1. /\ marking /\ marking' /\ IsGrey(o) /\ UNCHANGED program
        /\ UNCHANGED <<hasScanner, cycles>> /\ cycles \in Nat
    BY DEF MarkObject, scanner, GCTypeOK
  <1>2. /\ \A p \in Objects : Reports(p)' = Reports(p) /\ Reports(p) \subseteq Objects
        /\ Roots' = Roots /\ Roots \subseteq Objects
        /\ ReachableFrom(Roots)' = ReachableFrom(Roots)
    BY <1>1, ReportsAreObjects, RootsAreObjects
       DEF program, Reports, Roots, ReachableFrom, Closed
  <1>3. WordsBehind'
    <2> SUFFICES ASSUME NEW p \in Objects PROVE gcWord'[p] <= WhiteNumber(cycles)
      BY <1>1 DEF ScannerInv, WordsBehind, WhiteNumber
    <2>1. gcWord[p] <= WhiteNumber(cycles) /\ GreyWord <= WhiteNumber(cycles)
          /\ WhiteNumber(cycles) \in Nat
      BY <1>1 DEF ScannerInv, WordsBehind, WhiteNumber, FirstWhiteNumber, GreyWord
    <2> QED
      BY <2>1, MarkColours
  <1>4. MarkingSound'
    <2>1. ASSUME NEW p \in Objects, IsWhite(p)', NEW r \in Reports(p)
          PROVE  IsGrey(r)' \/ IsWhite(r)'
      <3>1. r \in Objects
        BY <1>2
      <3>2. CASE p = o
        BY <3>1, <3>2, MarkColours
      <3>3. CASE IsWhite(p)
        BY <1>1, <2>1, <3>1, <3>3, MarkColours DEF ScannerInv, MarkingSound
      <3> QED
        BY <2>1, <3>2, <3>3, MarkColours
    <2>2. ASSUME NEW r \in Roots PROVE IsGrey(r)' \/ IsWhite(r)'
      BY <1>1, <1>2, <2>2, MarkColours DEF ScannerInv, MarkingSound
    <2> QED
      BY <1>2, <2>1, <2>2 DEF MarkingSound
  <1>5. MarkingPrecise'
    <2> SUFFICES ASSUME NEW p \in Objects, IsGrey(p)' \/ IsWhite(p)'
                 PROVE  p \in ReachableFrom(Roots)
      BY <1>2 DEF MarkingPrecise
    <2>1. o \in ReachableFrom(Roots)
      BY <1>1 DEF ScannerInv, MarkingPrecise
    <2>2. CASE p \in Reports(o)
      BY <2>1, <2>2, ReachableClosed
    <2>3. CASE p = o \/ IsGrey(p) \/ IsWhite(p)
      BY <1>1, <2>1, <2>3 DEF ScannerInv, MarkingPrecise
    <2> QED
      BY <2>2, <2>3, MarkColours
  <1> QED
    BY <1>1, <1>3, <1>4, <1>5 DEF ScannerInv, NothingGrey

(* The sweep preserves the scanner's invariant: without grey objects the
   survivors are exactly the reachable ones. *)
LEMMA SweepScanner ==
    ASSUME GCTypeOK, ScannerInv, Sweep PROVE ScannerInv'
  <1>1. /\ ~marking' /\ UNCHANGED <<hasScanner, cycles>> /\ cycles \in Nat
        /\ \A o \in Objects : gcWord[o] # GreyWord
        /\ \A o \in Objects : gcWord'[o] \in {gcWord[o], INITIAL_GC_WORD}
    BY DEF Sweep, Freed, IsGrey, GCTypeOK
  <1>2. WordsBehind'
    <2> SUFFICES ASSUME NEW o \in Objects PROVE gcWord'[o] <= WhiteNumber(cycles)
      BY <1>1 DEF ScannerInv, WordsBehind, WhiteNumber
    <2>1. gcWord[o] <= WhiteNumber(cycles) /\ INITIAL_GC_WORD <= WhiteNumber(cycles)
      BY <1>1 DEF ScannerInv, WordsBehind, WhiteNumber, FirstWhiteNumber, INITIAL_GC_WORD
    <2> QED
      BY <1>1, <2>1
  <1>3. NothingGrey'
    BY <1>1 DEF NothingGrey, IsGrey, GreyWord, INITIAL_GC_WORD
  <1> QED
    BY <1>1, <1>2, <1>3 DEF ScannerInv, MarkingSound, MarkingPrecise

(* What the steps of the program have in common. *)
ProgramStep ==
    \/ \E o, a \in Objects : Allocate(o, {}) \/ Allocate(o, {a})
    \/ \E p, o \in Objects : Store(p, o) \/ Drop(p, o)
    \/ \E o \in Objects : AssignGlobal(o)
    \/ \E f \in FibreObjs : CallFibre(f) \/ TransferTo(f)
    \/ Yield
    \/ Finish

(* A step of the program happens outside of a collection and touches no GC word
   but that of an object it allocates. *)
LEMMA ProgramStepFrame ==
    ASSUME GCTypeOK, ProgramStep
    PROVE  /\ ~marking /\ UNCHANGED <<hasScanner, cycles, marking>>
           /\ \A o \in Objects : gcWord'[o] \in {gcWord[o], INITIAL_GC_WORD}
  <1>1. ASSUME NEW o \in Objects, NEW a, Allocate(o, a)
        PROVE  /\ ~marking /\ UNCHANGED <<hasScanner, cycles, marking>>
               /\ \A p \in Objects : gcWord'[p] \in {gcWord[p], INITIAL_GC_WORD}
    BY <1>1 DEF Allocate, ProgramRuns, scanner, GCTypeOK
  <1>2. CASE ~(\E o, a \in Objects : Allocate(o, {}) \/ Allocate(o, {a}))
    BY <1>2 DEF ProgramStep, Store, Drop, AssignGlobal, CallFibre, TransferTo, SwitchTo,
                Yield, Finish, BackToParent, ProgramRuns, scanner
  <1> QED
    BY <1>1, <1>2

(* The steps of the specification are those of the program, an import and the
   three phases of a collection. *)
LEMMA NextCases ==
    GCNext <=> \/ ProgramStep \/ ImportModule \/ BeginCycle \/ Sweep
               \/ \E o \in Objects : MarkObject(o)
  BY DEF GCNext, ProgramStep

(* The scanner's invariant holds when the program starts. *)
LEMMA InitScanner == GCInit => ScannerInv
  BY DEF GCInit, ScannerInv, WordsBehind, MarkingSound, MarkingPrecise, NothingGrey,
         IsGrey, GreyWord, INITIAL_GC_WORD, WhiteNumber, FirstWhiteNumber

(* Every step preserves the scanner's invariant if no module is imported after a
   collection. *)
LEMMA NextScanner ==
    ASSUME ~ImportsAfterGC PROVE GCTypeOK /\ ScannerInv /\ [GCNext]_gcVars => ScannerInv'
  <1> SUFFICES ASSUME GCTypeOK, ScannerInv, [GCNext]_gcVars PROVE ScannerInv'
    OBVIOUS
  <1>1. CASE ProgramStep
    BY <1>1, ProgramStepFrame, ProgramScanner
  <1>2. CASE ImportModule
    <2>1. ~marking /\ ~hasScanner /\ ~hasScanner' /\ cycles' = 0
          /\ UNCHANGED <<gcWord, marking>>
      BY <1>2 DEF ImportModule, ProgramRuns
    <2>2. cycles' = cycles
      BY <2>1 DEF ScannerInv, WordsBehind
    <2> QED
      BY <2>1, <2>2 DEF ScannerInv, WordsBehind, MarkingSound, MarkingPrecise, NothingGrey,
                        IsGrey, WhiteNumber
  <1>3. CASE BeginCycle
    BY <1>3, BeginScanner
  <1>4. ASSUME NEW o \in Objects, MarkObject(o) PROVE ScannerInv'
    BY <1>4, MarkScanner
  <1>5. CASE Sweep
    BY <1>5, SweepScanner
  <1>6. CASE UNCHANGED gcVars
    BY <1>6 DEF gcVars, program, scanner, ScannerInv, WordsBehind, MarkingSound,
                MarkingPrecise, NothingGrey, IsGrey, IsWhite, WhiteNumber, Reports, Roots,
                ReachableFrom, Closed
  <1> QED
    BY <1>1, <1>2, <1>3, <1>4, <1>5, <1>6, NextCases

(* The scanner's invariant holds throughout. *)
THEOREM ScannerInvariance ==
    ASSUME ~ImportsAfterGC PROVE GCSpec => [](GCTypeOK /\ ScannerInv)
  <1>1. GCInit => GCTypeOK /\ ScannerInv
    BY InitType, InitScanner
  <1>2. (GCTypeOK /\ ScannerInv) /\ [GCNext]_gcVars => (GCTypeOK /\ ScannerInv)'
    BY NextType, NextScanner
  <1> QED
    BY <1>1, <1>2, PTL DEF GCSpec

(* The tri-colour invariant holds in every state of every cycle, whatever   *)
(* the object graph: MarkObject never leaves a scanned object with a        *)
(* reference to a black one, and BeginGCCycle never finds a grey object.    *)
THEOREM TriColourCorrect ==
    ASSUME ~ImportsAfterGC PROVE GCSpec => []TriColour
  <1>1. GCTypeOK /\ ScannerInv => TriColour
    BY DEF GCTypeOK, ScannerInv, MarkingSound, NothingGrey, TriColour
  <1> QED
    BY ScannerInvariance, <1>1, PTL

(***************************************************************************)
(* The sweep.                                                              *)
(***************************************************************************)

(* When nothing is grey, what is white is what the roots reach. *)
LEMMA WhiteIsReachable ==
    ASSUME GCTypeOK, ScannerInv, Sweep
    PROVE  \A o \in Objects : IsWhite(o) <=> o \in ReachableFrom(Roots)
  <1> DEFINE W == {o \in Objects : IsWhite(o)}
  <1>1. marking /\ \A o \in Objects : ~IsGrey(o)
    BY DEF Sweep
  <1>2. Roots \subseteq W
    BY <1>1, RootsAreObjects DEF ScannerInv, MarkingSound
  <1>3. Closed(W)
    BY <1>1, ReportsAreObjects DEF ScannerInv, MarkingSound, Closed
  <1>4. ReachableFrom(Roots) \subseteq W
    <2> HIDE DEF W
    <2>1. W \in SUBSET Objects
      BY DEF W
    <2> QED
      BY <1>2, <1>3, <2>1, ReachableLeast
  <1> QED
    BY <1>1, <1>4 DEF ScannerInv, MarkingPrecise

(* A sweep frees exactly what the roots do not reach: no garbage survives   *)
(* the cycle and nothing reachable is freed (DeallocateUnreachableObjects). *)
THEOREM CollectionCorrect ==
    ASSUME ~ImportsAfterGC PROVE GCSpec => CollectionIsExact
  <1>1. GCTypeOK /\ ScannerInv /\ [GCNext]_gcVars =>
          [marking /\ ~marking' => live' = live \cap (ReachableFrom(Roots) \cup {Main})]_gcVars
    <2> SUFFICES ASSUME GCTypeOK, ScannerInv, GCNext, marking, ~marking'
                 PROVE  live' = live \cap (ReachableFrom(Roots) \cup {Main})
      BY DEF gcVars
    <2>1. Sweep
      BY NextCases, ProgramStepFrame DEF ImportModule, BeginCycle, ProgramRuns, MarkObject,
                                         scanner
    <2> QED
      BY <2>1, WhiteIsReachable DEF Sweep, GCTypeOK
  <1> QED
    BY <1>1, ScannerInvariance, PTL DEF GCSpec, CollectionIsExact

(* Every step of the marking loop scans an object that was not yet scanned  *)
(* in this cycle, whether or not modules were imported in between.          *)
THEOREM ScannedOnceCorrect == GCSpec => ScannedOnce
  <1>1. GCTypeOK /\ [GCNext]_gcVars =>
          [marking /\ marking' =>
             \E o \in Objects : /\ ~IsWhite(o)
                               /\ IsWhite(o)'
                               /\ \A p \in Objects : IsWhite(p) => IsWhite(p)']_gcVars
    <2> SUFFICES ASSUME GCTypeOK, GCNext, marking, marking'
                 PROVE  \E o \in Objects : /\ ~IsWhite(o)
                                          /\ IsWhite(o)'
                                          /\ \A p \in Objects : IsWhite(p) => IsWhite(p)'
      BY DEF gcVars
    <2>1. PICK o \in Objects : MarkObject(o)
      BY NextCases, ProgramStepFrame DEF ImportModule, BeginCycle, ProgramRuns, Sweep
    <2> QED
      BY <2>1, MarkColours
  <1>2. GCSpec => []GCTypeOK
    BY InitType, NextType, PTL DEF GCSpec
  <1> QED
    BY <1>1, <1>2, PTL DEF GCSpec, ScannedOnce

(***************************************************************************)
(* What is in use stays allocated.                                         *)
(***************************************************************************)
LEMMA InUseHolds ==
    ASSUME GCTypeOK
    PROVE  /\ InUse \subseteq Objects /\ globals \subseteq InUse /\ current \in InUse
           /\ \A o \in InUse : Reports(o) \subseteq InUse
  <1>1. globals \cup {current} \subseteq Objects
    BY RootsAreObjects DEF GCTypeOK
  <1>2. InUse \subseteq Objects /\ globals \cup {current} \subseteq InUse
    BY <1>1, ReachableHolds DEF InUse, ReachableFrom
  <1>3. \A o \in InUse : Reports(o) \subseteq InUse
    BY ReachableClosed DEF InUse
  <1> QED
    BY <1>2, <1>3

(* A set that is closed after the step and holds the new roots holds all    *)
(* that is in use then.                                                     *)
LEMMA InUseNext ==
    ASSUME NEW X \in SUBSET Objects, globals' \subseteq X, current' \in X,
           \A o \in X : Reports(o)' \subseteq X
    PROVE  InUse' \subseteq X
  BY DEF InUse, ReachableFrom, Closed

(* Everything in use is live when the program starts. *)
LEMMA InitHeap == GCInit => HeapInv
  <1> SUFFICES ASSUME GCInit PROVE HeapInv
    OBVIOUS
  <1>1. {Main} \in SUBSET Objects /\ globals \cup {current} \subseteq {Main}
    BY GCAssumption DEF GCInit
  <1>2. Closed({Main})
    BY GCAssumption DEF GCInit, Closed, Reports
  <1>3. InUse \subseteq {Main}
    BY <1>1, <1>2, ReachableLeast DEF InUse
  <1> QED
    BY <1>3 DEF GCInit, HeapInv, InUseIsLive, FreeHasNoParent, RunningFibreHeld

(* Allocating an object, a fibre included, preserves the heap's invariant. *)
LEMMA AllocateHeap ==
    ASSUME GCTypeOK, HeapInv, NEW o \in Objects, NEW a \in SUBSET Objects, Allocate(o, a)
    PROVE  HeapInv'
  <1>1. /\ ~marking /\ ~marking' /\ o \notin live /\ a \subseteq InUse
        /\ live' = live \cup {o} /\ UNCHANGED <<parent, globals, current>>
        /\ refs' = [refs EXCEPT ![o] = a, ![current] = @ \cup {o}]
    BY DEF Allocate, ProgramRuns, scanner
  <1>2. InUse \subseteq live /\ o # current /\ current \in Objects
    BY <1>1, InUseHolds, RootsAreObjects DEF HeapInv, InUseIsLive
  <1>3. \A p \in Objects : refs'[p] = IF p = o THEN a
                                     ELSE IF p = current THEN refs[p] \cup {o} ELSE refs[p]
    BY <1>1, <1>2 DEF GCTypeOK
  <1>4. \A p \in InUse : Reports(p)' \subseteq InUse \cup {o}
    <2> SUFFICES ASSUME NEW p \in InUse, NEW r \in Reports(p)' PROVE r \in InUse \cup {o}
      OBVIOUS
    <2>1. p \in Objects /\ p # o /\ Reports(p) \subseteq InUse
      BY <1>1, <1>2, InUseHolds
    <2>2. r \in refs'[p] \/ (p \in FibreObjs /\ parent[p] = r /\ r \in Objects)
      BY <1>1 DEF Reports
    <2>3. r \in refs[p] \cup {o} \/ (p \in FibreObjs /\ parent[p] = r /\ r \in Objects)
      BY <1>3, <2>1, <2>2
    <2> QED
      BY <2>1, <2>3 DEF Reports
  <1>5. Reports(o)' \subseteq InUse
    BY <1>1, <1>3, GCAssumption DEF Reports, HeapInv, FreeHasNoParent
  <1>6. InUse' \subseteq InUse \cup {o}
    <2>1. InUse \cup {o} \in SUBSET Objects
      BY InUseHolds
    <2>2. globals' \subseteq InUse \cup {o} /\ current' \in InUse \cup {o}
      BY <1>1, InUseHolds
    <2> QED
      BY <1>4, <1>5, <2>1, <2>2, InUseNext
  <1> QED
    BY <1>1, <1>2, <1>6 DEF HeapInv, InUseIsLive, FreeHasNoParent, RunningFibreHeld

(* A step that frees and allocates nothing and moves references only        *)
(* between objects in use.                                                  *)
LEMMA MoveHeap ==
    ASSUME GCTypeOK, HeapInv, ~marking', UNCHANGED live,
           globals' \subseteq InUse, current' \in InUse,
           \A p \in InUse : refs'[p] \subseteq InUse,
           \A f \in FibreObjs : parent'[f] # parent[f] => f \in InUse /\ parent'[f] \in InUse
    PROVE  HeapInv'
  <1>1. \A p \in InUse : Reports(p)' \subseteq InUse
    <2> SUFFICES ASSUME NEW p \in InUse, NEW r \in Reports(p)' PROVE r \in InUse
      OBVIOUS
    <2>1. r \in refs'[p] \/ (p \in FibreObjs /\ parent'[p] = r /\ r \in Objects)
      BY DEF Reports
    <2>2. p \in FibreObjs /\ parent[p] = r /\ r \in Objects => r \in Reports(p)
      BY DEF Reports
    <2> QED
      BY <2>1, <2>2, InUseHolds
  <1>2. InUse' \subseteq InUse
    BY <1>1, InUseHolds, InUseNext
  <1> QED
    BY <1>2 DEF HeapInv, InUseIsLive, FreeHasNoParent, RunningFibreHeld

(* Whatever an object in use refers to is in use. *)
LEMMA RefsInUse ==
    ASSUME GCTypeOK PROVE \A p \in InUse : refs[p] \subseteq InUse
  BY InUseHolds DEF Reports

(* Switching to a fibre preserves the heap's invariant. *)
LEMMA SwitchHeap ==
    ASSUME GCTypeOK, HeapInv, NEW f \in FibreObjs, NEW s, SwitchTo(f, s),
           parent' = parent \/ parent' = [parent EXCEPT ![f] = current]
    PROVE  HeapInv'
  <1>1. PICK kept \in {refs[current], refs[current] \ {f}} :
          refs' = [refs EXCEPT ![current] = kept]
    BY DEF SwitchTo
  <1>2. \A p \in InUse : refs'[p] \subseteq InUse
    BY <1>1, RefsInUse, InUseHolds DEF GCTypeOK
  <1>3. /\ ~marking' /\ UNCHANGED <<live, globals>> /\ current' = f /\ f \in InUse
        /\ current \in InUse
    BY InUseHolds DEF SwitchTo, ProgramRuns, scanner
  <1>4. \A g \in FibreObjs : parent'[g] # parent[g] => g \in InUse /\ parent'[g] \in InUse
    BY <1>3 DEF GCTypeOK
  <1> QED
    BY <1>2, <1>3, <1>4, InUseHolds, MoveHeap

(* Returning to the parent of the current fibre preserves the heap's invariant. *)
LEMMA BackHeap ==
    ASSUME GCTypeOK, HeapInv, NEW s, BackToParent(s),
           \A p \in InUse : refs'[p] \subseteq refs[p]
    PROVE  HeapInv'
  <1>1. /\ ~marking' /\ UNCHANGED <<live, globals, parent>>
        /\ current' = parent[current] /\ parent[current] # NULL
    BY DEF BackToParent, ProgramRuns, scanner
  <1>2. parent[current] \in Reports(current)
    BY <1>1, GCAssumption DEF GCTypeOK, Reports
  <1> QED
    BY <1>1, <1>2, InUseHolds, RefsInUse, MoveHeap

(* Every step of the program preserves the heap's invariant. *)
LEMMA ProgramHeap ==
    ASSUME GCTypeOK, HeapInv, ProgramStep PROVE HeapInv'
  <1>1. ASSUME NEW o \in Objects, NEW a \in Objects, Allocate(o, {}) \/ Allocate(o, {a})
        PROVE  HeapInv'
    BY <1>1, AllocateHeap
  <1>2. ASSUME NEW p \in Objects, NEW o \in Objects, Store(p, o) \/ Drop(p, o)
        PROVE  HeapInv'
    <2>1. /\ ~marking' /\ UNCHANGED <<live, globals, current, parent>>
          /\ \A q \in Objects : refs'[q] \subseteq refs[q] \cup InUse
      BY <1>2 DEF Store, Drop, ProgramRuns, scanner, GCTypeOK
    <2> QED
      BY <2>1, InUseHolds, RefsInUse, MoveHeap
  <1>3. ASSUME NEW o \in Objects, AssignGlobal(o) PROVE HeapInv'
    BY <1>3, InUseHolds, RefsInUse, MoveHeap DEF AssignGlobal, ProgramRuns, scanner
  <1>4. ASSUME NEW f \in FibreObjs, CallFibre(f) \/ TransferTo(f) PROVE HeapInv'
    BY <1>4, SwitchHeap DEF CallFibre, TransferTo
  <1>5. CASE Yield
    BY <1>5, BackHeap DEF Yield
  <1>6. CASE Finish
    <2>1. PICK error \in {{}} \cup {{o} : o \in refs[current]} :
            refs' = [refs EXCEPT ![current] = error]
      BY <1>6, Zenon DEF Finish
    <2>2. error \subseteq refs[current]
      BY <2>1
    <2>3. \A p \in InUse : refs'[p] \subseteq refs[p]
      BY <2>1, <2>2, InUseHolds DEF GCTypeOK
    <2> QED
      BY <1>6, <2>3, BackHeap DEF Finish
  <1> QED
    BY <1>1, <1>2, <1>3, <1>4, <1>5, <1>6 DEF ProgramStep

(* The heap as the cycle sees it does not change while it marks. *)
LEMMA QuietHeap ==
    ASSUME HeapInv, UNCHANGED program,
           marking' /\ HoldsRunningFibre => current \in ReachableFrom(Roots) \cup {Main}
    PROVE  HeapInv'
  BY DEF HeapInv, program, InUseIsLive, InUse, FreeHasNoParent, RunningFibreHeld, Reports,
         Roots, ReachableFrom, Closed

(* The sweep frees nothing that is in use, provided that something reachable
   refers to the running fibre. *)
LEMMA SweepHeap ==
    ASSUME HoldsRunningFibre, GCTypeOK, ScannerInv, HeapInv, Sweep PROVE HeapInv'
  <1> DEFINE R == ReachableFrom(Roots) \cup {Main}
  <1>1. /\ marking /\ ~marking' /\ UNCHANGED <<globals, current>>
        /\ live' = {o \in live : IsWhite(o) \/ o = Main}
        /\ refs' = [o \in Objects |-> IF o \in live' THEN refs[o] ELSE {}]
        /\ parent' = [f \in FibreObjs |-> IF f \in live' THEN parent[f] ELSE NULL]
    BY DEF Sweep, Freed
  <1>2. /\ Roots \subseteq ReachableFrom(Roots) /\ current \in R /\ R \in SUBSET Objects
        /\ InUse \subseteq live
    BY <1>1, RootsAreObjects, ReachableHolds, GCAssumption
       DEF HeapInv, RunningFibreHeld, InUseIsLive, ReachableFrom
  <1>3. PICK X \in SUBSET R : globals \subseteq X /\ current \in X /\ Closed(X)
    <2>1. CASE current \in ReachableFrom(Roots)
      <3>1. Closed(ReachableFrom(Roots))
        BY ReachableClosed DEF Closed
      <3> QED
        BY <1>2, <2>1, <3>1 DEF Roots
    <2>2. CASE current = Main
      <3>1. Closed(R)
        BY <1>2, <2>2, ReachableClosed DEF Closed, Roots
      <3> QED
        BY <1>2, <3>1 DEF Roots
    <2> QED
      BY <1>2, <2>1, <2>2
  <1>4. InUse \subseteq R
    <2>1. X \in SUBSET Objects /\ globals \cup {current} \subseteq X
      BY <1>2, <1>3
    <2> QED
      BY <1>3, <2>1, ReachableLeast DEF InUse
  <1>5. InUse \subseteq live'
    BY <1>1, <1>2, <1>4, WhiteIsReachable, InUseHolds
  <1>6. \A o \in InUse : Reports(o)' \subseteq InUse
    <2> SUFFICES ASSUME NEW o \in InUse PROVE Reports(o)' = Reports(o)
      BY InUseHolds
    <2>1. o \in Objects /\ o \in live'
      BY <1>5, InUseHolds
    <2> QED
      BY <1>1, <2>1 DEF Reports
  <1>7. InUse' \subseteq InUse
    BY <1>1, <1>6, InUseHolds, InUseNext
  <1> QED
    BY <1>1, <1>5, <1>7 DEF HeapInv, InUseIsLive, FreeHasNoParent, RunningFibreHeld

(* Every step preserves the heap's invariant under that condition. *)
LEMMA NextHeap ==
    ASSUME HoldsRunningFibre
    PROVE  GCTypeOK /\ ScannerInv /\ HeapInv /\ [GCNext]_gcVars => HeapInv'
  <1> SUFFICES ASSUME GCTypeOK, ScannerInv, HeapInv, [GCNext]_gcVars PROVE HeapInv'
    OBVIOUS
  <1>1. CASE ProgramStep
    BY <1>1, ProgramHeap
  <1>2. CASE ImportModule
    BY <1>2, QuietHeap DEF ImportModule, ProgramRuns
  <1>3. CASE BeginCycle
    BY <1>3, QuietHeap DEF BeginCycle
  <1>4. ASSUME NEW o \in Objects, MarkObject(o) PROVE HeapInv'
    BY <1>4, QuietHeap DEF MarkObject, scanner, HeapInv, RunningFibreHeld
  <1>5. CASE Sweep
    BY <1>5, SweepHeap
  <1>6. CASE UNCHANGED gcVars
    BY <1>6, QuietHeap DEF gcVars, scanner, HeapInv, RunningFibreHeld
  <1> QED
    BY <1>1, <1>2, <1>3, <1>4, <1>5, <1>6, NextCases

(* Nothing the program can still reach is ever freed, whatever the graph    *)
(* of objects and fibres and however it changes between cycles: the sweep   *)
(* deallocates only what is "confirmed" to be unreachable.                  *)
THEOREM InUseCorrect ==
    ASSUME ~ImportsAfterGC, HoldsRunningFibre PROVE GCSpec => []InUseIsLive
  <1>1. GCInit => HeapInv
    BY InitHeap
  <1>2. (GCTypeOK /\ ScannerInv) /\ HeapInv /\ [GCNext]_gcVars => HeapInv'
    BY NextHeap
  <1>3. HeapInv => InUseIsLive
    BY DEF HeapInv
  <1> QED
    BY <1>1, <1>2, <1>3, ScannerInvariance, PTL DEF GCSpec
=============================================================================
