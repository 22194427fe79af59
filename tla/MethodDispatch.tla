--------------------------- MODULE MethodDispatch ---------------------------
(***************************************************************************)
(* How the runtime finds the function of a method call: the function table *)
(* of a class (rtsrc/ObjClass.cpp), which is a small hash table with       *)
(* linear probing until a probe gets too long and a map afterwards, and    *)
(* the two ways a class comes by its inherited methods.  A class written   *)
(* in Wren copies its parent's table when it is created (ObjManaged.cpp).  *)
(* A class written in C++ gets its methods one by one, first those bound   *)
(* in C++, then those wren_core adds to it (wren_init_class), and inherits *)
(* when the core module has been run, in FinaliseSetup.                    *)
(*                                                                         *)
(* A metaclass is a class that copies the table of Class.                  *)
(***************************************************************************)
EXTENDS Integers, Sequences, FiniteSets, FiniteSetsExt, SequencesExt

CONSTANTS ObjectClass,  \* the class at the root of the hierarchy
          Natives,      \* the other classes written in C++
          Manageds,     \* classes written in Wren
          Signatures,   \* hash ids of signatures
          Hashes,       \* bound: what signature % NUM_ENTRIES may be, for all of them
          NumEntries,   \* FunctionTable::NUM_ENTRIES
          MaxAttempts,  \* how often a probe may move on (5)
          MaxMethods,   \* bound: methods declared by one class
          NULL

Classes == {ObjectClass} \cup Natives \cup Manageds

ASSUME DispatchAssumption ==
    /\ ObjectClass \notin Natives \cup Manageds
    /\ Natives \cap Manageds = {}
    /\ NumEntries \in Nat /\ MaxAttempts \in Nat /\ MaxAttempts < NumEntries
    /\ Hashes \subseteq [Signatures -> 0..(NumEntries - 1)]
    /\ MaxMethods \in Nat
    /\ NULL \notin Classes \cup Signatures

VARIABLES
    hash,       \* signature % NUM_ENTRIES
    functions,  \* per class: its FunctionTable
    defined,    \* per class: definedFunctions
    parent,     \* parentClass
    inherits,   \* InheritsMethods(), which Num overrides
    declared,   \* the classes that have been set up
    finalised   \* FinaliseSetup has run

dispatchVars == <<hash, functions, defined, parent, inherits, declared, finalised>>

(* A function is known by the class that declares it and the language it    *)
(* is written in: <<class, "C++">> or <<class, "Wren">>.                    *)
EmptyEntry == [func |-> NULL, signature |-> NULL]
Slots == 0..(NumEntries - 1)
NoMap == <<>>                        \* stlEntryMap is std::nullopt

EmptyTable == [entries |-> [i \in Slots |-> EmptyEntry], stlEntryMap |-> NoMap]

(***************************************************************************)
(* The function table.                                                     *)
(***************************************************************************)
Slot(sig, k) == (hash[sig] + k) % NumEntries

(* The result of a lookup that goes all the way round.  As with a result of *)
(* NULL, the fibre aborts.                                                  *)
TableFull == <<"table full">>

LookupMethod(table, sig) ==
    IF table.stlEntryMap # NoMap THEN table.stlEntryMap[sig] ELSE
    LET hits == {k \in Slots : table.entries[Slot(sig, k)].func = NULL
                               \/ table.entries[Slot(sig, k)].signature = sig}
    IN  IF hits = {} THEN TableFull ELSE table.entries[Slot(sig, Min(hits))].func

RelocateSignaturesToSTL(table) ==
    [table EXCEPT !.stlEntryMap =
        [sig \in Signatures |->
            IF \E i \in Slots : table.entries[i].signature = sig
              THEN table.entries[CHOOSE i \in Slots : table.entries[i].signature = sig].func
              ELSE NULL]]

(* FindFunctionTableEntry moves to the map when a probe gets too long, and  *)
(* returns an entry that is free or has this signature already.             *)
FindFunctionTableEntry(table, sig) ==
    LET hits == {k \in 0..MaxAttempts : table.entries[Slot(sig, k)].func = NULL
                                        \/ table.entries[Slot(sig, k)].signature = sig}
    IN  IF table.stlEntryMap # NoMap \/ hits # {}
          THEN [table |-> table, at |-> Slot(sig, IF hits = {} THEN 0 ELSE Min(hits))]
          ELSE [table |-> RelocateSignaturesToSTL(table), at |-> 0]

(* The entry that FindFunctionTableEntry has returned is read and written.   *)
FuncAt(found, sig) ==
    IF found.table.stlEntryMap # NoMap THEN found.table.stlEntryMap[sig]
                                       ELSE found.table.entries[found.at].func

WriteEntry(found, sig, func) ==
    IF found.table.stlEntryMap # NoMap
      THEN [found.table EXCEPT !.stlEntryMap[sig] = func]
      ELSE [found.table EXCEPT !.entries[found.at] = [func |-> func, signature |-> sig]]

(* AddFunction, on a class's table and its definedFunctions. *)
AddFunction(class, sig, func, shouldOverride) ==
    LET found == FindFunctionTableEntry(class.table, sig) IN
    IF ~shouldOverride /\ FuncAt(found, sig) # NULL
      THEN [class EXCEPT !.table = found.table]
      ELSE [table |-> WriteEntry(found, sig, func),
            defined |-> [class.defined EXCEPT ![sig] = func]]

(* AddFunction for each of a sequence of methods. *)
AddFunctions(class, sigs, func, shouldOverride) ==
    FoldLeft(LAMBDA cls, sig : AddFunction(cls, sig, func, shouldOverride), class, sigs)

(* Faulty variant: a definition from further up replaces a nearer one. *)
InheritOverriding(table, sig, func) ==
    WriteEntry(FindFunctionTableEntry(table, sig), sig, func)

(* FinaliseSetup copies a function down unless there is one already. *)
InheritFunction(table, sig, func) ==
    LET found == FindFunctionTableEntry(table, sig) IN
    IF FuncAt(found, sig) = NULL THEN WriteEntry(found, sig, func) ELSE found.table

(***************************************************************************)
(* Setting up the classes.                                                 *)
(***************************************************************************)
NothingDefined == [sig \in Signatures |-> NULL]
FreshClass == [table |-> EmptyTable, defined |-> NothingDefined]

(* The methods a class declares, in the order of its class description. *)
Declarations == {SetToSeq(S) : S \in {S \in SUBSET Signatures : Cardinality(S) <= MaxMethods}}

SetClass(c, class) ==
    /\ functions' = [functions EXCEPT ![c] = class.table]
    /\ defined' = [defined EXCEPT ![c] = class.defined]
    /\ declared' = declared \cup {c}

(* CoreClasses: Object is there before anything else. *)
DispatchInit ==
    /\ hash \in Hashes
    /\ \E bound \in Declarations :
         LET object == AddFunctions(FreshClass, bound, <<ObjectClass, "C++">>, TRUE) IN
         /\ functions = [c \in Classes |-> IF c = ObjectClass THEN object.table ELSE EmptyTable]
         /\ defined = [c \in Classes |-> IF c = ObjectClass THEN object.defined ELSE NothingDefined]
    /\ parent = [c \in Classes |-> NULL]
    /\ inherits = [c \in Classes |-> TRUE]
    /\ declared = {ObjectClass}
    /\ finalised = FALSE

(* wren_core declares a class that is written in C++: the ObjNativeClass is *)
(* constructed with its bound methods, and is given its parent and the      *)
(* methods written in Wren.                                                 *)
InitSystemClass(c, p, bound, methods, inheriting) ==
    /\ ~finalised
    /\ c \in Natives \ declared
    /\ p \in declared
    /\ Len(bound) + Len(methods) <= MaxMethods
    /\ LET native == AddFunctions(FreshClass, bound, <<c, "C++">>, TRUE) IN
       SetClass(c, AddFunctions(native, methods, <<c, "Wren">>, FALSE))
    /\ parent' = [parent EXCEPT ![c] = p]
    /\ inherits' = [inherits EXCEPT ![c] = inheriting]
    /\ UNCHANGED <<hash, finalised>>

(* A class written in Wren, of wren_core or of a module: it can extend      *)
(* Object or another one written in Wren.                                   *)
InitClass(c, p, methods) ==
    /\ c \in Manageds \ declared
    /\ p \in declared \ Natives
    /\ SetClass(c, AddFunctions([table |-> functions[p], defined |-> NothingDefined],
                                methods, <<c, "Wren">>, TRUE))
    /\ parent' = [parent EXCEPT ![c] = p]
    /\ UNCHANGED <<hash, inherits, finalised>>

(* The class and its ancestors, nearest first. *)
Line(c) ==
    LET up[n \in 0..Cardinality(Classes), class \in Classes] ==
          IF n = 0 \/ parent[class] = NULL THEN <<class>>
          ELSE <<class>> \o up[n - 1, parent[class]]
    IN  up[Cardinality(Classes), c]

Ancestors(c) == Tail(Line(c))

DefinedIn(c) == SetToSeq({sig \in Signatures : defined[c][sig] # NULL})

Inherited(c) ==
    IF ~inherits[c] THEN functions[c] ELSE
    FoldLeft(LAMBDA table, p :
               FoldLeft(LAMBDA t, sig : InheritFunction(t, sig, defined[p][sig]),
                        table, DefinedIn(p)),
             functions[c], Ancestors(c))

FinaliseSetup ==
    /\ ~finalised
    /\ Natives \subseteq declared
    /\ finalised' = TRUE
    /\ functions' = [c \in Classes |-> IF c \in Natives THEN Inherited(c) ELSE functions[c]]
    /\ UNCHANGED <<hash, defined, parent, inherits, declared>>

DispatchNext ==
    \/ \E c \in Natives, p \in Classes, bound, methods \in Declarations, inheriting \in BOOLEAN :
         InitSystemClass(c, p, bound, methods, inheriting)
    \/ \E c \in Manageds, p \in Classes, methods \in Declarations : InitClass(c, p, methods)
    \/ FinaliseSetup

DispatchSpec == DispatchInit /\ [][DispatchNext]_dispatchVars

(***************************************************************************)
(* What makes dispatch correct.                                            *)
(***************************************************************************)

(* The language rule, with no table in it: a class's own method, else that  *)
(* of the nearest ancestor that has one.                                    *)
Resolve(c, sig) ==
    LET line == IF inherits[c] THEN Line(c) ELSE <<c>>
        having == {i \in DOMAIN line : defined[line[i]][sig] # NULL}
    IN  IF having = {} THEN NULL ELSE defined[line[Min(having)]][sig]

Finds(found, expected) == found = expected \/ (expected = NULL /\ found = TableFull)

(* Every method call finds the method the language says, however the        *)
(* signatures collide, whichever table moved to a map on the way and in     *)
(* whatever order the classes were set up; a call of a method that does not *)
(* exist is refused.  Classes written in C++ inherit once the core module   *)
(* has been run.                                                            *)
MethodResolution ==
    \A c \in declared, sig \in Signatures :
        (c \in Natives => finalised) =>
        Finds(LookupMethod(functions[c], sig), Resolve(c, sig))
=============================================================================
