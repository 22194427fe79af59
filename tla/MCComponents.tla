---------------------------- MODULE MCComponents ----------------------------
(***************************************************************************)
(* The parts of the system that share no state with each other, for one    *)
(* run: each behaviour chooses a part and only that part moves.            *)
(***************************************************************************)
EXTENDS ForLoop, StackMaps, SizeCategories, MethodDispatch, ModuleRegistry

VARIABLE part  \* the part this behaviour is about

LoopIdle ==
    /\ kind = "none" /\ contents = <<>> /\ iter = NullVal /\ visited = <<>>
    /\ phase = "ended" /\ mutations = 0 /\ disturbed = FALSE /\ pieces = <<>>

MapsIdle ==
    /\ program = <<>> /\ stage = "idle" /\ module = 1 /\ unwritten = <<>>
    /\ callsites = <<>> /\ remaining = -1 /\ image = <<>> /\ position = 8
    /\ cursor = 8 /\ described = [m \in Modules |-> EmptyDescription]

DispatchIdle ==
    /\ hash = [s \in Signatures |-> 0]
    /\ functions = [class \in Classes |-> EmptyTable]
    /\ defined = [class \in Classes |-> NothingDefined]
    /\ parent = [class \in Classes |-> NULL]
    /\ inherits = [class \in Classes |-> TRUE]
    /\ declared = {} /\ finalised = TRUE

Init ==
    \/ /\ part = "loop"
       /\ LoopInit /\ MapsIdle /\ SizesInit /\ DispatchIdle /\ RegistryInit
    \/ /\ part = "maps"
       /\ LoopIdle /\ MapsInit /\ SizesInit /\ DispatchIdle /\ RegistryInit
    \/ /\ part = "sizes"
       /\ LoopIdle /\ MapsIdle /\ SizesInit /\ DispatchIdle /\ RegistryInit
    \/ /\ part = "dispatch"
       /\ LoopIdle /\ MapsIdle /\ SizesInit /\ DispatchInit /\ RegistryInit
    \/ /\ part = "registry"
       /\ LoopIdle /\ MapsIdle /\ SizesInit /\ DispatchIdle /\ RegistryInit

vars == <<part, loopVars, mapVars, sizeVars, dispatchVars, registryVars>>

Next ==
    /\ UNCHANGED part
    /\ \/ /\ part = "loop" /\ LoopNext
          /\ UNCHANGED <<mapVars, sizeVars, dispatchVars, registryVars>>
       \/ /\ part = "maps" /\ MapsNext
          /\ UNCHANGED <<loopVars, sizeVars, dispatchVars, registryVars>>
       \/ /\ part = "sizes" /\ SizesNext
          /\ UNCHANGED <<loopVars, mapVars, dispatchVars, registryVars>>
       \/ /\ part = "dispatch" /\ DispatchNext
          /\ UNCHANGED <<loopVars, mapVars, sizeVars, registryVars>>
       \/ /\ part = "registry" /\ RegistryNext
          /\ UNCHANGED <<loopVars, mapVars, sizeVars, dispatchVars>>

Spec == Init /\ [][Next]_vars

-----------------------------------------------------------------------------
(* Every size from below sizeof(Obj) to past the third power of two above   *)
(* the preferred sizes.                                                     *)
AllSizes == 20..300

(* Two strings with the same text and one with another; a range; and an     *)
(* object that is not a value type.                                         *)
StringText == [address \in {24, 32, 40} |-> IF address = 40 THEN "b" ELSE "a"]
KeyTypes == {8, 16, 24, 32, 40, 48}
MapKeys == {Number(1), NullVal, FalseVal, Object(24), Object(32), Object(48), Object(56)}
ListItems == {Number(1), Number(2)}

(* The ends of the one- to four-byte forms; a continuation byte and first   *)
(* bytes of the two- and three-byte forms by themselves.                    *)
EdgeCodePoints == {65, 128, 2047, 2048, 65535, 65536, 1114111}
Stray == {130, 195, 226}

(* Any number of the signatures at the first slot, the others at the last;  *)
(* one layout for each number, since signatures are alike otherwise.        *)
CollidingHashes ==
    {[sig \in Signatures |-> IF sig \in ToSet(SubSeq(SetToSeq(Signatures), 1, n))
                               THEN 0 ELSE NumEntries - 1] :
     n \in 0..Cardinality(Signatures)}

StackSlot(offset) == [type |-> "stack", offset |-> offset]
Constant == [type |-> "constant", offset |-> 0]
Register == [type |-> "register", offset |-> 0]

(* None; two with a literal between; five, one past the first eight bytes   *)
(* of a statepoint; the last packable offset; and what is rejected.         *)
LocationLists ==
    {<<>>, <<StackSlot(8), Constant, StackSlot(0)>>,
     <<StackSlot(0), StackSlot(8), StackSlot(16), StackSlot(24), StackSlot(32)>>,
     <<StackSlot(2040)>>, <<StackSlot(2048)>>, <<StackSlot(-8)>>, <<StackSlot(12)>>, <<Register>>}
SiteLists ==
    {<<>>} \cup {<<[offset |-> 5, locations |-> l]>> : l \in LocationLists}
    \cup {<<[offset |-> 5, locations |-> l], [offset |-> 12, locations |-> k]>> :
             l, k \in {m \in LocationLists : Len(m) # 1}}

(* Three functions, the middle one without call sites, in one module or in  *)
(* two, laid out in memory in the order they are written or not.            *)
CompiledFunctions ==
    {<<[pointer |-> p[1], module |-> 1, nameSize |-> 3, sites |-> s],
       [pointer |-> p[2], module |-> m, nameSize |-> 8, sites |-> <<>>],
       [pointer |-> p[3], module |-> m, nameSize |-> 9, sites |-> t]>> :
     s, t \in SiteLists, m \in 1..2, p \in {<<100, 200, 300>>, <<300, 100, 200>>}}
=============================================================================
