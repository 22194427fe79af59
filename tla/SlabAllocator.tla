---------------------------- MODULE SlabAllocator ----------------------------
(***************************************************************************)
(* One size category of rtsrc/SlabObjectAllocator.cpp.  Memory is counted  *)
(* in slots of the category's size: a slab has the slots 0..Slots-1, its   *)
(* free space is chained through the shims written into the free slots.    *)
(* Allocation is one step; the sweep that ends a GC cycle is one step per  *)
(* iteration of its loop, during which nothing else can happen.            *)
(***************************************************************************)
EXTENDS IntrusiveList, FiniteSets

CONSTANTS Slots,     \* GetNumSlots()
          MaxSlabs,  \* bound: how many slabs the OS lets us map
          NULL

ASSUME SlabAssumption ==
    /\ Slots \in Nat \ {0}
    /\ MaxSlabs \in Nat \ {0}
    /\ NULL \notin Int

SlotIds == 0..(Slots - 1)
SlabIds == 1..MaxSlabs
Addresses == SlabIds \X SlotIds

VARIABLES
    slabs,           \* allSlabs is 1..slabs, in order of creation
    cell,            \* what the first words of each slot look like
    length,          \* FreeShim::length of the shim in each slot, in slots
    freeSpaceList,   \* per slab: the list of its shims
    currentObjects,  \* per slab
    freeSlabs,       \* the category's list of slabs with free space
    sweeping,        \* the slab being swept, 0 when no sweep runs
    ptr,             \* locals of DeallocateUnreachableObjectsForSlab
    lastFreeShim,
    objectCount,
    reachable,       \* the addresses whose gcWord is the white number
    checkFailed      \* an assert or a check of AllocateRaw has failed

memory == <<cell, length, freeSpaceList, currentObjects, freeSlabs>>
locals == <<sweeping, ptr, lastFreeShim, objectCount, reachable>>
slabVars == <<slabs, memory, locals, checkFailed>>

SlabInit ==
    /\ slabs = 0
    /\ cell = [s \in SlabIds |-> [i \in SlotIds |-> "null"]]
    /\ length = [s \in SlabIds |-> [i \in SlotIds |-> 0]]
    /\ freeSpaceList = [s \in SlabIds |-> EmptyList(SlotIds, NULL)]
    /\ currentObjects = [s \in SlabIds |-> 0]
    /\ freeSlabs = EmptyList(SlabIds, NULL)
    /\ sweeping = 0 /\ ptr = 0 /\ lastFreeShim = NULL /\ objectCount = 0
    /\ reachable = {}
    /\ checkFailed = FALSE

Idle == sweeping = 0 /\ ~checkFailed

(* RemoveFromFreeSlabList unlinks the slab from its neighbours itself and   *)
(* then has the list do it again.                                           *)
RemoveFromFreeSlabList(l, s) ==
    LET after == l.freeSlabs.next[s]
        before == l.freeSlabs.prev[s]
        back  == IF after = NULL THEN l.freeSlabs
                                 ELSE [l.freeSlabs EXCEPT !.prev[after] = before]
        forth == IF before = NULL THEN back ELSE [back EXCEPT !.next[before] = after]
    IN  [l EXCEPT !.freeSlabs = Remove(forth, s, NULL)]

(* SwapOrDeleteShim, on the slab's shims and the list of free slabs. *)
SwapOrDeleteShim(l, s, shim, replacement) ==
    LET inserted == IF replacement = NULL THEN l.shims
                    ELSE InsertAfter(l.shims, shim, replacement, NULL)
        swapped == [l EXCEPT !.shims = Remove(inserted, shim, NULL)]
    IN  IF swapped.shims.start = NULL THEN RemoveFromFreeSlabList(swapped, s)
                                      ELSE swapped

(* CreateSlab: the new slab is all one shim. *)
CreateSlab(s) ==
    [shims |-> InsertAtStart(EmptyList(SlotIds, NULL), 0, NULL),
     freeSlabs |-> InsertAtEnd(freeSlabs, s, NULL),
     length |-> [length[s] EXCEPT ![0] = Slots],
     cell |-> [cell[s] EXCEPT ![0] = "shim"]]

ExistingSlab(s) ==
    [shims |-> freeSpaceList[s], freeSlabs |-> freeSlabs,
     length |-> length[s], cell |-> cell[s]]

(* AllocateRaw puts the object where the first shim of slab s begins, and   *)
(* moves the shim along or deletes it.                                      *)
AllocateFrom(slab, s) ==
    LET shim == slab.shims.start
        newLength == slab.length[shim] - 1
        moved == newLength > 0
        after == IF moved THEN SwapOrDeleteShim(slab, s, shim, shim + 1)
                          ELSE SwapOrDeleteShim(slab, s, shim, NULL)
    IN
    /\ freeSpaceList' = [freeSpaceList EXCEPT ![s] = after.shims]
    /\ freeSlabs' = after.freeSlabs
    /\ length' = [length EXCEPT ![s] =
                    IF moved THEN [slab.length EXCEPT ![shim + 1] = newLength]
                             ELSE slab.length]
    /\ cell' = [cell EXCEPT ![s] =
                    IF moved THEN [slab.cell EXCEPT ![shim] = "obj", ![shim + 1] = "shim"]
                             ELSE [slab.cell EXCEPT ![shim] = "obj"]]
    /\ currentObjects' = [currentObjects EXCEPT ![s] = @ + 1]
    /\ UNCHANGED <<locals, checkFailed>>

(* The asserts and alignment checks AllocateRaw makes before it touches     *)
(* anything of the slab.                                                    *)
AllocationChecks(s) ==
    /\ freeSlabs.prev[s] = NULL
    /\ freeSpaceList[s].start # NULL
    /\ freeSpaceList[s].prev[freeSpaceList[s].start] = NULL
    /\ length[s][freeSpaceList[s].start] > 0

AllocateInFreeSlab ==
    /\ Idle
    /\ freeSlabs.start # NULL
    /\ LET s == freeSlabs.start IN
       IF AllocationChecks(s)
         THEN AllocateFrom(ExistingSlab(s), s) /\ UNCHANGED slabs
         ELSE checkFailed' = TRUE /\ UNCHANGED <<slabs, memory, locals>>

AllocateInNewSlab ==
    /\ Idle
    /\ freeSlabs.start = NULL
    /\ slabs < MaxSlabs
    /\ slabs' = slabs + 1
    /\ AllocateFrom(CreateSlab(slabs + 1), slabs + 1)

(***************************************************************************)
(* DeallocateUnreachableObjects: slab after slab, slot after slot.         *)
(***************************************************************************)
Objects == {a \in Addresses : cell[a[1]][a[2]] = "obj"}

StartSlab(s) ==
    /\ sweeping' = s
    /\ ptr' = 0
    /\ lastFreeShim' = NULL
    /\ objectCount' = 0

BeginSweep(white) ==
    /\ Idle
    /\ slabs > 0
    /\ reachable' = white
    /\ StartSlab(1)
    /\ UNCHANGED <<slabs, memory, checkFailed>>

AtSlot(contents) ==
    /\ sweeping # 0
    /\ ~checkFailed
    /\ ptr < Slots
    /\ contents = (cell[sweeping][ptr] = "shim")

(* Faulty variant: after a merge the walk advances by the merged length.    *)
SweepShimOverrun ==
    /\ AtSlot(TRUE)
    /\ IF lastFreeShim # NULL
         THEN LET merged == length[sweeping][lastFreeShim] + length[sweeping][ptr] IN
              /\ length' = [length EXCEPT ![sweeping][lastFreeShim] = merged]
              /\ freeSpaceList' = [freeSpaceList EXCEPT ![sweeping] = Remove(@, ptr, NULL)]
              /\ ptr' = ptr + merged
              /\ UNCHANGED lastFreeShim
         ELSE /\ lastFreeShim' = ptr
              /\ ptr' = ptr + length[sweeping][ptr]
              /\ UNCHANGED <<length, freeSpaceList>>
    /\ UNCHANGED <<slabs, cell, currentObjects, freeSlabs, sweeping, objectCount,
                   reachable, checkFailed>>

(* A shim is merged into the one right before it, if there is one. *)
SweepShim ==
    /\ AtSlot(TRUE)
    /\ ptr' = ptr + length[sweeping][ptr]
    /\ IF lastFreeShim # NULL
         THEN /\ length' = [length EXCEPT ![sweeping][lastFreeShim] =
                               @ + length[sweeping][ptr]]
              /\ freeSpaceList' = [freeSpaceList EXCEPT ![sweeping] = Remove(@, ptr, NULL)]
              /\ UNCHANGED lastFreeShim
         ELSE /\ lastFreeShim' = ptr
              /\ UNCHANGED <<length, freeSpaceList>>
    /\ UNCHANGED <<slabs, cell, currentObjects, freeSlabs, sweeping, objectCount,
                   reachable, checkFailed>>

(* Faulty variant: the shim before the object stays open.                   *)
SweepReachableShimOpen ==
    /\ AtSlot(FALSE)
    /\ <<sweeping, ptr>> \in reachable
    /\ ptr' = ptr + 1
    /\ objectCount' = objectCount + 1
    /\ UNCHANGED <<slabs, memory, lastFreeShim, sweeping, reachable, checkFailed>>

SweepReachable ==
    /\ AtSlot(FALSE)
    /\ <<sweeping, ptr>> \in reachable
    /\ ptr' = ptr + 1
    /\ lastFreeShim' = NULL
    /\ objectCount' = objectCount + 1
    /\ UNCHANGED <<slabs, memory, sweeping, reachable, checkFailed>>

(* Faulty variant: every object is freed, whatever its GC word.             *)
SweepEverything ==
    /\ AtSlot(FALSE)
    /\ ptr' = ptr + 1
    /\ IF lastFreeShim # NULL
         THEN /\ cell' = [cell EXCEPT ![sweeping][ptr] = "null"]
              /\ length' = [length EXCEPT ![sweeping][lastFreeShim] = @ + 1]
              /\ UNCHANGED <<freeSpaceList, lastFreeShim>>
         ELSE /\ cell' = [cell EXCEPT ![sweeping][ptr] = "shim"]
              /\ length' = [length EXCEPT ![sweeping][ptr] = 1]
              /\ freeSpaceList' = [freeSpaceList EXCEPT ![sweeping] =
                                      InsertAtEnd(@, ptr, NULL)]
              /\ lastFreeShim' = ptr
    /\ UNCHANGED <<slabs, currentObjects, freeSlabs, sweeping, objectCount,
                   reachable, checkFailed>>

SweepUnreachable ==
    /\ AtSlot(FALSE)
    /\ <<sweeping, ptr>> \notin reachable
    /\ ptr' = ptr + 1
    /\ IF lastFreeShim # NULL
         THEN /\ cell' = [cell EXCEPT ![sweeping][ptr] = "null"]
              /\ length' = [length EXCEPT ![sweeping][lastFreeShim] = @ + 1]
              /\ UNCHANGED <<freeSpaceList, lastFreeShim>>
         ELSE /\ cell' = [cell EXCEPT ![sweeping][ptr] = "shim"]
              /\ length' = [length EXCEPT ![sweeping][ptr] = 1]
              /\ freeSpaceList' = [freeSpaceList EXCEPT ![sweeping] =
                                      InsertAtEnd(@, ptr, NULL)]
              /\ lastFreeShim' = ptr
    /\ UNCHANGED <<slabs, currentObjects, freeSlabs, sweeping, objectCount,
                   reachable, checkFailed>>

(* A slab that was full and has space again goes back on freeSlabs. *)
WasMarkedFree(s) == freeSlabs.start = s \/ freeSlabs.prev[s] # NULL

(* Faulty variant: the walk over the slabs starts over.                     *)
FinishSlabCircular ==
    /\ sweeping # 0
    /\ ~checkFailed
    /\ ptr = Slots
    /\ currentObjects' = [currentObjects EXCEPT ![sweeping] = objectCount]
    /\ freeSlabs' = IF ~WasMarkedFree(sweeping) /\ freeSpaceList[sweeping].start # NULL
                      THEN InsertAtEnd(freeSlabs, sweeping, NULL)
                      ELSE freeSlabs
    /\ StartSlab(IF sweeping < slabs THEN sweeping + 1 ELSE 1)
    /\ UNCHANGED <<slabs, cell, length, freeSpaceList, reachable, checkFailed>>

FinishSlab ==
    /\ sweeping # 0
    /\ ~checkFailed
    /\ ptr = Slots
    /\ currentObjects' = [currentObjects EXCEPT ![sweeping] = objectCount]
    /\ freeSlabs' = IF ~WasMarkedFree(sweeping) /\ freeSpaceList[sweeping].start # NULL
                      THEN InsertAtEnd(freeSlabs, sweeping, NULL)
                      ELSE freeSlabs
    /\ IF sweeping < slabs
         THEN StartSlab(sweeping + 1) /\ UNCHANGED reachable
         ELSE StartSlab(0) /\ reachable' = {}
    /\ UNCHANGED <<slabs, cell, length, freeSpaceList, checkFailed>>

SlabNext ==
    \/ AllocateInFreeSlab
    \/ AllocateInNewSlab
    \/ \E white \in SUBSET Objects : BeginSweep(white)
    \/ SweepShim
    \/ SweepReachable
    \/ SweepUnreachable
    \/ FinishSlab

SlabSpec == SlabInit /\ [][SlabNext]_slabVars
FairSlabSpec == SlabSpec /\ WF_slabVars(SweepShim \/ SweepReachable \/ SweepUnreachable
                                        \/ FinishSlab)

(***************************************************************************)
(* What makes the allocator correct.                                       *)
(***************************************************************************)
OnList(l) == {n \in DOMAIN l.next : l.start = n \/ l.prev[n] # NULL}

WellLinked(l) ==
    \E s \in [1..Cardinality(OnList(l)) -> OnList(l)] :
        Represents(l, s, DOMAIN l.next, NULL)

Covered(s) == UNION {i..(i + length[s][i] - 1) : i \in OnList(freeSpaceList[s])}

(* No assert and no check of the allocator ever fails: a slab on the free   *)
(* list has a shim to allocate from, and the sweep, which steps over whole  *)
(* shims, ends exactly at the end of the slab.                              *)
ChecksHold == ~checkFailed /\ ptr <= Slots

(* Objects and shims tile the slab: each slot is an object or belongs to    *)
(* exactly one shim, so walking the slab visits each object once; "free     *)
(* shims ... should never appear adjacent to each other in memory" (the     *)
(* design comment of SlabObjectAllocator.cpp); and currentObjects, counted  *)
(* by allocations and recounted by sweeps, is the number of objects.        *)
SlabIsTiled ==
    sweeping = 0 =>
        \A s \in 1..slabs :
            /\ \A i \in OnList(freeSpaceList[s]) :
                 cell[s][i] = "shim" /\ length[s][i] > 0 /\ i + length[s][i] <= Slots
            /\ \A i, j \in OnList(freeSpaceList[s]) :
                 i < j => i + length[s][i] < j
            /\ \A i \in SlotIds : cell[s][i] = "obj" <=> i \notin Covered(s)
            /\ currentObjects[s] = Cardinality({i \in SlotIds : cell[s][i] = "obj"})

(* Both kinds of list stay well linked, mid-sweep too, and between sweeps a *)
(* slab is on freeSlabs if and only if it has free space, so no space is    *)
(* lost and a new slab is only mapped when all of them are full.            *)
FreeSlabsExact ==
    /\ WellLinked(freeSlabs)
    /\ \A s \in 1..slabs : WellLinked(freeSpaceList[s])
    /\ sweeping = 0 =>
         OnList(freeSlabs) = {s \in 1..slabs : OnList(freeSpaceList[s]) # {}}

(* A sweep ends. *)
SweepEnds == (sweeping # 0) ~> (sweeping = 0)

(***************************************************************************)
(* The allocator implements ObjectHeap.                                    *)
(***************************************************************************)
ToSweep(a) == a[1] > sweeping \/ (a[1] = sweeping /\ a[2] >= ptr)
Doomed == IF sweeping = 0 THEN {}
          ELSE {a \in Objects : a \notin reachable /\ ToSweep(a)}

Heap == INSTANCE ObjectHeap WITH objects <- Objects, doomed <- Doomed

(* Memory that is handed out was free, a sweep frees exactly the            *)
(* unreachable objects and all of them before the next allocation.          *)
ImplementsHeap == Heap!HeapSpec
=============================================================================
