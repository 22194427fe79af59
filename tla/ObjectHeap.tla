----------------------------- MODULE ObjectHeap -----------------------------
(***************************************************************************)
(* What the rest of the runtime assumes of the object allocator: memory    *)
(* that is handed out is not in use, a sweep gives back the memory of the  *)
(* unreachable objects and of no other, and is over before the next        *)
(* allocation.                                                             *)
(***************************************************************************)
CONSTANT Addresses

VARIABLES objects,  \* the addresses of the allocated objects
          doomed    \* those a running sweep has still to give back

heapVars == <<objects, doomed>>

HeapInit == objects = {} /\ doomed = {}

Allocate(a) ==
    /\ doomed = {}
    /\ a \notin objects
    /\ objects' = objects \cup {a}
    /\ UNCHANGED doomed

Sweep(reachable) ==
    /\ doomed = {}
    /\ doomed' = objects \ reachable
    /\ UNCHANGED objects

Free(a) ==
    /\ a \in doomed
    /\ objects' = objects \ {a}
    /\ doomed' = doomed \ {a}

HeapNext ==
    \/ \E a \in Addresses : Allocate(a)
    \/ \E r \in SUBSET Addresses : Sweep(r)
    \/ \E a \in Addresses : Free(a)

HeapSpec == HeapInit /\ [][HeapNext]_heapVars
=============================================================================
