--------------------------- MODULE SizeCategories ---------------------------
(***************************************************************************)
(* How SlabObjectAllocator picks the size category of an allocation        *)
(* (GetOrCreateBestCategory).                                              *)
(***************************************************************************)
EXTENDS Integers, FiniteSets, FiniteSetsExt

CONSTANTS Sizes,       \* the request sizes of the instance, in bytes
          MaxRequests  \* bound: distinct sizes requested in one run

(* An object lies in one slab, and a slab is 16 KiB, or one page where pages *)
(* are larger: 64 KiB at most.                                              *)
ASSUME SizesAssumption ==
    /\ \A size \in Sizes : size \in Nat /\ size <= 65536
    /\ MaxRequests \in Nat

VARIABLES sizes,    \* the keys of m_sizes
          served    \* the <<requested size, category size>> pairs so far

sizeVars == <<sizes, served>>

ObjSize == 24      \* sizeof(Obj)
ValueSize == 8     \* sizeof(Value)

PREFERRED_SIZES == {ObjSize + ValueSize * n : n \in {0, 1, 2, 3, 4, 5, 6, 8, 10, 12, 16}}

RoundToAlignment(value) ==
    IF value % 8 = 0 THEN value ELSE value + 8 - (value % 8)

(* std::bit_ceil, for the sizes up to that of the largest slab.             *)
PowersOfTwo == {1, 2, 4, 8, 16, 32, 64, 128, 256, 512, 1024, 2048, 4096, 8192,
                16384, 32768, 65536}
BitCeil(n) == Min({p \in PowersOfTwo : p >= n})

(* Truncates powerOfTwo / 1.414. *)
InBetween(powerOfTwo) == RoundToAlignment((powerOfTwo * 1000) \div 1414)

FallbackSize(size) ==
    LET powerOfTwo == BitCeil(size) IN
    IF InBetween(powerOfTwo) >= size THEN InBetween(powerOfTwo) ELSE powerOfTwo

BestSize(size) ==
    LET preferred == {p \in PREFERRED_SIZES : p >= size} IN
    IF preferred # {} /\ Min(preferred) < FallbackSize(size)
      THEN Min(preferred) ELSE FallbackSize(size)

(* Faulty variant: any existing category that is large enough is used. *)
CategoryLowerBound(size) ==
    LET existing == {s \in sizes : s >= size} IN
    IF existing # {} THEN Min(existing) ELSE BestSize(size)

(* An existing category of exactly this size is used before any other. *)
CategoryFor(size) == IF size \in sizes THEN size ELSE BestSize(size)

SizesInit == sizes = {} /\ served = {}

(* Requests smaller than an Obj abort the fibre and change nothing. *)
GetOrCreateBestCategory(size) ==
    /\ Cardinality(served) < MaxRequests
    /\ size >= ObjSize
    /\ sizes' = sizes \cup {CategoryFor(size)}
    /\ served' = served \cup {<<size, CategoryFor(size)>>}

SizesNext == \E size \in Sizes : GetOrCreateBestCategory(size)

SizesSpec == SizesInit /\ [][SizesNext]_sizeVars

(* A size always gets the same category, whichever other categories were    *)
(* made before: the exact-size shortcut never finds another one than the    *)
(* computation would.  Its slots are large enough, as an assert says, and   *)
(* aligned, and the padding stays below half the object.                    *)
CategorySuitable ==
    \A r \in served :
        /\ r[2] = BestSize(r[1])
        /\ r[2] >= r[1] /\ r[2] % 8 = 0
        /\ 2 * (r[2] - r[1]) < r[1]
=============================================================================
