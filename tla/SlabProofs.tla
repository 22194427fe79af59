----------------------------- MODULE SlabProofs -----------------------------
(***************************************************************************)
(* The allocator's safety properties and its refinement of ObjectHeap,     *)
(* proved for any number of slabs of any number of slots; and the choice   *)
(* of a size category, for any sizes.                                      *)
(***************************************************************************)
EXTENDS SlabAllocator, SizeCategories, IntrusiveListProofs, FiniteSetTheorems

(***************************************************************************)
(* The lists, by the set of nodes that are on them.                        *)
(***************************************************************************)
Linked(l, Nodes) ==
    /\ l \in Lists(Nodes, NULL)
    /\ \E q \in Seq(Nodes) : Represents(l, q, Nodes, NULL)

(* The nodes that look linked are the elements the list stands for. *)
LEMMA OnListOf ==
    ASSUME NEW Nodes, NULL \notin Nodes, NEW l \in Lists(Nodes, NULL),
           NEW q \in Seq(Nodes), Represents(l, q, Nodes, NULL)
    PROVE  OnList(l) = On(q)
  <1>1. DOMAIN l.next = Nodes
    BY DEF Lists
  <1>2. \A i \in 1..Len(q) : q[i] \in Nodes
    OBVIOUS
  <1>3. ASSUME NEW i \in 1..Len(q) PROVE l.start = q[i] \/ l.prev[q[i]] # NULL
    <2>1. CASE i = 1
      <3>1. q # <<>>
        OBVIOUS
      <3> QED BY <2>1, <3>1 DEF Represents
    <2>2. CASE i # 1
      <3>1. l.prev[q[i]] = q[i - 1] /\ i - 1 \in 1..Len(q)
        BY <2>2 DEF Represents
      <3> QED BY <1>2, <3>1
    <2> QED BY <2>1, <2>2
  <1>4. ASSUME NEW m \in Nodes, m \notin On(q) PROVE l.start # m /\ l.prev[m] = NULL
    <2>1. l.prev[m] = NULL
      BY <1>4 DEF Represents, On
    <2>2. l.start = NULL \/ l.start \in On(q)
      <3>1. CASE q = <<>>
        BY <3>1 DEF Represents
      <3>2. CASE q # <<>>
        <4>1. 1 \in 1..Len(q)
          BY <3>2
        <4> QED BY <3>2, <4>1 DEF Represents, On
      <3> QED BY <3>1, <3>2
    <2> QED BY <1>4, <2>1, <2>2
  <1>5. On(q) \subseteq Nodes
    BY <1>2 DEF On
  <1>6. On(q) \subseteq OnList(l)
    BY <1>1, <1>2, <1>3 DEF On, OnList
  <1>7. OnList(l) \subseteq On(q)
    BY <1>1, <1>4 DEF OnList
  <1> QED BY <1>6, <1>7

(* The start of a list is its first element, and empty lists have none. *)
LEMMA LinkedStart ==
    ASSUME NEW Nodes, NULL \notin Nodes, NEW l, Linked(l, Nodes)
    PROVE  /\ OnList(l) \subseteq Nodes
           /\ l.start = NULL <=> OnList(l) = {}
           /\ l.start # NULL => /\ l.start \in OnList(l)
                                /\ l.prev[l.start] = NULL
  <1>1. PICK q \in Seq(Nodes) : Represents(l, q, Nodes, NULL)
    BY DEF Linked
  <1>2. l \in Lists(Nodes, NULL)
    BY DEF Linked
  <1>3. OnList(l) = On(q)
    BY <1>1, <1>2, OnListOf
  <1>4. CASE q = <<>>
    <2>1. l.start = NULL /\ On(q) = {}
      BY <1>1, <1>4 DEF Represents, On
    <2> QED BY <1>3, <2>1
  <1>5. CASE q # <<>>
    <2>1. 1 \in 1..Len(q) /\ q[1] \in Nodes
      BY <1>5
    <2>2. l.start = q[1] /\ l.prev[q[1]] = NULL
      BY <1>1, <1>5, <2>1 DEF Represents
    <2>3. q[1] \in On(q) /\ On(q) \subseteq Nodes
      BY <2>1 DEF On
    <2> QED BY <1>3, <2>1, <2>2, <2>3
  <1> QED BY <1>4, <1>5

(* An empty list, and a list of one node. *)
LEMMA LinkedEmpty ==
    ASSUME NEW Nodes, NULL \notin Nodes
    PROVE  Linked(EmptyList(Nodes, NULL), Nodes) /\ OnList(EmptyList(Nodes, NULL)) = {}
  <1> DEFINE l == EmptyList(Nodes, NULL)
  <1>1. l \in Lists(Nodes, NULL)
    BY DEF EmptyList, Lists
  <1>2. <<>> \in Seq(Nodes) /\ Len(<<>>) = 0
    OBVIOUS
  <1>3. Represents(l, <<>>, Nodes, NULL)
    BY <1>2 DEF EmptyList, Represents
  <1>4. On(<<>>) = {}
    BY <1>2 DEF On
  <1> HIDE DEF l
  <1>5. OnList(l) = {}
    BY <1>1, <1>2, <1>3, <1>4, OnListOf
  <1> QED BY <1>1, <1>2, <1>3, <1>5 DEF Linked, l

(* Inserting a node into an empty list gives a well-linked list of that node. *)
LEMMA LinkedSingle ==
    ASSUME NEW Nodes, NULL \notin Nodes, NEW n \in Nodes
    PROVE  /\ Linked(InsertAtStart(EmptyList(Nodes, NULL), n, NULL), Nodes)
           /\ OnList(InsertAtStart(EmptyList(Nodes, NULL), n, NULL)) = {n}
  <1> DEFINE l == InsertAtStart(EmptyList(Nodes, NULL), n, NULL)
             q == <<n>>
             none == [m \in Nodes |-> NULL]
  <1>1. l = [start |-> n, end |-> n, count |-> 1, next |-> none, prev |-> none]
    <2> DEFINE e == EmptyList(Nodes, NULL)
    <2>1. e = [start |-> NULL, end |-> NULL, count |-> 0, next |-> none, prev |-> none]
      BY DEF EmptyList
    <2>2. l = [e EXCEPT !.count = @ + 1, !.start = n, !.end = n]
      BY DEF EmptyList, InsertAtStart
    <2>3. e \in Lists(Nodes, NULL)
      BY LinkedEmpty DEF Linked
    <2> HIDE DEF e, l, none
    <2>4. l = [start |-> n, end |-> n, count |-> e.count + 1, next |-> e.next, prev |-> e.prev]
      BY <2>2, <2>3 DEF Lists
    <2>5. e.count + 1 = 1 /\ e.next = none /\ e.prev = none
      BY <2>1
    <2> QED BY <2>4, <2>5
  <1>2. none \in [Nodes -> Nodes \cup {NULL}] /\ \A m \in Nodes : none[m] = NULL
    OBVIOUS
  <1>3. q \in Seq(Nodes) /\ Len(q) = 1 /\ q[1] = n /\ q # <<>> /\ 1..Len(q) = {1}
    OBVIOUS
  <1> HIDE DEF l, q, none
  <1>4. l \in Lists(Nodes, NULL)
    BY <1>1, <1>2 DEF Lists
  <1>5. Represents(l, q, Nodes, NULL)
    BY <1>1, <1>2, <1>3 DEF Represents
  <1>6. On(q) = {n}
    BY <1>3 DEF On
  <1>7. OnList(l) = {n}
    BY <1>3, <1>4, <1>5, <1>6, OnListOf
  <1> QED BY <1>3, <1>4, <1>5, <1>7 DEF Linked, l

(* What the operations do to the set of the elements. *)
LEMMA LinkedInsertAtEnd ==
    ASSUME NEW Nodes, NULL \notin Nodes, NEW l, Linked(l, Nodes),
           NEW n \in Nodes, n \notin OnList(l)
    PROVE  /\ Linked(InsertAtEnd(l, n, NULL), Nodes)
           /\ OnList(InsertAtEnd(l, n, NULL)) = OnList(l) \cup {n}
  <1> DEFINE r == InsertAtEnd(l, n, NULL)
  <1>1. PICK q \in Seq(Nodes) : Represents(l, q, Nodes, NULL)
    BY DEF Linked
  <1>2. l \in Lists(Nodes, NULL)
    BY DEF Linked
  <1>3. OnList(l) = On(q)
    BY <1>1, <1>2, OnListOf
  <1> DEFINE w == WithAfter(q, Len(q), n)
  <1>4. Len(q) \in 0..Len(q)
    OBVIOUS
  <1>5. w \in Seq(Nodes)
    BY <1>4, WithAfterIs
  <1>6. On(w) = On(q) \cup {n}
    BY <1>4, OnWithAfter
  <1>7. Represents(r, w, Nodes, NULL)
    BY <1>1, <1>2, <1>3, InsertAtEndRepresents
  <1>8. r \in Lists(Nodes, NULL)
    BY <1>2, InsertAtEndFields
  <1> HIDE DEF r, w
  <1>9. OnList(r) = On(w)
    BY <1>5, <1>7, <1>8, OnListOf
  <1> QED BY <1>3, <1>5, <1>6, <1>7, <1>8, <1>9 DEF Linked, r

(* InsertAfter keeps a list well linked and adds one node. *)
LEMMA LinkedInsertAfter ==
    ASSUME NEW Nodes, NULL \notin Nodes, NEW l, Linked(l, Nodes),
           NEW p \in OnList(l), NEW n \in Nodes, n \notin OnList(l)
    PROVE  /\ Linked(InsertAfter(l, p, n, NULL), Nodes)
           /\ OnList(InsertAfter(l, p, n, NULL)) = OnList(l) \cup {n}
  <1> DEFINE r == InsertAfter(l, p, n, NULL)
  <1>1. PICK q \in Seq(Nodes) : Represents(l, q, Nodes, NULL)
    BY DEF Linked
  <1>2. l \in Lists(Nodes, NULL)
    BY DEF Linked
  <1>3. OnList(l) = On(q)
    BY <1>1, <1>2, OnListOf
  <1>4. PICK k \in 1..Len(q) : p = q[k]
    BY <1>3 DEF On
  <1> DEFINE w == WithAfter(q, k, n)
  <1>5. k \in 0..Len(q) /\ p \in Nodes
    BY <1>4
  <1>6. w \in Seq(Nodes)
    BY <1>5, WithAfterIs
  <1>7. On(w) = On(q) \cup {n}
    BY <1>5, OnWithAfter
  <1>8. Represents(r, w, Nodes, NULL)
    <2>1. n \notin On(q)
      BY <1>3
    <2>2. Represents(InsertAfter(l, q[k], n, NULL), w, Nodes, NULL)
      BY <1>1, <1>2, <2>1, InsertAfterRepresents
    <2> QED BY <1>4, <2>2
  <1>9. r \in Lists(Nodes, NULL)
    BY <1>2, <1>5, InsertAfterFields
  <1> HIDE DEF r, w
  <1>10. OnList(r) = On(w)
    BY <1>6, <1>8, <1>9, OnListOf
  <1> QED BY <1>3, <1>6, <1>7, <1>8, <1>9, <1>10 DEF Linked, r

(* Remove keeps a list well linked and takes one node away. *)
LEMMA LinkedRemove ==
    ASSUME NEW Nodes, NULL \notin Nodes, NEW l, Linked(l, Nodes), NEW n \in OnList(l)
    PROVE  /\ Linked(Remove(l, n, NULL), Nodes)
           /\ OnList(Remove(l, n, NULL)) = OnList(l) \ {n}
  <1> DEFINE r == Remove(l, n, NULL)
  <1>1. PICK q \in Seq(Nodes) : Represents(l, q, Nodes, NULL)
    BY DEF Linked
  <1>2. l \in Lists(Nodes, NULL)
    BY DEF Linked
  <1>3. OnList(l) = On(q)
    BY <1>1, <1>2, OnListOf
  <1>4. PICK k \in 1..Len(q) : n = q[k]
    BY <1>3 DEF On
  <1> DEFINE w == Without(q, k)
  <1>5. n \in Nodes
    BY <1>4
  <1>6. w \in Seq(Nodes)
    BY WithoutIs
  <1>7. On(w) = On(q) \ {n}
    <2>1. \A i, j \in 1..Len(q) : q[i] = q[j] => i = j
      BY <1>1 DEF Represents
    <2> QED BY <1>4, <2>1, OnWithout
  <1>8. Represents(r, w, Nodes, NULL)
    <2>1. Represents(Remove(l, q[k], NULL), w, Nodes, NULL)
      BY <1>1, <1>2, RemoveRepresents
    <2> QED BY <1>4, <2>1
  <1>9. r \in Lists(Nodes, NULL)
    BY <1>2, <1>5, RemoveFields
  <1> HIDE DEF r, w
  <1>10. OnList(r) = On(w)
    BY <1>6, <1>8, <1>9, OnListOf
  <1> QED BY <1>3, <1>6, <1>7, <1>8, <1>9, <1>10 DEF Linked, r

(* A linked list is well linked. *)
LEMMA LinkedWellLinked ==
    ASSUME NEW Nodes, NULL \notin Nodes, NEW l, Linked(l, Nodes)
    PROVE  WellLinked(l)
  <1>1. PICK q \in Seq(Nodes) : Represents(l, q, Nodes, NULL)
    BY DEF Linked
  <1>2. l \in Lists(Nodes, NULL) /\ DOMAIN l.next = Nodes
    BY DEF Linked, Lists
  <1>3. OnList(l) = On(q)
    BY <1>1, <1>2, OnListOf
  <1>4. q \in [1..Len(q) -> On(q)]
    BY DEF On
  <1>5. \A i, j \in 1..Len(q) : q[i] = q[j] => i = j
    BY <1>1 DEF Represents
  <1>6. q \in Bijection(1..Len(q), On(q))
    BY <1>4, <1>5 DEF Bijection, Injection, Surjection, IsInjective, On
  <1>7. ExistsBijection(1..Len(q), On(q)) /\ Len(q) \in Nat
    BY <1>6 DEF ExistsBijection
  <1>8. Cardinality(On(q)) = Len(q)
    BY <1>7, FS_CountingElements
  <1> QED BY <1>1, <1>2, <1>3, <1>4, <1>8 DEF WellLinked

(***************************************************************************)
(* The layout of one slab: c is its cells, ln the lengths in its shims and *)
(* S the set of the shims on its list.  Shims are not adjacent, except     *)
(* that the one the sweep has open, L, may touch the one it comes to next. *)
(***************************************************************************)
Shims(c, ln, S) ==
    /\ S \subseteq SlotIds
    /\ \A i \in S : c[i] = "shim" /\ ln[i] > 0 /\ i + ln[i] <= Slots

Apart(ln, S, L) ==
    \A i, j \in S : i < j => i + ln[i] <= j /\ (i # L => i + ln[i] # j)

Tiles(c, ln, S) ==
    \A i \in SlotIds : c[i] = "obj" <=> \A j \in S : ~(j <= i /\ i < j + ln[j])

Layout(c, ln, S, L) == Shims(c, ln, S) /\ Apart(ln, S, L) /\ Tiles(c, ln, S)

(* The walk is at slot p: no shim reaches over p, and the open shim is the  *)
(* one, if any, that ends there.                                            *)
Walked(ln, S, L, p) ==
    /\ L # NULL => L \in S /\ L + ln[L] = p
    /\ \A i \in S : i < p => i + ln[i] <= p /\ (i # L => i + ln[i] # p)

(* The objects of a slab that lie below p. *)
ObjectsBelow(c, p) == {i \in SlotIds : c[i] = "obj" /\ i < p}

CellValues == [SlotIds -> {"null", "shim", "obj"}]
LengthValues == [SlotIds -> Nat]

(***************************************************************************)
(* The inductive invariant.                                                *)
(***************************************************************************)
ShimsOf(s) == OnList(freeSpaceList[s])

SlabTypeOK ==
    /\ slabs \in 0..MaxSlabs
    /\ cell \in [SlabIds -> CellValues]
    /\ length \in [SlabIds -> LengthValues]
    /\ freeSpaceList \in [SlabIds -> Lists(SlotIds, NULL)]
    /\ currentObjects \in [SlabIds -> Nat]
    /\ sweeping \in 0..slabs
    /\ ptr \in 0..Slots
    /\ lastFreeShim \in SlotIds \cup {NULL}
    /\ objectCount \in Nat
    /\ checkFailed = FALSE

ListsLinked ==
    /\ Linked(freeSlabs, SlabIds)
    /\ \A s \in SlabIds : Linked(freeSpaceList[s], SlotIds)

(* Slabs that are not mapped yet are empty. *)
UnmappedEmpty ==
    \A s \in SlabIds : s > slabs =>
        /\ \A i \in SlotIds : cell[s][i] = "null"
        /\ ShimsOf(s) = {}
        /\ s \notin OnList(freeSlabs)
        /\ currentObjects[s] = 0

(* Slabs at rest: tiled, counted, and on freeSlabs exactly when they have   *)
(* free space.                                                              *)
AtRest(s) ==
    /\ Layout(cell[s], length[s], ShimsOf(s), NULL)
    /\ currentObjects[s] = Cardinality(ObjectsBelow(cell[s], Slots))
    /\ s \in OnList(freeSlabs) <=> ShimsOf(s) # {}

(* The slab being swept. *)
UnderSweep(s) ==
    /\ Layout(cell[s], length[s], ShimsOf(s), lastFreeShim)
    /\ Walked(length[s], ShimsOf(s), lastFreeShim, ptr)
    /\ objectCount = Cardinality(ObjectsBelow(cell[s], ptr))
    /\ s \in OnList(freeSlabs) => ShimsOf(s) # {}

SlabInv ==
    /\ SlabTypeOK
    /\ ListsLinked
    /\ UnmappedEmpty
    /\ \A s \in 1..slabs : IF s = sweeping THEN UnderSweep(s) ELSE AtRest(s)

(***************************************************************************)
(* What allocation and the steps of the sweep do to a layout.              *)
(***************************************************************************)

(* The slots are integers, and NULL is not one. *)
LEMMA SlotFacts ==
    /\ Slots \in Nat /\ Slots > 0 /\ 0 \in SlotIds /\ SlotIds \subseteq Nat
    /\ NULL \notin SlotIds /\ NULL \notin SlabIds
    /\ \A i \in SlotIds : i \in Nat /\ i < Slots
    /\ \A i \in Nat : i < Slots => i \in SlotIds
  BY SlabAssumption DEF SlotIds, SlabIds

(* A whole slab that is one shim. *)
LEMMA FreshLayout ==
    ASSUME NEW c \in CellValues, \A i \in SlotIds : c[i] = "null",
           NEW ln \in LengthValues
    PROVE  Layout([c EXCEPT ![0] = "shim"], [ln EXCEPT ![0] = Slots], {0}, NULL)
  <1> DEFINE d == [c EXCEPT ![0] = "shim"]
             m == [ln EXCEPT ![0] = Slots]
  <1>1. d[0] = "shim" /\ m[0] = Slots /\ \A i \in SlotIds : d[i] # "obj"
    BY SlotFacts DEF CellValues, LengthValues
  <1> HIDE DEF d, m
  <1> QED BY <1>1, SlotFacts DEF Layout, Shims, Apart, Tiles, d, m

(* Slot i has become an object and T are the shims left: the cells were c   *)
(* and are d now, m are the lengths.                                        *)
Taken(d, m, T, c, i) ==
    /\ d \in CellValues /\ m \in LengthValues
    /\ Layout(d, m, T, NULL)
    /\ c[i] # "obj"
    /\ \A k \in SlotIds : d[k] = "obj" <=> c[k] = "obj" \/ k = i

(* Allocation at the start of a shim that has space left: the shim moves on *)
(* by a slot.                                                               *)
LEMMA ShrinkLayout ==
    ASSUME NEW c \in CellValues, NEW ln \in LengthValues, NEW S,
           Layout(c, ln, S, NULL), NEW i \in S, ln[i] - 1 > 0,
           NEW n, n = i + 1,
           NEW d, d = [c EXCEPT ![i] = "obj", ![n] = "shim"],
           NEW m, m = [ln EXCEPT ![n] = ln[i] - 1]
    PROVE  /\ n \in SlotIds /\ n \notin S
           /\ Taken(d, m, (S \cup {n}) \ {i}, c, i)
  <1> DEFINE T == (S \cup {n}) \ {i}
  <1>1. /\ S \subseteq SlotIds /\ i \in SlotIds /\ i \in Nat /\ ln[i] \in Nat
        /\ i + ln[i] <= Slots /\ c[i] = "shim" /\ Slots \in Nat
    BY SlotFacts DEF Layout, Shims, LengthValues
  <1>2. n \in SlotIds /\ ln[i] - 1 \in Nat
    BY <1>1, SlotFacts
  <1>3. n \notin S
    BY <1>1, SlotFacts DEF Layout, Apart
  <1>4. d \in CellValues /\ m \in LengthValues
    BY <1>1, <1>2 DEF CellValues, LengthValues
  <1>5. /\ d[n] = "shim" /\ d[i] = "obj" /\ m[n] = ln[i] - 1
        /\ \A k \in SlotIds : k # n => m[k] = ln[k]
        /\ \A k \in SlotIds : k # n /\ k # i => d[k] = c[k]
    <2>1. n # i
      BY <1>1
    <2> QED BY <1>1, <1>2, <2>1 DEF CellValues, LengthValues
  <1>6. c[n] # "obj"
    <2>1. i <= n /\ i + 1 < i + ln[i]
      BY <1>1
    <2> QED BY <1>1, <1>2, <2>1 DEF Layout, Tiles
  <1>7. Shims(d, m, T)
    <2>1. ASSUME NEW k \in T PROVE d[k] = "shim" /\ m[k] > 0 /\ k + m[k] <= Slots
      <3>1. CASE k = n
        BY <1>1, <1>2, <1>5, <3>1
      <3>2. CASE k # n
        BY <1>1, <1>5, <2>1, <3>2 DEF Layout, Shims
      <3> QED BY <3>1, <3>2
    <2> QED BY <1>1, <1>2, <2>1 DEF Shims
  <1>8. Apart(m, T, NULL)
    <2> SUFFICES ASSUME NEW j \in T, NEW k \in T, j < k PROVE j + m[j] < k
      <3>1. \A j, k \in T : j \in Nat /\ k \in Nat /\ m[j] \in Nat
        BY <1>1, <1>2, <1>4, SlotFacts DEF LengthValues
      <3> QED BY <3>1 DEF Apart
    <2>1. \A x, y \in S : x < y => x + ln[x] < y
      <3>1. \A x, y \in S : x \in Nat /\ y \in Nat /\ ln[x] \in Nat /\ x # NULL
        BY <1>1, SlotFacts DEF LengthValues
      <3> QED BY <3>1 DEF Layout, Apart
    <2>2. j \in SlotIds /\ k \in SlotIds /\ j \in Nat /\ k \in Nat
      BY <1>1, <1>2, SlotFacts
    <2>3. CASE j = n
      <3>1. k \in S /\ i < k
        BY <1>1, <2>2, <2>3
      <3>2. i + ln[i] < k
        BY <2>1, <3>1
      <3> QED BY <1>1, <1>2, <1>5, <2>2, <2>3, <3>2
    <2>4. CASE j # n /\ k = n
      <3>1. j \in S /\ j < i /\ m[j] = ln[j]
        BY <1>1, <1>5, <2>2, <2>4
      <3>2. j + ln[j] < i
        BY <2>1, <3>1
      <3>3. ln[j] \in Nat
        BY <2>2 DEF LengthValues
      <3> QED BY <1>1, <2>2, <2>4, <3>1, <3>2, <3>3
    <2>5. CASE j # n /\ k # n
      <3>1. j \in S /\ k \in S /\ m[j] = ln[j]
        BY <1>5, <2>2, <2>5
      <3> QED BY <2>1, <3>1
    <2> QED BY <2>3, <2>4, <2>5
  <1>9. Tiles(d, m, T)
    <2> SUFFICES ASSUME NEW k \in SlotIds
                 PROVE  d[k] = "obj" <=> \A j \in T : ~(j <= k /\ k < j + m[j])
      BY DEF Tiles
    <2>1. k \in Nat /\ \A j \in S : j \in Nat /\ j \in SlotIds /\ ln[j] \in Nat
      BY <1>1, SlotFacts DEF LengthValues
    <2>2. c[k] = "obj" <=> \A j \in S : ~(j <= k /\ k < j + ln[j])
      BY DEF Layout, Tiles
    <2>3. \A j \in T : j # n => j \in S /\ j # i /\ m[j] = ln[j]
      BY <1>1, <1>5
    <2>4. \A j \in S : j # i => j \in T /\ m[j] = ln[j]
      BY <1>1, <1>3, <1>5
    <2>5. n \in T /\ m[n] = ln[i] - 1
      BY <1>1, <1>2, <1>5
    <2>6. CASE k = i
      <3>1. d[k] = "obj"
        BY <1>1, <1>5, <2>6
      <3>2. ASSUME NEW j \in T, j <= k, k < j + m[j] PROVE FALSE
        <4>1. j # n
          BY <1>1, <2>6, <3>2
        <4>2. j \in S /\ j # i /\ m[j] = ln[j]
          BY <2>3, <4>1
        <4>3. j < i /\ ~(j + ln[j] <= i)
          BY <1>1, <2>1, <2>6, <3>2, <4>2
        <4> QED BY <4>2, <4>3 DEF Layout, Apart
      <3> QED BY <3>1, <3>2
    <2>7. CASE k = n
      <3>1. d[k] = "shim" /\ n <= k /\ k < n + m[n]
        BY <1>1, <1>5, <2>5, <2>7
      <3> QED BY <2>5, <3>1
    <2>8. CASE k # i /\ k # n
      <3>1. d[k] = c[k]
        BY <1>5, <2>8
      <3>2. (i <= k /\ k < i + ln[i]) <=> (n <= k /\ k < n + m[n])
        BY <1>1, <2>1, <2>5, <2>8
      <3>3. ASSUME NEW j \in T, j <= k, k < j + m[j]
            PROVE  \E x \in S : x <= k /\ k < x + ln[x]
        <4>1. CASE j = n
          BY <3>2, <3>3, <4>1
        <4>2. CASE j # n
          BY <2>3, <3>3, <4>2
        <4> QED BY <4>1, <4>2
      <3>4. ASSUME NEW j \in S, j <= k, k < j + ln[j]
            PROVE  \E x \in T : x <= k /\ k < x + m[x]
        <4>1. CASE j = i
          BY <2>5, <3>2, <3>4, <4>1
        <4>2. CASE j # i
          BY <2>4, <3>4, <4>2
        <4> QED BY <4>1, <4>2
      <3> QED BY <2>2, <3>1, <3>3, <3>4
    <2> QED BY <2>6, <2>7, <2>8
  <1>10. \A k \in SlotIds : d[k] = "obj" <=> c[k] = "obj" \/ k = i
    BY <1>1, <1>5, <1>6
  <1> QED BY <1>1, <1>2, <1>3, <1>4, <1>7, <1>8, <1>9, <1>10 DEF Layout, Taken

(* Allocation of the last slot of a shim: the shim goes. *)
LEMMA FillLayout ==
    ASSUME NEW c \in CellValues, NEW ln \in LengthValues, NEW S,
           Layout(c, ln, S, NULL), NEW i \in S, ~(ln[i] - 1 > 0),
           NEW d, d = [c EXCEPT ![i] = "obj"]
    PROVE  Taken(d, ln, S \ {i}, c, i)
  <1>1. /\ S \subseteq SlotIds /\ i \in SlotIds /\ i \in Nat /\ ln[i] = 1
        /\ c[i] = "shim"
    BY SlotFacts DEF Layout, Shims, LengthValues
  <1>2. d \in CellValues /\ \A k \in SlotIds : d[k] = IF k = i THEN "obj" ELSE c[k]
    BY <1>1 DEF CellValues
  <1>3. Shims(d, ln, S \ {i}) /\ Apart(ln, S \ {i}, NULL)
    BY <1>1, <1>2 DEF Layout, Shims, Apart
  <1>4. Tiles(d, ln, S \ {i})
    <2> SUFFICES ASSUME NEW k \in SlotIds
                 PROVE  d[k] = "obj" <=> \A j \in S \ {i} : ~(j <= k /\ k < j + ln[j])
      BY DEF Tiles
    <2>1. k \in Nat /\ \A j \in S : j \in Nat /\ ln[j] \in Nat
      BY <1>1, SlotFacts DEF LengthValues
    <2>2. c[k] = "obj" <=> \A j \in S : ~(j <= k /\ k < j + ln[j])
      BY DEF Layout, Tiles
    <2>3. CASE k = i
      <3>1. ASSUME NEW j \in S \ {i}, j <= k, k < j + ln[j] PROVE FALSE
        <4>1. j < i /\ ~(j + ln[j] <= i)
          BY <1>1, <2>1, <2>3, <3>1
        <4> QED BY <4>1 DEF Layout, Apart
      <3> QED BY <1>2, <2>3, <3>1
    <2>4. CASE k # i
      <3>1. ~(i <= k /\ k < i + ln[i])
        BY <1>1, <2>1, <2>4
      <3> QED BY <1>2, <2>2, <2>4, <3>1
    <2> QED BY <2>3, <2>4
  <1> QED BY <1>1, <1>2, <1>3, <1>4 DEF Layout, Taken

(* At a slot the walk comes to there is the first word of a shim on the     *)
(* list, or an object.                                                      *)
LEMMA WalkMeets ==
    ASSUME NEW c \in CellValues, NEW ln \in LengthValues, NEW S, NEW L,
           Layout(c, ln, S, L), NEW p \in SlotIds, Walked(ln, S, L, p)
    PROVE  /\ c[p] = "shim" => p \in S
           /\ c[p] # "shim" => c[p] = "obj" /\ p \notin S
  <1>1. S \subseteq SlotIds /\ p \in Nat /\ \A j \in S : j \in Nat /\ ln[j] \in Nat
    BY SlotFacts DEF Layout, Shims, LengthValues
  <1>2. c[p] # "obj" => p \in S
    <2> SUFFICES ASSUME c[p] # "obj" PROVE p \in S
      OBVIOUS
    <2>1. PICK j \in S : j <= p /\ p < j + ln[j]
      BY DEF Layout, Tiles
    <2>2. ~(j < p)
      BY <1>1, <2>1 DEF Walked
    <2> QED BY <1>1, <2>1, <2>2
  <1>3. p \in S => c[p] = "shim"
    BY DEF Layout, Shims
  <1> QED BY <1>2, <1>3

(* There are no objects inside a shim. *)
LEMMA NothingInside ==
    ASSUME NEW c \in CellValues, NEW ln \in LengthValues, NEW S, NEW L,
           Layout(c, ln, S, L), NEW p \in S
    PROVE  /\ \A i \in SlotIds : p <= i /\ i < p + ln[p] => c[i] # "obj"
           /\ ObjectsBelow(c, p + ln[p]) = ObjectsBelow(c, p)
  <1>1. \A i \in SlotIds : p <= i /\ i < p + ln[p] => c[i] # "obj"
    BY DEF Layout, Tiles
  <1>2. /\ p \in Nat /\ ln[p] \in Nat /\ \A i \in SlotIds : i \in Nat
    BY SlotFacts DEF Layout, Shims, LengthValues
  <1>3. \A i \in SlotIds : c[i] = "obj" => (i < p + ln[p] <=> i < p)
    BY <1>1, <1>2
  <1> QED BY <1>1, <1>3 DEF ObjectsBelow

(* The walk opens a shim. *)
LEMMA OpenShim ==
    ASSUME NEW c \in CellValues, NEW ln \in LengthValues, NEW S,
           Layout(c, ln, S, NULL), NEW p \in S, Walked(ln, S, NULL, p)
    PROVE  /\ p + ln[p] \in 0..Slots
           /\ Layout(c, ln, S, p) /\ Walked(ln, S, p, p + ln[p])
  <1>1. /\ S \subseteq SlotIds /\ p \in Nat /\ Slots \in Nat
        /\ \A j \in S : j \in Nat /\ ln[j] \in Nat /\ j # NULL
    BY SlotFacts DEF Layout, Shims, LengthValues
  <1>2. p + ln[p] \in 0..Slots
    BY <1>1 DEF Layout, Shims
  <1>3. Layout(c, ln, S, p)
    BY <1>1 DEF Layout, Apart
  <1>4. ASSUME NEW i \in S, i < p + ln[p]
        PROVE  i + ln[i] <= p + ln[p] /\ (i # p => i + ln[i] # p + ln[p])
    <2>0. ln[p] > 0
      BY DEF Layout, Shims
    <2>1. CASE i < p
      <3>1. i + ln[i] <= p
        BY <2>1 DEF Walked
      <3> QED BY <1>1, <2>0, <3>1
    <2>2. CASE i > p
      <3>1. p + ln[p] <= i
        BY <2>2 DEF Layout, Apart
      <3> QED BY <1>1, <1>4, <3>1
    <2>3. CASE i = p
      BY <1>1, <2>3
    <2> QED BY <1>1, <2>1, <2>2, <2>3
  <1>5. Walked(ln, S, p, p + ln[p])
    BY <1>4 DEF Walked
  <1> QED BY <1>2, <1>3, <1>5

(* The walk merges a shim into the open one. *)
Merged(c, m, T, L, r) ==
    /\ r \in 0..Slots /\ m \in LengthValues
    /\ Layout(c, m, T, L) /\ Walked(m, T, L, r)
    /\ L \in T

(* Merging the shim at the walk's position into the one right before it leaves a
   layout with one shim less, walked up to where the merged shim ended. *)
LEMMA MergeShim ==
    ASSUME NEW c \in CellValues, NEW ln \in LengthValues, NEW S, NEW L,
           L # NULL, Layout(c, ln, S, L), NEW p \in S, Walked(ln, S, L, p),
           NEW m, m = [ln EXCEPT ![L] = ln[L] + ln[p]]
    PROVE  Merged(c, m, S \ {p}, L, p + ln[p])
  <1> DEFINE T == S \ {p}
  <1>1. /\ S \subseteq SlotIds /\ p \in Nat /\ Slots \in Nat
        /\ \A j \in S : j \in Nat /\ j \in SlotIds /\ ln[j] \in Nat /\ ln[j] > 0
    BY SlotFacts DEF Layout, Shims, LengthValues
  <1>2. p + ln[p] \in 0..Slots
    BY <1>1 DEF Layout, Shims
  <1>3. L \in S /\ L + ln[L] = p
    BY DEF Walked
  <1>4. L < p /\ L \in T
    BY <1>1, <1>3
  <1>5. /\ m \in LengthValues /\ m[L] = ln[L] + ln[p]
        /\ \A j \in SlotIds : j # L => m[j] = ln[j]
    BY <1>1, <1>3 DEF LengthValues
  <1>6. L + m[L] = p + ln[p] /\ \A j \in T : m[j] \in Nat
    BY <1>1, <1>3, <1>5 DEF LengthValues
  <1>7. ASSUME NEW i \in T, NEW j \in T, i < j
        PROVE  i + m[i] <= j /\ (i # L => i + m[i] # j)
    <2>1. CASE i = L
      <3>1. p < j
        <4>1. L + ln[L] <= j
          BY <1>7, <2>1 DEF Layout, Apart
        <4> QED BY <1>1, <1>3, <1>7, <4>1
      <3>2. p + ln[p] <= j
        BY <3>1 DEF Layout, Apart
      <3> QED BY <1>6, <2>1, <3>2
    <2>2. CASE i # L
      <3>1. m[i] = ln[i]
        BY <1>1, <1>5, <2>2
      <3> QED BY <1>7, <2>2, <3>1 DEF Layout, Apart
    <2> QED BY <2>1, <2>2
  <1>8. Shims(c, m, T)
    <2>1. ASSUME NEW i \in T PROVE c[i] = "shim" /\ m[i] > 0 /\ i + m[i] <= Slots
      <3>1. CASE i = L
        BY <1>1, <1>2, <1>3, <1>5, <1>6, <3>1 DEF Layout, Shims
      <3>2. CASE i # L
        <4>1. m[i] = ln[i]
          BY <1>1, <1>5, <3>2
        <4> QED BY <4>1 DEF Layout, Shims
      <3> QED BY <3>1, <3>2
    <2> QED BY <1>1, <2>1 DEF Shims
  <1>9. Tiles(c, m, T)
    <2> SUFFICES ASSUME NEW k \in SlotIds
                 PROVE  c[k] = "obj" <=> \A j \in T : ~(j <= k /\ k < j + m[j])
      BY DEF Tiles
    <2>1. k \in Nat
      BY SlotFacts
    <2>2. c[k] = "obj" <=> \A j \in S : ~(j <= k /\ k < j + ln[j])
      BY DEF Layout, Tiles
    <2>3. (L <= k /\ k < L + m[L]) <=> (L <= k /\ k < L + ln[L]) \/ (p <= k /\ k < p + ln[p])
      BY <1>1, <1>3, <1>6, <2>1
    <2>4. \A j \in T : j # L => m[j] = ln[j]
      BY <1>1, <1>5
    <2>5. ASSUME NEW j \in T, j <= k, k < j + m[j]
          PROVE  \E x \in S : x <= k /\ k < x + ln[x]
      <3>1. CASE j = L
        BY <1>3, <2>3, <2>5, <3>1
      <3>2. CASE j # L
        BY <2>4, <2>5, <3>2
      <3> QED BY <3>1, <3>2
    <2>6. ASSUME NEW j \in S, j <= k, k < j + ln[j]
          PROVE  \E x \in T : x <= k /\ k < x + m[x]
      <3>1. CASE j = L \/ j = p
        BY <1>4, <2>3, <2>6, <3>1
      <3>2. CASE j # L /\ j # p
        BY <2>4, <2>6, <3>2
      <3> QED BY <3>1, <3>2
    <2> QED BY <2>2, <2>5, <2>6
  <1>10. ASSUME NEW i \in T, i < p + ln[p]
         PROVE  i + m[i] <= p + ln[p] /\ (i # L => i + m[i] # p + ln[p])
    <2>1. CASE i = L
      BY <1>6, <1>1, <2>1
    <2>2. CASE i # L
      <3>1. m[i] = ln[i]
        BY <1>1, <1>5, <2>2
      <3>2. CASE i < p
        <4>1. i + ln[i] <= p
          BY <3>2 DEF Walked
        <4> QED BY <1>1, <3>1, <4>1
      <3>3. CASE i > p
        <4>1. p + ln[p] <= i
          BY <3>3 DEF Layout, Apart
        <4> QED BY <1>1, <1>10, <4>1
      <3> QED BY <1>1, <3>2, <3>3
    <2> QED BY <2>1, <2>2
  <1>11. Walked(m, T, L, p + ln[p])
    BY <1>4, <1>6, <1>10 DEF Walked
  <1> QED BY <1>2, <1>4, <1>5, <1>7, <1>8, <1>9, <1>11 DEF Layout, Apart, Merged

(* The walk passes an object that stays: no shim is open any more. *)
LEMMA KeepObject ==
    ASSUME NEW c \in CellValues, NEW ln \in LengthValues, NEW S, NEW L,
           Layout(c, ln, S, L), NEW p \in SlotIds, Walked(ln, S, L, p), p \notin S
    PROVE  Layout(c, ln, S, NULL) /\ Walked(ln, S, NULL, p + 1)
  <1>1. /\ S \subseteq SlotIds /\ p \in Nat
        /\ \A j \in S : j \in Nat /\ ln[j] \in Nat /\ j # NULL
    BY SlotFacts DEF Layout, Shims, LengthValues
  <1>2. ASSUME NEW i \in S, NEW j \in S, i < j PROVE i + ln[i] <= j /\ i + ln[i] # j
    <2>1. CASE i = L
      <3>1. i + ln[i] = p /\ i + ln[i] <= j
        BY <1>1, <1>2, <2>1 DEF Walked, Layout, Apart
      <3> QED BY <1>1, <3>1
    <2>2. CASE i # L
      BY <1>2, <2>2 DEF Layout, Apart
    <2> QED BY <2>1, <2>2
  <1>3. ASSUME NEW i \in S, i < p + 1 PROVE i + ln[i] <= p + 1 /\ i + ln[i] # p + 1
    <2>1. i < p
      BY <1>1, <1>3
    <2>2. i + ln[i] <= p
      BY <2>1 DEF Walked
    <2> QED BY <1>1, <2>2
  <1> QED BY <1>2, <1>3 DEF Layout, Apart, Walked

(* The walk frees an object right behind the open shim. *)
LEMMA ExtendShim ==
    ASSUME NEW c \in CellValues, NEW ln \in LengthValues, NEW S, NEW L,
           L # NULL, Layout(c, ln, S, L), NEW p \in SlotIds, Walked(ln, S, L, p),
           p \notin S,
           NEW d, d = [c EXCEPT ![p] = "null"],
           NEW m, m = [ln EXCEPT ![L] = ln[L] + 1]
    PROVE  /\ d \in CellValues /\ m \in LengthValues
           /\ Layout(d, m, S, L) /\ Walked(m, S, L, p + 1)
           /\ L \in S
  <1>1. /\ S \subseteq SlotIds /\ p \in Nat /\ Slots \in Nat /\ p + 1 <= Slots
        /\ \A j \in S : j \in Nat /\ j \in SlotIds /\ ln[j] \in Nat /\ ln[j] > 0
    BY SlotFacts DEF Layout, Shims, LengthValues
  <1>2. L \in S /\ L + ln[L] = p
    BY DEF Walked
  <1>3. /\ m \in LengthValues /\ m[L] = ln[L] + 1
        /\ \A j \in SlotIds : j # L => m[j] = ln[j]
    BY <1>1, <1>2 DEF LengthValues
  <1>4. /\ d \in CellValues /\ d[p] = "null" /\ \A j \in SlotIds : j # p => d[j] = c[j]
    BY DEF CellValues
  <1>5. L + m[L] = p + 1
    BY <1>1, <1>2, <1>3
  <1>6. ASSUME NEW i \in S, NEW j \in S, i < j
        PROVE  i + m[i] <= j /\ (i # L => i + m[i] # j)
    <2>1. CASE i = L
      <3>1. L + ln[L] <= j
        BY <1>6, <2>1 DEF Layout, Apart
      <3> QED BY <1>1, <1>2, <1>5, <2>1, <3>1
    <2>2. CASE i # L
      <3>1. m[i] = ln[i]
        BY <1>1, <1>3, <2>2
      <3> QED BY <1>6, <2>2, <3>1 DEF Layout, Apart
    <2> QED BY <2>1, <2>2
  <1>7. Shims(d, m, S)
    <2>1. ASSUME NEW i \in S PROVE d[i] = "shim" /\ m[i] > 0 /\ i + m[i] <= Slots
      <3>0. d[i] = "shim"
        BY <1>1, <1>4 DEF Layout, Shims
      <3>1. CASE i = L
        BY <1>1, <1>2, <1>3, <1>5, <3>0, <3>1
      <3>2. CASE i # L
        <4>1. m[i] = ln[i]
          BY <1>1, <1>3, <3>2
        <4> QED BY <3>0, <4>1 DEF Layout, Shims
      <3> QED BY <3>1, <3>2
    <2> QED BY <1>1, <2>1 DEF Shims
  <1>8. Tiles(d, m, S)
    <2> SUFFICES ASSUME NEW k \in SlotIds
                 PROVE  d[k] = "obj" <=> \A j \in S : ~(j <= k /\ k < j + m[j])
      BY DEF Tiles
    <2>1. k \in Nat
      BY SlotFacts
    <2>2. c[k] = "obj" <=> \A j \in S : ~(j <= k /\ k < j + ln[j])
      BY DEF Layout, Tiles
    <2>3. (L <= k /\ k < L + m[L]) <=> (L <= k /\ k < L + ln[L]) \/ k = p
      BY <1>1, <1>2, <1>5, <2>1
    <2>4. \A j \in S : j # L => m[j] = ln[j]
      BY <1>1, <1>3
    <2>5. CASE k = p
      BY <1>2, <1>4, <2>3, <2>5
    <2>6. CASE k # p
      <3>1. \A j \in S : (j <= k /\ k < j + m[j]) <=> (j <= k /\ k < j + ln[j])
        <4> SUFFICES ASSUME NEW j \in S
                     PROVE  (j <= k /\ k < j + m[j]) <=> (j <= k /\ k < j + ln[j])
          OBVIOUS
        <4>1. CASE j = L
          BY <2>3, <2>6, <4>1
        <4>2. CASE j # L
          BY <2>4, <4>2
        <4> QED BY <4>1, <4>2
      <3> QED BY <1>4, <2>2, <2>6, <3>1
    <2> QED BY <2>5, <2>6
  <1>9. ASSUME NEW i \in S, i < p + 1 PROVE i + m[i] <= p + 1 /\ (i # L => i + m[i] # p + 1)
    <2>1. CASE i = L
      BY <1>1, <1>5, <2>1
    <2>2. CASE i # L
      <3>1. m[i] = ln[i] /\ i < p
        BY <1>1, <1>3, <1>9, <2>2
      <3>2. i + ln[i] <= p
        BY <3>1 DEF Walked
      <3> QED BY <1>1, <3>1, <3>2
    <2> QED BY <2>1, <2>2
  <1>10. Walked(m, S, L, p + 1)
    BY <1>2, <1>5, <1>9 DEF Walked
  <1> QED BY <1>2, <1>3, <1>4, <1>6, <1>7, <1>8, <1>10 DEF Layout, Apart

(* The walk frees an object where no shim is open: a shim of its own. *)
LEMMA NewShim ==
    ASSUME NEW c \in CellValues, NEW ln \in LengthValues, NEW S,
           Layout(c, ln, S, NULL), NEW p \in SlotIds, Walked(ln, S, NULL, p),
           p \notin S,
           NEW d, d = [c EXCEPT ![p] = "shim"],
           NEW m, m = [ln EXCEPT ![p] = 1]
    PROVE  /\ d \in CellValues /\ m \in LengthValues
           /\ Layout(d, m, S \cup {p}, p) /\ Walked(m, S \cup {p}, p, p + 1)
  <1> DEFINE T == S \cup {p}
  <1>1. /\ S \subseteq SlotIds /\ p \in Nat /\ Slots \in Nat /\ p + 1 <= Slots
        /\ \A j \in S : /\ j \in Nat /\ j \in SlotIds /\ ln[j] \in Nat /\ ln[j] > 0
                        /\ j # NULL /\ j # p
    BY SlotFacts DEF Layout, Shims, LengthValues
  <1>2. m \in LengthValues /\ m[p] = 1 /\ \A j \in S : m[j] = ln[j]
    BY <1>1 DEF LengthValues
  <1>3. d \in CellValues /\ d[p] = "shim" /\ \A j \in SlotIds : j # p => d[j] = c[j]
    BY DEF CellValues
  <1>4. \A i, j \in S : i < j => i + ln[i] <= j /\ i + ln[i] # j
    BY <1>1 DEF Layout, Apart
  <1>5. \A i \in S : i < p => i + ln[i] <= p /\ i + ln[i] # p
    BY <1>1 DEF Walked
  <1>6. ASSUME NEW i \in T, NEW j \in T, i < j
        PROVE  i + m[i] <= j /\ (i # p => i + m[i] # j)
    <2>1. CASE i = p
      BY <1>1, <1>2, <1>6, <2>1
    <2>2. CASE i # p /\ j = p
      <3>1. i \in S /\ i < p /\ m[i] = ln[i]
        BY <1>2, <1>6, <2>2
      <3> QED BY <1>5, <2>2, <3>1
    <2>3. CASE i # p /\ j # p
      <3>1. i \in S /\ j \in S /\ m[i] = ln[i]
        BY <1>2, <2>3
      <3> QED BY <1>4, <1>6, <3>1
    <2> QED BY <2>1, <2>2, <2>3
  <1>7. Shims(d, m, T)
    <2>1. ASSUME NEW i \in T PROVE d[i] = "shim" /\ m[i] > 0 /\ i + m[i] <= Slots
      <3>1. CASE i = p
        BY <1>1, <1>2, <1>3, <3>1
      <3>2. CASE i # p
        <4>1. i \in S /\ m[i] = ln[i] /\ d[i] = c[i]
          BY <1>1, <1>2, <1>3, <3>2
        <4> QED BY <4>1 DEF Layout, Shims
      <3> QED BY <3>1, <3>2
    <2> QED BY <1>1, <2>1 DEF Shims
  <1>8. Tiles(d, m, T)
    <2> SUFFICES ASSUME NEW k \in SlotIds
                 PROVE  d[k] = "obj" <=> \A j \in T : ~(j <= k /\ k < j + m[j])
      BY DEF Tiles
    <2>1. k \in Nat
      BY SlotFacts
    <2>2. c[k] = "obj" <=> \A j \in S : ~(j <= k /\ k < j + ln[j])
      BY DEF Layout, Tiles
    <2>3. (p <= k /\ k < p + m[p]) <=> k = p
      BY <1>1, <1>2, <2>1
    <2>4. CASE k = p
      BY <1>3, <2>3, <2>4
    <2>5. CASE k # p
      <3>1. d[k] = c[k]
        BY <1>3, <2>5
      <3> QED BY <1>2, <2>2, <2>3, <2>5, <3>1
    <2> QED BY <2>4, <2>5
  <1>9. ASSUME NEW i \in T, i < p + 1 PROVE i + m[i] <= p + 1 /\ (i # p => i + m[i] # p + 1)
    <2>1. CASE i = p
      BY <1>1, <1>2, <2>1
    <2>2. CASE i # p
      <3>1. i \in S /\ m[i] = ln[i] /\ i < p
        BY <1>1, <1>2, <1>9, <2>2
      <3>2. i + ln[i] <= p
        BY <1>5, <3>1
      <3> QED BY <1>1, <3>1, <3>2
    <2> QED BY <2>1, <2>2
  <1>10. Walked(m, T, p, p + 1)
    BY <1>1, <1>2, <1>9 DEF Walked
  <1> QED BY <1>2, <1>3, <1>6, <1>7, <1>8, <1>10 DEF Layout, Apart

(* The walk starts with no shim open and ends with a layout at rest. *)
LEMMA WalkStarts ==
    ASSUME NEW c, NEW ln, NEW S, Layout(c, ln, S, NULL)
    PROVE  Walked(ln, S, NULL, 0) /\ ObjectsBelow(c, 0) = {}
  <1>1. \A i \in SlotIds : ~(i < 0)
    BY SlotFacts
  <1>2. S \subseteq SlotIds
    BY DEF Layout, Shims
  <1>3. ObjectsBelow(c, 0) = {}
    BY <1>1 DEF ObjectsBelow
  <1> QED BY <1>1, <1>2, <1>3 DEF Walked

(* Once the walk has reached the end of the slab, the layout is that of a slab
   nobody sweeps. *)
LEMMA WalkEnds ==
    ASSUME NEW c \in CellValues, NEW ln \in LengthValues, NEW S, NEW L,
           Layout(c, ln, S, L), Walked(ln, S, L, Slots)
    PROVE  Layout(c, ln, S, NULL)
  <1>1. \A i, j \in S : i # NULL /\ i \in Nat /\ j \in Nat /\ j < Slots /\ ln[i] \in Nat
    BY SlotFacts DEF Layout, Shims, LengthValues
  <1>2. ASSUME NEW i \in S, NEW j \in S, i < j PROVE i + ln[i] <= j /\ i + ln[i] # j
    <2>1. CASE i = L
      <3>1. i + ln[i] = Slots /\ i + ln[i] <= j
        BY <1>1, <1>2, <2>1 DEF Walked, Layout, Apart
      <3> QED BY <1>1, <3>1, SlotFacts
    <2>2. CASE i # L
      BY <1>2, <2>2 DEF Layout, Apart
    <2> QED BY <2>1, <2>2
  <1> QED BY <1>2 DEF Layout, Apart

(* Counting objects. *)
LEMMA ObjectsFinite ==
    ASSUME NEW c, NEW p
    PROVE  IsFiniteSet(ObjectsBelow(c, p)) /\ Cardinality(ObjectsBelow(c, p)) \in Nat
  <1>1. IsFiniteSet(SlotIds)
    BY SlabAssumption, FS_Interval DEF SlotIds
  <1>2. ObjectsBelow(c, p) \in SUBSET SlotIds
    BY DEF ObjectsBelow
  <1>3. IsFiniteSet(ObjectsBelow(c, p))
    BY <1>1, <1>2, FS_Subset
  <1> QED BY <1>3, FS_CardinalityType

(* Passing one more object raises the count of objects by one. *)
LEMMA CountOneMore ==
    ASSUME NEW c, NEW p, NEW d, NEW r, NEW i, i \notin ObjectsBelow(c, p),
           ObjectsBelow(d, r) = ObjectsBelow(c, p) \cup {i}
    PROVE  Cardinality(ObjectsBelow(d, r)) = Cardinality(ObjectsBelow(c, p)) + 1
  BY ObjectsFinite, FS_AddElement

(***************************************************************************)
(* SwapOrDeleteShim and AllocateRaw.                                       *)
(***************************************************************************)

(* Lists with the same fields are the same list. *)
LEMMA SameList ==
    ASSUME NEW Nodes, NEW a \in Lists(Nodes, NULL), NEW b \in Lists(Nodes, NULL),
           a.start = b.start, a.end = b.end, a.count = b.count,
           \A m \in Nodes : a.next[m] = b.next[m] /\ a.prev[m] = b.prev[m]
    PROVE  a = b
  <1>1. a.next = b.next /\ a.prev = b.prev
    BY DEF Lists
  <1> QED BY <1>1 DEF Lists

(* Unlinking an element from its neighbours before the list removes it      *)
(* makes no difference.                                                     *)
LEMMA UnlinkTwice ==
    ASSUME NEW Nodes, NULL \notin Nodes, NEW l, Linked(l, Nodes), NEW n \in OnList(l),
           NEW back, back = IF l.next[n] = NULL THEN l
                            ELSE [l EXCEPT !.prev[l.next[n]] = l.prev[n]],
           NEW forth, forth = IF l.prev[n] = NULL THEN back
                              ELSE [back EXCEPT !.next[l.prev[n]] = l.next[n]]
    PROVE  Remove(forth, n, NULL) = Remove(l, n, NULL)
  <1> DEFINE after == l.next[n]
             before == l.prev[n]
             r1 == Remove(forth, n, NULL)
             r2 == Remove(l, n, NULL)
  <1>1. PICK q \in Seq(Nodes) : Represents(l, q, Nodes, NULL)
    BY DEF Linked
  <1>2. l \in Lists(Nodes, NULL)
    BY DEF Linked
  <1>3. PICK k \in 1..Len(q) : n = q[k]
    BY <1>1, <1>2, OnListOf DEF On
  <1>4. n \in Nodes /\ after \in Nodes \cup {NULL} /\ before \in Nodes \cup {NULL}
    BY <1>2, <1>3 DEF Lists
  <1>5. after # n /\ before # n
    <2>1. \A i, j \in 1..Len(q) : q[i] = q[j] => i = j
      BY <1>1 DEF Represents
    <2>2. /\ after = IF k = Len(q) THEN NULL ELSE q[k + 1]
          /\ before = IF k = 1 THEN NULL ELSE q[k - 1]
      BY <1>1, <1>3 DEF Represents
    <2>3. after # n
      <3>1. CASE k = Len(q)
        BY <1>4, <2>2, <3>1
      <3>2. CASE k # Len(q)
        <4>1. k + 1 \in 1..Len(q) /\ k + 1 # k
          BY <3>2
        <4> QED BY <1>3, <2>1, <2>2, <3>2, <4>1
      <3> QED BY <3>1, <3>2
    <2>4. before # n
      <3>1. CASE k = 1
        BY <1>4, <2>2, <3>1
      <3>2. CASE k # 1
        <4>1. k - 1 \in 1..Len(q) /\ k - 1 # k
          BY <3>2
        <4> QED BY <1>3, <2>1, <2>2, <3>2, <4>1
      <3> QED BY <3>1, <3>2
    <2> QED BY <2>3, <2>4
  <1>6. /\ back = IF after = NULL THEN l ELSE [l EXCEPT !.prev[after] = before]
        /\ forth = IF before = NULL THEN back ELSE [back EXCEPT !.next[before] = after]
        /\ after = l.next[n] /\ before = l.prev[n]
    OBVIOUS
  <1>7. r1 = Remove(forth, n, NULL) /\ r2 = Remove(l, n, NULL)
    OBVIOUS
  <1> HIDE DEF after, before, r1, r2
  <1>8. /\ back \in Lists(Nodes, NULL) /\ back.count = l.count
        /\ back.start = l.start /\ back.end = l.end /\ back.next = l.next
        /\ \A m \in Nodes : back.prev[m] = IF m = after THEN before ELSE l.prev[m]
    <2>1. CASE after = NULL
      <3>1. back = l
        BY <1>6, <2>1
      <3>2. \A m \in Nodes : m # after
        BY <2>1
      <3> QED BY <1>2, <3>1, <3>2
    <2>2. CASE after # NULL
      <3>1. back = [l EXCEPT !.prev[after] = before] /\ after \in Nodes
        BY <1>4, <1>6, <2>2
      <3> DEFINE pv == [l.prev EXCEPT ![after] = before]
      <3>2. back = [start |-> l.start, end |-> l.end, count |-> l.count,
                    next |-> l.next, prev |-> pv]
        BY <1>2, <3>1 DEF Lists
      <3>3. /\ l.start \in Nodes \cup {NULL} /\ l.end \in Nodes \cup {NULL}
            /\ l.count \in Int /\ l.prev \in [Nodes -> Nodes \cup {NULL}]
            /\ l.next \in [Nodes -> Nodes \cup {NULL}]
        BY <1>2 DEF Lists
      <3>4. /\ pv \in [Nodes -> Nodes \cup {NULL}]
            /\ \A m \in Nodes : pv[m] = IF m = after THEN before ELSE l.prev[m]
        BY <1>4, <3>1, <3>3
      <3> HIDE DEF pv
      <3>5. back \in Lists(Nodes, NULL)
        BY <3>2, <3>3, <3>4, SMTT(60) DEF Lists
      <3>6. /\ back.count = l.count /\ back.start = l.start /\ back.end = l.end
            /\ back.next = l.next /\ back.prev = pv
        BY <3>2
      <3> QED BY <3>4, <3>5, <3>6
    <2> QED BY <2>1, <2>2
  <1>9. /\ forth \in Lists(Nodes, NULL) /\ forth.count = l.count
        /\ forth.start = l.start /\ forth.end = l.end /\ forth.prev = back.prev
        /\ \A m \in Nodes : forth.next[m] = IF m = before THEN after ELSE l.next[m]
    <2>1. CASE before = NULL
      <3>1. forth = back
        BY <1>6, <2>1
      <3>2. \A m \in Nodes : m # before
        BY <2>1
      <3> QED BY <1>8, <3>1, <3>2
    <2>2. CASE before # NULL
      <3>1. forth = [back EXCEPT !.next[before] = after] /\ before \in Nodes
        BY <1>4, <1>6, <2>2
      <3> DEFINE nx == [back.next EXCEPT ![before] = after]
      <3>2. forth = [start |-> back.start, end |-> back.end, count |-> back.count,
                     next |-> nx, prev |-> back.prev]
        BY <1>8, <3>1 DEF Lists
      <3>3. /\ back.start \in Nodes \cup {NULL} /\ back.end \in Nodes \cup {NULL}
            /\ back.count \in Int /\ back.prev \in [Nodes -> Nodes \cup {NULL}]
            /\ back.next \in [Nodes -> Nodes \cup {NULL}]
        BY <1>8 DEF Lists
      <3>4. /\ nx \in [Nodes -> Nodes \cup {NULL}]
            /\ \A m \in Nodes : nx[m] = IF m = before THEN after ELSE l.next[m]
        BY <1>4, <1>8, <3>1, <3>3
      <3> HIDE DEF nx
      <3>5. forth \in Lists(Nodes, NULL)
        BY <3>2, <3>3, <3>4, SMTT(60) DEF Lists
      <3>6. /\ forth.count = back.count /\ forth.start = back.start /\ forth.end = back.end
            /\ forth.prev = back.prev /\ forth.next = nx
        BY <3>2
      <3> QED BY <1>8, <3>4, <3>5, <3>6
    <2> QED BY <2>1, <2>2
  <1>10. r1 \in Lists(Nodes, NULL) /\ Removed(r1, forth, n, Nodes, NULL)
    BY <1>4, <1>7, <1>9, RemoveFields
  <1>11. r2 \in Lists(Nodes, NULL) /\ Removed(r2, l, n, Nodes, NULL)
    BY <1>2, <1>4, <1>7, RemoveFields
  <1>12. forth.next[n] = after /\ forth.prev[n] = before
    BY <1>4, <1>5, <1>6, <1>8, <1>9
  <1>13. r1.start = r2.start /\ r1.end = r2.end /\ r1.count = r2.count
    BY <1>6, <1>9, <1>10, <1>11, <1>12 DEF Removed
  <1>14. \A m \in Nodes : r1.next[m] = r2.next[m]
    BY <1>6, <1>9, <1>10, <1>11, <1>12 DEF Removed
  <1>15. \A m \in Nodes : r1.prev[m] = r2.prev[m]
    BY <1>6, <1>8, <1>9, <1>10, <1>11, <1>12 DEF Removed
  <1>16. r1 = r2
    BY <1>10, <1>11, <1>13, <1>14, <1>15, SameList
  <1> QED BY <1>16 DEF r1, r2

(* What SwapOrDeleteShim leaves of a slab's shims A and the free slabs B. *)
SwapResult(res, A, B, s, shim, more) ==
    LET T == (A \cup more) \ {shim} IN
    /\ Linked(res.shims, SlotIds) /\ OnList(res.shims) = T
    /\ Linked(res.freeSlabs, SlabIds)
    /\ OnList(res.freeSlabs) = IF T = {} THEN B \ {s} ELSE B

(* SwapOrDeleteShim keeps both lists well linked; it replaces the shim or drops
   it, and drops the slab from the free slabs when its last shim goes. *)
LEMMA SwapOrDelete ==
    ASSUME NEW a, NEW b, NEW x, NEW y, NEW l,
           l = [shims |-> a, freeSlabs |-> b, length |-> x, cell |-> y],
           Linked(a, SlotIds), Linked(b, SlabIds), NEW s \in OnList(b),
           NEW shim \in OnList(a), NEW replacement, NEW more,
           \/ replacement = NULL /\ more = {}
           \/ replacement \in SlotIds \ OnList(a) /\ more = {replacement}
    PROVE  SwapResult(SwapOrDeleteShim(l, s, shim, replacement),
                      OnList(a), OnList(b), s, shim, more)
  <1> DEFINE T == (OnList(a) \cup more) \ {shim}
             inserted == IF replacement = NULL THEN l.shims
                         ELSE InsertAfter(l.shims, shim, replacement, NULL)
             rest == Remove(inserted, shim, NULL)
             swapped == [l EXCEPT !.shims = rest]
             res == SwapOrDeleteShim(l, s, shim, replacement)
  <1>1. l.shims = a /\ l.freeSlabs = b
    OBVIOUS
  <1>2. Linked(inserted, SlotIds) /\ OnList(inserted) = OnList(a) \cup more
    <2>1. CASE replacement = NULL
      <3>1. more = {}
        BY <2>1, SlotFacts
      <3> QED BY <1>1, <2>1, <3>1
    <2>2. CASE replacement # NULL
      <3>1. replacement \in SlotIds /\ replacement \notin OnList(a) /\ more = {replacement}
        BY <2>2
      <3>2. /\ Linked(InsertAfter(a, shim, replacement, NULL), SlotIds)
            /\ OnList(InsertAfter(a, shim, replacement, NULL)) = OnList(a) \cup {replacement}
        BY <3>1, SlotFacts, LinkedInsertAfter
      <3> QED BY <1>1, <2>2, <3>1, <3>2
    <2> QED BY <2>1, <2>2
  <1>3. Linked(rest, SlotIds) /\ OnList(rest) = T
    <2> HIDE DEF inserted
    <2>1. shim \in OnList(inserted)
      BY <1>2
    <2>2. Linked(rest, SlotIds) /\ OnList(rest) = OnList(inserted) \ {shim}
      BY <1>2, <2>1, SlotFacts, LinkedRemove
    <2> QED BY <1>2, <2>2
  <1>4. res = IF swapped.shims.start = NULL THEN RemoveFromFreeSlabList(swapped, s)
                                            ELSE swapped
    BY DEF SwapOrDeleteShim
  <1> HIDE DEF inserted, rest, res
  <1>5. swapped = [shims |-> rest, freeSlabs |-> b, length |-> x, cell |-> y]
    OBVIOUS
  <1>6. swapped.shims = rest /\ swapped.freeSlabs = b
    BY <1>5
  <1>7. rest.start = NULL <=> T = {}
    BY <1>3, SlotFacts, LinkedStart
  <1> HIDE DEF swapped, T
  <1>8. CASE T = {}
    <2> DEFINE back == IF b.next[s] = NULL THEN b
                       ELSE [b EXCEPT !.prev[b.next[s]] = b.prev[s]]
               forth == IF b.prev[s] = NULL THEN back
                        ELSE [back EXCEPT !.next[b.prev[s]] = b.next[s]]
               fewer == Remove(forth, s, NULL)
    <2>1. RemoveFromFreeSlabList(swapped, s) = [swapped EXCEPT !.freeSlabs = fewer]
      BY <1>6 DEF RemoveFromFreeSlabList
    <2>2. fewer = Remove(b, s, NULL)
      BY SlotFacts, UnlinkTwice
    <2> HIDE DEF fewer
    <2>3. Linked(fewer, SlabIds) /\ OnList(fewer) = OnList(b) \ {s}
      BY <2>2, SlotFacts, LinkedRemove
    <2>4. res.shims = rest /\ res.freeSlabs = fewer
      BY <1>4, <1>5, <1>6, <1>7, <1>8, <2>1
    <2> QED BY <1>3, <1>8, <2>3, <2>4 DEF SwapResult, T, res
  <1>9. CASE T # {}
    <2>1. res.shims = rest /\ res.freeSlabs = b
      BY <1>4, <1>6, <1>7, <1>9
    <2> QED BY <1>3, <1>9, <2>1 DEF SwapResult, T, res
  <1> QED BY <1>8, <1>9

(* What AllocateRaw leaves behind: in slab s, whose cells were y, slot i is *)
(* an object now; B are the slabs that had free space.                      *)
AllocatedAt(s, i, y, B) ==
    \E la, d, m :
      /\ freeSpaceList' = [freeSpaceList EXCEPT ![s] = la]
      /\ length' = [length EXCEPT ![s] = m]
      /\ cell' = [cell EXCEPT ![s] = d]
      /\ Linked(la, SlotIds) /\ d \in CellValues /\ m \in LengthValues
      /\ Layout(d, m, OnList(la), NULL)
      /\ i \in SlotIds /\ y[i] # "obj"
      /\ \A k \in SlotIds : d[k] = "obj" <=> y[k] = "obj" \/ k = i
      /\ Linked(freeSlabs', SlabIds)
      /\ OnList(freeSlabs') = IF OnList(la) = {} THEN B \ {s} ELSE B

(* AllocateRaw, given a slab with a shim, hands out the first slot of the slab's
   first shim. *)
LEMMA AllocateFromEffect ==
    ASSUME NEW a, NEW b, NEW x \in LengthValues, NEW y \in CellValues, NEW slab,
           slab = [shims |-> a, freeSlabs |-> b, length |-> x, cell |-> y],
           Linked(a, SlotIds), Linked(b, SlabIds), NEW s \in OnList(b),
           OnList(a) # {}, Layout(y, x, OnList(a), NULL),
           AllocateFrom(slab, s)
    PROVE  AllocatedAt(s, a.start, y, OnList(b))
  <1> DEFINE i == a.start
             n == i + 1
             newLength == x[i] - 1
             moved == newLength > 0
             after == IF moved THEN SwapOrDeleteShim(slab, s, i, i + 1)
                               ELSE SwapOrDeleteShim(slab, s, i, NULL)
             m == IF moved THEN [x EXCEPT ![i + 1] = newLength] ELSE x
             d == IF moved THEN [y EXCEPT ![i] = "obj", ![i + 1] = "shim"]
                           ELSE [y EXCEPT ![i] = "obj"]
  <1>1. i \in OnList(a) /\ OnList(a) \subseteq SlotIds
    BY SlotFacts, LinkedStart
  <1>2. slab.shims = a /\ slab.length = x /\ slab.cell = y
    OBVIOUS
  <1>3. /\ freeSpaceList' = [freeSpaceList EXCEPT ![s] = after.shims]
        /\ freeSlabs' = after.freeSlabs
        /\ length' = [length EXCEPT ![s] = m]
        /\ cell' = [cell EXCEPT ![s] = d]
    <2>1. /\ freeSpaceList' = [freeSpaceList EXCEPT ![s] = after.shims]
          /\ freeSlabs' = after.freeSlabs
      BY <1>2 DEF AllocateFrom
    <2>2. length' = [length EXCEPT ![s] = m]
      BY <1>2 DEF AllocateFrom
    <2>3. cell' = [cell EXCEPT ![s] = d]
      BY <1>2 DEF AllocateFrom
    <2> QED BY <2>1, <2>2, <2>3
  <1>4. CASE x[i] - 1 > 0
    <2>1. n = i + 1
      OBVIOUS
    <2>2. m = [x EXCEPT ![n] = x[i] - 1] /\ d = [y EXCEPT ![i] = "obj", ![n] = "shim"]
      BY <1>4
    <2>3. after = SwapOrDeleteShim(slab, s, i, n)
      BY <1>4
    <2> HIDE DEF i, n, m, d, after
    <2>4. /\ n \in SlotIds /\ n \notin OnList(a)
          /\ Taken(d, m, (OnList(a) \cup {n}) \ {i}, y, i)
      BY <1>1, <1>4, <2>1, <2>2, ShrinkLayout
    <2>5. SwapResult(after, OnList(a), OnList(b), s, i, {n})
      BY <1>1, <2>3, <2>4, SwapOrDelete
    <2>6. AllocatedAt(s, i, y, OnList(b))
      <3> DEFINE la == after.shims
                 T == (OnList(a) \cup {n}) \ {i}
      <3>1. /\ Linked(la, SlotIds) /\ OnList(la) = T
            /\ Linked(freeSlabs', SlabIds)
            /\ OnList(freeSlabs') = IF OnList(la) = {} THEN OnList(b) \ {s} ELSE OnList(b)
        BY <1>3, <2>5 DEF SwapResult
      <3>2. /\ d \in CellValues /\ m \in LengthValues /\ Layout(d, m, OnList(la), NULL)
            /\ i \in SlotIds /\ y[i] # "obj"
            /\ \A k \in SlotIds : d[k] = "obj" <=> y[k] = "obj" \/ k = i
        BY <1>1, <2>4, <3>1 DEF Taken
      <3>3. freeSpaceList' = [freeSpaceList EXCEPT ![s] = la]
        BY <1>3
      <3> HIDE DEF la
      <3> QED BY <1>3, <3>1, <3>2, <3>3, Zenon DEF AllocatedAt
    <2> QED BY <2>6 DEF i
  <1>5. CASE ~(x[i] - 1 > 0)
    <2>1. m = x /\ d = [y EXCEPT ![i] = "obj"] /\ after = SwapOrDeleteShim(slab, s, i, NULL)
      BY <1>5
    <2> HIDE DEF i, m, d, after
    <2>2. Taken(d, m, OnList(a) \ {i}, y, i)
      BY <1>1, <1>5, <2>1, FillLayout
    <2>3. SwapResult(after, OnList(a), OnList(b), s, i, {})
      BY <1>1, <2>1, SwapOrDelete
    <2>4. (OnList(a) \cup {}) \ {i} = OnList(a) \ {i}
      OBVIOUS
    <2>5. AllocatedAt(s, i, y, OnList(b))
      BY <1>1, <1>3, <2>2, <2>3, <2>4 DEF AllocatedAt, SwapResult, Taken
    <2> QED BY <2>5 DEF i
  <1> QED BY <1>4, <1>5

(***************************************************************************)
(* The invariant is inductive.                                             *)
(***************************************************************************)

(* A slab nothing happens to stays as it is. *)
LEMMA OthersAtRest ==
    ASSUME NEW t, AtRest(t), cell'[t] = cell[t], length'[t] = length[t],
           freeSpaceList'[t] = freeSpaceList[t],
           currentObjects'[t] = currentObjects[t],
           t \in OnList(freeSlabs') <=> t \in OnList(freeSlabs)
    PROVE  AtRest(t)'
  BY DEF AtRest, ShimsOf

(* An allocator without slabs satisfies the invariant. *)
LEMMA SlabInitInv == SlabInit => SlabInv
  <1> SUFFICES ASSUME SlabInit PROVE SlabInv
    OBVIOUS
  <1> DEFINE shims == EmptyList(SlotIds, NULL)
             free == EmptyList(SlabIds, NULL)
  <1>1. /\ Linked(shims, SlotIds) /\ OnList(shims) = {}
        /\ Linked(free, SlabIds) /\ OnList(free) = {}
    BY SlotFacts, LinkedEmpty
  <1>2. shims \in Lists(SlotIds, NULL)
    BY <1>1 DEF Linked
  <1>3. freeSpaceList = [s \in SlabIds |-> shims] /\ freeSlabs = free
    BY DEF SlabInit
  <1> HIDE DEF shims, free
  <1>4. SlabTypeOK
    BY <1>2, <1>3, SlotFacts, SlabAssumption
       DEF SlabInit, SlabTypeOK, CellValues, LengthValues
  <1>5. ListsLinked
    BY <1>1, <1>3 DEF ListsLinked
  <1>6. UnmappedEmpty
    BY <1>1, <1>3 DEF SlabInit, UnmappedEmpty, ShimsOf
  <1>7. 1..slabs = {}
    BY DEF SlabInit
  <1> QED BY <1>4, <1>5, <1>6, <1>7 DEF SlabInv

(* An allocation, in an old slab or in a new one. *)
AllocatesIn(s, i, y, B) ==
    /\ sweeping = 0 /\ UNCHANGED <<locals, checkFailed>>
    /\ AllocatedAt(s, i, y, B)
    /\ \A k \in SlotIds : y[k] = "obj" <=> cell[s][k] = "obj"
    /\ B = OnList(freeSlabs) \cup {s}
    /\ currentObjects[s] = Cardinality(ObjectsBelow(cell[s], Slots))
    /\ currentObjects' = [currentObjects EXCEPT ![s] = @ + 1]
    /\ slabs' \in 0..MaxSlabs /\ s \in 1..slabs'
    /\ \A t \in SlabIds : t # s => (t \in 1..slabs' <=> t \in 1..slabs)

AddsObject(a) ==
    a \in Addresses \ Objects /\ sweeping' = 0 /\ Objects' = Objects \cup {a}

(* A step that places one object at the start of a shim, and changes nothing
   else, preserves the invariant and adds an address that was free. *)
LEMMA AllocationStep ==
    ASSUME SlabInv, NEW s \in SlabIds, NEW i, NEW y, NEW B, AllocatesIn(s, i, y, B)
    PROVE  SlabInv' /\ AddsObject(<<s, i>>)
  <1>0. /\ sweeping = 0 /\ UNCHANGED <<locals, checkFailed>>
        /\ AllocatedAt(s, i, y, B)
        /\ \A k \in SlotIds : y[k] = "obj" <=> cell[s][k] = "obj"
        /\ B = OnList(freeSlabs) \cup {s}
        /\ currentObjects[s] = Cardinality(ObjectsBelow(cell[s], Slots))
        /\ currentObjects' = [currentObjects EXCEPT ![s] = @ + 1]
        /\ slabs' \in 0..MaxSlabs /\ s \in 1..slabs'
        /\ \A t \in SlabIds : t # s => (t \in 1..slabs' <=> t \in 1..slabs)
    BY DEF AllocatesIn
  <1>1. PICK la, d, m :
          /\ freeSpaceList' = [freeSpaceList EXCEPT ![s] = la]
          /\ length' = [length EXCEPT ![s] = m]
          /\ cell' = [cell EXCEPT ![s] = d]
          /\ Linked(la, SlotIds) /\ d \in CellValues /\ m \in LengthValues
          /\ Layout(d, m, OnList(la), NULL)
          /\ i \in SlotIds /\ y[i] # "obj"
          /\ \A k \in SlotIds : d[k] = "obj" <=> y[k] = "obj" \/ k = i
          /\ Linked(freeSlabs', SlabIds)
          /\ OnList(freeSlabs') = IF OnList(la) = {} THEN B \ {s} ELSE B
    BY <1>0 DEF AllocatedAt
  <1>2. la \in Lists(SlotIds, NULL)
    BY <1>1 DEF Linked
  <1>3. SlabTypeOK /\ ListsLinked /\ UnmappedEmpty
    BY DEF SlabInv
  <1>4. /\ cell'[s] = d /\ length'[s] = m /\ freeSpaceList'[s] = la
        /\ \A t \in SlabIds : t # s => /\ cell'[t] = cell[t] /\ length'[t] = length[t]
                                       /\ freeSpaceList'[t] = freeSpaceList[t]
                                       /\ currentObjects'[t] = currentObjects[t]
        /\ currentObjects'[s] = currentObjects[s] + 1 /\ currentObjects[s] \in Nat
    BY <1>0, <1>1, <1>3 DEF SlabTypeOK
  <1>5. \A t \in SlabIds : t # s => (t \in OnList(freeSlabs') <=> t \in OnList(freeSlabs))
    BY <1>0, <1>1
  <1>6. UNCHANGED <<sweeping, ptr, lastFreeShim, objectCount, reachable, checkFailed>>
    BY <1>0 DEF locals
  <1>7. SlabTypeOK'
    BY <1>1, <1>2, <1>3, <1>4, <1>6, <1>0 DEF SlabTypeOK
  <1>8. ListsLinked'
    BY <1>1, <1>3, <1>4 DEF ListsLinked
  <1>9. UnmappedEmpty'
    <2> SUFFICES ASSUME NEW t \in SlabIds, t > slabs'
                 PROVE  /\ \A k \in SlotIds : cell'[t][k] = "null"
                        /\ OnList(freeSpaceList'[t]) = {}
                        /\ t \notin OnList(freeSlabs')
                        /\ currentObjects'[t] = 0
      BY DEF UnmappedEmpty, ShimsOf
    <2>1. t # s /\ t > slabs
      <3>1. t \in Nat /\ t >= 1 /\ slabs' \in Nat /\ slabs \in Nat
        BY <1>0, <1>3, SlabAssumption DEF SlabIds, SlabTypeOK
      <3>2. t \notin 1..slabs' /\ t # s
        BY <1>0, <3>1
      <3> QED BY <1>0, <3>1, <3>2
    <2> QED BY <1>3, <1>4, <1>5, <2>1 DEF UnmappedEmpty, ShimsOf
  <1>10. ASSUME NEW t \in 1..slabs', t # s PROVE AtRest(t)'
    <2>1. t \in SlabIds
      BY <1>0, SlabAssumption DEF SlabIds
    <2>2. AtRest(t)
      <3>1. t \in 1..slabs /\ t # sweeping
        BY <1>0, <1>10, <2>1
      <3> QED BY <3>1 DEF SlabInv
    <2> QED BY <1>4, <1>5, <1>10, <2>1, <2>2, OthersAtRest
  <1>11. AtRest(s)'
    <2>1. ObjectsBelow(d, Slots) = ObjectsBelow(cell[s], Slots) \cup {i}
      BY <1>0, <1>1, SlotFacts DEF ObjectsBelow
    <2>2. i \notin ObjectsBelow(cell[s], Slots)
      BY <1>0, <1>1 DEF ObjectsBelow
    <2>3. Cardinality(ObjectsBelow(d, Slots)) = Cardinality(ObjectsBelow(cell[s], Slots)) + 1
      BY <2>1, <2>2, CountOneMore
    <2> QED BY <1>0, <1>1, <1>4, <2>3 DEF AtRest, ShimsOf
  <1>12. SlabInv'
    <2>1. \A t \in 1..slabs' : t # sweeping'
      BY <1>0, <1>6
    <2> QED BY <1>7, <1>8, <1>9, <1>10, <1>11, <2>1 DEF SlabInv
  <1>13. <<s, i>> \in Addresses \ Objects
    BY <1>0, <1>1 DEF Addresses, Objects
  <1>14. Objects' = Objects \cup {<<s, i>>}
    <2>1. ASSUME NEW a \in Addresses
          PROVE  cell'[a[1]][a[2]] = "obj" <=> cell[a[1]][a[2]] = "obj" \/ a = <<s, i>>
      <3>1. a[1] \in SlabIds /\ a[2] \in SlotIds /\ (a = <<s, i>> <=> a[1] = s /\ a[2] = i)
        BY DEF Addresses
      <3>2. CASE a[1] = s
        BY <1>0, <1>1, <1>4, <3>1, <3>2
      <3>3. CASE a[1] # s
        BY <1>4, <3>1, <3>3
      <3> QED BY <3>2, <3>3
    <2> QED BY <1>13, <2>1 DEF Objects
  <1> QED BY <1>0, <1>6, <1>12, <1>13, <1>14 DEF AddsObject

(* What an allocation means for the abstract heap. *)
Allocated == \E a \in Addresses : AddsObject(a)

(* AllocateRaw preserves the invariant when a slab has room. *)
LEMMA AllocateInFreeSlabInv ==
    ASSUME SlabInv, AllocateInFreeSlab
    PROVE  SlabInv' /\ Allocated
  <1> DEFINE s == freeSlabs.start
             a == freeSpaceList[s]
  <1>1. /\ Idle /\ s # NULL
        /\ IF AllocationChecks(s) THEN AllocateFrom(ExistingSlab(s), s) /\ UNCHANGED slabs
                                  ELSE checkFailed' = TRUE
    BY DEF AllocateInFreeSlab
  <1>2. SlabTypeOK /\ ListsLinked /\ UnmappedEmpty /\ sweeping = 0
    BY <1>1 DEF SlabInv, Idle
  <1>3. s \in OnList(freeSlabs) /\ s \in SlabIds /\ freeSlabs.prev[s] = NULL
    BY <1>1, <1>2, SlotFacts, LinkedStart DEF ListsLinked
  <1> HIDE DEF s
  <1>4. s \in 1..slabs
    BY <1>2, <1>3, SlabAssumption DEF UnmappedEmpty, SlabIds, SlabTypeOK
  <1>5. AtRest(s)
    <2>1. s # sweeping
      BY <1>2, <1>4
    <2> QED BY <1>4, <2>1 DEF SlabInv
  <1>6. Linked(a, SlotIds) /\ OnList(a) # {} /\ Layout(cell[s], length[s], OnList(a), NULL)
    BY <1>2, <1>3, <1>5 DEF ListsLinked, AtRest, ShimsOf
  <1>7. a.start # NULL /\ a.start \in OnList(a) /\ a.prev[a.start] = NULL
    <2> HIDE DEF a
    <2> QED BY <1>6, SlotFacts, LinkedStart
  <1>8. AllocationChecks(s)
    <2>1. length[s][a.start] > 0
      BY <1>6, <1>7 DEF Layout, Shims
    <2> QED BY <1>3, <1>7, <2>1 DEF AllocationChecks
  <1>9. AllocateFrom(ExistingSlab(s), s) /\ UNCHANGED slabs
    BY <1>1, <1>8
  <1>10. cell[s] \in CellValues /\ length[s] \in LengthValues
    BY <1>2, <1>3 DEF SlabTypeOK
  <1>11. AllocatedAt(s, a.start, cell[s], OnList(freeSlabs))
    <2> DEFINE slab == ExistingSlab(s)
               x == length[s]
               y == cell[s]
    <2>1. slab = [shims |-> a, freeSlabs |-> freeSlabs, length |-> x, cell |-> y]
      BY DEF ExistingSlab
    <2>2. AllocateFrom(slab, s) /\ x \in LengthValues /\ y \in CellValues
          /\ Layout(y, x, OnList(a), NULL)
      BY <1>6, <1>9, <1>10
    <2> HIDE DEF a, slab, x, y
    <2>3. AllocatedAt(s, a.start, y, OnList(freeSlabs))
      BY <1>2, <1>3, <1>6, <2>1, <2>2, AllocateFromEffect DEF ListsLinked
    <2> QED BY <2>3 DEF y
  <1>12. /\ UNCHANGED <<locals, checkFailed>>
         /\ currentObjects' = [currentObjects EXCEPT ![s] = @ + 1]
    BY <1>9 DEF AllocateFrom
  <1> DEFINE i == a.start
             y == cell[s]
             B == OnList(freeSlabs)
  <1>13. AllocatesIn(s, i, y, B)
    <2>1. /\ slabs' \in 0..MaxSlabs /\ s \in 1..slabs'
          /\ \A t \in SlabIds : t # s => (t \in 1..slabs' <=> t \in 1..slabs)
      BY <1>2, <1>4, <1>9 DEF SlabTypeOK
    <2>2. currentObjects[s] = Cardinality(ObjectsBelow(cell[s], Slots))
      BY <1>5 DEF AtRest
    <2>3. B = OnList(freeSlabs) \cup {s}
      BY <1>3
    <2> QED BY <1>2, <1>11, <1>12, <2>1, <2>2, <2>3 DEF AllocatesIn
  <1> HIDE DEF i, y, B
  <1>14. SlabInv' /\ AddsObject(<<s, i>>)
    BY <1>3, <1>13, AllocationStep
  <1> QED BY <1>14 DEF Allocated, AddsObject

(* AllocateRaw preserves the invariant when it has to call CreateSlab. *)
LEMMA AllocateInNewSlabInv ==
    ASSUME SlabInv, AllocateInNewSlab
    PROVE  SlabInv' /\ Allocated
  <1> DEFINE s == slabs + 1
             slab == CreateSlab(s)
             a == InsertAtStart(EmptyList(SlotIds, NULL), 0, NULL)
             b == InsertAtEnd(freeSlabs, s, NULL)
             x == [length[s] EXCEPT ![0] = Slots]
             y == [cell[s] EXCEPT ![0] = "shim"]
  <1>1. Idle /\ slabs < MaxSlabs /\ slabs' = s /\ AllocateFrom(slab, s) /\ s = slabs + 1
    BY DEF AllocateInNewSlab
  <1>2. slab = [shims |-> a, freeSlabs |-> b, length |-> x, cell |-> y]
    BY DEF CreateSlab
  <1>3. x = [length[s] EXCEPT ![0] = Slots] /\ y = [cell[s] EXCEPT ![0] = "shim"]
    OBVIOUS
  <1>4. SlabTypeOK /\ ListsLinked /\ UnmappedEmpty /\ sweeping = 0
    BY <1>1 DEF SlabInv, Idle
  <1> HIDE DEF s, slab, x, y
  <1>5. s \in SlabIds /\ s > slabs /\ s \in 1..slabs' /\ slabs' \in 0..MaxSlabs
        /\ \A t \in SlabIds : t # s => (t \in 1..slabs' <=> t \in 1..slabs)
    BY <1>1, <1>4, SlabAssumption DEF SlabIds, SlabTypeOK
  <1>6. /\ \A k \in SlotIds : cell[s][k] = "null"
        /\ s \notin OnList(freeSlabs) /\ currentObjects[s] = 0
    BY <1>4, <1>5 DEF UnmappedEmpty
  <1>7. Linked(a, SlotIds) /\ OnList(a) = {0}
    BY SlotFacts, LinkedSingle
  <1>8. Linked(b, SlabIds) /\ OnList(b) = OnList(freeSlabs) \cup {s}
    BY <1>4, <1>5, <1>6, SlotFacts, LinkedInsertAtEnd DEF ListsLinked
  <1> HIDE DEF a, b
  <1>9. cell[s] \in CellValues /\ length[s] \in LengthValues
    BY <1>4, <1>5 DEF SlabTypeOK
  <1>10. Layout(y, x, OnList(a), NULL)
    BY <1>3, <1>6, <1>7, <1>9, FreshLayout
  <1>11. x \in LengthValues /\ y \in CellValues /\ \A k \in SlotIds : y[k] # "obj"
    BY <1>3, <1>6, <1>9, SlotFacts DEF LengthValues, CellValues
  <1> DEFINE i == a.start
             B == OnList(b)
  <1>12. AllocatedAt(s, i, y, B)
    <2>1. s \in OnList(b) /\ OnList(a) # {}
      BY <1>7, <1>8
    <2> QED BY <1>1, <1>2, <1>7, <1>8, <1>10, <1>11, <2>1, AllocateFromEffect
  <1>13. /\ UNCHANGED <<locals, checkFailed>>
         /\ currentObjects' = [currentObjects EXCEPT ![s] = @ + 1]
    BY <1>1 DEF AllocateFrom
  <1>14. currentObjects[s] = Cardinality(ObjectsBelow(cell[s], Slots))
    <2>1. ObjectsBelow(cell[s], Slots) = {}
      BY <1>6 DEF ObjectsBelow
    <2> QED BY <1>6, <2>1, FS_EmptySet
  <1>15. \A k \in SlotIds : y[k] = "obj" <=> cell[s][k] = "obj"
    BY <1>6, <1>11
  <1>16. AllocatesIn(s, i, y, B)
    BY <1>4, <1>5, <1>8, <1>12, <1>13, <1>14, <1>15 DEF AllocatesIn
  <1> HIDE DEF i, B
  <1>17. SlabInv' /\ AddsObject(<<s, i>>)
    BY <1>5, <1>16, AllocationStep
  <1> QED BY <1>17 DEF Allocated, AddsObject

(* A sweep begins: with the first slab, at its first slot. *)
LEMMA BeginSweepInv ==
    ASSUME SlabInv, NEW white \in SUBSET Objects, BeginSweep(white)
    PROVE  SlabInv'
  <1>1. /\ sweeping = 0 /\ slabs > 0 /\ sweeping' = 1 /\ ptr' = 0 /\ lastFreeShim' = NULL
        /\ objectCount' = 0 /\ UNCHANGED <<slabs, memory, checkFailed>>
    BY DEF BeginSweep, Idle, StartSlab
  <1>2. UNCHANGED <<cell, length, freeSpaceList, currentObjects, freeSlabs>>
    BY <1>1 DEF memory
  <1>3. SlabTypeOK /\ ListsLinked /\ UnmappedEmpty /\ slabs \in Nat
    BY SlabAssumption DEF SlabInv, SlabTypeOK
  <1>4. SlabTypeOK'
    BY <1>1, <1>2, <1>3, SlabAssumption DEF SlabTypeOK
  <1>5. ListsLinked' /\ UnmappedEmpty'
    BY <1>1, <1>2, <1>3 DEF ListsLinked, UnmappedEmpty, ShimsOf
  <1>6. \A s \in 1..slabs : AtRest(s)
    BY <1>1, <1>3 DEF SlabInv
  <1>7. ASSUME NEW s \in 1..slabs, s # 1 PROVE AtRest(s)'
    BY <1>2, <1>6, OthersAtRest
  <1>8. UnderSweep(1)'
    <2>1. 1 \in 1..slabs
      BY <1>1, <1>3
    <2>2. /\ Layout(cell[1], length[1], ShimsOf(1), NULL)
          /\ 1 \in OnList(freeSlabs) => ShimsOf(1) # {}
      BY <1>6, <2>1 DEF AtRest
    <2>3. /\ Walked(length[1], ShimsOf(1), NULL, 0)
          /\ Cardinality(ObjectsBelow(cell[1], 0)) = 0
      BY <2>2, WalkStarts, FS_EmptySet
    <2> QED BY <1>1, <1>2, <2>2, <2>3 DEF UnderSweep, ShimsOf
  <1> QED BY <1>1, <1>4, <1>5, <1>7, <1>8 DEF SlabInv

(* A step of the walk changes only the slab being swept, to cells d,        *)
(* lengths m and the list la.                                               *)
WalkStep(s, d, m, la) ==
    /\ s = sweeping /\ s # 0
    /\ UNCHANGED <<slabs, currentObjects, freeSlabs, sweeping, reachable, checkFailed>>
    /\ cell' = [cell EXCEPT ![s] = d] /\ d \in CellValues
    /\ length' = [length EXCEPT ![s] = m] /\ m \in LengthValues
    /\ freeSpaceList' = [freeSpaceList EXCEPT ![s] = la] /\ Linked(la, SlotIds)
    /\ ptr' \in 0..Slots /\ lastFreeShim' \in SlotIds \cup {NULL}
    /\ Layout(d, m, OnList(la), lastFreeShim')
    /\ Walked(m, OnList(la), lastFreeShim', ptr')
    /\ objectCount' = Cardinality(ObjectsBelow(d, ptr'))
    /\ ShimsOf(s) # {} => OnList(la) # {}

(* A turn of the sweep's loop that moves the walk over a valid layout preserves
   the invariant. *)
LEMMA WalkStepInv ==
    ASSUME SlabInv, NEW s, NEW d, NEW m, NEW la, WalkStep(s, d, m, la)
    PROVE  SlabInv'
  <1>1. SlabTypeOK /\ ListsLinked /\ UnmappedEmpty
    BY DEF SlabInv
  <1>2. s \in 1..slabs /\ s \in SlabIds /\ s = sweeping /\ slabs \in Nat
    BY <1>1, SlabAssumption DEF SlabTypeOK, SlabIds, WalkStep
  <1>3. /\ cell'[s] = d /\ length'[s] = m /\ freeSpaceList'[s] = la
        /\ \A t \in SlabIds : t # s => /\ cell'[t] = cell[t] /\ length'[t] = length[t]
                                       /\ freeSpaceList'[t] = freeSpaceList[t]
    BY <1>1, <1>2 DEF SlabTypeOK, WalkStep
  <1>4. /\ UNCHANGED <<slabs, currentObjects, freeSlabs, sweeping, checkFailed>>
        /\ ptr' \in 0..Slots /\ lastFreeShim' \in SlotIds \cup {NULL}
        /\ objectCount' = Cardinality(ObjectsBelow(d, ptr'))
    BY DEF WalkStep
  <1>5. la \in Lists(SlotIds, NULL) /\ objectCount' \in Nat
    BY <1>4, ObjectsFinite DEF Linked, WalkStep
  <1>6. SlabTypeOK'
    BY <1>1, <1>4, <1>5 DEF SlabTypeOK, WalkStep
  <1>7. ListsLinked'
    BY <1>1, <1>3, <1>4 DEF ListsLinked, WalkStep
  <1>8. UnmappedEmpty'
    <2>1. \A t \in SlabIds : t > slabs' => t > slabs /\ t # s
      BY <1>2, <1>4 DEF SlabIds
    <2> QED BY <1>1, <1>3, <1>4, <2>1 DEF UnmappedEmpty, ShimsOf
  <1>9. ASSUME NEW t \in 1..slabs, t # s PROVE AtRest(t)'
    <2>1. t \in SlabIds
      BY <1>1, SlabAssumption DEF SlabTypeOK, SlabIds
    <2>2. AtRest(t)
      BY <1>2, <1>9 DEF SlabInv
    <2> QED BY <1>3, <1>4, <1>9, <2>1, <2>2, OthersAtRest
  <1>10. UnderSweep(s)'
    <2>1. s \in OnList(freeSlabs) => ShimsOf(s) # {}
      BY <1>2 DEF SlabInv, UnderSweep
    <2> QED BY <1>3, <1>4, <2>1 DEF UnderSweep, ShimsOf, WalkStep
  <1> QED BY <1>2, <1>4, <1>6, <1>7, <1>8, <1>9, <1>10 DEF SlabInv

(* The slab being swept, in the words of the layout lemmas. *)
LEMMA SweptSlab ==
    ASSUME SlabInv, sweeping # 0
    PROVE  /\ sweeping \in SlabIds /\ sweeping \in 1..slabs
           /\ cell[sweeping] \in CellValues /\ length[sweeping] \in LengthValues
           /\ Linked(freeSpaceList[sweeping], SlotIds)
           /\ Layout(cell[sweeping], length[sweeping], ShimsOf(sweeping), lastFreeShim)
           /\ Walked(length[sweeping], ShimsOf(sweeping), lastFreeShim, ptr)
           /\ objectCount = Cardinality(ObjectsBelow(cell[sweeping], ptr))
           /\ cell = [cell EXCEPT ![sweeping] = cell[sweeping]]
           /\ length = [length EXCEPT ![sweeping] = length[sweeping]]
           /\ freeSpaceList = [freeSpaceList EXCEPT ![sweeping] = freeSpaceList[sweeping]]
  <1>1. SlabTypeOK /\ ListsLinked
    BY DEF SlabInv
  <1>2. sweeping \in SlabIds /\ sweeping \in 1..slabs
    BY <1>1, SlabAssumption DEF SlabTypeOK, SlabIds
  <1>3. UnderSweep(sweeping)
    BY <1>2 DEF SlabInv
  <1> QED BY <1>1, <1>2, <1>3 DEF SlabTypeOK, ListsLinked, UnderSweep

(* At a slot of the slab being swept. *)
LEMMA AtSlotFacts ==
    ASSUME SlabInv, NEW contents \in BOOLEAN, AtSlot(contents)
    PROVE  /\ sweeping # 0 /\ ptr \in SlotIds
           /\ contents = TRUE => ptr \in ShimsOf(sweeping)
           /\ contents = FALSE => /\ cell[sweeping][ptr] = "obj"
                                  /\ ptr \notin ShimsOf(sweeping)
  <1>1. sweeping # 0 /\ ptr < Slots /\ contents = (cell[sweeping][ptr] = "shim")
    BY DEF AtSlot
  <1>2. ptr \in SlotIds
    BY <1>1, SlotFacts DEF SlabInv, SlabTypeOK
  <1>3. /\ cell[sweeping][ptr] = "shim" => ptr \in ShimsOf(sweeping)
        /\ cell[sweeping][ptr] # "shim" => /\ cell[sweeping][ptr] = "obj"
                                           /\ ptr \notin ShimsOf(sweeping)
    BY <1>1, <1>2, SweptSlab, WalkMeets
  <1> QED BY <1>1, <1>2, <1>3

(* The turn of the sweep's loop that meets a shim preserves the invariant and
   moves no object. *)
LEMMA SweepShimInv ==
    ASSUME SlabInv, SweepShim
    PROVE  SlabInv' /\ \E m, la : WalkStep(sweeping, cell[sweeping], m, la)
  <1> DEFINE s == sweeping
             c == cell[s]
             ln == length[s]
             l == freeSpaceList[s]
             S == ShimsOf(s)
             p == ptr
             L == lastFreeShim
  <1>1. s # 0 /\ p \in SlotIds /\ p \in S
    BY AtSlotFacts DEF SweepShim
  <1>2. /\ s \in SlabIds /\ c \in CellValues /\ ln \in LengthValues
        /\ Linked(l, SlotIds) /\ S = OnList(l)
        /\ Layout(c, ln, S, L) /\ Walked(ln, S, L, p)
        /\ objectCount = Cardinality(ObjectsBelow(c, p))
        /\ cell = [cell EXCEPT ![s] = c] /\ length = [length EXCEPT ![s] = ln]
        /\ freeSpaceList = [freeSpaceList EXCEPT ![s] = l]
    BY <1>1, SweptSlab DEF ShimsOf
  <1>3. /\ p' = p + ln[p]
        /\ UNCHANGED <<slabs, cell, currentObjects, freeSlabs, sweeping, objectCount,
                       reachable, checkFailed>>
    BY DEF SweepShim
  <1>4. /\ L # NULL => /\ length' = [length EXCEPT ![s][L] = @ + ln[p]]
                       /\ freeSpaceList' = [freeSpaceList EXCEPT ![s] = Remove(l, p, NULL)]
                       /\ lastFreeShim' = L
        /\ L = NULL => lastFreeShim' = p /\ length' = length /\ freeSpaceList' = freeSpaceList
    BY DEF SweepShim
  <1>5. p \in SlotIds /\ NULL \notin SlotIds /\ L \in SlotIds \cup {NULL}
    BY <1>1, SlotFacts DEF SlabInv, SlabTypeOK
  <1>6. ObjectsBelow(c, p + ln[p]) = ObjectsBelow(c, p)
    BY <1>1, <1>2, NothingInside
  <1> HIDE DEF c, ln, l, S
  <1>7. CASE L = NULL
    <2>1. p + ln[p] \in 0..Slots /\ Layout(c, ln, S, p) /\ Walked(ln, S, p, p + ln[p])
      BY <1>1, <1>2, <1>7, OpenShim
    <2>2. WalkStep(s, c, ln, l)
      BY <1>1, <1>2, <1>3, <1>4, <1>5, <1>6, <1>7, <2>1 DEF WalkStep, S
    <2> QED BY <2>2, WalkStepInv DEF c
  <1>8. CASE L # NULL
    <2> DEFINE m == [ln EXCEPT ![L] = ln[L] + ln[p]]
               la == Remove(l, p, NULL)
    <2>1. /\ p + ln[p] \in 0..Slots /\ m \in LengthValues
          /\ Layout(c, m, S \ {p}, L) /\ Walked(m, S \ {p}, L, p + ln[p])
          /\ L \in S \ {p}
      <3>1. m = [ln EXCEPT ![L] = ln[L] + ln[p]]
        OBVIOUS
      <3> HIDE DEF m
      <3>2. Merged(c, m, S \ {p}, L, p + ln[p])
        BY <1>1, <1>2, <1>8, <3>1, MergeShim
      <3> QED BY <3>2 DEF Merged
    <2>2. Linked(la, SlotIds) /\ OnList(la) = S \ {p}
      BY <1>1, <1>2, SlotFacts, LinkedRemove
    <2>3. length' = [length EXCEPT ![s] = m]
      BY <1>2, <1>4, <1>8 DEF SlabInv, SlabTypeOK, ln
    <2>4. freeSpaceList' = [freeSpaceList EXCEPT ![s] = la] /\ lastFreeShim' = L
      BY <1>4, <1>8
    <2> HIDE DEF m, la
    <2>5. WalkStep(s, c, m, la)
      BY <1>1, <1>2, <1>3, <1>5, <1>6, <2>1, <2>2, <2>3, <2>4 DEF WalkStep, S
    <2> QED BY <2>5, WalkStepInv DEF c
  <1> QED BY <1>7, <1>8

(* The turn of the sweep's loop that meets a reachable object preserves the
   invariant and moves no object. *)
LEMMA SweepReachableInv ==
    ASSUME SlabInv, SweepReachable
    PROVE  SlabInv' /\ \E m, la : WalkStep(sweeping, cell[sweeping], m, la)
  <1> DEFINE s == sweeping
             c == cell[s]
             ln == length[s]
             l == freeSpaceList[s]
             S == ShimsOf(s)
             p == ptr
             L == lastFreeShim
  <1>1. s # 0 /\ p \in SlotIds /\ p \notin S /\ c[p] = "obj"
    BY AtSlotFacts DEF SweepReachable
  <1>2. /\ s \in SlabIds /\ c \in CellValues /\ ln \in LengthValues
        /\ Linked(l, SlotIds) /\ S = OnList(l)
        /\ Layout(c, ln, S, L) /\ Walked(ln, S, L, p)
        /\ objectCount = Cardinality(ObjectsBelow(c, p))
        /\ cell = [cell EXCEPT ![s] = c] /\ length = [length EXCEPT ![s] = ln]
        /\ freeSpaceList = [freeSpaceList EXCEPT ![s] = l]
    BY <1>1, SweptSlab DEF ShimsOf
  <1>3. /\ p' = p + 1 /\ lastFreeShim' = NULL /\ objectCount' = objectCount + 1
        /\ UNCHANGED <<slabs, memory, sweeping, reachable, checkFailed>>
    BY DEF SweepReachable
  <1>4. UNCHANGED <<cell, length, freeSpaceList, currentObjects, freeSlabs>>
    BY <1>3 DEF memory
  <1>5. p + 1 \in 0..Slots
    BY <1>1, SlotFacts
  <1> HIDE DEF c, ln, l, S
  <1>6. Layout(c, ln, S, NULL) /\ Walked(ln, S, NULL, p + 1)
    BY <1>1, <1>2, KeepObject
  <1>7. ObjectsBelow(c, p + 1) = ObjectsBelow(c, p) \cup {p}
    <2>1. \A k \in SlotIds : k < p + 1 <=> k < p \/ k = p
      BY <1>1, SlotFacts
    <2> QED BY <1>1, <2>1 DEF ObjectsBelow
  <1>8. p \notin ObjectsBelow(c, p)
    BY <1>1, SlotFacts DEF ObjectsBelow
  <1>9. Cardinality(ObjectsBelow(c, p + 1)) = Cardinality(ObjectsBelow(c, p)) + 1
    BY <1>7, <1>8, CountOneMore
  <1>10. WalkStep(s, c, ln, l)
    BY <1>1, <1>2, <1>3, <1>4, <1>5, <1>6, <1>9 DEF WalkStep, S
  <1> QED BY <1>10, WalkStepInv DEF c

(* The turn of the sweep's loop that meets an unreachable object preserves the
   invariant and removes this object only. *)
LEMMA SweepUnreachableInv ==
    ASSUME SlabInv, SweepUnreachable
    PROVE  /\ SlabInv'
           /\ \E d, m, la :
                /\ WalkStep(sweeping, d, m, la)
                /\ \A k \in SlotIds : d[k] = "obj" <=> cell[sweeping][k] = "obj" /\ k # ptr
  <1> DEFINE s == sweeping
             c == cell[s]
             ln == length[s]
             l == freeSpaceList[s]
             S == ShimsOf(s)
             p == ptr
             L == lastFreeShim
  <1>1. s # 0 /\ p \in SlotIds /\ p \notin S /\ c[p] = "obj"
    BY AtSlotFacts DEF SweepUnreachable
  <1>2. /\ s \in SlabIds /\ c \in CellValues /\ ln \in LengthValues
        /\ Linked(l, SlotIds) /\ S = OnList(l)
        /\ Layout(c, ln, S, L) /\ Walked(ln, S, L, p)
        /\ objectCount = Cardinality(ObjectsBelow(c, p))
        /\ freeSpaceList = [freeSpaceList EXCEPT ![s] = l]
    BY <1>1, SweptSlab DEF ShimsOf
  <1>3. /\ p' = p + 1
        /\ UNCHANGED <<slabs, currentObjects, freeSlabs, sweeping, objectCount,
                       reachable, checkFailed>>
    BY DEF SweepUnreachable
  <1>4. /\ L # NULL => /\ cell' = [cell EXCEPT ![s][p] = "null"]
                       /\ length' = [length EXCEPT ![s][L] = @ + 1]
                       /\ freeSpaceList' = freeSpaceList /\ lastFreeShim' = L
        /\ L = NULL => /\ cell' = [cell EXCEPT ![s][p] = "shim"]
                       /\ length' = [length EXCEPT ![s][p] = 1]
                       /\ freeSpaceList' = [freeSpaceList EXCEPT ![s] = InsertAtEnd(l, p, NULL)]
                       /\ lastFreeShim' = p
    BY DEF SweepUnreachable
  <1>5. /\ p + 1 \in 0..Slots /\ NULL \notin SlotIds /\ L \in SlotIds \cup {NULL}
        /\ \A k \in SlotIds : k < p + 1 <=> k < p \/ k = p
        /\ \A k \in SlotIds : k < p => k # p
    BY <1>1, SlotFacts DEF SlabInv, SlabTypeOK
  <1>6. cell \in [SlabIds -> CellValues] /\ length \in [SlabIds -> LengthValues]
    BY DEF SlabInv, SlabTypeOK
  <1>7. CASE L # NULL
    <2> DEFINE d == [c EXCEPT ![p] = "null"]
               m == [ln EXCEPT ![L] = ln[L] + 1]
    <2>1. cell' = [cell EXCEPT ![s] = d]
      BY <1>2, <1>4, <1>6, <1>7
    <2>2. length' = [length EXCEPT ![s] = m]
      BY <1>2, <1>4, <1>6, <1>7
    <2>3. \A k \in SlotIds : d[k] = "obj" <=> c[k] = "obj" /\ k # p
      BY <1>1, <1>2 DEF CellValues
    <2> HIDE DEF c, ln, l, S
    <2>4. /\ d \in CellValues /\ m \in LengthValues
          /\ Layout(d, m, S, L) /\ Walked(m, S, L, p + 1)
      BY <1>1, <1>2, <1>7, ExtendShim
    <2> HIDE DEF d, m
    <2>5. ObjectsBelow(d, p + 1) = ObjectsBelow(c, p)
      BY <1>1, <1>5, <2>3 DEF ObjectsBelow
    <2>6. WalkStep(s, d, m, l)
      BY <1>1, <1>2, <1>3, <1>4, <1>5, <1>7, <2>1, <2>2, <2>4, <2>5 DEF WalkStep, S
    <2> QED BY <2>3, <2>6, WalkStepInv DEF c
  <1>8. CASE L = NULL
    <2> DEFINE d == [c EXCEPT ![p] = "shim"]
               m == [ln EXCEPT ![p] = 1]
               la == InsertAtEnd(l, p, NULL)
    <2>1. cell' = [cell EXCEPT ![s] = d]
      BY <1>2, <1>4, <1>6, <1>8
    <2>2. length' = [length EXCEPT ![s] = m]
      BY <1>2, <1>4, <1>6, <1>8
    <2>3. \A k \in SlotIds : d[k] = "obj" <=> c[k] = "obj" /\ k # p
      BY <1>1, <1>2 DEF CellValues
    <2> HIDE DEF c, ln, l, S
    <2>4. /\ d \in CellValues /\ m \in LengthValues
          /\ Layout(d, m, S \cup {p}, p) /\ Walked(m, S \cup {p}, p, p + 1)
      BY <1>1, <1>2, <1>8, NewShim
    <2>5. Linked(la, SlotIds) /\ OnList(la) = S \cup {p}
      BY <1>1, <1>2, <1>5, LinkedInsertAtEnd
    <2>6. freeSpaceList' = [freeSpaceList EXCEPT ![s] = la] /\ lastFreeShim' = p
      BY <1>4, <1>8
    <2> HIDE DEF d, m, la
    <2>7. ObjectsBelow(d, p + 1) = ObjectsBelow(c, p)
      BY <1>1, <1>5, <2>3 DEF ObjectsBelow
    <2>8. WalkStep(s, d, m, la)
      BY <1>1, <1>2, <1>3, <1>5, <2>1, <2>2, <2>4, <2>5, <2>6, <2>7 DEF WalkStep
    <2> QED BY <2>3, <2>8, WalkStepInv DEF c
  <1> QED BY <1>7, <1>8

(* The end of a slab: it is at rest again, and the next one is swept. *)
LEMMA FinishSlabInv ==
    ASSUME SlabInv, FinishSlab
    PROVE  SlabInv'
  <1> DEFINE s == sweeping
  <1>1. /\ s # 0 /\ ptr = Slots
        /\ currentObjects' = [currentObjects EXCEPT ![s] = objectCount]
        /\ freeSlabs' = IF ~WasMarkedFree(s) /\ freeSpaceList[s].start # NULL
                          THEN InsertAtEnd(freeSlabs, s, NULL) ELSE freeSlabs
        /\ UNCHANGED <<slabs, cell, length, freeSpaceList, checkFailed>>
    BY DEF FinishSlab
  <1>2. /\ sweeping' = IF s < slabs THEN s + 1 ELSE 0
        /\ ptr' = 0 /\ lastFreeShim' = NULL /\ objectCount' = 0
    BY DEF FinishSlab, StartSlab
  <1>3. SlabTypeOK /\ ListsLinked /\ UnmappedEmpty /\ slabs \in Nat
    BY SlabAssumption DEF SlabInv, SlabTypeOK
  <1>4. /\ s \in SlabIds /\ s \in 1..slabs
        /\ cell[s] \in CellValues /\ length[s] \in LengthValues
        /\ Layout(cell[s], length[s], ShimsOf(s), lastFreeShim)
        /\ Walked(length[s], ShimsOf(s), lastFreeShim, Slots)
        /\ objectCount = Cardinality(ObjectsBelow(cell[s], Slots))
    BY <1>1, SweptSlab
  <1>5. s \in OnList(freeSlabs) => ShimsOf(s) # {}
    BY <1>4 DEF SlabInv, UnderSweep
  <1>6. WasMarkedFree(s) <=> s \in OnList(freeSlabs)
    BY <1>3, <1>4 DEF WasMarkedFree, OnList, ListsLinked, Linked, Lists
  <1>7. freeSpaceList[s].start # NULL <=> ShimsOf(s) # {}
    BY <1>3, <1>4, SlotFacts, LinkedStart DEF ListsLinked, ShimsOf
  <1>8. /\ Linked(freeSlabs', SlabIds)
        /\ s \in OnList(freeSlabs') <=> ShimsOf(s) # {}
        /\ \A t \in SlabIds : t # s => (t \in OnList(freeSlabs') <=> t \in OnList(freeSlabs))
    <2>1. CASE ~WasMarkedFree(s) /\ freeSpaceList[s].start # NULL
      <3>1. freeSlabs' = InsertAtEnd(freeSlabs, s, NULL)
        BY <1>1, <2>1
      <3>2. Linked(freeSlabs, SlabIds) /\ s \notin OnList(freeSlabs)
        BY <1>3, <1>6, <2>1 DEF ListsLinked
      <3>3. Linked(freeSlabs', SlabIds) /\ OnList(freeSlabs') = OnList(freeSlabs) \cup {s}
        BY <1>4, <3>1, <3>2, SlotFacts, LinkedInsertAtEnd
      <3> QED BY <1>7, <2>1, <3>3
    <2>2. CASE ~(~WasMarkedFree(s) /\ freeSpaceList[s].start # NULL)
      <3>1. freeSlabs' = freeSlabs
        BY <1>1, <2>2
      <3> QED BY <1>3, <1>5, <1>6, <1>7, <2>2, <3>1 DEF ListsLinked
    <2> QED BY <2>1, <2>2
  <1> HIDE DEF s
  <1>9. /\ currentObjects'[s] = objectCount
        /\ \A t \in SlabIds : t # s => currentObjects'[t] = currentObjects[t]
        /\ currentObjects' \in [SlabIds -> Nat]
    BY <1>1, <1>3, <1>4 DEF SlabTypeOK
  <1>10. SlabTypeOK'
    <2>1. sweeping' \in 0..slabs
      BY <1>2, <1>3, <1>4
    <2> QED BY <1>1, <1>2, <1>3, <1>9, <2>1, SlabAssumption DEF SlabTypeOK
  <1>11. ListsLinked'
    BY <1>1, <1>3, <1>8 DEF ListsLinked
  <1>12. UnmappedEmpty'
    <2>1. \A t \in SlabIds : t > slabs => t # s
      BY <1>3, <1>4 DEF SlabIds
    <2> QED BY <1>1, <1>3, <1>8, <1>9, <2>1 DEF UnmappedEmpty, ShimsOf
  <1>13. ASSUME NEW t \in 1..slabs PROVE AtRest(t)' \/ (t # s /\ AtRest(t))
    <2>1. CASE t = s
      <3>1. Layout(cell[s], length[s], ShimsOf(s), NULL)
        BY <1>4, WalkEnds
      <3> QED BY <1>1, <1>4, <1>8, <1>9, <2>1, <3>1 DEF AtRest, ShimsOf
    <2>2. CASE t # s
      BY <2>2 DEF SlabInv, s
    <2> QED BY <2>1, <2>2
  <1>14. ASSUME NEW t \in 1..slabs PROVE AtRest(t)'
    <2>1. t \in SlabIds
      BY <1>3, SlabAssumption DEF SlabTypeOK, SlabIds
    <2>2. CASE t # s /\ AtRest(t)
      BY <1>1, <1>8, <1>9, <2>1, <2>2, OthersAtRest
    <2> QED BY <1>13, <2>2
  <1>15. ASSUME NEW t \in 1..slabs, t = sweeping' PROVE UnderSweep(t)'
    <2>1. /\ Layout(cell[t], length[t], ShimsOf(t), NULL)
          /\ t \in OnList(freeSlabs') => ShimsOf(t) # {}
      BY <1>1, <1>14 DEF AtRest, ShimsOf
    <2>2. /\ Walked(length[t], ShimsOf(t), NULL, 0)
          /\ Cardinality(ObjectsBelow(cell[t], 0)) = 0
      BY <2>1, WalkStarts, FS_EmptySet
    <2> QED BY <1>1, <1>2, <2>1, <2>2 DEF UnderSweep, ShimsOf
  <1> QED BY <1>1, <1>10, <1>11, <1>12, <1>14, <1>15 DEF SlabInv

(* Every step of the allocator preserves the invariant. *)
LEMMA SlabNextInv == SlabInv /\ [SlabNext]_slabVars => SlabInv'
  <1> SUFFICES ASSUME SlabInv, [SlabNext]_slabVars PROVE SlabInv'
    OBVIOUS
  <1>1. CASE AllocateInFreeSlab
    BY <1>1, AllocateInFreeSlabInv
  <1>2. CASE AllocateInNewSlab
    BY <1>2, AllocateInNewSlabInv
  <1>3. ASSUME NEW white \in SUBSET Objects, BeginSweep(white) PROVE SlabInv'
    BY <1>3, BeginSweepInv
  <1>4. CASE SweepShim
    BY <1>4, SweepShimInv
  <1>5. CASE SweepReachable
    BY <1>5, SweepReachableInv
  <1>6. CASE SweepUnreachable
    BY <1>6, SweepUnreachableInv
  <1>7. CASE FinishSlab
    BY <1>7, FinishSlabInv
  <1>8. CASE UNCHANGED slabVars
    BY <1>8 DEF slabVars, memory, locals, SlabInv, SlabTypeOK, ListsLinked,
                UnmappedEmpty, ShimsOf, UnderSweep, AtRest
  <1> QED BY <1>1, <1>2, <1>3, <1>4, <1>5, <1>6, <1>7, <1>8 DEF SlabNext

(***************************************************************************)
(* The theorems.                                                           *)
(***************************************************************************)

(* The inductive invariant: every slab at rest is tiled and counted, the    *)
(* one being swept is tiled but for the shim the walk has open, and all the *)
(* lists are linked.                                                        *)
THEOREM SlabInvariance == SlabSpec => []SlabInv
  BY SlabInitInv, SlabNextInv, PTL DEF SlabSpec

(* AllocateRaw's asserts never fail and the sweep, which steps over whole   *)
(* shims, never runs past the end of a slab.                                *)
THEOREM ChecksCorrect == SlabSpec => []ChecksHold
  <1>1. SlabInv => ChecksHold
    BY SlotFacts DEF SlabInv, SlabTypeOK, ChecksHold
  <1> QED BY <1>1, SlabInvariance, PTL

(* Objects and shims tile every slab between sweeps, no two shims are       *)
(* adjacent, and currentObjects counts the objects.                         *)
THEOREM TilingCorrect == SlabSpec => []SlabIsTiled
  <1>1. SlabInv => SlabIsTiled
    <2> SUFFICES ASSUME SlabInv, sweeping = 0, NEW s \in 1..slabs
                 PROVE  /\ \A i \in OnList(freeSpaceList[s]) :
                             /\ cell[s][i] = "shim" /\ length[s][i] > 0
                             /\ i + length[s][i] <= Slots
                        /\ \A i, j \in OnList(freeSpaceList[s]) :
                             i < j => i + length[s][i] < j
                        /\ \A i \in SlotIds : cell[s][i] = "obj" <=> i \notin Covered(s)
                        /\ currentObjects[s] = Cardinality({i \in SlotIds : cell[s][i] = "obj"})
      BY DEF SlabIsTiled
    <2> DEFINE S == OnList(freeSpaceList[s])
               ln == length[s]
    <2>1. AtRest(s) /\ s \in SlabIds
      BY SlabAssumption DEF SlabInv, SlabTypeOK, SlabIds
    <2>2. Layout(cell[s], ln, S, NULL) /\ ln \in LengthValues
      BY <2>1 DEF AtRest, ShimsOf, SlabInv, SlabTypeOK
    <2>3. S \subseteq SlotIds /\ \A i \in S : i \in Nat /\ ln[i] \in Nat /\ i # NULL
      BY <2>2, SlotFacts DEF Layout, Shims, LengthValues
    <2>4. \A i \in S : cell[s][i] = "shim" /\ ln[i] > 0 /\ i + ln[i] <= Slots
      BY <2>2 DEF Layout, Shims
    <2>5. \A i, j \in S : i < j => i + ln[i] < j
      BY <2>2, <2>3 DEF Layout, Apart
    <2>6. \A i \in SlotIds : i \in Covered(s) <=> \E j \in S : j <= i /\ i < j + ln[j]
      <3> SUFFICES ASSUME NEW i \in SlotIds
                   PROVE  i \in Covered(s) <=> \E j \in S : j <= i /\ i < j + ln[j]
        OBVIOUS
      <3>1. i \in Covered(s) <=> \E j \in S : i \in j..(j + ln[j] - 1)
        BY DEF Covered
      <3>2. i \in Nat
        BY SlotFacts
      <3>3. \A j \in S : i \in j..(j + ln[j] - 1) <=> j <= i /\ i < j + ln[j]
        BY <2>3, <3>2
      <3> QED BY <3>1, <3>3
    <2>7. \A i \in SlotIds : cell[s][i] = "obj" <=> i \notin Covered(s)
      BY <2>2, <2>6 DEF Layout, Tiles
    <2>8. ObjectsBelow(cell[s], Slots) = {i \in SlotIds : cell[s][i] = "obj"}
      BY SlotFacts DEF ObjectsBelow
    <2> QED BY <2>1, <2>4, <2>5, <2>7, <2>8 DEF AtRest
  <1> QED BY <1>1, SlabInvariance, PTL

(* The lists are well linked, during a sweep too, and between sweeps        *)
(* freeSlabs holds exactly the slabs with free space.                       *)
THEOREM FreeSlabsCorrect == SlabSpec => []FreeSlabsExact
  <1>1. SlabInv => FreeSlabsExact
    <2> SUFFICES ASSUME SlabInv PROVE FreeSlabsExact
      OBVIOUS
    <2>1. SlabTypeOK /\ ListsLinked /\ UnmappedEmpty
      BY DEF SlabInv
    <2>2. 1..slabs \subseteq SlabIds
      BY <2>1, SlabAssumption DEF SlabTypeOK, SlabIds
    <2>3. WellLinked(freeSlabs) /\ \A s \in 1..slabs : WellLinked(freeSpaceList[s])
      BY <2>1, <2>2, SlotFacts, LinkedWellLinked DEF ListsLinked
    <2>4. ASSUME sweeping = 0
          PROVE  OnList(freeSlabs) = {s \in 1..slabs : OnList(freeSpaceList[s]) # {}}
      <3>1. OnList(freeSlabs) \subseteq SlabIds
        BY <2>1, SlotFacts, LinkedStart DEF ListsLinked
      <3>2. \A s \in SlabIds : s \in OnList(freeSlabs) => s \in 1..slabs
        <4> SUFFICES ASSUME NEW s \in SlabIds, s \in OnList(freeSlabs)
                     PROVE  s \in 1..slabs
          OBVIOUS
        <4>1. ~(s > slabs)
          BY <2>1 DEF UnmappedEmpty
        <4> QED BY <2>1, <4>1, SlabAssumption DEF SlabIds, SlabTypeOK
      <3>3. \A s \in 1..slabs : s \in OnList(freeSlabs) <=> OnList(freeSpaceList[s]) # {}
        <4> SUFFICES ASSUME NEW s \in 1..slabs
                     PROVE  s \in OnList(freeSlabs) <=> OnList(freeSpaceList[s]) # {}
          OBVIOUS
        <4>1. AtRest(s)
          BY <2>4 DEF SlabInv
        <4> QED BY <4>1 DEF AtRest, ShimsOf
      <3> QED BY <3>1, <3>2, <3>3
    <2> QED BY <2>3, <2>4 DEF FreeSlabsExact
  <1> QED BY <1>1, SlabInvariance, PTL

(***************************************************************************)
(* The allocator implements the abstract heap.                             *)
(***************************************************************************)

(* The objects of a slab after a step of the walk. *)
LEMMA WalkStepObjects ==
    ASSUME SlabInv, NEW s, NEW d, NEW m, NEW la, WalkStep(s, d, m, la),
           NEW a \in Addresses
    PROVE  cell'[a[1]][a[2]] = IF a[1] = s THEN d[a[2]] ELSE cell[a[1]][a[2]]
  BY DEF WalkStep, SlabInv, SlabTypeOK, Addresses

(* Every step of the allocator is a step of the heap or changes nothing.    *)
(* Allocation is Allocate, BeginSweep is Sweep, and freeing one unreachable *)
(* object is Free.                                                          *)
LEMMA HeapStep ==
    ASSUME SlabInv, SlabInv', [SlabNext]_slabVars
    PROVE  [Heap!HeapNext]_(Heap!heapVars)
  <1>1. ASSUME Allocated, sweeping = 0 PROVE Heap!HeapNext
    <2>1. PICK a \in Addresses : AddsObject(a)
      BY <1>1 DEF Allocated
    <2>2. Doomed = {} /\ Doomed' = {}
      BY <1>1, <2>1 DEF Doomed, AddsObject
    <2>3. Heap!Allocate(a)
      BY <2>1, <2>2 DEF Heap!Allocate, AddsObject
    <2> QED BY <2>3 DEF Heap!HeapNext
  <1>2. CASE AllocateInFreeSlab
    BY <1>1, <1>2, AllocateInFreeSlabInv DEF AllocateInFreeSlab, Idle
  <1>3. CASE AllocateInNewSlab
    BY <1>1, <1>3, AllocateInNewSlabInv DEF AllocateInNewSlab, Idle
  <1>4. ASSUME NEW white \in SUBSET Objects, BeginSweep(white) PROVE Heap!HeapNext
    <2>1. /\ sweeping = 0 /\ sweeping' = 1 /\ ptr' = 0 /\ reachable' = white
          /\ cell' = cell
      BY <1>4 DEF BeginSweep, Idle, StartSlab, memory
    <2>2. Objects' = Objects /\ Objects \subseteq Addresses
      BY <2>1 DEF Objects
    <2>3. \A a \in Addresses : ToSweep(a)'
      <3>1. \A a \in Addresses : a[1] \in Nat /\ a[1] >= 1 /\ a[2] \in Nat
        <4> SUFFICES ASSUME NEW a \in Addresses PROVE a[1] \in Nat /\ a[1] >= 1 /\ a[2] \in Nat
          OBVIOUS
        <4>1. a[1] \in SlabIds /\ a[2] \in SlotIds
          BY DEF Addresses
        <4>2. a[1] \in Nat /\ a[1] >= 1
          BY <4>1, SlabAssumption DEF SlabIds
        <4> QED BY <4>1, <4>2, SlotFacts
      <3> QED BY <2>1, <3>1 DEF ToSweep
    <2>4. Doomed = {} /\ Doomed' = Objects \ white
      BY <2>1, <2>2, <2>3 DEF Doomed
    <2>5. Heap!Sweep(white)
      BY <2>2, <2>4 DEF Heap!Sweep
    <2> QED BY <2>2, <2>5 DEF Heap!HeapNext
  <1>5. ASSUME NEW m, NEW la, WalkStep(sweeping, cell[sweeping], m, la),
               \A i \in SlotIds : cell[sweeping][i] = "obj" /\ <<sweeping, i>> \notin reachable
                   => (i >= ptr <=> i >= ptr')
        PROVE  UNCHANGED Heap!heapVars
    <2>1. sweeping' = sweeping /\ reachable' = reachable /\ sweeping # 0
      BY <1>5 DEF WalkStep
    <2>2. Objects' = Objects
      <3>1. \A a \in Addresses : cell'[a[1]][a[2]] = cell[a[1]][a[2]]
        BY <1>5, WalkStepObjects
      <3> QED BY <3>1 DEF Objects
    <2>3. \A a \in Objects : a \notin reachable => (ToSweep(a) <=> ToSweep(a)')
      <3> SUFFICES ASSUME NEW a \in Objects, a \notin reachable
                   PROVE  ToSweep(a) <=> ToSweep(a)'
        OBVIOUS
      <3>1. a = <<a[1], a[2]>> /\ a[2] \in SlotIds /\ cell[a[1]][a[2]] = "obj"
        BY DEF Objects, Addresses
      <3>2. a[1] = sweeping => (a[2] >= ptr <=> a[2] >= ptr')
        BY <1>5, <3>1
      <3> QED BY <2>1, <3>2 DEF ToSweep
    <2>4. Doomed' = Doomed
      BY <2>1, <2>2, <2>3 DEF Doomed
    <2> QED BY <2>2, <2>4 DEF Heap!heapVars
  <1>6. CASE SweepShim
    <2>1. sweeping # 0 /\ ptr \in ShimsOf(sweeping) /\ ptr \in SlotIds
      BY <1>6, AtSlotFacts DEF SweepShim
    <2>2. \A i \in SlotIds : ptr <= i /\ i < ptr + length[sweeping][ptr]
                               => cell[sweeping][i] # "obj"
      BY <2>1, SweptSlab, NothingInside
    <2>3. ptr' = ptr + length[sweeping][ptr] /\ length[sweeping][ptr] \in Nat
      BY <1>6, <2>1, SweptSlab DEF SweepShim, LengthValues
    <2>4. \A i \in SlotIds : cell[sweeping][i] = "obj" => (i >= ptr <=> i >= ptr')
      <3>1. ptr \in Nat /\ \A i \in SlotIds : i \in Nat
        BY <2>1, SlotFacts
      <3> QED BY <2>2, <2>3, <3>1
    <2> QED BY <1>5, <1>6, <2>4, SweepShimInv
  <1>7. CASE SweepReachable
    <2>1. <<sweeping, ptr>> \in reachable /\ ptr' = ptr + 1 /\ ptr \in SlotIds
      BY <1>7, AtSlotFacts DEF SweepReachable
    <2>2. \A i \in SlotIds : <<sweeping, i>> \notin reachable => (i >= ptr <=> i >= ptr')
      <3> SUFFICES ASSUME NEW i \in SlotIds, <<sweeping, i>> \notin reachable
                   PROVE  i >= ptr <=> i >= ptr'
        OBVIOUS
      <3>1. ptr \in Nat /\ i \in Nat
        BY <2>1, SlotFacts
      <3>2. i # ptr
        BY <2>1
      <3> QED BY <2>1, <3>1, <3>2
    <2> QED BY <1>5, <1>7, <2>2, SweepReachableInv
  <1>8. CASE SweepUnreachable
    <2> DEFINE x == <<sweeping, ptr>>
    <2>1. /\ sweeping # 0 /\ ptr' = ptr + 1 /\ ptr \in SlotIds
          /\ cell[sweeping][ptr] = "obj" /\ x \notin reachable
          /\ sweeping' = sweeping /\ reachable' = reachable
      BY <1>8, AtSlotFacts DEF SweepUnreachable
    <2>2. sweeping \in SlabIds
      BY <2>1, SweptSlab
    <2>3. PICK d, m, la :
            /\ WalkStep(sweeping, d, m, la)
            /\ \A k \in SlotIds : d[k] = "obj" <=> cell[sweeping][k] = "obj" /\ k # ptr
      BY <1>8, SweepUnreachableInv
    <2>4. x \in Addresses /\ x[1] = sweeping /\ x[2] = ptr
          /\ \A a \in Addresses : a = x <=> a[1] = sweeping /\ a[2] = ptr
      BY <2>1, <2>2 DEF Addresses
    <2> HIDE DEF x
    <2>5. Objects' = Objects \ {x}
      <3>1. ASSUME NEW a \in Addresses
            PROVE  cell'[a[1]][a[2]] = "obj" <=> cell[a[1]][a[2]] = "obj" /\ a # x
        <4>1. a[2] \in SlotIds
          BY DEF Addresses
        <4>2. cell'[a[1]][a[2]] = IF a[1] = sweeping THEN d[a[2]] ELSE cell[a[1]][a[2]]
          BY <2>3, WalkStepObjects
        <4>3. CASE a[1] = sweeping
          BY <2>3, <2>4, <4>1, <4>2, <4>3
        <4>4. CASE a[1] # sweeping
          BY <2>4, <4>2, <4>4
        <4> QED BY <4>3, <4>4
      <3> QED BY <3>1 DEF Objects
    <2>6. ASSUME NEW a \in Addresses, a # x PROVE ToSweep(a) <=> ToSweep(a)'
      <3>1. a[2] \in Nat /\ ptr \in Nat /\ ~(a[1] = sweeping /\ a[2] = ptr)
        BY <2>1, <2>4, <2>6, SlotFacts DEF Addresses
      <3>2. a[1] = sweeping => (a[2] >= ptr <=> a[2] >= ptr')
        BY <2>1, <3>1
      <3> QED BY <2>1, <3>2 DEF ToSweep
    <2>7. x \in Doomed
      <3>1. x \in Objects
        BY <2>1, <2>4 DEF Objects
      <3>2. ToSweep(x)
        BY <2>1, <2>4, SlotFacts DEF ToSweep
      <3> QED BY <2>1, <3>1, <3>2 DEF Doomed, x
    <2>8. Doomed' = Doomed \ {x}
      <3>1. Objects \subseteq Addresses
        BY DEF Objects
      <3> QED BY <2>1, <2>5, <2>6, <3>1 DEF Doomed
    <2>9. Heap!Free(x)
      BY <2>5, <2>7, <2>8 DEF Heap!Free
    <2> QED BY <2>4, <2>9 DEF Heap!HeapNext
  <1>9. CASE FinishSlab
    <2>1. /\ sweeping # 0 /\ ptr = Slots /\ cell' = cell /\ ptr' = 0
          /\ IF sweeping < slabs THEN sweeping' = sweeping + 1 /\ reachable' = reachable
                                 ELSE sweeping' = 0
      BY <1>9 DEF FinishSlab, StartSlab
    <2>2. Objects' = Objects
      BY <2>1 DEF Objects
    <2>3. \A a \in Objects : /\ a[1] \in Nat /\ a[1] <= slabs
                             /\ a[2] \in Nat /\ a[2] < Slots
      <3> SUFFICES ASSUME NEW a \in Objects
                   PROVE  a[1] \in Nat /\ a[1] <= slabs /\ a[2] \in Nat /\ a[2] < Slots
        OBVIOUS
      <3>1. a[1] \in SlabIds /\ a[2] \in SlotIds /\ cell[a[1]][a[2]] = "obj"
        BY DEF Objects, Addresses
      <3>2. ~(a[1] > slabs)
        BY <3>1 DEF SlabInv, UnmappedEmpty
      <3>3. slabs \in Nat
        BY SlabAssumption DEF SlabInv, SlabTypeOK
      <3>4. a[1] \in Nat /\ a[1] <= slabs
        BY <3>1, <3>2, <3>3, SlabAssumption DEF SlabIds
      <3> QED BY <3>1, <3>4, SlotFacts
    <2>4. slabs \in Nat /\ sweeping \in Nat /\ Slots \in Nat
      BY SlabAssumption DEF SlabInv, SlabTypeOK
    <2>5. CASE sweeping < slabs
      <3>1. \A a \in Objects : ToSweep(a) <=> a[1] > sweeping
        BY <2>1, <2>3, <2>4 DEF ToSweep
      <3>2. \A a \in Objects : ToSweep(a)' <=> a[1] > sweeping
        BY <2>1, <2>3, <2>4, <2>5 DEF ToSweep
      <3>3. sweeping' # 0 /\ reachable' = reachable
        BY <2>1, <2>4, <2>5
      <3>4. Doomed' = Doomed
        BY <2>1, <2>2, <3>1, <3>2, <3>3 DEF Doomed
      <3> QED BY <2>2, <3>4 DEF Heap!heapVars
    <2>6. CASE ~(sweeping < slabs)
      <3>1. \A a \in Objects : ~ToSweep(a)
        BY <2>1, <2>3, <2>4, <2>6 DEF ToSweep
      <3>2. Doomed = {} /\ Doomed' = {}
        BY <2>1, <2>6, <3>1 DEF Doomed
      <3> QED BY <2>2, <3>2 DEF Heap!heapVars
    <2> QED BY <2>5, <2>6
  <1>10. CASE UNCHANGED slabVars
    BY <1>10 DEF slabVars, memory, locals, Objects, Doomed, ToSweep, Heap!heapVars
  <1> QED BY <1>2, <1>3, <1>4, <1>6, <1>7, <1>8, <1>9, <1>10 DEF SlabNext

(* The allocator implements ObjectHeap: the memory it hands out is not in   *)
(* use, and a sweep gives back exactly the objects whose GC word is not the *)
(* white number, all of them before the next allocation.                    *)
THEOREM HeapCorrect == SlabSpec => ImplementsHeap
  <1>1. SlabInit => Heap!HeapInit
    BY DEF SlabInit, Heap!HeapInit, Objects, Doomed, Addresses
  <1>2. SlabInv /\ SlabInv' /\ [SlabNext]_slabVars => [Heap!HeapNext]_(Heap!heapVars)
    BY HeapStep
  <1> QED BY <1>1, <1>2, SlabInvariance, PTL DEF SlabSpec, ImplementsHeap, Heap!HeapSpec

(***************************************************************************)
(* The size categories: which of them a request is served from.            *)
(***************************************************************************)
(* The sizes that are served, and the powers of two they are rounded to.    *)
Servable == {n \in Nat : 24 <= n /\ n <= 65536}
LargePowers == {32, 64, 128, 256, 512, 1024, 2048, 4096, 8192, 16384, 32768, 65536}

LEMMA ServableIs == \A n : n \in Servable <=> n \in Int /\ 24 <= n /\ n <= 65536
  BY DEF Servable

(* The least of a set that has one. *)
LEMMA MinIs ==
    ASSUME NEW S \in SUBSET Int, NEW m \in S, \A y \in S : m <= y
    PROVE  Min(S) = m
<1>1. \E x \in S : \A y \in S : x =< y
  OBVIOUS
<1>2. Min(S) \in S /\ \A y \in S : Min(S) <= y
  BY <1>1 DEF Min
<1>3. Min(S) \in Int /\ m \in Int /\ Min(S) <= m /\ m <= Min(S)
  BY <1>2
<1> QED
  BY <1>3

(* A size and the next power of two, which is less than twice the size. *)
LEMMA BitCeilIs ==
    ASSUME NEW n \in Servable, NEW p \in PowersOfTwo, p >= n, p < 2 * n
    PROVE  BitCeil(n) = p
<1> USE ServableIs
<1> DEFINE S == {q \in PowersOfTwo : q >= n}
<1>1. S \in SUBSET Int /\ p \in S
  BY DEF PowersOfTwo
<1>2. \A y \in S : p <= y
  BY DEF PowersOfTwo
<1>3. BitCeil(n) = Min(S)
  BY DEF BitCeil
<1> HIDE DEF S
<1> QED
  BY <1>1, <1>2, <1>3, MinIs

LEMMA BitCeilCases ==
    ASSUME NEW n \in Servable
    PROVE  \E p \in LargePowers :
              BitCeil(n) = p /\ p >= n /\ p < 2 * n
<1>1. \E p \in LargePowers : p >= n /\ p < 2 * n
  BY ServableIs DEF LargePowers
<1>2. PICK p \in LargePowers : p >= n /\ p < 2 * n
  BY <1>1
<1>3. p \in PowersOfTwo
  BY <1>2 DEF PowersOfTwo, LargePowers
<1>4. BitCeil(n) = p
  BY <1>2, <1>3, BitCeilIs
<1> QED
  BY <1>2, <1>4, Zenon

LEMMA InBetweenIs ==
    /\ InBetween(32) = 24
    /\ InBetween(64) = 48
    /\ InBetween(128) = 96
    /\ InBetween(256) = 184
    /\ InBetween(512) = 368
    /\ InBetween(1024) = 728
    /\ InBetween(2048) = 1448
    /\ InBetween(4096) = 2896
    /\ InBetween(8192) = 5800
    /\ InBetween(16384) = 11592
    /\ InBetween(32768) = 23176
    /\ InBetween(65536) = 46352
  BY DEF InBetween, RoundToAlignment

(* What a size falls back to: one of two per power of two. *)
LEMMA FallbackCases ==
    ASSUME NEW n \in Servable
    PROVE  \E p \in LargePowers :
              /\ p >= n /\ p < 2 * n
              /\ FallbackSize(n) = IF InBetween(p) >= n THEN InBetween(p) ELSE p
<1>1. PICK p \in LargePowers :
          BitCeil(n) = p /\ p >= n /\ p < 2 * n
  BY BitCeilCases
<1>2. FallbackSize(n) = IF InBetween(p) >= n THEN InBetween(p) ELSE p
  BY <1>1 DEF FallbackSize
<1> QED
  BY <1>1, <1>2, Zenon

Preferred(n) == {q \in PREFERRED_SIZES : q >= n}

LEMMA PreferredAre == PREFERRED_SIZES = {24, 32, 40, 48, 56, 64, 72, 88, 104, 120, 152}
<1>1. PREFERRED_SIZES = {24 + 8 * k : k \in {0, 1, 2, 3, 4, 5, 6, 8, 10, 12, 16}}
  BY DEF PREFERRED_SIZES, ObjSize, ValueSize
<1> QED
  BY <1>1

LEMMA PreferredMin ==
    ASSUME NEW n \in 24..152
    PROVE  /\ Preferred(n) # {}
           /\ Min(Preferred(n)) \in Preferred(n)
           /\ \A y \in Preferred(n) : Min(Preferred(n)) <= y
<1>1. PICK m \in PREFERRED_SIZES : m >= n /\ \A y \in PREFERRED_SIZES : y >= n => m <= y
  BY PreferredAre
<1>2. m \in Preferred(n) /\ Preferred(n) \in SUBSET Int /\ \A y \in Preferred(n) : m <= y
  BY <1>1, PreferredAre DEF Preferred
<1>3. Min(Preferred(n)) = m
  BY <1>2, MinIs
<1> QED
  BY <1>2, <1>3

(* Up to the largest preferred size, the better of the two is used; above it *)
(* there is only the fallback.                                              *)
LEMMA BestCases ==
    ASSUME NEW n \in Servable
    PROVE  /\ n > 152 => BestSize(n) = FallbackSize(n)
           /\ n <= 152 =>
                \E m \in PREFERRED_SIZES :
                    /\ m >= n /\ \A y \in PREFERRED_SIZES : y >= n => m <= y
                    /\ BestSize(n) = IF m < FallbackSize(n) THEN m ELSE FallbackSize(n)
<1>0. BestSize(n) = IF Preferred(n) # {} /\ Min(Preferred(n)) < FallbackSize(n)
                     THEN Min(Preferred(n)) ELSE FallbackSize(n)
  BY DEF BestSize, Preferred
<1>1. ASSUME n > 152 PROVE BestSize(n) = FallbackSize(n)
  <2>1. Preferred(n) = {}
    BY <1>1, PreferredAre, ServableIs DEF Preferred
  <2> QED BY <1>0, <2>1
<1>2. ASSUME n <= 152
      PROVE  \E m \in PREFERRED_SIZES :
                    /\ m >= n /\ \A y \in PREFERRED_SIZES : y >= n => m <= y
                    /\ BestSize(n) = IF m < FallbackSize(n) THEN m ELSE FallbackSize(n)
  <2>1. n \in 24..152
    BY <1>2, ServableIs
  <2> DEFINE m == Min(Preferred(n))
  <2>2. Preferred(n) # {} /\ m \in Preferred(n) /\ \A y \in Preferred(n) : m <= y
    BY <2>1, PreferredMin, Zenon
  <2>3. BestSize(n) = IF m < FallbackSize(n) THEN m ELSE FallbackSize(n)
    BY <1>0, <2>2
  <2> HIDE DEF m
  <2>4. m \in PREFERRED_SIZES /\ m >= n /\ \A y \in PREFERRED_SIZES : y >= n => m <= y
    BY <2>2 DEF Preferred
  <2> QED BY <2>3, <2>4, Zenon
<1> QED
  BY <1>1, <1>2, Zenon

Suits(size, category) ==
    /\ category \in Servable /\ category >= size /\ category % 8 = 0
    /\ 2 * (category - size) < size

(* What a size falls back to is large enough, aligned, and close; and what  *)
(* some size falls back to falls back to itself.                            *)
LEMMA FallbackSuits ==
    ASSUME NEW n \in Servable
    PROVE  /\ FallbackSize(n) \in Servable /\ FallbackSize(n) >= n /\ FallbackSize(n) % 8 = 0
           /\ n > 152 => 2 * (FallbackSize(n) - n) < n
           /\ FallbackSize(FallbackSize(n)) = FallbackSize(n)
<1> DEFINE f == FallbackSize(n)
<1>1. PICK p \in LargePowers :
          /\ p >= n /\ p < 2 * n
          /\ f = IF InBetween(p) >= n THEN InBetween(p) ELSE p
  BY FallbackCases
<1> HIDE DEF f
<1>2. f \in Servable /\ f >= n /\ f % 8 = 0 /\ p >= f /\ p < 2 * f /\ (f = p \/ f = InBetween(p))
  BY <1>1, InBetweenIs, ServableIs DEF LargePowers
<1>3. n > 152 => 2 * (f - n) < n
  BY <1>1, InBetweenIs, ServableIs DEF LargePowers
<1>4. PICK q \in LargePowers :
          /\ q >= f /\ q < 2 * f
          /\ FallbackSize(f) = IF InBetween(q) >= f THEN InBetween(q) ELSE q
  BY <1>2, FallbackCases
<1>5. p = q
  BY <1>2, <1>4, ServableIs DEF LargePowers
<1>6. InBetween(p) \in Nat /\ InBetween(p) < p
  BY <1>1, InBetweenIs DEF LargePowers
<1>7. FallbackSize(f) = f
  BY <1>2, <1>4, <1>5, <1>6, ServableIs DEF LargePowers
<1> QED
  BY <1>2, <1>3, <1>7 DEF f

(* Every best size suits the size it is best for, and is its own best.      *)
LEMMA BestSuits ==
    ASSUME NEW n \in Servable
    PROVE  Suits(n, BestSize(n)) /\ BestSize(BestSize(n)) = BestSize(n)
<1> DEFINE b == BestSize(n)
<1>1. FallbackSize(n) \in Servable /\ FallbackSize(n) >= n /\ FallbackSize(n) % 8 = 0
  BY FallbackSuits
<1>2. CASE n > 152
  <2>1. b = FallbackSize(n)
    BY <1>2, BestCases
  <2> QED
    BY <1>1, <1>2, <2>1, FallbackSuits, BestCases, ServableIs DEF Suits
<1>3. CASE n <= 152
  <2>1. PICK m \in PREFERRED_SIZES :
            /\ m >= n /\ \A y \in PREFERRED_SIZES : y >= n => m <= y
            /\ b = IF m < FallbackSize(n) THEN m ELSE FallbackSize(n)
    BY <1>3, BestCases, Zenon
  <2> HIDE DEF b
  <2>2. b \in Servable /\ b >= n /\ b % 8 = 0 /\ b <= m
    BY <1>1, <2>1, PreferredAre, ServableIs
  <2>3. 2 * (m - n) < n
    BY <2>1, PreferredAre, ServableIs
  <2>4. b \in PREFERRED_SIZES \/ b = FallbackSize(b)
    BY <2>1, FallbackSuits
  <2>5. FallbackSize(b) \in Servable /\ FallbackSize(b) >= b
    BY <2>2, FallbackSuits
  <2>6. BestSize(b) = b
    <3>1. b <= 152
      BY <2>1, <2>2, PreferredAre, ServableIs
    <3>2. PICK k \in PREFERRED_SIZES :
              /\ k >= b /\ \A y \in PREFERRED_SIZES : y >= b => k <= y
              /\ BestSize(b) = IF k < FallbackSize(b) THEN k ELSE FallbackSize(b)
      BY <2>2, <3>1, BestCases, Zenon
    <3>3. CASE b \in PREFERRED_SIZES
      <4>1. k <= b /\ k \in Nat
        BY <2>2, <3>2, <3>3, PreferredAre, ServableIs
      <4> QED BY <2>2, <2>5, <3>2, <4>1, ServableIs
    <3>4. CASE b = FallbackSize(b)
      BY <2>2, <3>2, <3>4, PreferredAre, ServableIs
    <3> QED BY <2>4, <3>3, <3>4
  <2>7. 2 * (b - n) < n
    BY <2>1, <2>2, <2>3, PreferredAre, ServableIs
  <2> QED
    BY <2>2, <2>6, <2>7 DEF Suits, b
<1> QED
  BY <1>2, <1>3, ServableIs

(* The categories that exist are best sizes, so the exact-size shortcut     *)
(* agrees with the computation.                                             *)
SizesInv ==
    /\ \A c \in sizes : c \in Servable /\ BestSize(c) = c
    /\ \A r \in served : r[2] = BestSize(r[1]) /\ Suits(r[1], r[2])

LEMMA SizesNextInv == SizesInv /\ [SizesNext]_sizeVars => SizesInv'
<1> SUFFICES ASSUME SizesInv, [SizesNext]_sizeVars PROVE SizesInv'
  OBVIOUS
<1>1. ASSUME NEW size \in Sizes, GetOrCreateBestCategory(size) PROVE SizesInv'
  <2>1. size \in Servable
    BY <1>1, SizesAssumption, ServableIs DEF GetOrCreateBestCategory, ObjSize
  <2>2. Suits(size, BestSize(size)) /\ BestSize(BestSize(size)) = BestSize(size)
    BY <2>1, BestSuits
  <2>3. CategoryFor(size) = BestSize(size)
    BY DEF CategoryFor, SizesInv
  <2>4. sizes' = sizes \cup {BestSize(size)} /\ served' = served \cup {<<size, BestSize(size)>>}
    BY <1>1, <2>3 DEF GetOrCreateBestCategory
  <2>5. BestSize(size) \in Servable
    BY <2>2 DEF Suits
  <2> QED
    BY <2>2, <2>4, <2>5 DEF SizesInv
<1>2. CASE UNCHANGED sizeVars
  BY <1>2 DEF SizesInv, sizeVars
<1> QED
  BY <1>1, <1>2 DEF SizesNext

(* Whatever was allocated before and in whichever order, every request of   *)
(* GetOrCreateBestCategory is served from the category computed for its     *)
(* size, whose slots hold it, are aligned, and waste less than half of it.  *)
THEOREM CategoriesSuit == SizesSpec => []CategorySuitable
<1>1. SizesInit => SizesInv
  BY DEF SizesInit, SizesInv
<1>2. SizesInv => CategorySuitable
  BY DEF SizesInv, CategorySuitable, Suits
<1> QED
  BY <1>1, <1>2, SizesNextInv, PTL DEF SizesSpec
=============================================================================
