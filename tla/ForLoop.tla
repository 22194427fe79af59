------------------------------- MODULE ForLoop ------------------------------
(***************************************************************************)
(* A loop "for (x in sequence) body" over a range, a list, a map or a      *)
(* string.  The compiled loop calls iterate(_) with the previous iterator, *)
(* leaves when the answer is falsy, then calls iteratorValue(_) and runs   *)
(* the body, which may change the list or the map it is looping over.      *)
(***************************************************************************)
EXTENDS ObjList, ObjMap, ObjString

CONSTANTS Items,         \* the values put in lists
          Keys,          \* the values used as map keys
          CodePoints,    \* the code points in strings
          StrayBytes,    \* bytes a string may hold that are not UTF-8
          MaxLength,     \* bound: elements in a sequence at any time
          MaxMutations,  \* bound: changes the bodies of one loop make
          Bound          \* bound: the ends of ranges are in -Bound..Bound

ASSUME LengthAssumption == MaxLength \in Nat

(* Objects are where the allocator puts them, at multiples of eight. *)
ASSUME KeysAssumption ==
    \A key \in Keys : /\ key \in [object : BOOLEAN, bits : Int]
                      /\ key.object => key.bits % 8 = 0

VARIABLES kind,       \* the class of the sequence
          contents,   \* its range, items, keys or bytes
          iter,       \* the hidden local "iter "
          visited,    \* the iterators handed to iteratorValue so far
          phase,      \* what the loop does next
          mutations,  \* how often the bodies changed the sequence
          disturbed,  \* whether a change was one that upsets iteration
          pieces      \* the code points and stray bytes a string is made of

loopVars == <<kind, contents, iter, visited, phase, mutations, disturbed, pieces>>

Upto(elements) == UNION {[1..n -> elements] : n \in 0..MaxLength}

Ranges == [from : -Bound..Bound, to : -Bound..Bound, inclusive : BOOLEAN]

MapContents ==
    {keys \in Upto(Keys) :
        \A i, j \in DOMAIN keys : i # j => ~KeyEqual(keys[i], keys[j])}

PieceBytes(piece) == IF piece.valid THEN AppendCodepoint(piece.code) ELSE <<piece.code>>
Pieces ==
    [valid : {TRUE}, code : CodePoints] \cup [valid : {FALSE}, code : StrayBytes]
BytesOf(string) == FlattenSeq([i \in DOMAIN string |-> PieceBytes(string[i])])

LoopInit ==
    /\ \/ kind = "range" /\ contents \in Ranges /\ pieces = <<>>
       \/ kind = "list" /\ contents \in Upto(Items) /\ pieces = <<>>
       \/ kind = "map" /\ contents \in MapContents /\ pieces = <<>>
       \/ kind = "string" /\ pieces \in Upto(Pieces) /\ contents = BytesOf(pieces)
    /\ iter = NullVal
    /\ visited = <<>>
    /\ phase = "iterate"
    /\ mutations = 0
    /\ disturbed = FALSE

IterateResult ==
    CASE kind = "range" -> RangeIterate(contents, iter)
      [] kind = "list" -> ListIterate(contents, iter)
      [] kind = "map" -> MapIterate(contents, iter)
      [] kind = "string" -> StringIterate(contents, iter)

(* iter = seq.iterate(iter), and the exit of the loop. *)
Iterate ==
    /\ phase = "iterate"
    /\ IF kind = "map" /\ IterateAborts(contents, iter)
         THEN phase' = "aborted" /\ UNCHANGED iter
         ELSE /\ iter' = IterateResult
              /\ phase' = IF IsTruthy(iter') THEN "value" ELSE "ended"
    /\ UNCHANGED <<kind, contents, visited, mutations, disturbed, pieces>>

(* The checks of the iteratorValue methods. *)
IteratorIsValid ==
    CASE kind = "range" -> TRUE
      [] kind = "list" -> ValidIndex(contents, iter.bits)
      [] kind = "map" -> ContainsKey(contents, UnwrapIterator(iter))
      [] kind = "string" -> iter.bits \in 0..(Len(contents) - 1)

IteratorValue ==
    /\ phase = "value"
    /\ IF IteratorIsValid
         THEN visited' = Append(visited, iter) /\ phase' = "body"
         ELSE phase' = "invalid" /\ UNCHANGED visited
    /\ UNCHANGED <<kind, contents, iter, mutations, disturbed, pieces>>

BodyEnds ==
    /\ phase = "body"
    /\ phase' = "iterate"
    /\ UNCHANGED <<kind, contents, iter, visited, mutations, disturbed, pieces>>

(* A method call in the body: it aborts, or changes the sequence.           *)
BodyCalls(allowed, newContents, disturbs) ==
    /\ phase = "body"
    /\ mutations < MaxMutations
    /\ mutations' = mutations + 1
    /\ IF allowed
         THEN contents' = newContents /\ disturbed' = (disturbed \/ disturbs)
                /\ UNCHANGED phase
         ELSE phase' = "aborted" /\ UNCHANGED <<contents, disturbed>>
    /\ UNCHANGED <<kind, iter, visited, pieces>>

(* Changes at or before the element the loop stands on move or replace what *)
(* was visited.                                                             *)
ListInsert(index, value) ==
    /\ kind = "list" /\ Len(contents) < MaxLength
    /\ BodyCalls(CanInsert(contents, index), Insert(contents, index, value),
                 InsertPosition(contents, index) <= iter.bits)

ListRemoveAt(index) ==
    /\ kind = "list"
    /\ BodyCalls(ValidIndex(contents, Position(contents, index)),
                 RemoveIndex(contents, index),
                 Position(contents, index) <= iter.bits)

(* Remove returns null when there is no such item. *)
ListRemove(value) ==
    /\ kind = "list"
    /\ LET index == IndexOf(contents, value) IN
       BodyCalls(TRUE, IF index = -1 THEN contents ELSE RemoveIndex(contents, index),
                 index # -1 /\ index <= iter.bits)

ListSubscriptSet(index, value) ==
    /\ kind = "list"
    /\ BodyCalls(ValidIndex(contents, Position(contents, index)),
                 SubscriptSet(contents, index, value),
                 Position(contents, index) <= iter.bits)

ListClear == kind = "list" /\ BodyCalls(TRUE, <<>>, TRUE)

(* A new key may rehash the map and so reorder it. *)
MapSubscriptSet(key) ==
    /\ kind = "map"
    /\ ContainsKey(contents, key) \/ Len(contents) < MaxLength
    /\ \E after \in AfterSet(contents, key) :
          BodyCalls(ValidateKey(key), after, after # contents)

MapRemove(key) ==
    /\ kind = "map"
    /\ BodyCalls(ValidateKey(key), AfterRemove(contents, key), FALSE)

MapClear == kind = "map" /\ BodyCalls(TRUE, <<>>, FALSE)

Mutate ==
    \/ \E index \in -(MaxLength + 1)..MaxLength :
          \/ \E value \in Items : ListInsert(index, value) \/ ListSubscriptSet(index, value)
          \/ ListRemoveAt(index)
    \/ \E value \in Items : ListRemove(value)
    \/ \E key \in Keys : MapSubscriptSet(key) \/ MapRemove(key)
    \/ ListClear
    \/ MapClear

LoopNext == Iterate \/ IteratorValue \/ BodyEnds \/ Mutate

LoopSpec == LoopInit /\ [][LoopNext]_loopVars

-----------------------------------------------------------------------------
VisitedBits == [i \in DOMAIN visited |-> visited[i].bits]
VisitedKeys == [i \in DOMAIN visited |-> UnwrapIterator(visited[i])]

(* A loop over a range takes its elements in order from the first to the    *)
(* last, forwards or backwards, and no other.  A body that adds, removes or *)
(* replaces items of a list only behind the current one makes the loop skip *)
(* nothing and repeat nothing; and whatever it does to the list, iterate(_) *)
(* returns an index that iteratorValue(_) accepts.                          *)
CountedLoopExact ==
    /\ kind = "range" =>
        LET step == IF contents.from < contents.to THEN 1 ELSE -1
            count == Distance(contents.from, contents.to)
                        + (IF contents.inclusive THEN 1 ELSE 0)
        IN
        /\ \A i \in DOMAIN visited : visited[i].bits = contents.from + (i - 1) * step
        /\ Len(visited) <= count
        /\ phase = "ended" => Len(visited) = count
    /\ kind = "list" => phase # "invalid"
    /\ kind = "list" /\ ~disturbed =>
        /\ VisitedBits = [i \in 1..Len(visited) |-> i - 1]
        /\ Len(visited) <= Len(contents)
        /\ phase = "ended" => Len(visited) = Len(contents)

(* As long as the body adds no key to the map, the loop visits no key twice *)
(* and every key that is left at the end was visited; it never aborts when  *)
(* the body leaves the map alone.  Keys null and false are no exception.    *)
(* Whatever the body does, the key it goes on with is one that the map has. *)
MapLoopExact ==
    /\ kind = "map" => phase # "invalid"
    /\ kind = "map" /\ ~disturbed =>
        /\ \A i, j \in DOMAIN visited : i # j => VisitedKeys[i] # VisitedKeys[j]
        /\ phase = "ended" => ToSet(contents) \subseteq ToSet(VisitedKeys)
        /\ mutations = 0 => phase # "aborted"

(* A map never holds two keys that ValueEqual calls equal: two strings with *)
(* the same contents are one key, although they are two objects.            *)
MapKeysDistinct ==
    kind = "map" =>
        \A i, j \in DOMAIN contents : i # j => ~KeyEqual(contents[i], contents[j])

IsValid(string) == \A i \in DOMAIN string : string[i].valid

(* The loop over a valid string yields its code points, each once and       *)
(* decoded to what was encoded, and their concatenation is the string.  In  *)
(* any string, valid or not, every byte is in some value the loop yields.   *)
StringLoopExact ==
    /\ kind = "string" => phase # "invalid"
    /\ kind = "string" /\ phase = "ended" =>
        LET Value(i) == SubscriptIndex(contents, visited[i].bits) IN
        /\ IsValid(pieces) =>
            /\ [i \in DOMAIN visited |-> CodePointAt(contents, visited[i].bits)]
                  = [i \in DOMAIN pieces |-> pieces[i].code]
            /\ FlattenSeq([i \in DOMAIN visited |-> Value(i)]) = contents
        /\ \A byte \in 0..(Len(contents) - 1) : \E i \in DOMAIN visited :
              byte \in visited[i].bits..(visited[i].bits + Len(Value(i)) - 1)

(* The position of the first byte of each piece. *)
PieceStart(string, i) == Len(BytesOf(SubSeq(string, 1, i - 1)))

(* A forward range of a valid string that holds the first byte of some code *)
(* point yields whole code points: those whose first byte is in the range.  *)
StringSliceWhole ==
    kind = "string" /\ visited = <<>> /\ IsValid(pieces) =>
        \A from, to \in 0..Len(contents), inclusive \in BOOLEAN :
            LET slice == ToSubscriptUtil(from, to, inclusive, Len(contents))
                inside == {i \in DOMAIN pieces :
                             PieceStart(pieces, i) \in slice.start..(slice.end - 1)}
            IN slice.ok /\ ~slice.reverse /\ inside # {} =>
                  SubscriptSlice(contents, slice)
                    = BytesOf(SubSeq(pieces, Min(inside), Max(inside)))

(* Slicing a list, or a string, selects what the interpreter selects, for   *)
(* every range around its ends.                                             *)
SliceAsInterpreter ==
    kind = "list" /\ visited = <<>> =>
        \A from, to \in (-(Len(contents) + 2)..(Len(contents) + 2)) \cup {NotInteger},
           inclusive \in BOOLEAN :
              SelectsAsInterpreter(from, to, inclusive, Len(contents))
=============================================================================
