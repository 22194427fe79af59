---------------------------- MODULE ForLoopProofs ---------------------------
(***************************************************************************)
(* What module ObjRange computes, for every length and every range; and    *)
(* loops over ranges, lists and maps of any size, in three parts: slices,  *)
(* from that; ranges and lists, which are counted through; and maps, which *)
(* are walked from key to key.                                             *)
(***************************************************************************)
EXTENDS ForLoop, WellFoundedInduction, FiniteSetTheorems, TLAPS

(* The last position of a range, counted from the start of the sequence,    *)
(* when the range is not empty.                                             *)
LastPosition(from, to, inclusive, length) ==
    IF inclusive THEN FromEnd(to, length)
    ELSE InclusiveEnd(FromEnd(from, length), FromEnd(to, length))

(* A range that starts right behind the last element, and ends there.       *)
AtEnd(from, to, inclusive, length) ==
    from = length /\ to = (IF inclusive THEN -1 ELSE length)

Empty(from, to, inclusive, length) ==
    ~inclusive /\ FromEnd(from, length) = FromEnd(to, length)

Within(i, length) == 0 <= i /\ i < length

(* The positions that integer ends stand for are integers; only a `from' right
   behind the last element stands for the length itself. *)
LEMMA PositionsAreIntegers ==
    ASSUME NEW length \in Nat, NEW inclusive \in BOOLEAN, NEW from \in Int, NEW to \in Int
    PROVE  /\ FromEnd(from, length) \in Int
           /\ FromEnd(to, length) \in Int
           /\ LastPosition(from, to, inclusive, length) \in Int
           /\ FromEnd(from, length) = length <=> from = length
           /\ from # NotInteger /\ to # NotInteger
  BY NotIntegerAssumption DEF FromEnd, LastPosition, InclusiveEnd

(* What ToSubscriptUtil returns, case by case.                              *)
LEMMA SliceCases ==
    ASSUME NEW length \in Nat, NEW inclusive \in BOOLEAN, NEW from \in Int, NEW to \in Int,
           NEW first, first = FromEnd(from, length),
           NEW last, last = LastPosition(from, to, inclusive, length),
           NEW slice, slice = ToSubscriptUtil(from, to, inclusive, length)
    PROVE  /\ AtEnd(from, to, inclusive, length) =>
                slice = [ok |-> TRUE, start |-> 0, end |-> 0, reverse |-> FALSE]
           /\ ~AtEnd(from, to, inclusive, length)
                /\ Empty(from, to, inclusive, length) =>
                slice = IF Within(first, length)
                          THEN [ok |-> TRUE, start |-> first, end |-> first,
                                reverse |-> FALSE]
                          ELSE Aborted
           /\ ~AtEnd(from, to, inclusive, length)
                /\ ~Empty(from, to, inclusive, length) =>
                slice = IF ~(Within(first, length) /\ Within(last, length)) THEN Aborted
                        ELSE IF first > last
                          THEN [ok |-> TRUE, start |-> last, end |-> first + 1,
                                reverse |-> TRUE]
                          ELSE [ok |-> TRUE, start |-> first, end |-> last + 1,
                                reverse |-> FALSE]
<1> DEFINE end == FromEnd(to, length)
           isEmptyRange == ~inclusive /\ first = end
           reverse == first > last /\ ~isEmptyRange
           low == IF reverse THEN last ELSE first
           high == (IF reverse THEN first ELSE last) + 1
<1>1. first \in Int /\ end \in Int /\ last \in Int /\ (first = length <=> from = length)
        /\ from # NotInteger /\ to # NotInteger
  BY PositionsAreIntegers
<1>2. slice = IF AtEnd(from, to, inclusive, length)
                THEN [ok |-> TRUE, start |-> 0, end |-> 0, reverse |-> FALSE]
              ELSE IF low < 0 \/ low >= length \/ high < 0 \/ high > length
                THEN Aborted
              ELSE [ok |-> TRUE, start |-> low, end |-> high, reverse |-> reverse]
  BY <1>1, Zenon DEF ToSubscriptUtil, AtEnd, LastPosition
<1>3. Empty(from, to, inclusive, length) <=> isEmptyRange
  BY DEF Empty
<1>4. isEmptyRange => last = first - 1 /\ low = first /\ high = first /\ ~reverse
  BY <1>1 DEF LastPosition, InclusiveEnd
<1>5. isEmptyRange =>
         ((low < 0 \/ low >= length \/ high < 0 \/ high > length) <=> ~Within(first, length))
  BY <1>1, <1>4 DEF Within
<1>6. ~isEmptyRange =>
         ((low < 0 \/ low >= length \/ high < 0 \/ high > length)
            <=> ~(Within(first, length) /\ Within(last, length)))
  BY <1>1 DEF Within
<1>7. ~isEmptyRange => (reverse <=> first > last)
  OBVIOUS
<1>8. reverse \in BOOLEAN
  OBVIOUS
<1> HIDE DEF isEmptyRange, end
<1>9. ASSUME ~isEmptyRange, first > last PROVE low = last /\ high = first + 1 /\ reverse = TRUE
  BY <1>9
<1>10. ASSUME ~isEmptyRange, ~(first > last) PROVE low = first /\ high = last + 1 /\ reverse = FALSE
  BY <1>10
<1>11. isEmptyRange => reverse = FALSE
  BY <1>4
<1> HIDE DEF reverse, low, high
<1> QED
  BY <1>2, <1>3, <1>4, <1>5, <1>6, <1>9, <1>10, <1>11

(* What calculateRange returns in the same cases.                           *)
LEMMA ReferenceCases ==
    ASSUME NEW length \in Nat, NEW inclusive \in BOOLEAN, NEW from \in Int, NEW to \in Int,
           NEW first, first = FromEnd(from, length),
           NEW last, last = LastPosition(from, to, inclusive, length),
           NEW reference, reference = CalculateRange(from, to, inclusive, length)
    PROVE  /\ AtEnd(from, to, inclusive, length) =>
                reference = [ok |-> TRUE, from |-> 0, count |-> 0, step |-> 0]
           /\ ~AtEnd(from, to, inclusive, length)
                /\ Empty(from, to, inclusive, length) =>
                reference = IF Within(first, length)
                              THEN [ok |-> TRUE, from |-> first, count |-> 0, step |-> 0]
                              ELSE NoRange
           /\ ~AtEnd(from, to, inclusive, length)
                /\ ~Empty(from, to, inclusive, length) =>
                reference = IF ~(Within(first, length) /\ Within(last, length))
                              THEN NoRange
                              ELSE [ok |-> TRUE, from |-> first,
                                    count |-> Distance(first, last) + 1,
                                    step |-> IF first < last THEN 1 ELSE -1]
<1> DEFINE value == FromEnd(to, length)
           final == IF inclusive THEN value
                    ELSE value + (IF value >= first THEN -1 ELSE 1)
<1>1. first \in Int /\ value \in Int /\ last \in Int
        /\ from # NotInteger /\ to # NotInteger
  BY PositionsAreIntegers
<1>2. final = last
  BY <1>1 DEF LastPosition, InclusiveEnd
<1>3. reference =
        IF AtEnd(from, to, inclusive, length)
          THEN [ok |-> TRUE, from |-> 0, count |-> 0, step |-> 0]
        ELSE IF first < 0 \/ first >= length THEN NoRange
        ELSE IF ~inclusive /\ value = first
          THEN [ok |-> TRUE, from |-> first, count |-> 0, step |-> 0]
        ELSE IF final < 0 \/ final >= length THEN NoRange
        ELSE [ok |-> TRUE, from |-> first, count |-> Distance(first, final) + 1,
              step |-> IF first < final THEN 1 ELSE -1]
  BY <1>1, Zenon DEF CalculateRange, AtEnd
<1>4. (first < 0 \/ first >= length) <=> ~Within(first, length)
  BY <1>1 DEF Within
<1>5. (last < 0 \/ last >= length) <=> ~Within(last, length)
  BY <1>1 DEF Within
<1>6. Empty(from, to, inclusive, length) <=> ~inclusive /\ value = first
  BY DEF Empty
<1> HIDE DEF value, final
<1> QED
  BY <1>2, <1>3, <1>4, <1>5, <1>6

(* A range with an end that is not an integer is refused by both.           *)
LEMMA NotIntegerAborts ==
    ASSUME NEW length \in Nat, NEW inclusive \in BOOLEAN,
           NEW from \in Int \cup {NotInteger}, NEW to \in Int \cup {NotInteger},
           from = NotInteger \/ to = NotInteger
    PROVE  SelectsAsInterpreter(from, to, inclusive, length)
<1>1. ~ToSubscriptUtil(from, to, inclusive, length).ok
  BY DEF ToSubscriptUtil, Aborted
<1>2. ~CalculateRange(from, to, inclusive, length).ok
  <2>1. to # (IF inclusive THEN -1 ELSE length) \/ from = NotInteger
    BY NotIntegerAssumption
  <2> QED
    BY <2>1 DEF CalculateRange, NoRange
<1> QED
  BY <1>1, <1>2 DEF SelectsAsInterpreter

(* For every range, with ends of any sign and order, inclusive or not, and  *)
(* every length, ToSubscriptUtil aborts exactly when the interpreter does,  *)
(* and otherwise selects the same positions, all of them in the sequence.   *)
THEOREM RangeSelects ==
    ASSUME NEW length \in Nat, NEW inclusive \in BOOLEAN,
           NEW from \in Int \cup {NotInteger}, NEW to \in Int \cup {NotInteger}
    PROVE  SelectsAsInterpreter(from, to, inclusive, length)
<1>1. CASE from = NotInteger \/ to = NotInteger
  BY <1>1, NotIntegerAborts
<1>2. CASE from \in Int /\ to \in Int
  <2> DEFINE first == FromEnd(from, length)
             last == LastPosition(from, to, inclusive, length)
             slice == ToSubscriptUtil(from, to, inclusive, length)
             reference == CalculateRange(from, to, inclusive, length)
  <2> HIDE DEF first, last, slice, reference
  <2> SUFFICES /\ slice.ok <=> reference.ok
               /\ slice.ok =>
                    /\ Selected(slice) = reference.count
                    /\ \A i \in 0..(reference.count - 1) :
                          /\ SelectedAt(slice, i) = reference.from + i * reference.step
                          /\ SelectedAt(slice, i) \in 0..(length - 1)
    BY DEF SelectsAsInterpreter, slice, reference
  <2>1. first \in Int /\ last \in Int
    BY <1>2, PositionsAreIntegers DEF first, last
  <2>2. CASE AtEnd(from, to, inclusive, length)
    <3>1. slice = [ok |-> TRUE, start |-> 0, end |-> 0, reverse |-> FALSE]
      BY <1>2, <2>2, SliceCases DEF slice
    <3>2. reference = [ok |-> TRUE, from |-> 0, count |-> 0, step |-> 0]
      BY <1>2, <2>2, ReferenceCases DEF reference
    <3> QED
      BY <3>1, <3>2 DEF Selected
  <2>3. CASE ~AtEnd(from, to, inclusive, length) /\ Empty(from, to, inclusive, length)
    <3>1. slice = IF Within(first, length)
                    THEN [ok |-> TRUE, start |-> first, end |-> first, reverse |-> FALSE]
                    ELSE Aborted
      BY <1>2, <2>3, SliceCases DEF slice, first
    <3>2. reference = IF Within(first, length)
                        THEN [ok |-> TRUE, from |-> first, count |-> 0, step |-> 0]
                        ELSE NoRange
      BY <1>2, <2>3, ReferenceCases DEF reference, first
    <3> QED
      BY <2>1, <3>1, <3>2 DEF Selected, Aborted, NoRange
  <2>4. CASE ~AtEnd(from, to, inclusive, length) /\ ~Empty(from, to, inclusive, length)
    <3>1. slice = IF ~(Within(first, length) /\ Within(last, length)) THEN Aborted
                  ELSE IF first > last
                    THEN [ok |-> TRUE, start |-> last, end |-> first + 1, reverse |-> TRUE]
                    ELSE [ok |-> TRUE, start |-> first, end |-> last + 1,
                          reverse |-> FALSE]
      BY <1>2, <2>4, SliceCases DEF slice, first, last
    <3>2. reference = IF ~(Within(first, length) /\ Within(last, length)) THEN NoRange
                      ELSE [ok |-> TRUE, from |-> first,
                            count |-> Distance(first, last) + 1,
                            step |-> IF first < last THEN 1 ELSE -1]
      BY <1>2, <2>4, ReferenceCases DEF reference, first, last
    <3>3. CASE ~(Within(first, length) /\ Within(last, length))
      BY <3>1, <3>2, <3>3 DEF Aborted, NoRange
    <3>4. CASE Within(first, length) /\ Within(last, length) /\ first > last
      <4>1. slice = [ok |-> TRUE, start |-> last, end |-> first + 1, reverse |-> TRUE]
        BY <3>1, <3>4
      <4>2. /\ reference.ok /\ reference.from = first
            /\ reference.count = first - last + 1 /\ reference.step = -1
        <5>1. Distance(first, last) = first - last /\ ~(first < last)
          BY <2>1, <3>4 DEF Distance
        <5> QED
          BY <3>2, <3>4, <5>1
      <4>3. slice.ok /\ reference.ok /\ Selected(slice) = reference.count
        BY <2>1, <4>1, <4>2 DEF Selected
      <4>4. ASSUME NEW i \in 0..(reference.count - 1)
            PROVE  /\ SelectedAt(slice, i) = reference.from + i * reference.step
                   /\ SelectedAt(slice, i) \in 0..(length - 1)
        <5>1. i \in Int /\ 0 <= i /\ i <= first - last
          BY <2>1, <4>2
        <5>2. SelectedAt(slice, i) = first - i
          BY <2>1, <4>1, <5>1 DEF SelectedAt
        <5>3. i * (-1) = -i
          BY <5>1
        <5>4. reference.from = first /\ reference.step = -1
          BY <4>2
        <5>5. reference.from + i * reference.step = first - i
          BY <2>1, <5>1, <5>3, <5>4
        <5> QED
          BY <2>1, <3>4, <5>1, <5>2, <5>5 DEF Within
      <4> QED
        BY <4>3, <4>4
    <3>5. CASE Within(first, length) /\ Within(last, length) /\ first < last
      <4>1. slice = [ok |-> TRUE, start |-> first, end |-> last + 1, reverse |-> FALSE]
        BY <2>1, <3>1, <3>5
      <4>2. reference = [ok |-> TRUE, from |-> first, count |-> last - first + 1, step |-> 1]
        BY <2>1, <3>2, <3>5 DEF Distance
      <4> QED
        BY <2>1, <3>5, <4>1, <4>2 DEF Selected, SelectedAt, Within
    <3>6. CASE Within(first, length) /\ Within(last, length) /\ first = last
      <4>1. slice = [ok |-> TRUE, start |-> first, end |-> first + 1, reverse |-> FALSE]
        BY <2>1, <3>1, <3>6
      <4>2. /\ reference.ok /\ reference.from = first
            /\ reference.count = 1 /\ reference.step = -1
        <5>1. Distance(first, last) + 1 = 1 /\ ~(first < last)
          BY <2>1, <3>6 DEF Distance
        <5> QED
          BY <3>2, <3>6, <5>1
      <4>3. slice.ok /\ reference.ok /\ Selected(slice) = reference.count
        BY <2>1, <4>1, <4>2 DEF Selected
      <4>4. ASSUME NEW i \in 0..(reference.count - 1)
            PROVE  /\ SelectedAt(slice, i) = reference.from + i * reference.step
                   /\ SelectedAt(slice, i) \in 0..(length - 1)
        <5>1. i = 0 /\ reference.from = first /\ reference.step = -1
          BY <4>2
        <5>2. SelectedAt(slice, i) = first
          BY <2>1, <4>1, <5>1 DEF SelectedAt
        <5>3. reference.from + i * reference.step = first
          BY <2>1, <5>1
        <5> QED
          BY <2>1, <3>6, <5>2, <5>3 DEF Within
      <4> QED
        BY <4>3, <4>4
    <3> QED
      BY <2>1, <3>3, <3>4, <3>5, <3>6
  <2> QED
    BY <2>2, <2>3, <2>4
<1> QED
  BY <1>1, <1>2
-----------------------------------------------------------------------------

(* A list is a sequence until the first body runs; only bodies change it.   *)
UntouchedList ==
    kind = "list" /\ visited = <<>> => contents \in Seq(Items) /\ phase # "body"

(* Before a loop starts its list has its initial type. *)
LEMMA InitUntouched == LoopInit => UntouchedList
<1> SUFFICES ASSUME LoopInit, kind = "list" PROVE contents \in Seq(Items) /\ phase # "body"
  BY DEF UntouchedList
<1>1. contents \in Upto(Items) /\ phase = "iterate"
  BY DEF LoopInit
<1>2. PICK n \in 0..MaxLength : contents \in [1..n -> Items]
  BY <1>1 DEF Upto
<1>3. n \in Nat
  BY <1>2, LengthAssumption
<1> QED
  BY <1>1, <1>2, <1>3

(* No step before the first body changes the type of the list. *)
LEMMA NextUntouched == UntouchedList /\ [LoopNext]_loopVars => UntouchedList'
<1> SUFFICES ASSUME UntouchedList, [LoopNext]_loopVars PROVE UntouchedList'
  OBVIOUS
<1>1. CASE Iterate
  BY <1>1 DEF Iterate, UntouchedList
<1>2. CASE IteratorValue
  BY <1>2 DEF IteratorValue, UntouchedList
<1>3. CASE BodyEnds
  BY <1>3 DEF BodyEnds, UntouchedList
<1>4. CASE Mutate
  <2>1. phase = "body" /\ UNCHANGED <<kind, visited>>
    BY <1>4 DEF Mutate, ListInsert, ListSubscriptSet, ListRemoveAt, ListRemove, ListClear,
                MapSubscriptSet, MapRemove, MapClear, BodyCalls
  <2> QED
    BY <2>1 DEF UntouchedList
<1>5. CASE UNCHANGED loopVars
  BY <1>5 DEF UntouchedList, loopVars
<1> QED
  BY <1>1, <1>2, <1>3, <1>4, <1>5 DEF LoopNext

(* A list of its initial type is sliced as the interpreter slices it. *)
LEMMA UntouchedSlices == UntouchedList => SliceAsInterpreter
<1> SUFFICES ASSUME UntouchedList, kind = "list", visited = <<>>,
                    NEW from \in (-(Len(contents) + 2)..(Len(contents) + 2)) \cup {NotInteger},
                    NEW to \in (-(Len(contents) + 2)..(Len(contents) + 2)) \cup {NotInteger},
                    NEW inclusive \in BOOLEAN
             PROVE  SelectsAsInterpreter(from, to, inclusive, Len(contents))
  BY DEF SliceAsInterpreter
<1>1. Len(contents) \in Nat
  BY DEF UntouchedList
<1>2. from \in Int \cup {NotInteger} /\ to \in Int \cup {NotInteger}
  BY <1>1
<1> QED
  BY <1>1, <1>2, RangeSelects

(* Slicing a list of any length, holding any values, selects what the Wren  *)
(* interpreter selects: ObjRange::ToSubscriptUtil.                          *)
THEOREM SlicesCorrect == LoopSpec => []SliceAsInterpreter
<1>1. UntouchedList => SliceAsInterpreter
  BY UntouchedSlices
<1> QED
  BY InitUntouched, NextUntouched, <1>1, PTL DEF LoopSpec

-----------------------------------------------------------------------------
(* The element of a range that is k steps from its start, and how many      *)
(* elements the range has.                                                  *)
ElementAt(range, k) == IF range.from < range.to THEN range.from + k ELSE range.from - k
Elements(range) ==
    Distance(range.from, range.to) + (IF range.inclusive THEN 1 ELSE 0)

(* A loop over a range: how far it has come, in each phase. *)
RangeLoop ==
    /\ contents \in [from : Int, to : Int, inclusive : BOOLEAN]
    /\ \A i \in 1..Len(visited) : visited[i].bits = ElementAt(contents, i - 1)
    /\ Len(visited) <= Elements(contents)
    /\ \/ phase = "iterate" /\ visited = <<>> /\ iter = NullVal
       \/ /\ phase \in {"iterate", "body"} /\ visited # <<>>
          /\ iter = Number(ElementAt(contents, Len(visited) - 1))
       \/ /\ phase = "value" /\ Len(visited) < Elements(contents)
          /\ iter = Number(ElementAt(contents, Len(visited)))
       \/ phase = "ended" /\ Len(visited) = Elements(contents)

(* A loop over a list, whatever the bodies do to it. *)
ListLoop ==
    /\ contents \in Seq(Items)
    /\ \/ phase = "iterate" /\ visited = <<>> /\ iter = NullVal
       \/ phase \in {"iterate", "body"} /\ visited # <<>> /\ \E k \in Nat : iter = Number(k)
       \/ phase = "value" /\ \E k \in 0..(Len(contents) - 1) : iter = Number(k)
       \/ phase \in {"ended", "aborted"}

(* The same, as long as the bodies only change what is behind the current   *)
(* element.                                                                 *)
UndisturbedList ==
    /\ \A i \in 1..Len(visited) : visited[i].bits = i - 1
    /\ Len(visited) <= Len(contents)
    /\ phase \in {"iterate", "body"} /\ visited # <<>> => iter = Number(Len(visited) - 1)
    /\ phase = "body" => visited # <<>>
    /\ phase = "value" => iter = Number(Len(visited)) /\ Len(visited) < Len(contents)
    /\ phase = "ended" => Len(visited) = Len(contents)

CountedInv ==
    /\ kind \in {"range", "list"} => visited \in Seq({Number(n) : n \in Int})
    /\ disturbed \in BOOLEAN
    /\ kind = "range" => RangeLoop
    /\ kind = "list" => ListLoop
    /\ kind = "list" /\ disturbed = FALSE => UndisturbedList
(* Numbers are truthy, 0 included. *)
LEMMA NumberFacts ==
    /\ \A n : Number(n).bits = n /\ IsTruthy(Number(n)) /\ Number(n) # NullVal
    /\ ~IsTruthy(FalseVal)
  BY DEF Number, IsTruthy, NullVal, FalseVal, Object

(* Counting the elements of a range, and the one after the k-th. *)
LEMMA RangeSteps ==
    ASSUME NEW range \in [from : Int, to : Int, inclusive : BOOLEAN]
    PROVE  /\ Elements(range) \in Nat
           /\ \A k \in Nat : ElementAt(range, k) \in Int
           /\ RangeIterate(range, NullVal) =
                IF Elements(range) = 0 THEN FalseVal ELSE Number(ElementAt(range, 0))
           /\ \A k \in Nat \ {0} : k <= Elements(range) =>
                RangeIterate(range, Number(ElementAt(range, k - 1))) =
                    IF k = Elements(range) THEN FalseVal ELSE Number(ElementAt(range, k))
  <1> DEFINE a == range.from
             b == range.to
             i == range.inclusive
  <1>1. a \in Int /\ b \in Int /\ i \in BOOLEAN
    OBVIOUS
  <1>2. Elements(range) = (IF a < b THEN b - a ELSE a - b) + (IF i THEN 1 ELSE 0)
    BY DEF Elements, Distance
  <1>3. \A k : ElementAt(range, k) = IF a < b THEN a + k ELSE a - k
    BY DEF ElementAt
  <1>4. RangeIterate(range, NullVal) =
            IF a = b /\ ~i THEN FalseVal ELSE Number(a)
    BY DEF RangeIterate
  <1>5. \A n : RangeIterate(range, Number(n)) =
            IF a = b /\ ~i THEN FalseVal ELSE AfterCurrent(a, b, i, n)
    BY NumberFacts DEF RangeIterate
  <1> HIDE DEF a, b, i
  <1>6. Elements(range) \in Nat /\ \A k \in Nat : ElementAt(range, k) \in Int
    BY <1>1, <1>2, <1>3
  <1>7. RangeIterate(range, NullVal) =
            IF Elements(range) = 0 THEN FalseVal ELSE Number(ElementAt(range, 0))
    <2>1. Elements(range) = 0 <=> a = b /\ ~i
      BY <1>1, <1>2
    <2>2. ElementAt(range, 0) = a
      BY <1>1, <1>3
    <2> QED BY <1>4, <2>1, <2>2
  <1>8. ASSUME NEW k \in Nat \ {0}, k <= Elements(range)
        PROVE  RangeIterate(range, Number(ElementAt(range, k - 1))) =
                    IF k = Elements(range) THEN FalseVal ELSE Number(ElementAt(range, k))
    <2> DEFINE n == ElementAt(range, k - 1)
               next == IF a < b THEN n + 1 ELSE n - 1
               past == \/ a < b /\ next > b
                       \/ ~(a < b) /\ next < b
                       \/ next = b /\ ~i
    <2>1. ~(a = b /\ ~i)
      BY <1>1, <1>2, <1>8
    <2>2. RangeIterate(range, Number(n)) = AfterCurrent(a, b, i, n)
      BY <1>5, <2>1
    <2>3. AfterCurrent(a, b, i, n) = IF past THEN FalseVal ELSE Number(next)
      BY DEF AfterCurrent
    <2>4. n = IF a < b THEN a + (k - 1) ELSE a - (k - 1)
      BY <1>3
    <2>5. next = ElementAt(range, k)
      BY <1>1, <1>3, <2>4
    <2>6. next = IF a < b THEN a + k ELSE a - k
      BY <1>3, <2>5
    <2> HIDE DEF next
    <2>7. past <=> k = Elements(range)
      BY <1>1, <1>2, <1>8, <2>6
    <2> QED BY <2>2, <2>3, <2>5, <2>7
  <1> QED BY <1>6, <1>7, <1>8

(* An item that is in a list is found, at its first position. *)
LEMMA IndexOfFound ==
    ASSUME NEW T, NEW items \in Seq(T), NEW value
    PROVE  IndexOf(items, value) = -1 \/ IndexOf(items, value) \in 0..(Len(items) - 1)
  <1>1. CASE value \notin ToSet(items)
    BY <1>1 DEF IndexOf
  <1>2. CASE value \in ToSet(items)
    <2> DEFINE D == {i \in Nat : i < Len(items) /\ items[i + 1] = value}
    <2>1. PICK n \in 1..Len(items) : items[n] = value
      BY <1>2 DEF ToSet
    <2>2. n - 1 \in Nat /\ n - 1 < Len(items) /\ (n - 1) + 1 = n
      BY <2>1
    <2>3. n - 1 \in D
      BY <2>1, <2>2
    <2>4. PICK i \in D : \A y \in D : ~(<<y, i>> \in OpToRel(<, Nat))
      <3>1. D \subseteq Nat /\ D # {}
        BY <2>3
      <3> QED BY <3>1, WFMin, NatLessThanWellFounded, Zenon
    <2>5. i \in Nat /\ i < Len(items) /\ items[i + 1] = value
      BY <2>4
    <2>6. \A j \in 0..(i - 1) : items[j + 1] # value
      <3> SUFFICES ASSUME NEW j \in 0..(i - 1), items[j + 1] = value PROVE FALSE
        OBVIOUS
      <3>1. j \in Nat /\ j < i /\ j < Len(items)
        BY <2>5
      <3>2. j \in D
        BY <3>1
      <3>3. <<j, i>> \in OpToRel(<, Nat)
        BY <2>5, <3>1 DEF OpToRel
      <3> QED BY <2>4, <3>2, <3>3
    <2>7. i \in 0..(Len(items) - 1)
      BY <2>5
    <2>8. \E k \in 0..(Len(items) - 1) :
              /\ items[k + 1] = value
              /\ \A j \in 0..(k - 1) : items[j + 1] # value
      BY <2>5, <2>6, <2>7
    <2> QED BY <1>2, <2>8 DEF IndexOf
  <1> QED BY <1>1, <1>2

(* ObjList::Insert makes a list one longer. *)
LEMMA InsertLonger ==
    ASSUME NEW T, NEW items \in Seq(T), NEW index \in Int, NEW value \in T,
           CanInsert(items, index)
    PROVE  /\ InsertPosition(items, index) \in 0..Len(items)
           /\ Insert(items, index, value) \in Seq(T)
           /\ Len(Insert(items, index, value)) = Len(items) + 1
  <1> DEFINE p == InsertPosition(items, index)
             n == Len(items)
  <1>1. n \in Nat /\ p \in 0..n
    BY DEF CanInsert, ValidIndex, InsertPosition
  <1>2. Insert(items, index, value) =
            SubSeq(items, 1, (p + 1) - 1) \o <<value>> \o SubSeq(items, p + 1, n)
    BY DEF Insert, InsertAt
  <1> HIDE DEF p
  <1>3. SubSeq(items, 1, (p + 1) - 1) \in Seq(T) /\ Len(SubSeq(items, 1, (p + 1) - 1)) = p
    BY <1>1
  <1>4. SubSeq(items, p + 1, n) \in Seq(T) /\ Len(SubSeq(items, p + 1, n)) = n - p
    BY <1>1
  <1> DEFINE front == SubSeq(items, 1, (p + 1) - 1)
             back == SubSeq(items, p + 1, n)
  <1>5. front \in Seq(T) /\ Len(front) = p /\ back \in Seq(T) /\ Len(back) = n - p
    BY <1>3, <1>4
  <1> HIDE DEF front, back
  <1>6. front \o <<value>> \in Seq(T) /\ Len(front \o <<value>>) = p + 1
    BY <1>1, <1>5
  <1>7. front \o <<value>> \o back \in Seq(T) /\ Len(front \o <<value>> \o back) = n + 1
    BY <1>1, <1>5, <1>6
  <1> QED BY <1>1, <1>2, <1>7 DEF p, front, back

(* Removing position k leaves the others in their order. *)
LEMMA RemoveAtIs ==
    ASSUME NEW T, NEW items \in Seq(T), NEW k \in 1..Len(items)
    PROVE  /\ RemoveAt(items, k) \in Seq(T)
           /\ Len(RemoveAt(items, k)) = Len(items) - 1
           /\ \A i \in 1..(Len(items) - 1) :
                RemoveAt(items, k)[i] = items[IF i < k THEN i ELSE i + 1]
  <1> DEFINE n == Len(items)
             front == SubSeq(items, 1, k - 1)
             back == SubSeq(items, k + 1, n)
  <1>1. n \in Nat
    OBVIOUS
  <1>2. RemoveAt(items, k) = front \o back
    BY DEF RemoveAt
  <1>3. front \in Seq(T) /\ Len(front) = k - 1 /\ \A i \in 1..(k - 1) : front[i] = items[i]
    OBVIOUS
  <1>4. back \in Seq(T) /\ Len(back) = n - k /\ \A i \in 1..(n - k) : back[i] = items[i + k]
    OBVIOUS
  <1> HIDE DEF front, back
  <1>5. front \o back \in Seq(T) /\ Len(front \o back) = n - 1
    <2>1. front \in Seq(T) /\ back \in Seq(T) /\ Len(front) + Len(back) = n - 1
      BY <1>1, <1>3, <1>4
    <2> QED BY <2>1
  <1>6. \A i \in 1..(n - 1) :
           (front \o back)[i] = IF i <= k - 1 THEN front[i] ELSE back[i - (k - 1)]
    BY <1>1, <1>3, <1>4
  <1>7. ASSUME NEW i \in 1..(n - 1)
        PROVE  (front \o back)[i] = items[IF i < k THEN i ELSE i + 1]
    <2>1. CASE i < k
      BY <1>3, <1>6, <2>1
    <2>2. CASE ~(i < k)
      <3> DEFINE j == i - (k - 1)
      <3>1. j \in 1..(n - k) /\ j + k = i + 1 /\ ~(i <= k - 1)
        BY <1>1, <2>2
      <3>2. (front \o back)[i] = back[j]
        BY <1>6, <3>1
      <3> HIDE DEF j
      <3>3. back[j] = items[i + 1]
        BY <1>4, <3>1
      <3> QED BY <2>2, <3>2, <3>3
    <2> QED BY <2>1, <2>2
  <1> QED BY <1>2, <1>5, <1>7

(* ObjList::RemoveAt makes a list one shorter. *)
LEMMA RemoveShorter ==
    ASSUME NEW T, NEW items \in Seq(T), NEW index \in Int,
           ValidIndex(items, Position(items, index))
    PROVE  /\ RemoveIndex(items, index) \in Seq(T)
           /\ Len(RemoveIndex(items, index)) = Len(items) - 1
  <1> DEFINE k == Position(items, index) + 1
  <1>1. k \in 1..Len(items)
    BY DEF ValidIndex, Position
  <1> QED BY <1>1, RemoveAtIs DEF RemoveIndex

-----------------------------------------------------------------------------

(* A loop has the invariant when it starts. *)
LEMMA InitCounted == LoopInit => CountedInv
  <1> SUFFICES ASSUME LoopInit PROVE CountedInv
    OBVIOUS
  <1>1. iter = NullVal /\ visited = <<>> /\ phase = "iterate" /\ disturbed = FALSE
    BY DEF LoopInit
  <1>2. Len(visited) = 0 /\ visited \in Seq({Number(n) : n \in Int})
    BY <1>1
  <1>3. CASE kind = "range"
    <2>1. contents \in [from : Int, to : Int, inclusive : BOOLEAN]
      BY <1>3 DEF LoopInit, Ranges
    <2>2. Elements(contents) \in Nat
      BY <2>1, RangeSteps
    <2>3. RangeLoop
      BY <1>1, <1>2, <2>1, <2>2 DEF RangeLoop
    <2> QED BY <1>1, <1>2, <1>3, <2>3 DEF CountedInv
  <1>4. CASE kind = "list"
    <2>1. contents \in Seq(Items)
      BY <1>1, <1>4, InitUntouched DEF UntouchedList
    <2>2. ListLoop
      BY <1>1, <2>1 DEF ListLoop
    <2>3. UndisturbedList
      BY <1>1, <1>2, <2>1 DEF UndisturbedList
    <2> QED BY <1>1, <1>2, <1>4, <2>2, <2>3 DEF CountedInv
  <1>5. CASE kind \notin {"range", "list"}
    BY <1>1, <1>5 DEF CountedInv
  <1> QED BY <1>3, <1>4, <1>5

(* Range::iterate(_) yields the next element, or ends the loop after the last. *)
LEMMA RangeLoopStep ==
    ASSUME CountedInv, kind = "range", Iterate \/ IteratorValue \/ BodyEnds
    PROVE  CountedInv'
  <1> DEFINE n == Len(visited)
             c == Elements(contents)
  <1>1. RangeLoop /\ visited \in Seq({Number(k) : k \in Int}) /\ disturbed \in BOOLEAN
    BY DEF CountedInv
  <1>2. contents \in [from : Int, to : Int, inclusive : BOOLEAN] /\ n \in Nat
    BY <1>1 DEF RangeLoop
  <1>3. c \in Nat /\ \A k \in Nat : ElementAt(contents, k) \in Int
    BY <1>2, RangeSteps
  <1>4. kind' = "range" /\ contents' = contents /\ disturbed' = disturbed
    BY DEF Iterate, IteratorValue, BodyEnds
  <1>5. SUFFICES RangeLoop' /\ visited' \in Seq({Number(k) : k \in Int})
    BY <1>1, <1>4 DEF CountedInv
  <1>6. CASE Iterate
    <2>1. visited' = visited /\ phase = "iterate" /\ n <= c
      BY <1>1, <1>6 DEF Iterate, RangeLoop
    <2>2. /\ iter' = RangeIterate(contents, iter)
          /\ phase' = IF IsTruthy(iter') THEN "value" ELSE "ended"
      BY <1>6 DEF Iterate, IterateResult
    <2>3. iter' = IF n = c THEN FalseVal ELSE Number(ElementAt(contents, n))
      <3>1. CASE visited = <<>>
        <4>1. n = 0 /\ iter = NullVal
          BY <1>1, <2>1, <3>1 DEF RangeLoop
        <4> QED BY <1>2, <2>2, <4>1, RangeSteps
      <3>2. CASE visited # <<>>
        <4>1. n \in Nat \ {0}
          BY <1>1, <1>2, <3>2
        <4>2. iter = Number(ElementAt(contents, n - 1))
          BY <1>1, <2>1, <3>2 DEF RangeLoop
        <4> QED BY <1>2, <2>1, <2>2, <4>1, <4>2, RangeSteps
      <3> QED BY <3>1, <3>2
    <2>4. CASE n = c
      <3>1. phase' = "ended"
        BY <2>2, <2>3, <2>4, NumberFacts
      <3> QED BY <1>1, <1>4, <2>1, <2>4, <3>1 DEF RangeLoop
    <2>5. CASE n # c
      <3>1. phase' = "value" /\ iter' = Number(ElementAt(contents, n)) /\ n < c
        BY <1>2, <1>3, <2>1, <2>2, <2>3, <2>5, NumberFacts
      <3> QED BY <1>1, <1>4, <2>1, <3>1 DEF RangeLoop
    <2> QED BY <2>4, <2>5
  <1>7. CASE IteratorValue
    <2>1. phase = "value" /\ phase' = "body" /\ visited' = Append(visited, iter) /\ iter' = iter
      BY <1>7 DEF IteratorValue, IteratorIsValid
    <2>2. n < c /\ iter = Number(ElementAt(contents, n))
      BY <1>1, <2>1 DEF RangeLoop
    <2>3. iter \in {Number(k) : k \in Int} /\ iter.bits = ElementAt(contents, n)
      BY <1>2, <1>3, <2>2, NumberFacts
    <2>4. /\ visited' \in Seq({Number(k) : k \in Int}) /\ Len(visited') = n + 1
          /\ visited' # <<>> /\ visited'[n + 1] = iter
          /\ \A i \in 1..n : visited'[i] = visited[i]
      BY <1>1, <2>1, <2>3
    <2>5. \A i \in 1..Len(visited') : visited'[i].bits = ElementAt(contents, i - 1)
      <3> SUFFICES ASSUME NEW i \in 1..(n + 1)
                   PROVE  visited'[i].bits = ElementAt(contents, i - 1)
        BY <2>4
      <3>1. CASE i = n + 1
        <4>1. i - 1 = n
          BY <1>2, <3>1
        <4> QED BY <2>3, <2>4, <3>1, <4>1
      <3>2. CASE i # n + 1
        <4>1. i \in 1..n
          BY <1>2, <3>2
        <4> QED BY <1>1, <2>4, <4>1 DEF RangeLoop
      <3> QED BY <3>1, <3>2
    <2>6. Len(visited') <= c /\ Len(visited') - 1 = n
      BY <1>2, <1>3, <2>2, <2>4
    <2>7. iter' = Number(ElementAt(contents, Len(visited') - 1))
      BY <2>1, <2>2, <2>6
    <2> QED BY <1>2, <1>4, <2>1, <2>4, <2>5, <2>6, <2>7 DEF RangeLoop
  <1>8. CASE BodyEnds
    <2>1. phase = "body" /\ phase' = "iterate" /\ visited' = visited /\ iter' = iter
      BY <1>8 DEF BodyEnds
    <2> QED BY <1>1, <1>4, <2>1 DEF RangeLoop
  <1> QED BY <1>6, <1>7, <1>8

(* List::iterate(_) yields the next index, or ends the loop after the last;  *)
(* iteratorValue(_) accepts it.                                              *)
LEMMA ListLoopStep ==
    ASSUME CountedInv, kind = "list", Iterate \/ IteratorValue \/ BodyEnds
    PROVE  CountedInv'
  <1> DEFINE n == Len(visited)
             l == Len(contents)
  <1>1. ListLoop /\ visited \in Seq({Number(k) : k \in Int}) /\ disturbed \in BOOLEAN
    BY DEF CountedInv
  <1>2. contents \in Seq(Items) /\ n \in Nat /\ l \in Nat
    BY <1>1 DEF ListLoop
  <1>3. disturbed = FALSE => UndisturbedList
    BY DEF CountedInv
  <1>4. kind' = "list" /\ contents' = contents /\ disturbed' = disturbed
    BY DEF Iterate, IteratorValue, BodyEnds
  <1>5. SUFFICES /\ ListLoop' /\ visited' \in Seq({Number(k) : k \in Int})
                 /\ disturbed = FALSE => UndisturbedList'
    BY <1>1, <1>4 DEF CountedInv
  <1>6. CASE Iterate
    <2>1. visited' = visited /\ phase = "iterate"
      BY <1>6 DEF Iterate
    <2>2. /\ iter' = ListIterate(contents, iter)
          /\ phase' = IF IsTruthy(iter') THEN "value" ELSE "ended"
      BY <1>6 DEF Iterate, IterateResult
    <2> DEFINE Goes(k) == /\ phase' = IF k < l THEN "value" ELSE "ended"
                          /\ k < l => iter' = Number(k)
    <2>3. CASE iter = NullVal
      <3>1. contents = <<>> <=> ~(0 < l)
        BY <1>2
      <3>2. iter' = IF 0 < l THEN Number(0) ELSE FalseVal
        BY <2>2, <2>3, <3>1 DEF ListIterate
      <3>3. Goes(0)
        BY <2>2, <3>2, NumberFacts
      <3>4. n = 0
        BY <1>1, <2>1, <2>3, NumberFacts DEF ListLoop
      <3>5. ListLoop'
        <4>1. CASE 0 < l
          <5>1. 0 \in 0..(l - 1)
            BY <1>2, <4>1
          <5> QED BY <1>2, <1>4, <3>3, <4>1, <5>1 DEF ListLoop
        <4>2. CASE ~(0 < l)
          BY <1>2, <1>4, <3>3, <4>2 DEF ListLoop
        <4> QED BY <4>1, <4>2
      <3>6. disturbed = FALSE => UndisturbedList'
        BY <1>2, <1>3, <1>4, <2>1, <3>3, <3>4 DEF UndisturbedList
      <3> QED BY <1>1, <2>1, <3>5, <3>6
    <2>4. CASE iter # NullVal
      <3>1. PICK k \in Nat : iter = Number(k)
        BY <1>1, <2>1, <2>4 DEF ListLoop
      <3>2. iter.bits = k
        BY <3>1, NumberFacts
      <3>3. iter' = IF k + 1 < l THEN Number(k + 1) ELSE FalseVal
        <4>1. k < 0 \/ k + 1 >= l <=> ~(k + 1 < l)
          BY <1>2
        <4> QED BY <2>2, <2>4, <3>2, <4>1 DEF ListIterate
      <3>4. Goes(k + 1)
        BY <2>2, <3>3, NumberFacts
      <3>5. ListLoop'
        <4>1. CASE k + 1 < l
          <5>1. k + 1 \in 0..(l - 1)
            BY <1>2, <4>1
          <5> QED BY <1>2, <1>4, <3>4, <4>1, <5>1 DEF ListLoop
        <4>2. CASE ~(k + 1 < l)
          BY <1>2, <1>4, <3>4, <4>2 DEF ListLoop
        <4> QED BY <4>1, <4>2
      <3>6. ASSUME disturbed = FALSE PROVE UndisturbedList'
        <4>1. UndisturbedList
          BY <1>3, <3>6
        <4>2. n # 0
          BY <1>1, <2>1, <2>4 DEF ListLoop
        <4>3. k + 1 = n
          <5>1. visited # <<>>
            BY <1>1, <4>2
          <5>2. iter = Number(n - 1)
            BY <2>1, <4>1, <5>1 DEF UndisturbedList
          <5>3. iter.bits = n - 1
            BY <5>2, NumberFacts
          <5> QED BY <1>2, <3>2, <5>3
        <4>4. n <= l
          BY <4>1 DEF UndisturbedList
        <4> QED BY <1>2, <1>4, <2>1, <3>4, <4>1, <4>3, <4>4 DEF UndisturbedList
      <3> QED BY <1>1, <2>1, <3>5, <3>6
    <2> QED BY <2>3, <2>4
  <1>7. CASE IteratorValue
    <2>1. phase = "value" /\ UNCHANGED iter
      BY <1>7 DEF IteratorValue
    <2>2. PICK k \in 0..(l - 1) : iter = Number(k)
      BY <1>1, <2>1 DEF ListLoop
    <2>3. iter.bits = k /\ k \in Nat /\ k \in Int /\ iter \in {Number(j) : j \in Int}
      BY <1>2, <2>2, NumberFacts
    <2>4. IteratorIsValid
      BY <1>2, <2>2, <2>3 DEF IteratorIsValid, ValidIndex
    <2>5. visited' = Append(visited, iter) /\ phase' = "body"
      BY <1>7, <2>4 DEF IteratorValue
    <2>6. /\ visited' \in Seq({Number(j) : j \in Int}) /\ Len(visited') = n + 1
          /\ visited' # <<>> /\ visited'[n + 1] = iter
          /\ \A i \in 1..n : visited'[i] = visited[i]
      BY <1>1, <2>3, <2>5
    <2>7. ListLoop'
      BY <1>2, <1>4, <2>1, <2>2, <2>3, <2>5, <2>6 DEF ListLoop
    <2>8. ASSUME disturbed = FALSE PROVE UndisturbedList'
      <3>1. UndisturbedList
        BY <1>3, <2>8
      <3>2. iter = Number(n) /\ n < l /\ iter.bits = n
        BY <2>1, <3>1, NumberFacts DEF UndisturbedList
      <3>3. \A i \in 1..Len(visited') : visited'[i].bits = i - 1
        <4> SUFFICES ASSUME NEW i \in 1..(n + 1) PROVE visited'[i].bits = i - 1
          BY <2>6
        <4>1. CASE i = n + 1
          BY <1>2, <2>6, <3>2, <4>1
        <4>2. CASE i # n + 1
          <5>1. i \in 1..n
            BY <1>2, <4>2
          <5> QED BY <2>6, <3>1, <5>1 DEF UndisturbedList
        <4> QED BY <4>1, <4>2
      <3>4. Len(visited') - 1 = n /\ Len(visited') <= l
        BY <1>2, <2>6, <3>2
      <3> QED BY <1>4, <2>1, <2>5, <2>6, <3>2, <3>3, <3>4 DEF UndisturbedList
    <2> QED BY <2>6, <2>7, <2>8
  <1>8. CASE BodyEnds
    <2>1. phase = "body" /\ phase' = "iterate" /\ visited' = visited /\ iter' = iter
      BY <1>8 DEF BodyEnds
    <2>2. ListLoop'
      BY <1>1, <1>4, <2>1 DEF ListLoop
    <2>3. disturbed = FALSE => UndisturbedList'
      BY <1>3, <1>4, <2>1 DEF UndisturbedList
    <2> QED BY <1>1, <2>1, <2>2, <2>3
  <1> QED BY <1>6, <1>7, <1>8

(* A method of the list that a body calls: it keeps the list long enough for *)
(* what was visited unless it is one that upsets the iteration.              *)
LEMMA ListBody ==
    ASSUME CountedInv, kind = "list", NEW allowed, NEW new, NEW disturbs,
           BodyCalls(allowed, new, disturbs),
           allowed => new \in Seq(Items),
           allowed /\ ~disturbs /\ UndisturbedList /\ phase = "body" /\ iter.bits = Len(visited) - 1
              => Len(visited) <= Len(new)
    PROVE  CountedInv'
  <1>1. ListLoop /\ visited \in Seq({Number(k) : k \in Int}) /\ disturbed \in BOOLEAN
    BY DEF CountedInv
  <1>2. phase = "body" /\ UNCHANGED <<kind, iter, visited>>
    BY DEF BodyCalls
  <1>3. CASE ~allowed
    <2>1. phase' = "aborted" /\ UNCHANGED <<contents, disturbed>>
      BY <1>3 DEF BodyCalls
    <2>2. ListLoop'
      BY <1>1, <1>2, <2>1 DEF ListLoop
    <2>3. disturbed = FALSE => UndisturbedList'
      BY <1>2, <2>1 DEF CountedInv, UndisturbedList
    <2> QED BY <1>1, <1>2, <2>1, <2>2, <2>3 DEF CountedInv
  <1>4. CASE allowed
    <2>1. contents' = new /\ disturbed' = (disturbed \/ disturbs) /\ phase' = phase
      BY <1>4 DEF BodyCalls
    <2>2. disturbed' \in BOOLEAN
      BY <2>1, Zenon
    <2>3. ListLoop'
      BY <1>1, <1>2, <1>4, <2>1 DEF ListLoop
    <2>4. ASSUME disturbed' = FALSE PROVE UndisturbedList'
      <3>1. disturbed = FALSE /\ ~disturbs
        BY <1>1, <2>1, <2>4
      <3>2. UndisturbedList
        BY <3>1 DEF CountedInv
      <3>3. iter = Number(Len(visited) - 1)
        BY <1>2, <3>2 DEF UndisturbedList
      <3>4. iter.bits = Len(visited) - 1
        BY <3>3, NumberFacts
      <3>5. Len(visited) <= Len(new)
        BY <1>2, <1>4, <3>1, <3>2, <3>4
      <3> QED BY <1>2, <2>1, <3>2, <3>5 DEF UndisturbedList
    <2> QED BY <1>1, <1>2, <2>2, <2>3, <2>4 DEF CountedInv
  <1> QED BY <1>3, <1>4

(* The methods of lists that bodies call, one by one. *)
LEMMA ListMutation ==
    ASSUME CountedInv, kind = "list", Mutate
    PROVE  CountedInv'
  <1> DEFINE n == Len(visited)
             l == Len(contents)
  <1>1. contents \in Seq(Items) /\ l \in Nat
    BY DEF CountedInv, ListLoop
  <1>2. n \in Nat
    BY DEF CountedInv
  <1>3. ASSUME NEW index \in Int, NEW value \in Items, ListInsert(index, value)
        PROVE  CountedInv'
    <2> DEFINE new == Insert(contents, index, value)
               disturbs == InsertPosition(contents, index) <= iter.bits
    <2>1. BodyCalls(CanInsert(contents, index), new, disturbs)
      BY <1>3 DEF ListInsert
    <2>2. CanInsert(contents, index) => new \in Seq(Items) /\ Len(new) = l + 1
      BY <1>1, <1>3, InsertLonger
    <2>3. UndisturbedList /\ Len(new) = l + 1 => n <= Len(new)
      BY <1>1, <1>2 DEF UndisturbedList
    <2> HIDE DEF new, disturbs
    <2> QED BY <2>1, <2>2, <2>3, ListBody
  <1>4. ASSUME NEW index \in Int, ListRemoveAt(index)
        PROVE  CountedInv'
    <2> DEFINE p == Position(contents, index)
               new == RemoveIndex(contents, index)
               disturbs == p <= iter.bits
    <2>1. BodyCalls(ValidIndex(contents, p), new, disturbs)
      BY <1>4 DEF ListRemoveAt
    <2>2. ValidIndex(contents, p) => new \in Seq(Items) /\ Len(new) = l - 1
      BY <1>1, <1>4, RemoveShorter
    <2>3. p \in Int
      BY <1>1 DEF Position
    <2>4. ValidIndex(contents, p) /\ ~disturbs /\ iter.bits = n - 1 => n <= l - 1
      BY <1>1, <1>2, <2>3 DEF ValidIndex
    <2> HIDE DEF p, new, disturbs
    <2> QED BY <2>1, <2>2, <2>4, ListBody
  <1>5. ASSUME NEW value \in Items, ListRemove(value)
        PROVE  CountedInv'
    <2> DEFINE index == IndexOf(contents, value)
               new == IF index = -1 THEN contents ELSE RemoveIndex(contents, index)
               disturbs == index # -1 /\ index <= iter.bits
    <2>1. BodyCalls(TRUE, new, disturbs)
      BY <1>5 DEF ListRemove
    <2>2. index = -1 \/ index \in 0..(l - 1)
      BY <1>1, IndexOfFound
    <2>3. index \in 0..(l - 1) => new \in Seq(Items) /\ Len(new) = l - 1
      <3> SUFFICES ASSUME index \in 0..(l - 1) PROVE new \in Seq(Items) /\ Len(new) = l - 1
        OBVIOUS
      <3>1. index \in Int /\ index # -1 /\ ValidIndex(contents, Position(contents, index))
        BY <1>1 DEF ValidIndex, Position
      <3> QED BY <1>1, <3>1, RemoveShorter
    <2>4. index = -1 => new = contents
      OBVIOUS
    <2>5. new \in Seq(Items)
      BY <1>1, <2>2, <2>3, <2>4
    <2>6. index \in 0..(l - 1) => index # -1
      OBVIOUS
    <2>7. index \in 0..(l - 1) /\ ~disturbs /\ iter.bits = n - 1 => n <= l - 1
      BY <1>1, <1>2, <2>6
    <2>8. UndisturbedList => n <= l
      BY DEF UndisturbedList
    <2> HIDE DEF index, new, disturbs
    <2>9. ~disturbs /\ UndisturbedList /\ iter.bits = n - 1 => n <= Len(new)
      BY <2>2, <2>3, <2>4, <2>7, <2>8
    <2> QED BY <2>1, <2>5, <2>9, ListBody
  <1>6. ASSUME NEW index \in Int, NEW value \in Items, ListSubscriptSet(index, value)
        PROVE  CountedInv'
    <2> DEFINE p == Position(contents, index)
               new == SubscriptSet(contents, index, value)
               disturbs == p <= iter.bits
    <2>1. BodyCalls(ValidIndex(contents, p), new, disturbs)
      BY <1>6 DEF ListSubscriptSet
    <2>2. new \in Seq(Items) /\ Len(new) = l
      <3>1. new = [contents EXCEPT ![p + 1] = value]
        BY DEF SubscriptSet
      <3>2. contents \in [1..l -> Items]
        BY <1>1
      <3> HIDE DEF l, p, new
      <3>3. new \in [1..l -> Items]
        BY <1>6, <3>1, <3>2
      <3> QED BY <1>1, <3>3
    <2>3. UndisturbedList => n <= l
      BY DEF UndisturbedList
    <2> HIDE DEF p, new, disturbs
    <2> QED BY <2>1, <2>2, <2>3, ListBody
  <1>7. CASE ListClear
    <2>1. BodyCalls(TRUE, <<>>, TRUE)
      BY <1>7 DEF ListClear
    <2>2. <<>> \in Seq(Items)
      OBVIOUS
    <2> QED BY <2>1, <2>2, ListBody
  <1>8. -(MaxLength + 1)..MaxLength \subseteq Int
    OBVIOUS
  <1> QED
    BY <1>3, <1>4, <1>5, <1>6, <1>7, <1>8
    DEF Mutate, MapSubscriptSet, MapRemove, MapClear

(* Every step preserves the invariant of the counted loops. *)
LEMMA NextCounted == CountedInv /\ [LoopNext]_loopVars => CountedInv'
  <1> SUFFICES ASSUME CountedInv, [LoopNext]_loopVars PROVE CountedInv'
    OBVIOUS
  <1>1. CASE UNCHANGED loopVars
    <2>1. RangeLoop' = RangeLoop /\ ListLoop' = ListLoop /\ UndisturbedList' = UndisturbedList
      BY <1>1 DEF loopVars, RangeLoop, ListLoop, UndisturbedList
    <2> QED BY <1>1, <2>1 DEF loopVars, CountedInv
  <1>2. CASE LoopNext
    <2>1. kind' = kind
      BY <1>2 DEF LoopNext, Iterate, IteratorValue, BodyEnds, Mutate, ListInsert,
                  ListRemoveAt, ListRemove, ListSubscriptSet, ListClear, MapSubscriptSet,
                  MapRemove, MapClear, BodyCalls
    <2>2. CASE kind = "range"
      <3>1. ~Mutate
        BY <2>2 DEF Mutate, ListInsert, ListRemoveAt, ListRemove, ListSubscriptSet,
                    ListClear, MapSubscriptSet, MapRemove, MapClear
      <3> QED BY <1>2, <2>2, <3>1, RangeLoopStep DEF LoopNext
    <2>3. CASE kind = "list"
      BY <1>2, <2>3, ListLoopStep, ListMutation DEF LoopNext
    <2>4. CASE kind \notin {"range", "list"}
      <3>1. disturbed' \in BOOLEAN
        <4>1. CASE Mutate
          <5>1. disturbed' = disturbed \/ \E d : disturbed' = (disturbed \/ d)
            BY <4>1 DEF Mutate, ListInsert, ListRemoveAt, ListRemove, ListSubscriptSet,
                        ListClear, MapSubscriptSet, MapRemove, MapClear, BodyCalls
          <5> QED BY <5>1, Zenon DEF CountedInv
        <4>2. CASE ~Mutate
          BY <1>2, <4>2 DEF LoopNext, Iterate, IteratorValue, BodyEnds, CountedInv
        <4> QED BY <4>1, <4>2
      <3> QED BY <2>1, <2>4, <3>1 DEF CountedInv
    <2> QED BY <2>2, <2>3, <2>4
  <1> QED BY <1>1, <1>2

(* The invariant says of the visited elements what CountedLoopExact says. *)
LEMMA CountedExact == CountedInv => CountedLoopExact
  <1> SUFFICES ASSUME CountedInv PROVE CountedLoopExact
    OBVIOUS
  <1> DEFINE n == Len(visited)
  <1>1. ASSUME kind = "range"
        PROVE  LET step == IF contents.from < contents.to THEN 1 ELSE -1
                   count == Distance(contents.from, contents.to)
                               + (IF contents.inclusive THEN 1 ELSE 0)
               IN /\ \A i \in DOMAIN visited : visited[i].bits = contents.from + (i - 1) * step
                  /\ n <= count
                  /\ phase = "ended" => n = count
    <2>1. RangeLoop /\ visited \in Seq({Number(k) : k \in Int})
      BY <1>1 DEF CountedInv
    <2>2. contents.from \in Int /\ contents.to \in Int /\ DOMAIN visited = 1..n /\ n \in Nat
      BY <2>1 DEF RangeLoop
    <2>3. \A i \in 1..n : visited[i].bits = ElementAt(contents, i - 1)
      BY <2>1 DEF RangeLoop
    <2>4. CASE contents.from < contents.to
      <3>1. \A i \in 1..n : visited[i].bits = contents.from + (i - 1) * 1
        BY <2>2, <2>3, <2>4 DEF ElementAt
      <3> QED BY <2>1, <2>2, <2>4, <3>1 DEF RangeLoop, Elements
    <2>5. CASE ~(contents.from < contents.to)
      <3>1. \A i \in 1..n : visited[i].bits = contents.from + (i - 1) * (-1)
        BY <2>2, <2>3, <2>5 DEF ElementAt
      <3> QED BY <2>1, <2>2, <2>5, <3>1 DEF RangeLoop, Elements
    <2> QED BY <2>4, <2>5
  <1>2. kind = "list" => phase # "invalid"
    BY DEF CountedInv, ListLoop
  <1>3. ASSUME kind = "list", ~disturbed
        PROVE  /\ VisitedBits = [i \in 1..n |-> i - 1]
               /\ n <= Len(contents)
               /\ phase = "ended" => n = Len(contents)
    <2>1. UndisturbedList /\ visited \in Seq({Number(k) : k \in Int})
      BY <1>3 DEF CountedInv
    <2>2. DOMAIN visited = 1..n
      BY <2>1
    <2> QED BY <2>1, <2>2 DEF UndisturbedList, VisitedBits
  <1> QED BY <1>1, <1>2, <1>3 DEF CountedLoopExact

(* A for loop over a range of integers takes its elements in order, each     *)
(* once, and ends behind the last; a loop over a list skips and repeats      *)
(* nothing as long as the bodies change only what is behind the current      *)
(* item, and never asks for an item that is not there: ObjRange::Iterate,    *)
(* ObjList::Iterate, ObjList::IteratorValue.                                 *)
THEOREM CountedLoopCorrect == LoopSpec => []CountedLoopExact
  BY InitCounted, NextCounted, CountedExact, PTL DEF LoopSpec

-----------------------------------------------------------------------------

(* KeyEqual is reflexive and symmetric, and agrees with the hash: otherwise a  *)
(* lookup would search the wrong bucket.                                       *)
LEMMA KeyEqualFacts ==
    /\ \A a : KeyEqual(a, a)
    /\ \A a, b : KeyEqual(a, b) => KeyEqual(b, a) /\ Hash(a) = Hash(b)
  BY DEF KeyEqual, Hash

(* Wrapping turns every key, null and false included, into an iterator that  *)
(* does not end the loop and does not restart it.                            *)
LEMMA WrapFacts ==
    ASSUME NEW key \in Keys
    PROVE  /\ UnwrapIterator(WrapIterator(key)) = key
           /\ IsTruthy(WrapIterator(key))
           /\ WrapIterator(key) # NullVal
  <1>1. key \in [object : BOOLEAN, bits : Int] /\ (key.object => key.bits % 8 = 0)
    BY KeysAssumption
  <1>2. CASE key.object
    <2>1. WrapIterator(key) = Object(key.bits + 1)
      BY <1>2 DEF WrapIterator
    <2>2. Object(key.bits + 1).object /\ Object(key.bits + 1).bits = key.bits + 1
      BY DEF Object
    <2>3. UnwrapIterator(Object(key.bits + 1)) = Object((key.bits + 1) - 1)
      BY <2>2 DEF UnwrapIterator
    <2>4. key = [object |-> key.object, bits |-> key.bits] /\ key.object = TRUE
      BY <1>1, <1>2
    <2>5. Object((key.bits + 1) - 1) = key
      BY <1>1, <2>4 DEF Object
    <2>6. key.bits + 1 # 0 /\ key.bits + 1 # 8
      BY <1>1, <1>2
    <2>7. Object(key.bits + 1) # Object(0) /\ Object(key.bits + 1) # Object(8)
      BY <2>6 DEF Object
    <2> QED BY <2>1, <2>3, <2>5, <2>7 DEF IsTruthy, NullVal, FalseVal
  <1>3. CASE ~key.object
    <2>1. WrapIterator(key) = key /\ UnwrapIterator(key) = key
      BY <1>3 DEF WrapIterator, UnwrapIterator
    <2>2. key # Object(0) /\ key # Object(8)
      BY <1>3 DEF Object
    <2> QED BY <2>1, <2>2 DEF IsTruthy, NullVal, FalseVal
  <1> QED BY <1>2, <1>3

(* No two places of a map hold keys that ValueEqual calls equal. *)
DistinctKeys(c) == \A i, j \in 1..Len(c) : i # j => ~KeyEqual(c[i], c[j])

(* A lookup finds a key if an equal one is there. *)
LEMMA FindFacts ==
    ASSUME NEW c \in Seq(Keys), NEW key
    PROVE  /\ \A i : i \in Find(c, key) <=> i \in 1..Len(c) /\ KeyEqual(c[i], key)
           /\ ContainsKey(c, key) <=> \E i \in 1..Len(c) : KeyEqual(c[i], key)
  <1>1. \A i : i \in Find(c, key) <=> i \in 1..Len(c) /\ KeyEqual(c[i], key)
    BY KeyEqualFacts DEF Find
  <1> QED BY <1>1 DEF ContainsKey

(* Setting a key, with or without a rehash, keeps the keys distinct. *)
LEMMA AfterSetDistinct ==
    ASSUME NEW c \in Seq(Keys), DistinctKeys(c), NEW key \in Keys,
           NEW after \in AfterSet(c, key)
    PROVE  after \in Seq(Keys) /\ DistinctKeys(after)
  <1>1. CASE ContainsKey(c, key)
    BY <1>1 DEF AfterSet
  <1>2. CASE ~ContainsKey(c, key)
    <2> DEFINE D == ToSet(c) \cup {key}
               n == Cardinality(D)
    <2>1. after \in [1..n -> D] /\ \A i, j \in 1..n : i # j => after[i] # after[j]
      BY <1>2 DEF AfterSet, SetToSeqs
    <2>2. n \in Nat
      <3>1. IsFiniteSet(1..Len(c))
        BY FS_Interval
      <3>2. IsFiniteSet(ToSet(c))
        <4> DEFINE Z == {c[i] : i \in 1..Len(c)}
        <4>1. ToSet(c) = Z
          BY DEF ToSet
        <4>2. c \in [1..Len(c) -> Z]
          OBVIOUS
        <4>3. c \in Surjection(1..Len(c), Z)
          BY <4>2 DEF Surjection
        <4> HIDE DEF Z
        <4> QED BY <3>1, <4>1, <4>3, FS_Surjection
      <3> QED BY <3>2, FS_AddElement, FS_CardinalityType
    <2>3. D \subseteq Keys
      BY DEF ToSet
    <2> HIDE DEF n
    <2>4. after \in Seq(Keys) /\ Len(after) = n
      <3>1. after \in [1..n -> Keys]
        BY <2>1, <2>3
      <3> QED BY <2>2, <3>1
    <2>5. \A x \in ToSet(c) : ~KeyEqual(x, key) /\ ~KeyEqual(key, x)
      BY <1>2, FindFacts, KeyEqualFacts DEF ToSet
    <2>6. \A x, y \in ToSet(c) : x # y => ~KeyEqual(x, y)
      BY DEF ToSet, DistinctKeys
    <2>7. \A x, y \in D : x # y => ~KeyEqual(x, y)
      BY <2>5, <2>6
    <2>8. DistinctKeys(after)
      BY <2>1, <2>4, <2>7 DEF DistinctKeys
    <2> QED BY <2>4, <2>8
  <1> QED BY <1>1, <1>2

(* Removing a key keeps the keys distinct, and takes out one place at most. *)
LEMMA AfterRemoveIs ==
    ASSUME NEW c \in Seq(Keys), NEW key
    PROVE  \/ AfterRemove(c, key) = c
           \/ \E k \in 1..Len(c) : AfterRemove(c, key) = RemoveAt(c, k)
  <1> DEFINE at == Find(c, key)
  <1>1. CASE at = {}
    BY <1>1 DEF AfterRemove
  <1>2. CASE at # {}
    <2>1. (CHOOSE i \in at : TRUE) \in at
      BY <1>2
    <2>2. (CHOOSE i \in at : TRUE) \in 1..Len(c)
      BY <2>1, FindFacts
    <2> QED BY <1>2, <2>2 DEF AfterRemove
  <1> QED BY <1>1, <1>2

(* Keys that are distinct stay so when one of them is taken out. *)
LEMMA RemoveAtDistinct ==
    ASSUME NEW c \in Seq(Keys), DistinctKeys(c), NEW k \in 1..Len(c)
    PROVE  DistinctKeys(RemoveAt(c, k))
  <1> DEFINE d == RemoveAt(c, k)
             n == Len(c)
             place(i) == IF i < k THEN i ELSE i + 1
  <1>1. n \in Nat /\ Len(d) = n - 1 /\ \A i \in 1..(n - 1) : d[i] = c[place(i)]
    <2>1. /\ Len(RemoveAt(c, k)) = Len(c) - 1
          /\ \A i \in 1..(Len(c) - 1) :
               RemoveAt(c, k)[i] = c[IF i < k THEN i ELSE i + 1]
      BY RemoveAtIs
    <2>2. Len(c) \in Nat
      OBVIOUS
    <2> QED BY <2>1, <2>2, Zenon
  <1> HIDE DEF d
  <1>2. ASSUME NEW i \in 1..Len(d), NEW j \in 1..Len(d), i # j
        PROVE  ~KeyEqual(d[i], d[j])
    <2>1. i \in 1..(n - 1) /\ j \in 1..(n - 1)
      BY <1>1
    <2>2. place(i) \in 1..n /\ place(j) \in 1..n /\ place(i) # place(j)
      BY <1>1, <1>2, <2>1
    <2>3. d[i] = c[place(i)] /\ d[j] = c[place(j)]
      BY <1>1, <2>1
    <2> QED BY <2>2, <2>3 DEF DistinctKeys
  <1> QED BY <1>2 DEF d, DistinctKeys

-----------------------------------------------------------------------------
Iterators == {WrapIterator(key) : key \in Keys}

VisitedKey(i) == UnwrapIterator(visited[i])
Seen(key) == \E i \in 1..Len(visited) : VisitedKey(i) = key

(* The keys seen that are still in the map are its first p. *)
SeenUpto(c, p) ==
    /\ p \in 0..Len(c)
    /\ \A i \in 1..Len(c) : Seen(c[i]) <=> i <= p

(* A key can only be at place p. *)
OnlyAt(c, p, key) == \A i \in 1..Len(c) : c[i] = key => i = p

(* A loop over a map, whatever the bodies do to it. *)
MapLoop ==
    /\ contents \in Seq(Keys) /\ DistinctKeys(contents)
    /\ visited \in Seq(Iterators)
    /\ \/ phase = "iterate" /\ visited = <<>> /\ iter = NullVal
       \/ phase \in {"iterate", "body"} /\ visited # <<>> /\ iter = visited[Len(visited)]
       \/ phase = "value" /\ \E i \in 1..Len(contents) : iter = WrapIterator(contents[i])
       \/ phase \in {"ended", "aborted"}

(* How far the loop has come: p keys of the map were seen. *)
MapPosition(p) ==
    /\ SeenUpto(contents, p)
    /\ phase \in {"iterate", "body"} /\ visited # <<>> =>
          OnlyAt(contents, p, UnwrapIterator(iter))
    /\ phase \in {"iterate", "body"} /\ visited # <<>> /\ mutations = 0 =>
          p # 0 /\ contents[p] = UnwrapIterator(iter)
    /\ phase = "value" => p < Len(contents) /\ iter = WrapIterator(contents[p + 1])
    /\ phase = "ended" => p = Len(contents)
    /\ phase = "aborted" => mutations # 0

(* As long as the bodies add no key to the map. *)
UndisturbedMap ==
    /\ \A i, j \in 1..Len(visited) : i # j => VisitedKey(i) # VisitedKey(j)
    /\ \A i \in 1..Len(visited), j \in 1..Len(contents) :
          KeyEqual(VisitedKey(i), contents[j]) => VisitedKey(i) = contents[j]
    /\ \E p \in Nat : MapPosition(p)

MapInv ==
    kind = "map" =>
        /\ MapLoop /\ mutations \in Nat /\ disturbed \in BOOLEAN
        /\ disturbed = FALSE => UndisturbedMap

(* The invariant holds when a loop over a map starts. *)
LEMMA InitMap == LoopInit => MapInv
  <1> SUFFICES ASSUME LoopInit, kind = "map"
               PROVE  MapLoop /\ mutations \in Nat /\ disturbed \in BOOLEAN /\ UndisturbedMap
    BY DEF MapInv
  <1>1. /\ contents \in MapContents /\ iter = NullVal /\ visited = <<>> /\ phase = "iterate"
        /\ mutations = 0 /\ disturbed = FALSE
    BY DEF LoopInit
  <1>2. PICK n \in 0..MaxLength : contents \in [1..n -> Keys]
    BY <1>1 DEF MapContents, Upto
  <1>3. n \in Nat
    BY LengthAssumption
  <1>4. contents \in Seq(Keys) /\ DOMAIN contents = 1..Len(contents)
    BY <1>2, <1>3
  <1>5. DistinctKeys(contents)
    BY <1>1, <1>4 DEF MapContents, DistinctKeys
  <1>6. visited \in Seq(Iterators) /\ Len(visited) = 0
    BY <1>1
  <1>7. MapLoop
    BY <1>1, <1>4, <1>5, <1>6 DEF MapLoop
  <1>8. MapPosition(0)
    BY <1>1, <1>4, <1>6 DEF MapPosition, SeenUpto, Seen
  <1>9. UndisturbedMap
    BY <1>6, <1>8 DEF UndisturbedMap
  <1> QED BY <1>1, <1>7, <1>9

(* Map::iterate(_) continues behind the key it is given. *)
LEMMA MapIterateStep ==
    ASSUME MapInv, kind = "map", Iterate
    PROVE  MapInv'
  <1> DEFINE l == Len(contents)
             cur == UnwrapIterator(iter)
  <1>1. MapLoop /\ mutations \in Nat /\ disturbed \in BOOLEAN
    BY DEF MapInv
  <1>2. contents \in Seq(Keys) /\ DistinctKeys(contents) /\ visited \in Seq(Iterators) /\ l \in Nat
    BY <1>1 DEF MapLoop
  <1>3. /\ phase = "iterate" /\ kind' = "map" /\ contents' = contents /\ visited' = visited
        /\ mutations' = mutations /\ disturbed' = disturbed
    BY DEF Iterate
  <1>4. \A k : Seen(k)' <=> Seen(k)
    BY <1>3 DEF Seen, VisitedKey
  <1>5. \A p : SeenUpto(contents, p)' <=> SeenUpto(contents, p)
    BY <1>3, <1>4 DEF SeenUpto
  <1>6. ASSUME disturbed = FALSE, NEW p \in Nat, MapPosition(p)' PROVE UndisturbedMap'
    <2>1. UndisturbedMap
      BY <1>6 DEF MapInv
    <2> QED BY <1>3, <1>6, <2>1 DEF UndisturbedMap, VisitedKey
  <1>7. ASSUME NEW p \in Nat, disturbed = FALSE, MapPosition(p), contents # <<>>, iter # NullVal
        PROVE  /\ SeenUpto(contents, p)
               /\ \A q \in Find(contents, cur) : q = p
               /\ mutations = 0 => ContainsKey(contents, cur)
    <2>1. visited # <<>> /\ iter = visited[Len(visited)]
      BY <1>1, <1>3, <1>7 DEF MapLoop
    <2>2. OnlyAt(contents, p, cur) /\ SeenUpto(contents, p)
      BY <1>3, <1>7, <2>1 DEF MapPosition
    <2>3. Len(visited) \in 1..Len(visited) /\ cur = VisitedKey(Len(visited))
      BY <1>2, <2>1 DEF VisitedKey
    <2>4. ASSUME NEW q \in Find(contents, cur) PROVE q = p
      <3>1. q \in 1..l /\ KeyEqual(contents[q], cur)
        BY <1>2, FindFacts
      <3>2. KeyEqual(cur, contents[q])
        BY <3>1, KeyEqualFacts
      <3>3. UndisturbedMap
        BY <1>7 DEF MapInv
      <3>4. cur = contents[q]
        BY <2>3, <3>1, <3>2, <3>3 DEF UndisturbedMap
      <3> QED BY <2>2, <3>1, <3>4 DEF OnlyAt
    <2>5. ASSUME mutations = 0 PROVE ContainsKey(contents, cur)
      <3>1. p # 0 /\ contents[p] = cur
        BY <1>3, <1>7, <2>1, <2>5 DEF MapPosition
      <3>2. p \in 1..l
        BY <1>2, <2>2, <3>1 DEF SeenUpto
      <3>3. KeyEqual(contents[p], cur)
        BY <3>1, KeyEqualFacts
      <3> QED BY <1>2, <3>2, <3>3, FindFacts
    <2> QED BY <2>2, <2>4, <2>5
  <1>8. CASE IterateAborts(contents, iter)
    <2>1. phase' = "aborted" /\ iter' = iter
      BY <1>8 DEF Iterate
    <2>2. MapLoop'
      BY <1>2, <1>3, <2>1 DEF MapLoop
    <2>3. ASSUME disturbed = FALSE PROVE UndisturbedMap'
      <3>1. PICK p \in Nat : MapPosition(p)
        BY <2>3 DEF MapInv, UndisturbedMap
      <3>2. contents # <<>> /\ iter # NullVal /\ ~ContainsKey(contents, cur)
        BY <1>8 DEF IterateAborts
      <3>3. SeenUpto(contents, p) /\ mutations # 0
        BY <1>7, <2>3, <3>1, <3>2
      <3>4. MapPosition(p)'
        BY <1>3, <1>5, <2>1, <3>3 DEF MapPosition
      <3> QED BY <1>6, <2>3, <3>4
    <2> QED BY <1>1, <1>3, <2>2, <2>3 DEF MapInv
  <1>9. CASE ~IterateAborts(contents, iter)
    <2>1. /\ iter' = MapIterate(contents, iter)
          /\ phase' = IF IsTruthy(iter') THEN "value" ELSE "ended"
      BY <1>9 DEF Iterate, IterateResult
    <2>2. ASSUME iter' = FalseVal,
                 \A p \in Nat : disturbed = FALSE /\ MapPosition(p) => SeenUpto(contents, l)
          PROVE  MapInv'
      <3>1. phase' = "ended"
        BY <2>1, <2>2, NumberFacts
      <3>2. MapLoop'
        BY <1>2, <1>3, <3>1 DEF MapLoop
      <3>3. ASSUME disturbed = FALSE PROVE UndisturbedMap'
        <4>1. PICK p \in Nat : MapPosition(p)
          BY <3>3 DEF MapInv, UndisturbedMap
        <4>2. SeenUpto(contents, l)
          BY <2>2, <3>3, <4>1
        <4>3. PICK m \in Nat : m = l
          BY <1>2
        <4>4. MapPosition(m)'
          BY <1>3, <1>5, <3>1, <4>2, <4>3 DEF MapPosition
        <4> QED BY <1>6, <3>3, <4>4
      <3> QED BY <1>1, <1>3, <3>2, <3>3 DEF MapInv
    <2>3. ASSUME NEW q \in 0..(l - 1), NEW n \in 1..l, n = q + 1,
                 iter' = WrapIterator(contents[n]),
                 \A p \in Nat : disturbed = FALSE /\ MapPosition(p) => SeenUpto(contents, q)
          PROVE  MapInv'
      <3>1. contents[n] \in Keys
        BY <1>2
      <3>2. phase' = "value"
        BY <2>1, <2>3, <3>1, WrapFacts
      <3>3. MapLoop'
        BY <1>2, <1>3, <2>3, <3>2 DEF MapLoop
      <3>4. ASSUME disturbed = FALSE PROVE UndisturbedMap'
        <4>1. PICK p \in Nat : MapPosition(p)
          BY <3>4 DEF MapInv, UndisturbedMap
        <4>2. SeenUpto(contents, q) /\ q \in Nat /\ q < l
          BY <1>2, <2>3, <3>4, <4>1
        <4>3. MapPosition(q)'
          BY <1>3, <1>5, <2>3, <3>2, <4>2 DEF MapPosition
        <4> QED BY <1>6, <3>4, <4>2, <4>3
      <3> QED BY <1>1, <1>3, <3>3, <3>4 DEF MapInv
    <2>4. CASE contents = <<>>
      <3>1. iter' = FalseVal /\ l = 0
        BY <2>1, <2>4 DEF MapIterate
      <3>2. SeenUpto(contents, l)
        BY <3>1 DEF SeenUpto
      <3> QED BY <2>2, <3>1, <3>2
    <2>5. CASE contents # <<>> /\ iter = NullVal
      <3>1. iter' = WrapIterator(contents[1])
        BY <2>1, <2>5 DEF MapIterate
      <3>2. l >= 1 /\ 0 \in 0..(l - 1) /\ 1 \in 1..l /\ 1 = 0 + 1
        BY <1>2, <2>5
      <3>3. visited = <<>>
        <4> SUFFICES ASSUME visited # <<>> PROVE FALSE
          OBVIOUS
        <4>1. iter = visited[Len(visited)]
          BY <1>1, <1>3 DEF MapLoop
        <4>2. Len(visited) \in 1..Len(visited)
          BY <1>2
        <4>3. iter \in Iterators
          BY <1>2, <4>1, <4>2
        <4> QED BY <2>5, <4>3, WrapFacts DEF Iterators
      <3>4. SeenUpto(contents, 0)
        <4>1. \A k : ~Seen(k)
          BY <3>3 DEF Seen
        <4> QED BY <1>2, <3>2, <4>1 DEF SeenUpto
      <3> QED BY <2>3, <3>1, <3>2, <3>4
    <2>6. CASE contents # <<>> /\ iter # NullVal
      <3> DEFINE at == Find(contents, cur)
                 q == CHOOSE i \in at : TRUE
                 n == q + 1
      <3>1. at # {}
        BY <1>9, <2>6 DEF IterateAborts, ContainsKey
      <3>2. q \in at
        BY <3>1
      <3>3. q \in 1..l
        BY <1>2, <3>2, FindFacts
      <3>4. iter' = IF n > l THEN FalseVal ELSE WrapIterator(contents[n])
        BY <2>1, <2>6, <3>1 DEF MapIterate
      <3>5. ASSUME NEW p \in Nat, disturbed = FALSE, MapPosition(p)
            PROVE  SeenUpto(contents, q)
        BY <1>7, <2>6, <3>2, <3>5
      <3> HIDE DEF q
      <3>6. CASE n > l
        <4>1. q = l
          BY <1>2, <3>3, <3>6
        <4> QED BY <2>2, <3>4, <3>5, <3>6, <4>1
      <3>7. CASE ~(n > l)
        <4>1. q \in 0..(l - 1) /\ n \in 1..l
          BY <1>2, <3>3, <3>7
        <4> QED BY <2>3, <3>4, <3>5, <3>7, <4>1
      <3> QED BY <3>6, <3>7
    <2> QED BY <2>4, <2>5, <2>6
  <1> QED BY <1>8, <1>9

(* Map::iteratorValue(_) finds the key that iterate(_) went on to. *)
LEMMA MapValueStep ==
    ASSUME MapInv, kind = "map", IteratorValue
    PROVE  MapInv'
  <1> DEFINE l == Len(contents)
  <1>1. MapLoop /\ mutations \in Nat /\ disturbed \in BOOLEAN
    BY DEF MapInv
  <1>2. /\ contents \in Seq(Keys) /\ DistinctKeys(contents) /\ visited \in Seq(Iterators)
        /\ l \in Nat
    BY <1>1 DEF MapLoop
  <1> PICK n \in Nat : n = Len(visited)
    BY <1>2
  <1>3. /\ phase = "value" /\ kind' = "map" /\ contents' = contents /\ iter' = iter
        /\ mutations' = mutations /\ disturbed' = disturbed
    BY DEF IteratorValue
  <1>4. PICK s \in 1..l : iter = WrapIterator(contents[s])
    BY <1>1, <1>3 DEF MapLoop
  <1>5. contents[s] \in Keys /\ UnwrapIterator(iter) = contents[s] /\ iter \in Iterators
    BY <1>2, <1>4, WrapFacts DEF Iterators
  <1>6. ContainsKey(contents, contents[s])
    BY <1>2, FindFacts, KeyEqualFacts
  <1>7. visited' = Append(visited, iter) /\ phase' = "body"
    BY <1>5, <1>6 DEF IteratorValue, IteratorIsValid
  <1>8. /\ visited' \in Seq(Iterators) /\ Len(visited') = n + 1 /\ visited' # <<>>
        /\ visited'[n + 1] = iter /\ \A i \in 1..n : visited'[i] = visited[i]
    BY <1>2, <1>5, <1>7
  <1>9. MapLoop'
    BY <1>2, <1>3, <1>7, <1>8 DEF MapLoop
  <1>10. ASSUME disturbed = FALSE PROVE UndisturbedMap'
    <2>1. UndisturbedMap
      BY <1>10 DEF MapInv
    <2>2. PICK p \in Nat : MapPosition(p)
      BY <2>1 DEF UndisturbedMap
    <2>3. SeenUpto(contents, p) /\ p < l /\ iter = WrapIterator(contents[p + 1])
      BY <1>3, <2>2 DEF MapPosition
    <2>4. PICK r \in Nat : r = p + 1
      OBVIOUS
    <2>5. r \in 1..l /\ contents[r] \in Keys
      BY <1>2, <2>3, <2>4
    <2>6. UnwrapIterator(iter) = contents[r]
      BY <2>3, <2>4, <2>5, WrapFacts
    <2>7. /\ VisitedKey(n + 1)' = contents[r]
          /\ \A i \in 1..n : VisitedKey(i)' = VisitedKey(i)
      BY <1>8, <2>6 DEF VisitedKey
    <2>8. \A i : i \in 1..Len(visited') <=> i \in 1..n \/ i = n + 1
      BY <1>2, <1>8
    <2>9. \A key : Seen(key)' <=> Seen(key) \/ key = contents[r]
      BY <2>7, <2>8 DEF Seen
    <2>10. \A i \in 1..l : contents[i] = contents[r] => i = r
      BY <1>2, <2>5, KeyEqualFacts DEF DistinctKeys
    <2>11. ~Seen(contents[r])
      BY <1>2, <2>3, <2>4, <2>5 DEF SeenUpto
    <2>12. SeenUpto(contents, r)'
      <3>1. \A i \in 1..l : Seen(contents[i])' <=> i <= r
        <4> SUFFICES ASSUME NEW i \in 1..l PROVE Seen(contents[i])' <=> i <= r
          OBVIOUS
        <4>1. Seen(contents[i])' <=> Seen(contents[i]) \/ contents[i] = contents[r]
          BY <1>3, <2>9 DEF Seen, VisitedKey
        <4>2. Seen(contents[i]) <=> i <= p
          BY <2>3 DEF SeenUpto
        <4>3. contents[i] = contents[r] <=> i = r
          BY <2>10
        <4> QED BY <2>4, <4>1, <4>2, <4>3
      <3>2. r \in 0..l
        BY <1>2, <2>5
      <3> QED BY <1>3, <3>1, <3>2 DEF SeenUpto
    <2>13. MapPosition(r)'
      <3>1. OnlyAt(contents, r, UnwrapIterator(iter))'
        BY <1>3, <2>6, <2>10 DEF OnlyAt
      <3>2. r # 0 /\ contents'[r] = UnwrapIterator(iter')
        BY <1>3, <2>4, <2>6
      <3> QED BY <1>7, <2>12, <3>1, <3>2 DEF MapPosition
    <2>14. ASSUME NEW i \in 1..Len(visited'), NEW j \in 1..Len(visited'), i # j
           PROVE  VisitedKey(i)' # VisitedKey(j)'
      <3>1. CASE i \in 1..n /\ j \in 1..n
        BY <2>1, <2>7, <2>14, <3>1 DEF UndisturbedMap
      <3>2. CASE i = n + 1 /\ j \in 1..n
        BY <2>7, <2>11, <3>2 DEF Seen
      <3>3. CASE j = n + 1 /\ i \in 1..n
        BY <2>7, <2>11, <3>3 DEF Seen
      <3> QED BY <2>8, <2>14, <3>1, <3>2, <3>3
    <2>15. ASSUME NEW i \in 1..Len(visited'), NEW j \in 1..Len(contents'),
                  KeyEqual(VisitedKey(i)', contents'[j])
           PROVE  VisitedKey(i)' = contents'[j]
      <3>1. CASE i \in 1..n
        <4>1. KeyEqual(VisitedKey(i), contents[j]) /\ j \in 1..l
          BY <1>3, <2>7, <2>15, <3>1
        <4> QED BY <1>3, <2>1, <2>7, <3>1, <4>1 DEF UndisturbedMap
      <3>2. CASE i = n + 1
        <4>1. KeyEqual(contents[r], contents[j]) /\ j \in 1..l
          BY <1>3, <2>7, <2>15, <3>2
        <4>2. j = r
          BY <1>2, <2>5, <4>1 DEF DistinctKeys
        <4> QED BY <1>3, <2>7, <3>2, <4>2
      <3> QED BY <2>8, <3>1, <3>2
    <2> QED BY <2>13, <2>14, <2>15 DEF UndisturbedMap
  <1> QED BY <1>1, <1>3, <1>9, <1>10 DEF MapInv

(* At the end of a body the loop stands where it stood. *)
LEMMA MapBodyEnds ==
    ASSUME MapInv, kind = "map", BodyEnds
    PROVE  MapInv'
  <1>1. MapLoop /\ mutations \in Nat /\ disturbed \in BOOLEAN
    BY DEF MapInv
  <1>2. /\ phase = "body" /\ phase' = "iterate" /\ kind' = "map"
        /\ UNCHANGED <<contents, iter, visited, mutations, disturbed>>
    BY DEF BodyEnds
  <1>3. MapLoop'
    BY <1>1, <1>2 DEF MapLoop
  <1>4. \A k : Seen(k)' <=> Seen(k)
    BY <1>2 DEF Seen, VisitedKey
  <1>5. ASSUME NEW p \in Nat, MapPosition(p) PROVE MapPosition(p)'
    <2>1. SeenUpto(contents, p)'
      BY <1>2, <1>4, <1>5 DEF MapPosition, SeenUpto
    <2> QED BY <1>2, <1>5, <2>1 DEF MapPosition, OnlyAt
  <1>6. UndisturbedMap => UndisturbedMap'
    BY <1>2, <1>5 DEF UndisturbedMap, VisitedKey
  <1> QED BY <1>1, <1>2, <1>3, <1>6 DEF MapInv

(* What a body may do to the keys without upsetting the loop: it takes some  *)
(* out and leaves the others in their order.                                 *)
Harmless(new) ==
    /\ \A j \in 1..Len(new) : \E i \in 1..Len(contents) : new[j] = contents[i]
    /\ \A p \in Nat : \A key : SeenUpto(contents, p) /\ OnlyAt(contents, p, key) =>
          \E r \in Nat : SeenUpto(new, r) /\ OnlyAt(new, r, key)

(* A method of the map that a body calls. *)
LEMMA MapBody ==
    ASSUME MapInv, kind = "map", NEW allowed, NEW new, NEW disturbs,
           BodyCalls(allowed, new, disturbs),
           allowed => new \in Seq(Keys) /\ DistinctKeys(new),
           allowed /\ ~disturbs => Harmless(new)
    PROVE  MapInv'
  <1>1. MapLoop /\ mutations \in Nat /\ disturbed \in BOOLEAN
    BY DEF MapInv
  <1>2. /\ phase = "body" /\ kind' = "map" /\ iter' = iter /\ visited' = visited
        /\ mutations' = mutations + 1
    BY DEF BodyCalls
  <1>3. mutations' \in Nat /\ mutations' # 0
    BY <1>1, <1>2
  <1>4. visited # <<>>
    BY <1>1, <1>2 DEF MapLoop
  <1>5. \A k : Seen(k)' <=> Seen(k)
    BY <1>2 DEF Seen, VisitedKey
  <1>6. \A i : VisitedKey(i)' = VisitedKey(i)
    BY <1>2 DEF VisitedKey
  <1>7. CASE ~allowed
    <2>1. phase' = "aborted" /\ contents' = contents /\ disturbed' = disturbed
      BY <1>7 DEF BodyCalls
    <2>2. MapLoop'
      BY <1>1, <1>2, <2>1 DEF MapLoop
    <2>3. ASSUME disturbed = FALSE PROVE UndisturbedMap'
      <3>1. UndisturbedMap
        BY <2>3 DEF MapInv
      <3>2. PICK p \in Nat : MapPosition(p)
        BY <3>1 DEF UndisturbedMap
      <3>3. SeenUpto(contents, p)'
        BY <1>5, <2>1, <3>2 DEF MapPosition, SeenUpto
      <3>4. MapPosition(p)'
        BY <1>3, <2>1, <3>3 DEF MapPosition
      <3> QED BY <1>2, <1>6, <2>1, <3>1, <3>4 DEF UndisturbedMap
    <2> QED BY <1>1, <1>2, <1>3, <2>1, <2>2, <2>3 DEF MapInv
  <1>8. CASE allowed
    <2>1. contents' = new /\ disturbed' = (disturbed \/ disturbs) /\ phase' = phase
      BY <1>8 DEF BodyCalls
    <2>2. disturbed' \in BOOLEAN
      BY <2>1, Zenon
    <2>3. MapLoop'
      BY <1>1, <1>2, <1>4, <1>8, <2>1 DEF MapLoop
    <2>4. ASSUME disturbed' = FALSE PROVE UndisturbedMap'
      <3>1. disturbed = FALSE /\ ~disturbs
        BY <1>1, <2>1, <2>4
      <3>2. UndisturbedMap /\ Harmless(new)
        BY <1>8, <3>1 DEF MapInv
      <3>3. PICK p \in Nat : MapPosition(p)
        BY <3>2 DEF UndisturbedMap
      <3>4. SeenUpto(contents, p) /\ OnlyAt(contents, p, UnwrapIterator(iter))
        BY <1>2, <1>4, <3>3 DEF MapPosition
      <3>5. PICK r \in Nat : SeenUpto(new, r) /\ OnlyAt(new, r, UnwrapIterator(iter))
        BY <3>2, <3>4 DEF Harmless
      <3>6. SeenUpto(contents, r)'
        BY <1>5, <2>1, <3>5 DEF SeenUpto
      <3>7. MapPosition(r)'
        BY <1>2, <1>3, <2>1, <3>5, <3>6 DEF MapPosition, OnlyAt
      <3>8. \A i \in 1..Len(visited), j \in 1..Len(new) :
               KeyEqual(VisitedKey(i), new[j]) => VisitedKey(i) = new[j]
        BY <3>2 DEF UndisturbedMap, Harmless
      <3> QED BY <1>2, <1>6, <2>1, <3>2, <3>7, <3>8 DEF UndisturbedMap
    <2> QED BY <1>2, <1>3, <2>2, <2>3, <2>4 DEF MapInv
  <1> QED BY <1>7, <1>8

(* Leaving the keys alone, taking one out and clearing the map are harmless. *)
LEMMA RemovalHarmless ==
    ASSUME contents \in Seq(Keys)
    PROVE  /\ Harmless(contents)
           /\ \A k \in 1..Len(contents) : Harmless(RemoveAt(contents, k))
           /\ Harmless(<<>>)
  <1>1. Harmless(contents)
    BY DEF Harmless
  <1>2. Harmless(<<>>)
    BY DEF Harmless, SeenUpto, OnlyAt
  <1>3. ASSUME NEW k \in 1..Len(contents) PROVE Harmless(RemoveAt(contents, k))
    <2> DEFINE d == RemoveAt(contents, k)
               n == Len(contents)
               place(i) == IF i < k THEN i ELSE i + 1
    <2>1. n \in Nat /\ Len(d) = n - 1 /\ \A i \in 1..(n - 1) : d[i] = contents[place(i)]
      BY RemoveAtIs
    <2> HIDE DEF d
    <2>2. \A i \in 1..(n - 1) : place(i) \in 1..n
      BY <2>1
    <2>3. ASSUME NEW p \in Nat, NEW key, SeenUpto(contents, p), OnlyAt(contents, p, key)
          PROVE  \E r \in Nat : SeenUpto(d, r) /\ OnlyAt(d, r, key)
      <3> DEFINE r == IF k <= p THEN p - 1 ELSE p
      <3>1. p \in 0..n /\ r \in 0..(n - 1) /\ r \in Nat
        BY <2>1, <2>3 DEF SeenUpto
      <3>2. \A i \in 1..(n - 1) : (place(i) <= p <=> i <= r) /\ (place(i) = p => i = r)
        BY <2>1, <3>1
      <3> HIDE DEF place, r
      <3>3. SeenUpto(d, r)
        BY <2>1, <2>2, <2>3, <3>1, <3>2 DEF SeenUpto
      <3>4. OnlyAt(d, r, key)
        BY <2>1, <2>2, <2>3, <3>2 DEF OnlyAt
      <3> QED BY <3>1, <3>3, <3>4
    <2>4. \A j \in 1..Len(d) : \E i \in 1..n : d[j] = contents[i]
      BY <2>1, <2>2
    <2>5. Harmless(d)
      BY <2>3, <2>4 DEF Harmless
    <2> QED BY <2>5 DEF d
  <1> QED BY <1>1, <1>2, <1>3

(* The methods of maps that bodies call, one by one. *)
LEMMA MapMutation ==
    ASSUME MapInv, kind = "map", Mutate
    PROVE  MapInv'
  <1>1. contents \in Seq(Keys) /\ DistinctKeys(contents)
    BY DEF MapInv, MapLoop
  <1>2. ASSUME NEW key \in Keys, MapSubscriptSet(key) PROVE MapInv'
    <2>1. PICK after \in AfterSet(contents, key) :
             BodyCalls(ValidateKey(key), after, after # contents)
      BY <1>2 DEF MapSubscriptSet
    <2>2. after \in Seq(Keys) /\ DistinctKeys(after)
      BY <1>1, <1>2, <2>1, AfterSetDistinct
    <2>3. ~(after # contents) => Harmless(after)
      BY <1>1, RemovalHarmless
    <2> QED BY <2>1, <2>2, <2>3, MapBody
  <1>3. ASSUME NEW key \in Keys, MapRemove(key) PROVE MapInv'
    <2> DEFINE new == AfterRemove(contents, key)
    <2>1. BodyCalls(ValidateKey(key), new, FALSE)
      BY <1>3 DEF MapRemove
    <2>2. new = contents \/ \E k \in 1..Len(contents) : new = RemoveAt(contents, k)
      BY <1>1, AfterRemoveIs
    <2> HIDE DEF new
    <2>3. new \in Seq(Keys) /\ DistinctKeys(new) /\ Harmless(new)
      BY <1>1, <2>2, RemoveAtIs, RemoveAtDistinct, RemovalHarmless
    <2> QED BY <2>1, <2>3, MapBody
  <1>4. CASE MapClear
    <2>1. BodyCalls(TRUE, <<>>, FALSE)
      BY <1>4 DEF MapClear
    <2>2. <<>> \in Seq(Keys) /\ DistinctKeys(<<>>) /\ Harmless(<<>>)
      BY <1>1, RemovalHarmless DEF DistinctKeys
    <2> QED BY <2>1, <2>2, MapBody
  <1> QED
    BY <1>2, <1>3, <1>4
    DEF Mutate, ListInsert, ListRemoveAt, ListRemove, ListSubscriptSet, ListClear

(* Every step preserves the invariant of loops over maps. *)
LEMMA NextMap == MapInv /\ [LoopNext]_loopVars => MapInv'
  <1> SUFFICES ASSUME MapInv, [LoopNext]_loopVars, kind' = "map" PROVE MapInv'
    BY DEF MapInv
  <1>1. CASE UNCHANGED loopVars
    <2>1. UNCHANGED <<kind, contents, iter, visited, phase, mutations, disturbed>>
      BY <1>1 DEF loopVars
    <2>2. MapLoop' = MapLoop
      BY <2>1 DEF MapLoop
    <2>3. ASSUME NEW p \in Nat PROVE MapPosition(p)' <=> MapPosition(p)
      BY <2>1 DEF MapPosition, SeenUpto, Seen, VisitedKey, OnlyAt
    <2>4. UndisturbedMap' <=> UndisturbedMap
      BY <2>1, <2>3 DEF UndisturbedMap, VisitedKey
    <2> QED BY <2>1, <2>2, <2>4 DEF MapInv
  <1>2. CASE LoopNext
    <2>1. kind = "map"
      BY <1>2 DEF LoopNext, Iterate, IteratorValue, BodyEnds, Mutate, ListInsert,
                  ListRemoveAt, ListRemove, ListSubscriptSet, ListClear, MapSubscriptSet,
                  MapRemove, MapClear, BodyCalls
    <2> QED
      BY <1>2, <2>1, MapIterateStep, MapValueStep, MapBodyEnds, MapMutation DEF LoopNext
  <1> QED BY <1>1, <1>2

(* The invariant gives both properties of maps. *)
LEMMA MapInvExact == MapInv => MapKeysDistinct /\ MapLoopExact
  <1> SUFFICES ASSUME MapInv, kind = "map" PROVE MapKeysDistinct /\ MapLoopExact
    BY DEF MapKeysDistinct, MapLoopExact
  <1>1. MapLoop
    BY DEF MapInv
  <1>2. /\ DOMAIN contents = 1..Len(contents) /\ DistinctKeys(contents)
        /\ DOMAIN visited = 1..Len(visited)
    BY <1>1 DEF MapLoop
  <1>3. MapKeysDistinct
    BY <1>2 DEF MapKeysDistinct, DistinctKeys
  <1>4. phase # "invalid"
    BY <1>1 DEF MapLoop
  <1>5. ASSUME ~disturbed
        PROVE  /\ \A i, j \in DOMAIN visited : i # j => VisitedKeys[i] # VisitedKeys[j]
               /\ phase = "ended" => ToSet(contents) \subseteq ToSet(VisitedKeys)
               /\ mutations = 0 => phase # "aborted"
    <2>1. UndisturbedMap
      BY <1>5 DEF MapInv
    <2>2. PICK p \in Nat : MapPosition(p)
      BY <2>1 DEF UndisturbedMap
    <2>3. /\ DOMAIN VisitedKeys = 1..Len(visited)
          /\ \A i \in 1..Len(visited) : VisitedKeys[i] = VisitedKey(i)
      BY <1>2 DEF VisitedKeys, VisitedKey
    <2>4. \A key : key \in ToSet(VisitedKeys) <=> Seen(key)
      BY <2>3 DEF ToSet, Seen
    <2>5. ASSUME phase = "ended", NEW key \in ToSet(contents) PROVE key \in ToSet(VisitedKeys)
      <3>1. PICK i \in 1..Len(contents) : key = contents[i]
        BY <1>2 DEF ToSet
      <3>2. SeenUpto(contents, p) /\ p = Len(contents)
        BY <2>2, <2>5 DEF MapPosition
      <3>3. Seen(key)
        BY <3>1, <3>2 DEF SeenUpto
      <3> QED BY <2>4, <3>3
    <2>6. phase = "ended" => ToSet(contents) \subseteq ToSet(VisitedKeys)
      BY <2>5
    <2>7. \A i, j \in DOMAIN visited : i # j => VisitedKeys[i] # VisitedKeys[j]
      BY <1>2, <2>1, <2>3 DEF UndisturbedMap
    <2>8. mutations = 0 => phase # "aborted"
      BY <2>2 DEF MapPosition
    <2> QED BY <2>6, <2>7, <2>8
  <1> QED BY <1>3, <1>4, <1>5 DEF MapLoopExact

(* A map never holds two keys that ObjMap's ValueEqual calls equal, whatever *)
(* is set, removed or cleared during a loop.                                 *)
THEOREM MapKeysCorrect == LoopSpec => []MapKeysDistinct
  BY InitMap, NextMap, MapInvExact, PTL DEF LoopSpec

(* A loop over a map never asks for a key that is not there; as long as the  *)
(* bodies add no key it visits no key twice, and at its end every key left   *)
(* was visited; it does not abort when the bodies leave the map alone:       *)
(* ObjMap::Iterate, ObjMap::IteratorValue.                                   *)
THEOREM MapLoopCorrect == LoopSpec => []MapLoopExact
  BY InitMap, NextMap, MapInvExact, PTL DEF LoopSpec
=============================================================================
