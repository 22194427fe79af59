------------------------------ MODULE ObjRange ------------------------------
(***************************************************************************)
(* Ranges: how a range is iterated, and how it selects the elements of a   *)
(* list or the bytes of a string.  All of it is arithmetic, so there is no *)
(* state here: ObjList and ObjString use these operators in their actions. *)
(***************************************************************************)
EXTENDS Integers, Values

CONSTANT NotInteger  \* stands for every number that is not an integer

ASSUME NotIntegerAssumption == NotInteger \notin Int

(* Faulty variant: an exclusive range running backwards stops too early.    *)
InclusiveEndUp(start, end) == end - 1

(* Makes the end of an exclusive range inclusive.  The range may run        *)
(* backwards, and then the last element lies above the end.                 *)
InclusiveEnd(start, end) == IF start <= end THEN end - 1 ELSE end + 1

Aborted == [ok |-> FALSE, start |-> 0, end |-> 0, reverse |-> FALSE]

FromEnd(i, length) == IF i < 0 THEN i + length ELSE i

(* The half-open interval of positions start..end-1 a range selects from a  *)
(* sequence, and whether to reverse them; ok is FALSE when it aborts.       *)
ToSubscriptUtil(from, to, inclusive, length) ==
    LET start == FromEnd(from, length)
        end == FromEnd(to, length)
        isEmptyRange == ~inclusive /\ start = end
        last == IF inclusive THEN end ELSE InclusiveEnd(start, end)
        reverse == start > last /\ ~isEmptyRange
        low == IF reverse THEN last ELSE start
        high == (IF reverse THEN start ELSE last) + 1
    IN
    IF from = NotInteger \/ to = NotInteger THEN Aborted
    ELSE IF start = length /\ to = (IF inclusive THEN -1 ELSE length)
      THEN [ok |-> TRUE, start |-> 0, end |-> 0, reverse |-> FALSE]
    ELSE IF low < 0 \/ low >= length \/ high < 0 \/ high > length
      THEN Aborted
    ELSE [ok |-> TRUE, start |-> low, end |-> high, reverse |-> reverse]

(* The number of positions selected, and the i-th of them, counted from 0.  *)
Selected(slice) == slice.end - slice.start
SelectedAt(slice, i) ==
    IF slice.reverse THEN slice.end - 1 - i ELSE slice.start + i

-----------------------------------------------------------------------------
(* The reference: calculateRange of the Wren interpreter, which the comment *)
(* in ToSubscriptUtil names as the behaviour to follow.                     *)
NoRange == [ok |-> FALSE, from |-> 0, count |-> 0, step |-> 0]

Distance(a, b) == IF a < b THEN b - a ELSE a - b

CalculateRange(from, to, inclusive, length) ==
    LET first == FromEnd(from, length)
        value == FromEnd(to, length)
        last == IF inclusive THEN value
                ELSE value + (IF value >= first THEN -1 ELSE 1)
    IN
    IF from = NotInteger THEN NoRange
    ELSE IF from = length /\ to = (IF inclusive THEN -1 ELSE length)
      THEN [ok |-> TRUE, from |-> 0, count |-> 0, step |-> 0]
    ELSE IF first < 0 \/ first >= length \/ to = NotInteger THEN NoRange
    ELSE IF ~inclusive /\ value = first
      THEN [ok |-> TRUE, from |-> first, count |-> 0, step |-> 0]
    ELSE IF last < 0 \/ last >= length THEN NoRange
    ELSE [ok |-> TRUE, from |-> first, count |-> Distance(first, last) + 1,
          step |-> IF first < last THEN 1 ELSE -1]

(* A range selects exactly the positions, in the order, that the            *)
(* interpreter selects, aborts exactly when it does, and every position     *)
(* lies within the sequence: negative, empty, reversed and out-of-bounds    *)
(* ranges included.                                                         *)
SelectsAsInterpreter(from, to, inclusive, length) ==
    LET slice == ToSubscriptUtil(from, to, inclusive, length)
        reference == CalculateRange(from, to, inclusive, length)
    IN
    /\ slice.ok <=> reference.ok
    /\ slice.ok =>
        /\ Selected(slice) = reference.count
        /\ \A i \in 0..(reference.count - 1) :
              /\ SelectedAt(slice, i) = reference.from + i * reference.step
              /\ SelectedAt(slice, i) \in 0..(length - 1)

-----------------------------------------------------------------------------

(* The element after current, or false past the last one.                   *)
AfterCurrent(from, to, inclusive, current) ==
    LET next == IF from < to THEN current + 1 ELSE current - 1 IN
    IF \/ from < to /\ next > to
       \/ ~(from < to) /\ next < to
       \/ next = to /\ ~inclusive
      THEN FalseVal ELSE Number(next)

(* The iterator of a range is the element itself.                           *)
RangeIterate(range, prev) ==
    IF range.from = range.to /\ ~range.inclusive THEN FalseVal
    ELSE IF prev = NullVal THEN Number(range.from)
    ELSE AfterCurrent(range.from, range.to, range.inclusive, prev.bits)
=============================================================================
