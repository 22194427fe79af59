------------------------------- MODULE ObjList ------------------------------
(***************************************************************************)
(* Lists: what each method does to the items, for items a sequence and     *)
(* indices counted from 0.  The Can... operators are the conditions under  *)
(* which the method does not abort the fibre.                              *)
(***************************************************************************)
EXTENDS Integers, Sequences, SequencesExt, Values

ValidIndex(items, index) == index >= 0 /\ index < Len(items)

InsertPosition(items, index) ==
    IF index < 0 THEN Len(items) + 1 + index ELSE index
CanInsert(items, index) ==
    \/ InsertPosition(items, index) = Len(items)
    \/ ValidIndex(items, InsertPosition(items, index))
Insert(items, index, value) ==
    InsertAt(items, InsertPosition(items, index) + 1, value)

Position(items, index) == IF index < 0 THEN index + Len(items) ELSE index

RemoveIndex(items, index) == RemoveAt(items, Position(items, index) + 1)

IndexOf(items, value) ==
    IF value \in ToSet(items)
      THEN CHOOSE i \in 0..(Len(items) - 1) :
              /\ items[i + 1] = value
              /\ \A j \in 0..(i - 1) : items[j + 1] # value
      ELSE -1

SubscriptSet(items, index, value) ==
    [items EXCEPT ![Position(items, index) + 1] = value]

(* Faulty variant: the upper bound is checked before incrementing.          *)
ListIterateEarly(items, current) ==
    IF current = NullVal
      THEN IF items = <<>> THEN FalseVal ELSE Number(0)
    ELSE IF ValidIndex(items, current.bits) THEN Number(current.bits + 1)
    ELSE FalseVal

ListIterate(items, current) ==
    IF current = NullVal
      THEN IF items = <<>> THEN FalseVal ELSE Number(0)
    ELSE IF current.bits < 0 \/ current.bits + 1 >= Len(items) THEN FalseVal
    ELSE Number(current.bits + 1)
=============================================================================
