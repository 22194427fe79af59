---------------------------- MODULE IntrusiveList ----------------------------
(***************************************************************************)
(* rtsrc/LinkedList.h: a doubly-linked list threaded through its elements. *)
(* A list is a record of its two end pointers, its count and the next and  *)
(* prev fields of every object that may be on it.                          *)
(***************************************************************************)
EXTENDS Integers, Sequences

EmptyList(Nodes, NULL) ==
    [start |-> NULL, end |-> NULL, count |-> 0,
     next |-> [n \in Nodes |-> NULL], prev |-> [n \in Nodes |-> NULL]]

InsertAtStart(l, n, NULL) ==
    IF l.start = NULL
      THEN [l EXCEPT !.count = @ + 1, !.start = n, !.end = n]
      ELSE [l EXCEPT !.count = @ + 1, !.next[n] = l.start, !.prev[l.start] = n,
                     !.start = n]

InsertAtEnd(l, n, NULL) ==
    IF l.end = NULL
      THEN [l EXCEPT !.count = @ + 1, !.start = n, !.end = n]
      ELSE [l EXCEPT !.count = @ + 1, !.next[l.end] = n, !.prev[n] = l.end,
                     !.end = n]

(* The assignments happen in this order: the ones to n come last. *)
InsertAfter(l, p, n, NULL) ==
    LET after  == l.next[p]
        around == [l EXCEPT !.next[p] = n]
        back   == IF after = NULL THEN around ELSE [around EXCEPT !.prev[after] = n]
    IN  [back EXCEPT !.count = @ + 1, !.next[n] = after, !.prev[n] = p,
                     !.end = IF @ = p THEN n ELSE @]

(* Faulty variant: the removed element keeps its pointers. *)
RemoveKeepingPointers(l, n, NULL) ==
    LET after  == l.next[n]
        before == l.prev[n]
        ends   == [l EXCEPT !.count = @ - 1,
                            !.start = IF @ = n THEN after ELSE @,
                            !.end = IF @ = n THEN before ELSE @]
        back   == IF after = NULL THEN ends ELSE [ends EXCEPT !.prev[after] = before]
    IN  IF before = NULL THEN back ELSE [back EXCEPT !.next[before] = after]

Remove(l, n, NULL) ==
    LET after  == l.next[n]
        before == l.prev[n]
        ends   == [l EXCEPT !.count = @ - 1,
                            !.start = IF @ = n THEN after ELSE @,
                            !.end = IF @ = n THEN before ELSE @]
        back   == IF after = NULL THEN ends ELSE [ends EXCEPT !.prev[after] = before]
        forth  == IF before = NULL THEN back ELSE [back EXCEPT !.next[before] = after]
    IN  [forth EXCEPT !.next[n] = NULL, !.prev[n] = NULL]

(***************************************************************************)
(* What a list stands for: the sequence s of its elements.                 *)
(***************************************************************************)
Represents(l, s, Nodes, NULL) ==
    LET on == {s[i] : i \in 1..Len(s)} IN
    /\ l.count = Len(s)
    /\ \A i, j \in 1..Len(s) : s[i] = s[j] => i = j
    /\ l.start = IF s = <<>> THEN NULL ELSE s[1]
    /\ l.end = IF s = <<>> THEN NULL ELSE s[Len(s)]
    /\ \A i \in 1..Len(s) :
         /\ l.next[s[i]] = IF i = Len(s) THEN NULL ELSE s[i + 1]
         /\ l.prev[s[i]] = IF i = 1 THEN NULL ELSE s[i - 1]
    /\ \A n \in Nodes \ on : l.next[n] = NULL /\ l.prev[n] = NULL
=============================================================================
