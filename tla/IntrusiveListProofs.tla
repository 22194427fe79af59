------------------------ MODULE IntrusiveListProofs -------------------------
(***************************************************************************)
(* What the operations of LinkedList.h do to the sequence a list stands    *)
(* for, for every set of nodes and every list on them.                     *)
(***************************************************************************)
EXTENDS IntrusiveList, TLAPS

Lists(Nodes, NULL) ==
    [start : Nodes \cup {NULL}, end : Nodes \cup {NULL}, count : Int,
     next : [Nodes -> Nodes \cup {NULL}], prev : [Nodes -> Nodes \cup {NULL}]]

(* The elements of a sequence, and the sequence with one of them taken out, *)
(* or with a node put in after one of them.                                 *)
On(q) == {q[i] : i \in 1..Len(q)}
Without(q, k) == [i \in 1..(Len(q) - 1) |-> IF i < k THEN q[i] ELSE q[i + 1]]
WithAfter(q, k, n) ==
    [i \in 1..(Len(q) + 1) |-> IF i <= k THEN q[i] ELSE IF i = k + 1 THEN n ELSE q[i - 1]]

(* A function on 1..n is a sequence of length n. *)
LEMMA SeqOfLength ==
    ASSUME NEW S, NEW n \in Nat, NEW f \in [1..n -> S]
    PROVE  f \in Seq(S) /\ Len(f) = n
  OBVIOUS

(* The new sequences, element by element. *)
LEMMA WithoutIs ==
    ASSUME NEW S, NEW q \in Seq(S), NEW k \in 1..Len(q)
    PROVE  /\ Without(q, k) \in Seq(S) /\ Len(Without(q, k)) = Len(q) - 1
           /\ \A i \in 1..(Len(q) - 1) :
                Without(q, k)[i] = IF i < k THEN q[i] ELSE q[i + 1]
  <1> DEFINE w == Without(q, k)
  <1>1. Len(q) - 1 \in Nat
    OBVIOUS
  <1>2. \A i \in 1..(Len(q) - 1) : (IF i < k THEN q[i] ELSE q[i + 1]) \in S
    OBVIOUS
  <1>3. w \in [1..(Len(q) - 1) -> S]
    BY <1>2 DEF Without
  <1>4. w \in Seq(S) /\ Len(w) = Len(q) - 1
    <2> HIDE DEF w
    <2> QED BY <1>1, <1>3, SeqOfLength
  <1> QED BY <1>4 DEF Without

(* The elements of a sequence into which n was inserted behind its first k
   elements. *)
LEMMA WithAfterIs ==
    ASSUME NEW S, NEW q \in Seq(S), NEW k \in 0..Len(q), NEW n \in S
    PROVE  /\ WithAfter(q, k, n) \in Seq(S) /\ Len(WithAfter(q, k, n)) = Len(q) + 1
           /\ \A i \in 1..(Len(q) + 1) :
                WithAfter(q, k, n)[i] =
                    IF i <= k THEN q[i] ELSE IF i = k + 1 THEN n ELSE q[i - 1]
  <1> DEFINE w == WithAfter(q, k, n)
  <1>1. Len(q) + 1 \in Nat
    OBVIOUS
  <1>2. \A i \in 1..(Len(q) + 1) :
          (IF i <= k THEN q[i] ELSE IF i = k + 1 THEN n ELSE q[i - 1]) \in S
    OBVIOUS
  <1>3. w \in [1..(Len(q) + 1) -> S]
    BY <1>2 DEF WithAfter
  <1>4. w \in Seq(S) /\ Len(w) = Len(q) + 1
    <2> HIDE DEF w
    <2> QED BY <1>1, <1>3, SeqOfLength
  <1> QED BY <1>4 DEF WithAfter

(* Their elements. *)
LEMMA OnWithout ==
    ASSUME NEW S, NEW q \in Seq(S), NEW k \in 1..Len(q),
           \A i, j \in 1..Len(q) : q[i] = q[j] => i = j
    PROVE  On(Without(q, k)) = On(q) \ {q[k]}
  <1> DEFINE w == Without(q, k)
  <1>1. /\ Len(w) = Len(q) - 1
        /\ \A i \in 1..(Len(q) - 1) : w[i] = IF i < k THEN q[i] ELSE q[i + 1]
    BY WithoutIs
  <1> HIDE DEF w
  <1>2. ASSUME NEW i \in 1..Len(w) PROVE w[i] \in On(q) \ {q[k]}
    <2>1. PICK j \in 1..Len(q) : j # k /\ w[i] = q[j]
      BY <1>1
    <2>2. q[j] # q[k]
      BY <2>1
    <2> QED BY <2>1, <2>2 DEF On
  <1>3. ASSUME NEW j \in 1..Len(q), q[j] # q[k] PROVE q[j] \in On(w)
    <2>1. CASE j < k
      <3>1. j \in 1..Len(w) /\ w[j] = q[j]
        BY <1>1, <2>1
      <3> QED BY <3>1 DEF On
    <2>2. CASE j > k
      <3>1. j - 1 \in 1..Len(w) /\ w[j - 1] = q[j]
        BY <1>1, <2>2
      <3> QED BY <3>1 DEF On
    <2> QED BY <1>3, <2>1, <2>2
  <1> QED BY <1>2, <1>3 DEF On, w

(* Inserting n adds n to the elements of a sequence, and nothing else. *)
LEMMA OnWithAfter ==
    ASSUME NEW S, NEW q \in Seq(S), NEW k \in 0..Len(q), NEW n \in S
    PROVE  On(WithAfter(q, k, n)) = On(q) \cup {n}
  <1> DEFINE w == WithAfter(q, k, n)
  <1>1. /\ Len(w) = Len(q) + 1
        /\ \A i \in 1..(Len(q) + 1) :
             w[i] = IF i <= k THEN q[i] ELSE IF i = k + 1 THEN n ELSE q[i - 1]
    BY WithAfterIs
  <1> HIDE DEF w
  <1>2. ASSUME NEW i \in 1..Len(w) PROVE w[i] \in On(q) \cup {n}
    BY <1>1 DEF On
  <1>3. ASSUME NEW j \in 1..Len(q) PROVE q[j] \in On(w)
    <2>1. CASE j <= k
      <3>1. j \in 1..Len(w) /\ w[j] = q[j]
        BY <1>1, <2>1
      <3> QED BY <3>1 DEF On
    <2>2. CASE j > k
      <3>1. j + 1 \in 1..Len(w) /\ w[j + 1] = q[j]
        BY <1>1, <2>2
      <3> QED BY <3>1 DEF On
    <2> QED BY <2>1, <2>2
  <1>4. n \in On(w)
    <2>1. k + 1 \in 1..Len(w) /\ w[k + 1] = n
      BY <1>1
    <2> QED BY <2>1 DEF On
  <1> QED BY <1>2, <1>3, <1>4 DEF On, w

(***************************************************************************)
(* The operations, field by field.                                         *)
(***************************************************************************)
Removed(r, l, n, Nodes, NULL) ==
    /\ r.count = l.count - 1
    /\ r.start = IF l.start = n THEN l.next[n] ELSE l.start
    /\ r.end = IF l.end = n THEN l.prev[n] ELSE l.end
    /\ \A m \in Nodes : r.next[m] = IF m = n THEN NULL
                          ELSE IF m = l.prev[n] THEN l.next[n] ELSE l.next[m]
    /\ \A m \in Nodes : r.prev[m] = IF m = n THEN NULL
                          ELSE IF m = l.next[n] THEN l.prev[n] ELSE l.prev[m]

InsertedAfter(r, l, p, n, Nodes) ==
    /\ r.count = l.count + 1
    /\ r.start = l.start
    /\ r.end = IF l.end = p THEN n ELSE l.end
    /\ \A m \in Nodes : r.next[m] = IF m = n THEN l.next[p]
                          ELSE IF m = p THEN n ELSE l.next[m]
    /\ \A m \in Nodes : r.prev[m] = IF m = n THEN p
                          ELSE IF m = l.next[p] THEN n ELSE l.prev[m]

InsertedAtEnd(r, l, n, Nodes, NULL) ==
    /\ r.count = l.count + 1
    /\ r.start = IF l.end = NULL THEN n ELSE l.start
    /\ r.end = n
    /\ \A m \in Nodes : r.next[m] = IF m = l.end THEN n ELSE l.next[m]
    /\ \A m \in Nodes : r.prev[m] = IF m = n /\ l.end # NULL THEN l.end ELSE l.prev[m]

(* The pointers that LinkedList::Remove leaves behind, field by field. *)
LEMMA RemoveFields ==
    ASSUME NEW Nodes, NEW NULL, NULL \notin Nodes, NEW l \in Lists(Nodes, NULL),
           NEW n \in Nodes, NEW r, r = Remove(l, n, NULL)
    PROVE  r \in Lists(Nodes, NULL) /\ Removed(r, l, n, Nodes, NULL)
  <1> DEFINE after == l.next[n]
             before == l.prev[n]
             x == IF l.start = n THEN after ELSE l.start
             y == IF l.end = n THEN before ELSE l.end
             c == l.count - 1
             ends == [l EXCEPT !.count = @ - 1,
                               !.start = IF @ = n THEN after ELSE @,
                               !.end = IF @ = n THEN before ELSE @]
             back == IF after = NULL THEN ends ELSE [ends EXCEPT !.prev[after] = before]
             forth == IF before = NULL THEN back ELSE [back EXCEPT !.next[before] = after]
  <1>1. /\ after \in Nodes \cup {NULL} /\ before \in Nodes \cup {NULL}
        /\ x \in Nodes \cup {NULL} /\ y \in Nodes \cup {NULL} /\ c \in Int
        /\ l.next \in [Nodes -> Nodes \cup {NULL}] /\ l.prev \in [Nodes -> Nodes \cup {NULL}]
    BY DEF Lists
  <1>2. ends = [start |-> x, end |-> y, count |-> c, next |-> l.next, prev |-> l.prev]
    <2>1. ends = [l EXCEPT !.count = @ - 1,
                           !.start = IF @ = n THEN after ELSE @,
                           !.end = IF @ = n THEN before ELSE @]
      OBVIOUS
    <2> HIDE DEF ends, after, before
    <2> QED BY <1>1, <2>1 DEF Lists
  <1>3. r = [forth EXCEPT !.next[n] = NULL, !.prev[n] = NULL]
    BY DEF Remove
  <1> HIDE DEF after, before, ends, x, y, c
  <1>4. /\ ends \in Lists(Nodes, NULL) /\ ends.start = x /\ ends.end = y
        /\ ends.count = c /\ ends.next = l.next /\ ends.prev = l.prev
    BY <1>1, <1>2 DEF Lists
  <1>5. /\ back \in Lists(Nodes, NULL) /\ back.count = c
        /\ back.start = x /\ back.end = y /\ back.next = l.next
        /\ \A m \in Nodes : back.prev[m] = IF m = after THEN before ELSE l.prev[m]
    BY <1>1, <1>4 DEF Lists
  <1> HIDE DEF back
  <1>6. /\ forth \in Lists(Nodes, NULL) /\ forth.count = c
        /\ forth.start = x /\ forth.end = y /\ forth.prev = back.prev
        /\ \A m \in Nodes : forth.next[m] = IF m = before THEN after ELSE l.next[m]
    BY <1>1, <1>5 DEF Lists
  <1> HIDE DEF forth
  <1>7. r.count = c /\ r.start = x /\ r.end = y
    BY <1>3, <1>6 DEF Lists
  <1>8. r.next = [forth.next EXCEPT ![n] = NULL]
    BY <1>3, <1>6 DEF Lists
  <1>9. r.prev = [forth.prev EXCEPT ![n] = NULL]
    BY <1>3, <1>6 DEF Lists
  <1>10. r \in Lists(Nodes, NULL)
    <2> DEFINE nx == [forth.next EXCEPT ![n] = NULL]
               pv == [forth.prev EXCEPT ![n] = NULL]
    <2>1. r = [start |-> forth.start, end |-> forth.end, count |-> forth.count,
               next |-> nx, prev |-> pv]
      BY <1>3, <1>6 DEF Lists
    <2>2. /\ nx \in [Nodes -> Nodes \cup {NULL}] /\ pv \in [Nodes -> Nodes \cup {NULL}]
          /\ forth.start \in Nodes \cup {NULL} /\ forth.end \in Nodes \cup {NULL}
          /\ forth.count \in Int
      BY <1>6 DEF Lists
    <2> HIDE DEF nx, pv
    <2> QED BY <2>1, <2>2 DEF Lists
  <1>11. \A m \in Nodes : r.next[m] = IF m = n THEN NULL
                            ELSE IF m = before THEN after ELSE l.next[m]
    BY <1>6, <1>8 DEF Lists
  <1>12. \A m \in Nodes : r.prev[m] = IF m = n THEN NULL
                            ELSE IF m = after THEN before ELSE l.prev[m]
    BY <1>5, <1>6, <1>9 DEF Lists
  <1> QED BY <1>7, <1>10, <1>11, <1>12 DEF Removed, after, before, x, y, c

(* The pointers that LinkedList::InsertAfter leaves behind, field by field. *)
LEMMA InsertAfterFields ==
    ASSUME NEW Nodes, NEW NULL, NULL \notin Nodes, NEW l \in Lists(Nodes, NULL),
           NEW p \in Nodes, NEW n \in Nodes, NEW r, r = InsertAfter(l, p, n, NULL)
    PROVE  r \in Lists(Nodes, NULL) /\ InsertedAfter(r, l, p, n, Nodes)
  <1> DEFINE after == l.next[p]
             around == [l EXCEPT !.next[p] = n]
             back == IF after = NULL THEN around ELSE [around EXCEPT !.prev[after] = n]
             y == IF back.end = p THEN n ELSE back.end
             nx == [back.next EXCEPT ![n] = after]
             pv == [back.prev EXCEPT ![n] = p]
  <1>1. after \in Nodes \cup {NULL}
    BY DEF Lists
  <1>2. /\ around \in Lists(Nodes, NULL) /\ around.count = l.count
        /\ around.start = l.start /\ around.end = l.end /\ around.prev = l.prev
        /\ \A m \in Nodes : around.next[m] = IF m = p THEN n ELSE l.next[m]
    BY DEF Lists
  <1>3. r = [back EXCEPT !.count = @ + 1, !.next[n] = after, !.prev[n] = p,
                         !.end = IF @ = p THEN n ELSE @]
    BY DEF InsertAfter
  <1> HIDE DEF after, around
  <1>4. /\ back \in Lists(Nodes, NULL) /\ back.count = l.count
        /\ back.start = l.start /\ back.end = l.end /\ back.next = around.next
        /\ \A m \in Nodes : back.prev[m] = IF m = after THEN n ELSE l.prev[m]
    BY <1>1, <1>2 DEF Lists
  <1> HIDE DEF back
  <1>5. r = [start |-> back.start, end |-> y, count |-> back.count + 1,
             next |-> nx, prev |-> pv]
    BY <1>3, <1>4 DEF Lists
  <1>6. /\ nx \in [Nodes -> Nodes \cup {NULL}] /\ pv \in [Nodes -> Nodes \cup {NULL}]
        /\ y \in Nodes \cup {NULL} /\ back.count + 1 \in Int
        /\ back.start \in Nodes \cup {NULL}
    BY <1>1, <1>4 DEF Lists
  <1>7. /\ \A m \in Nodes : nx[m] = IF m = n THEN after ELSE IF m = p THEN n ELSE l.next[m]
        /\ \A m \in Nodes : pv[m] = IF m = n THEN p ELSE IF m = after THEN n ELSE l.prev[m]
    BY <1>2, <1>4 DEF Lists
  <1>8. y = IF l.end = p THEN n ELSE l.end
    BY <1>4
  <1> HIDE DEF y, nx, pv
  <1>9. r \in Lists(Nodes, NULL)
    BY <1>5, <1>6 DEF Lists
  <1>10. r.start = l.start /\ r.end = y /\ r.count = l.count + 1 /\ r.next = nx /\ r.prev = pv
    BY <1>4, <1>5
  <1> QED BY <1>7, <1>8, <1>9, <1>10 DEF InsertedAfter, after

(* The pointers that LinkedList::InsertAtEnd leaves behind, field by field. *)
LEMMA InsertAtEndFields ==
    ASSUME NEW Nodes, NEW NULL, NULL \notin Nodes, NEW l \in Lists(Nodes, NULL),
           NEW n \in Nodes, NEW r, r = InsertAtEnd(l, n, NULL)
    PROVE  r \in Lists(Nodes, NULL) /\ InsertedAtEnd(r, l, n, Nodes, NULL)
  <1>1. CASE l.end = NULL
    <2>1. r = [start |-> n, end |-> n, count |-> l.count + 1, next |-> l.next, prev |-> l.prev]
      BY <1>1 DEF InsertAtEnd, Lists
    <2>2. /\ l.count + 1 \in Int /\ l.next \in [Nodes -> Nodes \cup {NULL}]
          /\ l.prev \in [Nodes -> Nodes \cup {NULL}]
      BY DEF Lists
    <2>3. r \in Lists(Nodes, NULL)
      BY <2>1, <2>2 DEF Lists
    <2> QED BY <1>1, <2>1, <2>3 DEF InsertedAtEnd
  <1>2. CASE l.end # NULL
    <2> DEFINE nx == [l.next EXCEPT ![l.end] = n]
               pv == [l.prev EXCEPT ![n] = l.end]
    <2>1. r = [start |-> l.start, end |-> n, count |-> l.count + 1, next |-> nx, prev |-> pv]
      BY <1>2 DEF InsertAtEnd, Lists
    <2>a. l.end \in Nodes
      BY <1>2 DEF Lists
    <2>b. l.count + 1 \in Int /\ l.start \in Nodes \cup {NULL}
      BY DEF Lists
    <2>c. nx \in [Nodes -> Nodes \cup {NULL}]
      BY DEF Lists
    <2>d. pv \in [Nodes -> Nodes \cup {NULL}]
      BY <2>a DEF Lists
    <2>3. /\ \A m \in Nodes : nx[m] = IF m = l.end THEN n ELSE l.next[m]
          /\ \A m \in Nodes : pv[m] = IF m = n THEN l.end ELSE l.prev[m]
      BY <1>2 DEF Lists
    <2> HIDE DEF nx, pv
    <2>4. r \in Lists(Nodes, NULL)
      BY <2>1, <2>b, <2>c, <2>d DEF Lists
    <2> QED BY <1>2, <2>1, <2>3, <2>4 DEF InsertedAtEnd
  <1> QED BY <1>1, <1>2

(***************************************************************************)
(* What they do to the sequence.                                           *)
(***************************************************************************)

(* LinkedList::Remove takes one element out. *)
LEMMA RemoveRepresents ==
    ASSUME NEW Nodes, NEW NULL, NULL \notin Nodes, NEW l \in Lists(Nodes, NULL),
           NEW q \in Seq(Nodes), Represents(l, q, Nodes, NULL), NEW k \in 1..Len(q)
    PROVE  Represents(Remove(l, q[k], NULL), Without(q, k), Nodes, NULL)
  <1> DEFINE n == q[k]
             r == Remove(l, n, NULL)
             w == Without(q, k)
             len == Len(q)
             pos(i) == IF i < k THEN i ELSE i + 1
  <1>1. n \in Nodes /\ len \in Nat /\ k \in 1..len /\ \A i \in 1..len : q[i] \in Nodes
    OBVIOUS
  <1>2. /\ l.count = len
        /\ \A i, j \in 1..len : q[i] = q[j] => i = j
        /\ l.start = q[1] /\ l.end = q[len]
        /\ \A i \in 1..len :
             /\ l.next[q[i]] = IF i = len THEN NULL ELSE q[i + 1]
             /\ l.prev[q[i]] = IF i = 1 THEN NULL ELSE q[i - 1]
        /\ \A m \in Nodes \ On(q) : l.next[m] = NULL /\ l.prev[m] = NULL
    BY <1>1 DEF Represents, On
  <1>3. /\ w \in Seq(Nodes) /\ Len(w) = len - 1
        /\ \A i \in 1..(len - 1) : w[i] = IF i < k THEN q[i] ELSE q[i + 1]
    BY WithoutIs
  <1>4. On(w) = On(q) \ {n}
    BY <1>2, OnWithout
  <1>5. /\ l.next[n] = IF k = len THEN NULL ELSE q[k + 1]
        /\ l.prev[n] = IF k = 1 THEN NULL ELSE q[k - 1]
    BY <1>1, <1>2
  <1>6. r = Remove(l, n, NULL) /\ n = q[k]
    OBVIOUS
  <1> HIDE DEF r, w, n, len
  <1>7. Removed(r, l, n, Nodes, NULL)
    BY <1>1, <1>6, RemoveFields
  <1>8. \A i \in 1..Len(w) : pos(i) \in 1..len /\ pos(i) # k /\ w[i] = q[pos(i)]
    BY <1>1, <1>3
  <1>9. \A i, j \in 1..Len(w) : w[i] = w[j] => i = j
    <2> SUFFICES ASSUME NEW i \in 1..Len(w), NEW j \in 1..Len(w), w[i] = w[j] PROVE i = j
      OBVIOUS
    <2>1. pos(i) = pos(j)
      <3> DEFINE a == pos(i)
                 b == pos(j)
      <3>a. i \in 1..Len(w) /\ j \in 1..Len(w) /\ w[i] = w[j]
        OBVIOUS
      <3>1. a \in 1..len /\ b \in 1..len /\ w[i] = q[a] /\ w[j] = q[b]
        BY <1>8
      <3> HIDE DEF a, b
      <3>2. a = b
        <4>1. \A x, y \in 1..len : q[x] = q[y] => x = y
          BY <1>2
        <4> QED BY <3>a, <3>1, <4>1, Zenon
      <3> QED BY <3>2 DEF a, b
    <2>2. i \in Int /\ j \in Int /\ k \in Int
      BY <1>1, <1>3
    <2> QED BY <2>1, <2>2
  <1>10. w = <<>> <=> len = 1
    BY <1>1, <1>3
  <1>11. r.start = IF w = <<>> THEN NULL ELSE w[1]
    <2>1. l.start = n <=> k = 1
      BY <1>1, <1>2, <1>6
    <2> QED BY <1>1, <1>2, <1>3, <1>5, <1>7, <1>10, <2>1 DEF Removed
  <1>12. r.end = IF w = <<>> THEN NULL ELSE w[Len(w)]
    <2>1. l.end = n <=> k = len
      BY <1>1, <1>2, <1>6
    <2>2. r.end = IF l.end = n THEN l.prev[n] ELSE l.end
      BY <1>7 DEF Removed
    <2>3. CASE k = len
      <3>1. r.end = IF len = 1 THEN NULL ELSE q[len - 1]
        BY <1>5, <2>1, <2>2, <2>3
      <3>2. len # 1 => w[len - 1] = q[len - 1]
        <4>1. ASSUME len # 1 PROVE len - 1 \in 1..(len - 1) /\ len - 1 < k
          BY <1>1, <2>3, <4>1
        <4> QED BY <1>3, <4>1
      <3> QED BY <1>3, <1>10, <3>1, <3>2
    <2>4. CASE k # len
      <3>1. len # 1 /\ len - 1 \in 1..(len - 1) /\ ~(len - 1 < k) /\ (len - 1) + 1 = len
        BY <1>1, <2>4
      <3>2. w[len - 1] = q[len]
        BY <1>3, <3>1
      <3>3. r.end = q[len]
        BY <1>2, <2>1, <2>2, <2>4
      <3> QED BY <1>3, <1>10, <3>1, <3>2, <3>3
    <2> QED BY <2>3, <2>4
  <1>13. ASSUME NEW i \in 1..Len(w)
         PROVE  /\ r.next[w[i]] = IF i = Len(w) THEN NULL ELSE w[i + 1]
                /\ r.prev[w[i]] = IF i = 1 THEN NULL ELSE w[i - 1]
    <2> DEFINE p == pos(i)
    <2>1. p \in 1..len /\ p # k /\ w[i] = q[p] /\ p = IF i < k THEN i ELSE i + 1
      BY <1>8
    <2>2. i \in 1..(len - 1) /\ i \in Nat /\ len \in Nat /\ k \in 1..len /\ Len(w) = len - 1
      BY <1>1, <1>3
    <2> HIDE DEF p, pos
    <2>3. /\ q[p] \in Nodes /\ q[p] # n
          /\ l.next[q[p]] = IF p = len THEN NULL ELSE q[p + 1]
          /\ l.prev[q[p]] = IF p = 1 THEN NULL ELSE q[p - 1]
      BY <1>1, <1>2, <1>6, <2>1
    <2>4. q[p] = l.prev[n] <=> p = k - 1
      <3>1. CASE k = 1
        BY <1>5, <2>1, <2>2, <2>3, <3>1
      <3>2. CASE k # 1
        <4>1. k - 1 \in 1..len /\ l.prev[n] = q[k - 1]
          BY <1>5, <2>2, <3>2
        <4> QED BY <1>2, <2>1, <4>1
      <3> QED BY <3>1, <3>2
    <2>5. q[p] = l.next[n] <=> p = k + 1
      <3>1. CASE k = len
        BY <1>5, <2>1, <2>2, <2>3, <3>1
      <3>2. CASE k # len
        <4>1. k + 1 \in 1..len /\ l.next[n] = q[k + 1]
          BY <1>5, <2>2, <3>2
        <4> QED BY <1>2, <2>1, <4>1
      <3> QED BY <3>1, <3>2
    <2>6. r.next[w[i]] = IF p = k - 1 THEN l.next[n] ELSE l.next[q[p]]
      BY <1>7, <2>1, <2>3, <2>4 DEF Removed
    <2>7. r.prev[w[i]] = IF p = k + 1 THEN l.prev[n] ELSE l.prev[q[p]]
      BY <1>7, <2>1, <2>3, <2>5 DEF Removed
    <2>8. i # len - 1 => w[i + 1] = IF i + 1 < k THEN q[i + 1] ELSE q[i + 2]
      <3>1. ASSUME i # len - 1 PROVE i + 1 \in 1..(len - 1) /\ i + 1 + 1 = i + 2
        BY <2>2, <3>1
      <3> QED BY <1>3, <3>1
    <2>9. i # 1 => w[i - 1] = IF i - 1 < k THEN q[i - 1] ELSE q[i]
      <3>1. ASSUME i # 1 PROVE i - 1 \in 1..(len - 1) /\ i - 1 + 1 = i
        BY <2>2, <3>1
      <3> QED BY <1>3, <3>1
    <2>10. CASE i < k
      BY <1>5, <2>1, <2>2, <2>3, <2>6, <2>7, <2>8, <2>9, <2>10
    <2>11. CASE ~(i < k)
      BY <1>5, <2>1, <2>2, <2>3, <2>6, <2>7, <2>8, <2>9, <2>11
    <2> QED BY <2>10, <2>11
  <1>14. ASSUME NEW m \in Nodes \ On(w) PROVE r.next[m] = NULL /\ r.prev[m] = NULL
    <2>1. CASE m = n
      BY <1>7, <2>1 DEF Removed
    <2>2. CASE m # n
      <3>1. m \notin On(q)
        BY <1>4, <2>2
      <3>2. l.next[m] = NULL /\ l.prev[m] = NULL
        BY <1>2, <3>1
      <3>3. m # l.prev[n] /\ m # l.next[n]
        <4>1. l.prev[n] \in On(q) \cup {NULL} /\ l.next[n] \in On(q) \cup {NULL}
          BY <1>1, <1>5 DEF On, len
        <4> QED BY <3>1, <4>1
      <3> QED BY <1>7, <2>2, <3>2, <3>3 DEF Removed
    <2> QED BY <2>1, <2>2
  <1>15. r.count = Len(w)
    BY <1>2, <1>3, <1>7 DEF Removed
  <1>16. Represents(r, w, Nodes, NULL)
    BY <1>9, <1>11, <1>12, <1>13, <1>14, <1>15 DEF Represents, On
  <1> QED BY <1>16 DEF r, w, n

(* LinkedList::InsertAfter puts n right after the k-th element. *)
LEMMA InsertAfterRepresents ==
    ASSUME NEW Nodes, NEW NULL, NULL \notin Nodes, NEW l \in Lists(Nodes, NULL),
           NEW q \in Seq(Nodes), Represents(l, q, Nodes, NULL), NEW k \in 1..Len(q),
           NEW n \in Nodes, n \notin On(q)
    PROVE  Represents(InsertAfter(l, q[k], n, NULL), WithAfter(q, k, n), Nodes, NULL)
  <1> DEFINE p == q[k]
             r == InsertAfter(l, p, n, NULL)
             w == WithAfter(q, k, n)
             len == Len(q)
  <1>1. /\ p \in Nodes /\ len \in Nat /\ k \in 1..len
        /\ \A i \in 1..len : q[i] \in Nodes /\ q[i] # n
    BY DEF On
  <1>2. /\ l.count = len
        /\ l.start = q[1] /\ l.end = q[len]
        /\ \A i \in 1..len :
             /\ l.next[q[i]] = IF i = len THEN NULL ELSE q[i + 1]
             /\ l.prev[q[i]] = IF i = 1 THEN NULL ELSE q[i - 1]
        /\ \A m \in Nodes \ On(q) : l.next[m] = NULL /\ l.prev[m] = NULL
    BY <1>1 DEF Represents, On
  <1>3. \A i, j \in 1..len : q[i] = q[j] => i = j
    BY DEF Represents
  <1>4. /\ w \in Seq(Nodes) /\ Len(w) = len + 1
        /\ \A i \in 1..(len + 1) :
             w[i] = IF i <= k THEN q[i] ELSE IF i = k + 1 THEN n ELSE q[i - 1]
    <2>1. ASSUME NEW j \in 0..Len(q)
          PROVE  /\ WithAfter(q, j, n) \in Seq(Nodes) /\ Len(WithAfter(q, j, n)) = Len(q) + 1
                 /\ \A i \in 1..(Len(q) + 1) :
                      WithAfter(q, j, n)[i] =
                          IF i <= j THEN q[i] ELSE IF i = j + 1 THEN n ELSE q[i - 1]
      BY WithAfterIs
    <2>2. k \in 0..Len(q)
      OBVIOUS
    <2> QED BY <2>1, <2>2, Zenon
  <1>5. On(w) = On(q) \cup {n}
    BY <1>1, OnWithAfter
  <1>6. l.next[p] = IF k = len THEN NULL ELSE q[k + 1]
    BY <1>1, <1>2
  <1>7. r = InsertAfter(l, p, n, NULL) /\ p = q[k]
    OBVIOUS
  <1> HIDE DEF r, w, p, len
  <1>8. InsertedAfter(r, l, p, n, Nodes)
    BY <1>1, <1>7, InsertAfterFields
  <1>9. \A i, j \in 1..Len(w) : w[i] = w[j] => i = j
    <2> SUFFICES ASSUME NEW i \in 1..(len + 1), NEW j \in 1..(len + 1), w[i] = w[j] PROVE i = j
      <3>1. Len(w) = len + 1
        BY <1>4
      <3> QED BY <3>1, Zenon
    <2> DEFINE a == IF i <= k THEN i ELSE i - 1
               b == IF j <= k THEN j ELSE j - 1
    <2>1. CASE i = k + 1 \/ j = k + 1
      <3>1. \A x \in 1..(len + 1) : x # k + 1 => w[x] # n
        <4> SUFFICES ASSUME NEW x \in 1..(len + 1), x # k + 1 PROVE w[x] # n
          OBVIOUS
        <4>1. CASE x <= k
          <5>1. x \in 1..len /\ w[x] = q[x]
            BY <1>1, <1>4, <4>1
          <5> QED BY <1>1, <5>1
        <4>2. CASE ~(x <= k)
          <5>1. x - 1 \in 1..len /\ w[x] = q[x - 1]
            BY <1>1, <1>4, <4>2
          <5> QED BY <1>1, <5>1
        <4> QED BY <4>1, <4>2
      <3>2. k + 1 \in 1..(len + 1) /\ ~(k + 1 <= k)
        BY <1>1
      <3>3. w[k + 1] = n
        BY <1>4, <3>2
      <3> QED BY <2>1, <3>1, <3>3
    <2>2. CASE i # k + 1 /\ j # k + 1
      <3>1. a \in 1..len /\ b \in 1..len /\ w[i] = q[a] /\ w[j] = q[b]
        BY <1>1, <1>4, <2>2
      <3>2. a = b
        <4> HIDE DEF a, b
        <4>1. q[a] = q[b]
          BY <3>1
        <4> QED BY <1>3, <3>1, <4>1, Zenon
      <3> QED BY <1>1, <2>2, <3>2
    <2> QED BY <2>1, <2>2
  <1>10. w # <<>> /\ r.start = w[1] /\ r.end = w[Len(w)]
    <2>1. l.end = p <=> k = len
      <3>1. l.end = q[len] /\ p = q[k] /\ k \in 1..len /\ len \in 1..len
        BY <1>1, <1>2, <1>7
      <3> QED BY <1>3, <3>1, Zenon
    <2> QED BY <1>1, <1>2, <1>4, <1>8, <2>1 DEF InsertedAfter
  <1>11. ASSUME NEW i \in 1..Len(w)
         PROVE  /\ r.next[w[i]] = IF i = Len(w) THEN NULL ELSE w[i + 1]
                /\ r.prev[w[i]] = IF i = 1 THEN NULL ELSE w[i - 1]
    <2>1. i \in 1..(len + 1) /\ i \in Nat /\ len \in Nat /\ k \in 1..len /\ Len(w) = len + 1
      BY <1>1, <1>4
    <2>2. w[i] = IF i <= k THEN q[i] ELSE IF i = k + 1 THEN n ELSE q[i - 1]
      BY <1>4, <2>1
    <2>3. i # len + 1 =>
            w[i + 1] = IF i + 1 <= k THEN q[i + 1] ELSE IF i = k THEN n ELSE q[i]
      <3>1. ASSUME i # len + 1 PROVE i + 1 \in 1..(len + 1) /\ i + 1 - 1 = i /\ (i + 1 = k + 1 <=> i = k)
        BY <2>1, <3>1
      <3> QED BY <1>4, <3>1
    <2>4. i # 1 =>
            w[i - 1] = IF i - 1 <= k THEN q[i - 1] ELSE IF i = k + 2 THEN n ELSE q[i - 2]
      <3>1. ASSUME i # 1 PROVE i - 1 \in 1..(len + 1) /\ i - 1 - 1 = i - 2 /\ (i - 1 = k + 1 <=> i = k + 2)
        BY <2>1, <3>1
      <3> QED BY <1>4, <3>1
    <2>5. CASE i = k + 1
      <3>1. w[i] = n /\ r.next[n] = l.next[p] /\ r.prev[n] = p
        BY <1>8, <2>1, <2>2, <2>5 DEF InsertedAfter
      <3> QED BY <1>6, <1>7, <2>1, <2>3, <2>4, <2>5, <3>1
    <2>6. ASSUME NEW j \in 1..len, w[i] = q[j]
          PROVE  /\ r.next[w[i]] = IF j = k THEN n ELSE IF j = len THEN NULL ELSE q[j + 1]
                 /\ r.prev[w[i]] = IF j = k + 1 THEN n ELSE IF j = 1 THEN NULL ELSE q[j - 1]
      <3>1. q[j] \in Nodes /\ q[j] # n
        BY <1>1
      <3>2. q[j] = p <=> j = k
        BY <1>1, <1>3, <1>7
      <3>3. q[j] = l.next[p] <=> j = k + 1
        <4>1. CASE k = len
          BY <1>6, <2>1, <3>1, <4>1
        <4>2. CASE k # len
          <5>1. k + 1 \in 1..len /\ l.next[p] = q[k + 1]
            BY <1>6, <2>1, <4>2
          <5> QED BY <1>3, <5>1
        <4> QED BY <4>1, <4>2
      <3>4. r.next[w[i]] = IF j = k THEN n ELSE l.next[q[j]]
        BY <1>8, <2>6, <3>1, <3>2 DEF InsertedAfter
      <3>5. r.prev[w[i]] = IF j = k + 1 THEN n ELSE l.prev[q[j]]
        BY <1>8, <2>6, <3>1, <3>3 DEF InsertedAfter
      <3>6. /\ l.next[q[j]] = IF j = len THEN NULL ELSE q[j + 1]
            /\ l.prev[q[j]] = IF j = 1 THEN NULL ELSE q[j - 1]
        BY <1>2
      <3> QED BY <3>4, <3>5, <3>6
    <2>7. CASE i <= k
      <3>1. i \in 1..len /\ w[i] = q[i]
        BY <2>1, <2>2, <2>7
      <3>2. /\ r.next[w[i]] = IF i = k THEN n ELSE IF i = len THEN NULL ELSE q[i + 1]
            /\ r.prev[w[i]] = IF i = k + 1 THEN n ELSE IF i = 1 THEN NULL ELSE q[i - 1]
        BY <2>6, <3>1
      <3> QED BY <2>1, <2>3, <2>4, <2>7, <3>2
    <2>8. CASE i > k + 1
      <3> DEFINE j == i - 1
      <3>1. j \in 1..len /\ w[i] = q[j] /\ j = i - 1 /\ j - 1 = i - 2 /\ j + 1 = i
        BY <2>1, <2>2, <2>8
      <3> HIDE DEF j
      <3>2. /\ r.next[w[i]] = IF j = k THEN n ELSE IF j = len THEN NULL ELSE q[j + 1]
            /\ r.prev[w[i]] = IF j = k + 1 THEN n ELSE IF j = 1 THEN NULL ELSE q[j - 1]
        BY <2>6, <3>1
      <3> QED BY <2>1, <2>3, <2>4, <2>8, <3>1, <3>2
    <2> QED BY <2>1, <2>5, <2>7, <2>8
  <1>12. ASSUME NEW m \in Nodes \ On(w) PROVE r.next[m] = NULL /\ r.prev[m] = NULL
    <2>1. m \notin On(q) /\ m # n
      BY <1>5
    <2>2. l.next[m] = NULL /\ l.prev[m] = NULL
      BY <1>2, <2>1
    <2>3. m # p /\ m # l.next[p]
      <3>1. p \in On(q) /\ l.next[p] \in On(q) \cup {NULL}
        BY <1>1, <1>6, <1>7 DEF On, len
      <3> QED BY <2>1, <3>1
    <2> QED BY <1>8, <2>1, <2>2, <2>3 DEF InsertedAfter
  <1>13. r.count = Len(w)
    BY <1>2, <1>4, <1>8 DEF InsertedAfter
  <1>14. Represents(r, w, Nodes, NULL)
    BY <1>9, <1>10, <1>11, <1>12, <1>13 DEF Represents, On
  <1> QED BY <1>14 DEF r, w, p

(* LinkedList::InsertAtEnd puts n behind the last element. *)
LEMMA InsertAtEndRepresents ==
    ASSUME NEW Nodes, NEW NULL, NULL \notin Nodes, NEW l \in Lists(Nodes, NULL),
           NEW q \in Seq(Nodes), Represents(l, q, Nodes, NULL),
           NEW n \in Nodes, n \notin On(q)
    PROVE  Represents(InsertAtEnd(l, n, NULL), WithAfter(q, Len(q), n), Nodes, NULL)
  <1> DEFINE r == InsertAtEnd(l, n, NULL)
             w == WithAfter(q, Len(q), n)
             len == Len(q)
  <1>1. len \in Nat /\ \A i \in 1..len : q[i] \in Nodes /\ q[i] # n
    BY DEF On
  <1>2. /\ l.count = len
        /\ l.start = IF len = 0 THEN NULL ELSE q[1]
        /\ l.end = IF len = 0 THEN NULL ELSE q[len]
        /\ \A i \in 1..len :
             /\ l.next[q[i]] = IF i = len THEN NULL ELSE q[i + 1]
             /\ l.prev[q[i]] = IF i = 1 THEN NULL ELSE q[i - 1]
        /\ \A m \in Nodes \ On(q) : l.next[m] = NULL /\ l.prev[m] = NULL
    <2>1. q = <<>> <=> len = 0
      OBVIOUS
    <2> QED BY <1>1, <2>1 DEF Represents, On
  <1>3. \A i, j \in 1..len : q[i] = q[j] => i = j
    BY DEF Represents
  <1>4. /\ w \in Seq(Nodes) /\ Len(w) = len + 1
        /\ \A i \in 1..(len + 1) :
             w[i] = IF i <= len THEN q[i] ELSE IF i = len + 1 THEN n ELSE q[i - 1]
    <2>1. ASSUME NEW k \in 0..Len(q)
          PROVE  /\ WithAfter(q, k, n) \in Seq(Nodes) /\ Len(WithAfter(q, k, n)) = Len(q) + 1
                 /\ \A i \in 1..(Len(q) + 1) :
                      WithAfter(q, k, n)[i] =
                          IF i <= k THEN q[i] ELSE IF i = k + 1 THEN n ELSE q[i - 1]
      BY WithAfterIs
    <2>2. Len(q) \in 0..Len(q)
      OBVIOUS
    <2> QED BY <2>1, <2>2, Zenon
  <1>5. On(w) = On(q) \cup {n}
    <2>1. Len(q) \in 0..Len(q)
      OBVIOUS
    <2> QED BY <2>1, OnWithAfter
  <1>6. r = InsertAtEnd(l, n, NULL)
    OBVIOUS
  <1>7. len # 0 => q[len] \in On(q)
    BY <1>1 DEF On
  <1> HIDE DEF r, w, len
  <1>8. InsertedAtEnd(r, l, n, Nodes, NULL)
    BY <1>6, InsertAtEndFields
  <1>9. \A i, j \in 1..Len(w) : w[i] = w[j] => i = j
    <2> SUFFICES ASSUME NEW i \in 1..(len + 1), NEW j \in 1..(len + 1), w[i] = w[j] PROVE i = j
      <3>1. Len(w) = len + 1
        BY <1>4
      <3> QED BY <3>1, Zenon
    <2>1. CASE i = len + 1 \/ j = len + 1
      BY <1>1, <1>4, <2>1
    <2>2. CASE i # len + 1 /\ j # len + 1
      <3>1. i \in 1..len /\ j \in 1..len /\ w[i] = q[i] /\ w[j] = q[j]
        BY <1>1, <1>4, <2>2
      <3> QED BY <1>3, <3>1, Zenon
    <2> QED BY <2>1, <2>2
  <1>10. w # <<>> /\ r.start = w[1] /\ r.end = w[Len(w)]
    BY <1>1, <1>2, <1>4, <1>8 DEF InsertedAtEnd
  <1>11. ASSUME NEW i \in 1..Len(w)
         PROVE  /\ r.next[w[i]] = IF i = Len(w) THEN NULL ELSE w[i + 1]
                /\ r.prev[w[i]] = IF i = 1 THEN NULL ELSE w[i - 1]
    <2>1. i \in 1..(len + 1) /\ i \in Nat /\ len \in Nat /\ Len(w) = len + 1
      BY <1>1, <1>4
    <2>2. CASE i = len + 1
      <3>1. w[i] = n /\ (i # 1 => w[i - 1] = q[len])
        BY <1>4, <2>1, <2>2
      <3>2. l.next[n] = NULL /\ l.prev[n] = NULL
        BY <1>2
      <3>3. n # l.end
        BY <1>1, <1>2
      <3>4. r.next[n] = NULL /\ r.prev[n] = IF l.end # NULL THEN l.end ELSE NULL
        BY <1>8, <3>2, <3>3 DEF InsertedAtEnd
      <3>5. CASE len = 0
        BY <1>2, <2>1, <2>2, <3>1, <3>4, <3>5
      <3>6. CASE len # 0
        <4>1. l.end = q[len] /\ q[len] \in Nodes
          BY <1>1, <1>2, <3>6
        <4> QED BY <2>1, <2>2, <3>1, <3>4, <3>6, <4>1
      <3> QED BY <3>5, <3>6
    <2>3. CASE i <= len
      <3>1. /\ i \in 1..len /\ w[i] = q[i] /\ q[i] \in Nodes /\ q[i] # n
            /\ (i # 1 => w[i - 1] = q[i - 1])
            /\ w[i + 1] = IF i = len THEN n ELSE q[i + 1]
        BY <1>1, <1>4, <2>1, <2>3
      <3>2. l.end = q[len] /\ len \in 1..len
        BY <1>2, <2>1, <2>3
      <3>3. q[i] = l.end <=> i = len
        BY <1>3, <3>1, <3>2
      <3>4. /\ l.next[q[i]] = IF i = len THEN NULL ELSE q[i + 1]
            /\ l.prev[q[i]] = IF i = 1 THEN NULL ELSE q[i - 1]
        BY <1>2, <3>1
      <3>5. r.next[w[i]] = IF i = len THEN n ELSE l.next[q[i]]
        BY <1>8, <3>1, <3>3 DEF InsertedAtEnd
      <3>6. r.prev[w[i]] = l.prev[q[i]]
        BY <1>8, <3>1 DEF InsertedAtEnd
      <3> QED BY <2>1, <2>3, <3>1, <3>4, <3>5, <3>6
    <2> QED BY <2>1, <2>2, <2>3
  <1>12. ASSUME NEW m \in Nodes \ On(w) PROVE r.next[m] = NULL /\ r.prev[m] = NULL
    <2>1. m \notin On(q) /\ m # n
      BY <1>5
    <2>2. l.next[m] = NULL /\ l.prev[m] = NULL
      BY <1>2, <2>1
    <2>3. m # l.end
      BY <1>2, <1>7, <2>1
    <2> QED BY <1>8, <2>1, <2>2, <2>3 DEF InsertedAtEnd
  <1>13. r.count = Len(w)
    BY <1>2, <1>4, <1>8 DEF InsertedAtEnd
  <1>14. Represents(r, w, Nodes, NULL)
    BY <1>9, <1>10, <1>11, <1>12, <1>13 DEF Represents, On
  <1> QED BY <1>14 DEF r, w
=============================================================================
