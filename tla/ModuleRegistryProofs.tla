------------------------ MODULE ModuleRegistryProofs ------------------------
(***************************************************************************)
(* Every initialiser runs at most once and is accounted for, for any       *)
(* number of modules and fibres.                                           *)
(***************************************************************************)
EXTENDS ModuleRegistry, WellFoundedInduction, TLAPS

RegistryTypeOK ==
    /\ m_userModules \in SUBSET UserModules
    /\ initialising \in [RegistryFibres -> Seq(UserModules)]
    /\ chain \in Seq(RegistryFibres)
    /\ complete \in SUBSET UserModules
    /\ failed \in SUBSET UserModules
    /\ starts \in [UserModules -> Nat]

(* The table m_userModules remembers every initialiser that was entered.    *)
StartedOnce == \A m \in UserModules : starts[m] = IF m \in m_userModules THEN 1 ELSE 0

(* Module m is at place i of the stack of fibre f. *)
At(f, i, m) == f \in RegistryFibres /\ i \in 1..Len(initialising[f]) /\ initialising[f][i] = m

OnSomeStack(m) == \E f, i : At(f, i, m)

(* Registered, and then exactly one of: complete, failed, at one place of   *)
(* one stack.                                                               *)
AccountedFor ==
    /\ \A m : m \in m_userModules <=> m \in complete \/ m \in failed \/ OnSomeStack(m)
    /\ \A m : ~(m \in complete /\ m \in failed)
    /\ \A m : OnSomeStack(m) => m \notin complete /\ m \notin failed
    /\ \A m, f, i, g, j : At(f, i, m) /\ At(g, j, m) => f = g /\ i = j

RegistryInv == RegistryTypeOK /\ StartedOnce /\ AccountedFor

(* The invariant says of the stacks what RegistryExact says. *)
LEMMA AccountedIsExact == RegistryInv => RegistryExact
  <1> SUFFICES ASSUME RegistryInv PROVE RegistryExact
    OBVIOUS
  <1>1. \A m : m \in InProgress <=> OnSomeStack(m)
    <2>1. \A f \in RegistryFibres : DOMAIN initialising[f] = 1..Len(initialising[f])
      BY DEF RegistryInv, RegistryTypeOK
    <2> QED BY <2>1 DEF InProgress, ToSet, OnSomeStack, At
  <1>2. \A m \in UserModules : starts[m] <= 1
    BY DEF RegistryInv, StartedOnce
  <1>3. m_userModules = complete \cup failed \cup InProgress
    BY <1>1 DEF RegistryInv, AccountedFor
  <1>4. complete \cap failed = {} /\ (complete \cup failed) \cap InProgress = {}
    BY <1>1 DEF RegistryInv, AccountedFor
  <1>5. ASSUME NEW f \in RegistryFibres, NEW g \in RegistryFibres,
               NEW i \in DOMAIN initialising[f], NEW j \in DOMAIN initialising[g],
               initialising[f][i] = initialising[g][j]
        PROVE  f = g /\ i = j
    <2>1. DOMAIN initialising[f] = 1..Len(initialising[f])
          /\ DOMAIN initialising[g] = 1..Len(initialising[g])
      BY DEF RegistryInv, RegistryTypeOK
    <2>2. At(f, i, initialising[f][i]) /\ At(g, j, initialising[f][i])
      BY <1>5, <2>1 DEF At
    <2> QED BY <2>2 DEF RegistryInv, AccountedFor
  <1> QED BY <1>2, <1>3, <1>4, <1>5 DEF RegistryExact

(* Nothing is registered when the program starts. *)
LEMMA RegistryInitInv == RegistryInit => RegistryInv
  <1> SUFFICES ASSUME RegistryInit PROVE RegistryInv
    OBVIOUS
  <1>1. RegistryTypeOK
    BY DEF RegistryInit, RegistryTypeOK
  <1>2. StartedOnce
    BY DEF RegistryInit, StartedOnce
  <1>3. \A m, f, i : ~At(f, i, m)
    BY DEF RegistryInit, At
  <1>4. AccountedFor
    BY <1>3 DEF RegistryInit, AccountedFor, OnSomeStack
  <1> QED BY <1>1, <1>2, <1>4 DEF RegistryInv

(* A module that is started on the stack of a fibre. *)
LEMMA InitModuleInv ==
    ASSUME RegistryInv, NEW f \in RegistryFibres, NEW m \in UserModules, InitModule(f, m),
           UNCHANGED <<complete, failed>>, chain' \in Seq(RegistryFibres)
    PROVE  RegistryInv'
  <1> DEFINE n == Len(initialising[f])
  <1>1. initialising[f] \in Seq(UserModules) /\ n \in Nat
    BY DEF RegistryInv, RegistryTypeOK
  <1>2. /\ initialising'[f] = Append(initialising[f], m)
        /\ \A g \in RegistryFibres : g # f => initialising'[g] = initialising[g]
        /\ initialising' \in [RegistryFibres -> Seq(UserModules)]
    BY <1>1 DEF InitModule, RegistryInv, RegistryTypeOK
  <1>3. RegistryTypeOK'
    BY <1>2 DEF InitModule, RegistryInv, RegistryTypeOK
  <1>4. StartedOnce'
    BY DEF InitModule, RegistryInv, RegistryTypeOK, StartedOnce
  <1>5. \A g, i, k : At(g, i, k)' <=> At(g, i, k) \/ (g = f /\ i = n + 1 /\ k = m)
    <2> TAKE g, i, k
    <2>1. CASE g = f
      <3>1. At(g, i, k)' <=> i \in 1..(n + 1) /\ (IF i <= n THEN initialising[f][i] ELSE m) = k
        BY <1>1, <1>2, <2>1 DEF At
      <3>2. At(g, i, k) <=> i \in 1..n /\ initialising[f][i] = k
        BY <1>1, <2>1 DEF At
      <3> QED BY <1>1, <2>1, <3>1, <3>2
    <2>2. CASE g # f
      BY <1>2, <2>2 DEF At
    <2> QED BY <2>1, <2>2
  <1>6. \A k : OnSomeStack(k)' <=> OnSomeStack(k) \/ k = m
    BY <1>5 DEF OnSomeStack
  <1>7. m \notin m_userModules /\ m_userModules' = m_userModules \cup {m}
    BY DEF InitModule
  <1>8. ~OnSomeStack(m) /\ m \notin complete /\ m \notin failed
    BY <1>7 DEF RegistryInv, AccountedFor
  <1>9. AccountedFor'
    BY <1>5, <1>6, <1>7, <1>8 DEF RegistryInv, AccountedFor, OnSomeStack
  <1> QED BY <1>3, <1>4, <1>9 DEF RegistryInv

(* A step that leaves the registry and the stacks alone. *)
LEMMA SameStacksInv ==
    ASSUME RegistryInv, UNCHANGED <<m_userModules, initialising, starts, complete, failed>>,
           chain' \in Seq(RegistryFibres)
    PROVE  RegistryInv'
  <1>1. RegistryTypeOK' /\ StartedOnce'
    BY DEF RegistryInv, RegistryTypeOK, StartedOnce
  <1>2. \A f, i, m : At(f, i, m)' <=> At(f, i, m)
    BY DEF At
  <1>3. AccountedFor'
    BY <1>2 DEF RegistryInv, AccountedFor, OnSomeStack
  <1> QED BY <1>1, <1>3 DEF RegistryInv

(* While a program runs, one of its fibres is the running one; the others   *)
(* are still a chain without it.                                            *)
LEMMA ChainFacts ==
    ASSUME RegistryInv, Runs
    PROVE  /\ RunningFibre \in RegistryFibres
           /\ Front(chain) \in Seq(RegistryFibres)
           /\ Importing \in Seq(UserModules)
  <1>1. chain \in Seq(RegistryFibres) /\ chain # <<>>
    BY DEF RegistryInv, RegistryTypeOK, Runs
  <1>2. Len(chain) \in 1..Len(chain)
    BY <1>1
  <1>3. RunningFibre \in RegistryFibres
    BY <1>1, <1>2 DEF RunningFibre
  <1>4. Front(chain) \in Seq(RegistryFibres)
    BY <1>1, <1>2 DEF Front
  <1> QED BY <1>3, <1>4 DEF Importing, RegistryInv, RegistryTypeOK

(* An initialiser that returns leaves the top of its stack and is complete. *)
LEMMA ReturnsInv ==
    ASSUME RegistryInv, InitialiserReturns
    PROVE  RegistryInv'
  <1> DEFINE f == RunningFibre
             q == initialising[f]
             n == Len(q)
             m == q[n]
  <1>1. f \in RegistryFibres /\ q \in Seq(UserModules) /\ q # <<>>
    BY ChainFacts DEF InitialiserReturns, Importing
  <1>2. n \in Nat /\ n >= 1 /\ m \in UserModules
    BY <1>1
  <1>3. /\ initialising' = [initialising EXCEPT ![f] = Front(q)]
        /\ complete' = complete \cup {m}
        /\ chain' = <<>> \/ chain' = chain
        /\ UNCHANGED <<m_userModules, failed, starts>>
    BY DEF InitialiserReturns, Importing
  <1> HIDE DEF f
  <1>4. Front(q) \in Seq(UserModules) /\ Len(Front(q)) = n - 1
        /\ \A i \in 1..(n - 1) : Front(q)[i] = q[i]
    BY <1>1, <1>2 DEF Front
  <1>5. /\ initialising'[f] = Front(q)
        /\ \A g \in RegistryFibres : g # f => initialising'[g] = initialising[g]
        /\ initialising' \in [RegistryFibres -> Seq(UserModules)]
    BY <1>1, <1>3, <1>4 DEF RegistryInv, RegistryTypeOK
  <1>6. RegistryTypeOK' /\ StartedOnce'
    <2> HIDE DEF m
    <2>1. complete' \in SUBSET UserModules
      BY <1>2, <1>3 DEF RegistryInv, RegistryTypeOK
    <2>2. chain' \in Seq(RegistryFibres)
      <3>1. chain \in Seq(RegistryFibres) /\ <<>> \in Seq(RegistryFibres)
        BY DEF RegistryInv, RegistryTypeOK
      <3>2. chain' = <<>> \/ chain' = chain
        BY <1>3
      <3> QED BY <3>1, <3>2, Zenon
    <2> QED BY <1>3, <1>5, <2>1, <2>2 DEF RegistryInv, RegistryTypeOK, StartedOnce
  <1>7. At(f, n, m)
    BY <1>1, <1>2 DEF At
  <1>8. \A g, i, k : At(g, i, k)' <=> At(g, i, k) /\ ~(g = f /\ i = n)
    <2> TAKE g, i, k
    <2>1. CASE g = f
      <3>1. At(g, i, k)' <=> i \in 1..(n - 1) /\ q[i] = k
        BY <1>1, <1>4, <1>5, <2>1 DEF At
      <3>2. At(g, i, k) <=> i \in 1..n /\ q[i] = k
        BY <1>1, <2>1 DEF At
      <3> QED BY <1>2, <2>1, <3>1, <3>2
    <2>2. CASE g # f
      BY <1>5, <2>2 DEF At
    <2> QED BY <2>1, <2>2
  <1>9. \A g, i, k : At(g, i, k) /\ k = m => g = f /\ i = n
    BY <1>7 DEF RegistryInv, AccountedFor
  <1>10. \A k : OnSomeStack(k)' <=> OnSomeStack(k) /\ k # m
    <2> HIDE DEF m, n
    <2>1. ASSUME NEW k, OnSomeStack(k)' PROVE OnSomeStack(k) /\ k # m
      BY <1>8, <1>9, <2>1 DEF OnSomeStack
    <2>2. ASSUME NEW k, OnSomeStack(k), k # m PROVE OnSomeStack(k)'
      <3>1. PICK g, i : At(g, i, k)
        BY <2>2 DEF OnSomeStack
      <3>2. ~(g = f /\ i = n)
        BY <1>7, <2>2, <3>1 DEF At
      <3> QED BY <1>8, <3>1, <3>2 DEF OnSomeStack
    <2> QED BY <2>1, <2>2
  <1>11. OnSomeStack(m)
    BY <1>7 DEF OnSomeStack
  <1> HIDE DEF m, n, q
  <1>12. AccountedFor'
    BY <1>3, <1>8, <1>10, <1>11 DEF RegistryInv, AccountedFor
  <1> QED BY <1>6, <1>12 DEF RegistryInv

(* An abort empties the stack of the running fibre; what was on it failed.  *)
LEMMA AbortInv ==
    ASSUME RegistryInv, AbortFibre
    PROVE  RegistryInv'
  <1> DEFINE f == RunningFibre
             q == initialising[f]
  <1>1. f \in RegistryFibres /\ q \in Seq(UserModules) /\ chain' \in Seq(RegistryFibres)
    BY ChainFacts DEF AbortFibre, Importing
  <1>2. /\ initialising' = [initialising EXCEPT ![f] = <<>>]
        /\ failed' = failed \cup ToSet(q)
        /\ UNCHANGED <<m_userModules, complete, starts>>
    BY DEF AbortFibre, Importing
  <1> HIDE DEF f
  <1>3. /\ initialising'[f] = <<>>
        /\ \A g \in RegistryFibres : g # f => initialising'[g] = initialising[g]
        /\ initialising' \in [RegistryFibres -> Seq(UserModules)]
    BY <1>1, <1>2 DEF RegistryInv, RegistryTypeOK
  <1>4. \A k : k \in ToSet(q) <=> \E i : At(f, i, k)
    BY <1>1 DEF ToSet, At
  <1>5. \A k \in ToSet(q) : k \in UserModules
    BY <1>1 DEF ToSet
  <1>6. RegistryTypeOK' /\ StartedOnce'
    BY <1>1, <1>2, <1>3, <1>5 DEF RegistryInv, RegistryTypeOK, StartedOnce
  <1>7. \A g, i, k : At(g, i, k)' <=> At(g, i, k) /\ g # f
    BY <1>3 DEF At
  <1>8. \A k : OnSomeStack(k)' <=> OnSomeStack(k) /\ k \notin ToSet(q)
    BY <1>4, <1>7 DEF OnSomeStack, RegistryInv, AccountedFor
  <1>9. \A k \in ToSet(q) : OnSomeStack(k)
    BY <1>4 DEF OnSomeStack
  <1> HIDE DEF q
  <1>10. AccountedFor'
    BY <1>2, <1>7, <1>8, <1>9 DEF RegistryInv, AccountedFor
  <1> QED BY <1>6, <1>10 DEF RegistryInv

(* Every step preserves the invariant. *)
LEMMA RegistryNextInv == RegistryInv /\ [RegistryNext]_registryVars => RegistryInv'
  <1> SUFFICES ASSUME RegistryInv, [RegistryNext]_registryVars PROVE RegistryInv'
    OBVIOUS
  <1>0. chain \in Seq(RegistryFibres)
    BY DEF RegistryInv, RegistryTypeOK
  <1>1. ASSUME NEW m \in HostModules, RequestModule(m) PROVE RegistryInv'
    <2>1. CASE InitModule(MainFibre, m) /\ chain' = <<MainFibre>>
      <3>1. m \in UserModules /\ MainFibre \in RegistryFibres
        BY RegistryAssumption DEF RegistryFibres
      <3>2. chain' \in Seq(RegistryFibres)
        BY <2>1, <3>1
      <3>3. UNCHANGED <<complete, failed>>
        BY <1>1 DEF RequestModule
      <3> QED BY <2>1, <3>1, <3>2, <3>3, InitModuleInv
    <2>2. CASE UNCHANGED <<m_userModules, initialising, starts, early, chain>>
      BY <1>0, <1>1, <2>2, SameStacksInv DEF RequestModule
    <2> QED BY <1>1, <2>1, <2>2 DEF RequestModule
  <1>2. ASSUME NEW m \in UserModules, Import(m) PROVE RegistryInv'
    <2>1. Runs /\ UNCHANGED <<chain, complete, failed>>
      BY <1>2 DEF Import
    <2>2. CASE InitModule(RunningFibre, m)
      BY <1>0, <2>1, <2>2, ChainFacts, InitModuleInv
    <2>3. CASE UNCHANGED <<m_userModules, initialising, starts>>
      BY <1>0, <2>1, <2>3, SameStacksInv
    <2> QED BY <1>2, <2>2, <2>3 DEF Import
  <1>3. CASE AssignVariable
    BY <1>0, <1>3, SameStacksInv DEF AssignVariable
  <1>4. CASE InitialiserReturns
    BY <1>4, ReturnsInv
  <1>5. ASSUME NEW f \in ImportFibres, TryFibre(f) PROVE RegistryInv'
    <2>1. chain' \in Seq(RegistryFibres)
      BY <1>0, <1>5 DEF TryFibre, RegistryFibres
    <2> QED BY <1>5, <2>1, SameStacksInv DEF TryFibre
  <1>6. CASE YieldFibre
    BY <1>6, ChainFacts, SameStacksInv DEF YieldFibre
  <1>7. CASE FibreReturns
    BY <1>7, ChainFacts, SameStacksInv DEF FibreReturns
  <1>8. CASE AbortFibre
    BY <1>8, AbortInv
  <1>9. CASE UNCHANGED registryVars
    BY <1>0, <1>9, SameStacksInv DEF registryVars
  <1> QED
    BY <1>1, <1>2, <1>3, <1>4, <1>5, <1>6, <1>7, <1>8, <1>9 DEF RegistryNext

(* However imports form cycles, fibres overlap, initialisers fail and the   *)
(* host asks again, GetOrInitModule enters the initialiser of a module at   *)
(* most once, and each run is complete, failed or on exactly one stack.     *)
THEOREM RegistryCorrect == RegistrySpec => []RegistryExact
  BY RegistryInitInv, RegistryNextInv, AccountedIsExact, PTL DEF RegistrySpec

(***************************************************************************)
(* A variable without its value is the program's own doing.                *)
(***************************************************************************)
InChain(f) == \E j \in 1..Len(chain) : chain[j] = f

TopOf(f, x) == f \in RegistryFibres /\ At(f, Len(initialising[f]), x)

(* The fibres between places j and k of the chain have no initialiser on    *)
(* their stacks.                                                            *)
NoneBetween(j, k) ==
    \A l \in 1..Len(chain) : j < l /\ l < k => initialising[chain[l]] = <<>>

(* Who waits for whom: main at the bottom, no fibre twice, and no module of *)
(* a fibre outside of the chain but those that were left by a yield.        *)
ChainInv ==
    /\ \A i, j \in 1..Len(chain) : chain[i] = chain[j] => i = j
    /\ idle \subseteq ImportFibres
    /\ \A i \in 1..Len(chain) : chain[i] \notin idle
    /\ Len(chain) # 0 => chain[1] = MainFibre
    /\ Len(chain) = 0 => initialising[MainFibre] = <<>>
    /\ \A f, i, m : At(f, i, m) => InChain(f) \/ m \in interrupted

(* Each initialiser in the chain needs the next one to return. *)
LinkInv ==
    /\ depends \subseteq UserModules \X UserModules
    /\ \A f, i, x, y : At(f, i, x) /\ At(f, i + 1, y) => <<x, y>> \in depends
    /\ \A j, k \in 1..Len(chain) : j < k /\ NoneBetween(j, k) =>
         \A x, y : TopOf(chain[j], x) /\ At(chain[k], 1, y) => <<x, y>> \in depends

EarlyInv ==
    /\ complete \subseteq assigned
    /\ early \subseteq UserModules
    /\ EarlyOnlyInCycle

CycleInv == RegistryInv /\ ChainInv /\ LinkInv /\ EarlyInv

(* What a push, a pop and an abort do to the stacks. *)
LEMMA PushEffect ==
    ASSUME RegistryTypeOK, NEW f \in RegistryFibres, NEW m \in UserModules,
           initialising' = [initialising EXCEPT ![f] = Append(@, m)]
    PROVE  /\ initialising'[f] # <<>> /\ Len(initialising'[f]) = Len(initialising[f]) + 1
           /\ \A g \in RegistryFibres : g # f => initialising'[g] = initialising[g]
           /\ \A g, i, k : At(g, i, k)' <=>
                At(g, i, k) \/ (g = f /\ i = Len(initialising[f]) + 1 /\ k = m)
  <1> DEFINE n == Len(initialising[f])
  <1>1. initialising[f] \in Seq(UserModules) /\ n \in Nat
    BY DEF RegistryTypeOK
  <1>2. /\ initialising'[f] = Append(initialising[f], m)
        /\ \A g \in RegistryFibres : g # f => initialising'[g] = initialising[g]
    BY <1>1 DEF RegistryTypeOK
  <1>3. initialising'[f] # <<>> /\ Len(initialising'[f]) = n + 1
    <2>1. Len(Append(initialising[f], m)) = n + 1 /\ Len(<<>>) = 0 /\ n + 1 # 0
      BY <1>1
    <2> QED BY <1>2, <2>1
  <1>4. ASSUME NEW g, NEW i, NEW k
        PROVE  At(g, i, k)' <=> At(g, i, k) \/ (g = f /\ i = n + 1 /\ k = m)
    <2>1. CASE g = f
      <3>1. At(g, i, k)' <=> i \in 1..(n + 1) /\ (IF i <= n THEN initialising[f][i] ELSE m) = k
        BY <1>1, <1>2, <2>1 DEF At
      <3>2. At(g, i, k) <=> i \in 1..n /\ initialising[f][i] = k
        BY <1>1, <2>1 DEF At
      <3> QED BY <1>1, <2>1, <3>1, <3>2
    <2>2. CASE g # f
      BY <1>2, <2>2 DEF At
    <2> QED BY <2>1, <2>2
  <1> QED BY <1>2, <1>3, <1>4

(* The top leaves a stack. *)
LEMMA PopEffect ==
    ASSUME RegistryTypeOK, NEW f \in RegistryFibres, initialising[f] # <<>>,
           initialising' = [initialising EXCEPT ![f] = Front(@)]
    PROVE  /\ Len(initialising[f]) = 1 => initialising'[f] = <<>>
           /\ \A g \in RegistryFibres : g # f => initialising'[g] = initialising[g]
           /\ \A g, i, k : At(g, i, k)' <=>
                At(g, i, k) /\ ~(g = f /\ i = Len(initialising[f]))
  <1> DEFINE q == initialising[f]
             n == Len(q)
  <1>1. q \in Seq(UserModules) /\ n \in Nat /\ n >= 1
    BY DEF RegistryTypeOK
  <1>2. Front(q) \in Seq(UserModules) /\ Len(Front(q)) = n - 1
        /\ \A i \in 1..(n - 1) : Front(q)[i] = q[i]
    BY <1>1 DEF Front
  <1>3. /\ initialising'[f] = Front(q)
        /\ \A g \in RegistryFibres : g # f => initialising'[g] = initialising[g]
    BY DEF RegistryTypeOK
  <1>4. n = 1 => initialising'[f] = <<>>
    BY <1>1, <1>2, <1>3
  <1>5. ASSUME NEW g, NEW i, NEW k
        PROVE  At(g, i, k)' <=> At(g, i, k) /\ ~(g = f /\ i = n)
    <2>1. CASE g = f
      <3>1. At(g, i, k)' <=> i \in 1..(n - 1) /\ q[i] = k
        BY <1>2, <1>3, <2>1 DEF At
      <3>2. At(g, i, k) <=> i \in 1..n /\ q[i] = k
        BY <1>1, <2>1 DEF At
      <3> QED BY <1>1, <2>1, <3>1, <3>2
    <2>2. CASE g # f
      BY <1>3, <2>2 DEF At
    <2> QED BY <2>1, <2>2
  <1> QED BY <1>3, <1>4, <1>5

(* A stack is emptied. *)
LEMMA ClearEffect ==
    ASSUME RegistryTypeOK, NEW f \in RegistryFibres,
           initialising' = [initialising EXCEPT ![f] = <<>>]
    PROVE  /\ initialising'[f] = <<>>
           /\ \A g \in RegistryFibres : g # f => initialising'[g] = initialising[g]
           /\ \A g, i, k : At(g, i, k)' <=> At(g, i, k) /\ g # f
  <1>1. /\ initialising'[f] = <<>>
        /\ \A g \in RegistryFibres : g # f => initialising'[g] = initialising[g]
    BY DEF RegistryTypeOK
  <1>2. \A g, i, k : At(g, i, k)' <=> At(g, i, k) /\ g # f
    BY <1>1 DEF At
  <1> QED BY <1>1, <1>2

(* What the innermost initialiser is: the top of the running fibre's stack  *)
(* or, if that is empty, of the last one below it that is not.              *)
LEMMA InnermostIs ==
    ASSUME RegistryTypeOK, NEW j \in 1..Len(chain), NEW x, TopOf(chain[j], x),
           NoneBetween(j, Len(chain) + 1)
    PROVE  Innermost = {x}
  <1> DEFINE n == Len(chain)
  <1>1. chain \in Seq(RegistryFibres) /\ n \in Nat /\ DOMAIN chain = 1..n
    BY DEF RegistryTypeOK
  <1>2. /\ chain[j] \in RegistryFibres /\ initialising[chain[j]] \in Seq(UserModules)
        /\ x = Last(initialising[chain[j]]) /\ initialising[chain[j]] # <<>>
    <2> DEFINE q == initialising[chain[j]]
    <2>1. chain[j] \in RegistryFibres /\ q \in Seq(UserModules)
      BY <1>1 DEF RegistryTypeOK
    <2>2. Len(q) \in 1..Len(q) /\ x = q[Len(q)]
      BY DEF TopOf, At
    <2>3. q # <<>>
      BY <2>1, <2>2
    <2> QED BY <2>1, <2>2, <2>3 DEF Last
  <1>3. j \in Busy
    BY <1>1, <1>2 DEF Busy
  <1>4. \A l \in Busy : l \in 1..n /\ l <= j
    <2> TAKE l \in Busy
    <2>1. l \in 1..n /\ initialising[chain[l]] # <<>>
      BY <1>1 DEF Busy
    <2>2. ~(j < l /\ l < n + 1)
      BY <2>1 DEF NoneBetween
    <2> QED BY <1>1, <2>1, <2>2
  <1>5. {i \in Busy : \A l \in Busy : l <= i} = {j}
    <2>1. ASSUME NEW i \in Busy, \A l \in Busy : l <= i PROVE i = j
      <3>1. i \in Int /\ j \in Int /\ i <= j /\ j <= i
        BY <1>1, <1>3, <1>4, <2>1
      <3> QED BY <3>1
    <2>2. \A l \in Busy : l <= j
      BY <1>4
    <2> QED BY <1>3, <2>1, <2>2
  <1> QED BY <1>2, <1>5 DEF Innermost


(* It is a module. *)
LEMMA InnermostTyped ==
    ASSUME RegistryTypeOK PROVE Innermost \subseteq UserModules
  <1>1. ASSUME NEW l \in Busy PROVE Last(initialising[chain[l]]) \in UserModules
    <2>1. initialising[chain[l]] \in Seq(UserModules) /\ initialising[chain[l]] # <<>>
      BY DEF Busy, RegistryTypeOK
    <2> QED BY <2>1 DEF Last
  <1> QED BY <1>1 DEF Innermost

(* What was early before stays excused. *)
LEMMA EarlyKept ==
    ASSUME EarlyInv, early' = early, complete' \subseteq assigned',
           failed \subseteq failed', interrupted \subseteq interrupted',
           depends \subseteq depends'
    PROVE  EarlyInv'
  <1>1. ASSUME NEW m, DependsOnItself(m) PROVE DependsOnItself(m)'
    BY <1>1 DEF DependsOnItself
  <1> QED BY <1>1 DEF EarlyInv, EarlyOnlyInCycle

(* A step that leaves the stacks and the chain alone. *)
LEMMA ChainKept ==
    ASSUME ChainInv, UNCHANGED <<initialising, chain, idle, interrupted>>
    PROVE  ChainInv'
  BY DEF ChainInv, At, InChain

(* The same with more dependencies. *)
LEMMA LinkKept ==
    ASSUME LinkInv, UNCHANGED <<initialising, chain>>, depends \subseteq depends',
           depends' \subseteq UserModules \X UserModules
    PROVE  LinkInv'
  BY DEF LinkInv, At, TopOf, NoneBetween

(* A set of natural numbers has a least element. *)
LEMMA LeastOf ==
    ASSUME NEW S, S \subseteq Nat, S # {}
    PROVE  \E n \in S : \A k \in S : n <= k
  <1>1. PICK n \in S : \A k \in S : ~(<<k, n>> \in OpToRel(<, Nat))
    BY WFMin, NatLessThanWellFounded, Zenon
  <1>2. \A k \in S : ~(k < n)
    BY <1>1 DEF OpToRel
  <1> QED BY <1>2

(* ... and a greatest, if something is above all of them.                   *)
LEMMA GreatestBelow ==
    ASSUME NEW S, NEW b \in Nat, S \subseteq 0..b, S # {}
    PROVE  \E n \in S : \A k \in S : k <= n
  <1> DEFINE T == {b - k : k \in S}
  <1>1. T \subseteq Nat /\ T # {}
    <2>1. \A k \in S : b - k \in Nat
      OBVIOUS
    <2>2. PICK k \in S : TRUE
      OBVIOUS
    <2> QED BY <2>1, <2>2
  <1>2. PICK t \in T : \A k \in T : t <= k
    BY <1>1, LeastOf
  <1>3. PICK n \in S : t = b - n
    OBVIOUS
  <1>4. \A k \in S : b - n <= b - k
    BY <1>2, <1>3
  <1> QED BY <1>4


(* A set that holds what its members need holds a stack from where it       *)
(* enters it to the top...                                                  *)
LEMMA StackIn ==
    ASSUME RegistryTypeOK, LinkInv, NEW Y, \A x, y : x \in Y /\ <<x, y>> \in depends => y \in Y,
           NEW g, NEW s, NEW x, At(g, s, x), x \in Y,
           NEW t, NEW z, At(g, t, z), s <= t
    PROVE  z \in Y
  <1> DEFINE len == Len(initialising[g])
             bad == {k \in 1..len : s <= k /\ initialising[g][k] \notin Y}
  <1>1. g \in RegistryFibres /\ initialising[g] \in Seq(UserModules) /\ len \in Nat
        /\ s \in 1..len /\ t \in 1..len /\ initialising[g][s] = x /\ initialising[g][t] = z
    BY DEF At, RegistryTypeOK
  <1>2. SUFFICES ASSUME bad # {} PROVE FALSE
    BY <1>1
  <1>3. PICK k \in bad : \A b \in bad : k <= b
    <2>1. bad \subseteq Nat /\ bad # {}
      BY <1>1, <1>2
    <2> HIDE DEF bad
    <2> QED BY <2>1, LeastOf
  <1>4. k \in 1..len /\ s <= k /\ k # s /\ initialising[g][k] \notin Y
    BY <1>1, <1>3
  <1>5. k - 1 \in 1..len /\ s <= k - 1 /\ ~(k <= k - 1) /\ (k - 1) + 1 = k
    BY <1>1, <1>4
  <1>6. initialising[g][k - 1] \in Y
    BY <1>3, <1>5
  <1>7. At(g, k - 1, initialising[g][k - 1]) /\ At(g, (k - 1) + 1, initialising[g][k])
    BY <1>1, <1>4, <1>5 DEF At
  <1>8. <<initialising[g][k - 1], initialising[g][k]>> \in depends
    BY <1>7 DEF LinkInv
  <1> QED BY <1>4, <1>6, <1>8

(* ... and then the chain to the innermost initialiser.                     *)
LEMMA ChainIn ==
    ASSUME RegistryTypeOK, LinkInv, NEW Y, \A x, y : x \in Y /\ <<x, y>> \in depends => y \in Y,
           NEW j \in 1..Len(chain), NEW i, NEW x, At(chain[j], i, x), x \in Y
    PROVE  \E w \in Y : Innermost = {w}
  <1> DEFINE n == Len(chain)
             q(l) == initialising[chain[l]]
             top(l) == q(l)[Len(q(l))]
             busy == {l \in 1..n : q(l) # <<>>}
             bad == {k \in busy : j <= k /\ top(k) \notin Y}
  <1>1. n \in Nat /\ \A l \in 1..n : chain[l] \in RegistryFibres /\ q(l) \in Seq(UserModules)
    BY DEF RegistryTypeOK
  <1>2. ASSUME NEW l \in busy
        PROVE  l \in 1..n /\ TopOf(chain[l], top(l)) /\ At(chain[l], 1, q(l)[1])
               /\ Len(q(l)) \in Nat /\ 1 <= Len(q(l))
    <2>1. l \in 1..n /\ chain[l] \in RegistryFibres /\ q(l) \in Seq(UserModules) /\ q(l) # <<>>
      BY <1>1
    <2>2. Len(q(l)) \in Nat /\ 1 <= Len(q(l)) /\ Len(q(l)) \in 1..Len(q(l)) /\ 1 \in 1..Len(q(l))
      BY <2>1
    <2> QED BY <2>1, <2>2 DEF TopOf, At
  <1>3. j \in busy /\ i \in 1..Len(q(j))
    <2>1. i \in 1..Len(q(j)) /\ q(j) \in Seq(UserModules)
      BY <1>1 DEF At
    <2> QED BY <2>1
  <1> HIDE DEF q, top, busy
  <1>4. bad = {}
    <2> SUFFICES ASSUME bad # {} PROVE FALSE
      OBVIOUS
    <2>1. busy \subseteq 1..n
      BY <1>2
    <2>2. PICK k \in bad : \A b \in bad : k <= b
      <3>1. bad \subseteq Nat /\ bad # {}
        <4>1. \A b \in busy : b \in Nat
          BY <1>1, <2>1
        <4> QED BY <4>1, Zenon
      <3> HIDE DEF bad
      <3> QED BY <3>1, LeastOf
    <2>3. k \in busy /\ k \in 1..n /\ j <= k /\ top(k) \notin Y /\ TopOf(chain[k], top(k))
      BY <1>2, <2>2
    <2>4. \E s, y : At(chain[k], s, y) /\ y \in Y /\ s \in Nat /\ s <= Len(q(k))
      <3>1. CASE k = j
        BY <1>3, <3>1
      <3>2. CASE k # j
        <4> DEFINE below == {l \in busy : l < k}
        <4>1. j \in below /\ below \subseteq 0..n
          <5>1. \A b \in busy : b \in 0..n
            BY <1>1, <2>1
          <5>2. j < k
            BY <1>1, <2>3, <3>2
          <5> QED BY <1>3, <5>1, <5>2, Zenon
        <4>2. PICK l \in below : \A b \in below : b <= l
          <5> HIDE DEF below
          <5> QED BY <1>1, <4>1, GreatestBelow
        <4>3. l \in busy /\ l \in 1..n /\ l < k /\ j <= l
          BY <1>2, <4>1, <4>2
        <4>4. NoneBetween(l, k)
          <5> SUFFICES ASSUME NEW b \in 1..n, l < b, b < k PROVE initialising[chain[b]] = <<>>
            BY DEF NoneBetween
          <5>1. ~(b <= l)
            BY <1>1, <4>3
          <5>2. b \notin busy
            BY <4>2, <5>1
          <5> QED BY <5>2 DEF busy, q
        <4>5. top(l) \in Y
          <5>1. ~(k <= l)
            BY <1>1, <2>3, <4>3
          <5> QED BY <2>2, <4>3, <5>1
        <4>6. TopOf(chain[l], top(l)) /\ At(chain[k], 1, q(k)[1]) /\ 1 <= Len(q(k))
          BY <1>2, <2>3, <4>3
        <4>7. <<top(l), q(k)[1]>> \in depends
          BY <2>3, <4>3, <4>4, <4>6 DEF LinkInv
        <4>8. q(k)[1] \in Y
          BY <4>5, <4>7
        <4> QED BY <4>6, <4>8
      <3> QED BY <3>1, <3>2
    <2>5. PICK s, y : At(chain[k], s, y) /\ y \in Y /\ s \in Nat /\ s <= Len(q(k))
      BY <2>4
    <2>6. At(chain[k], Len(q(k)), top(k))
      BY <2>3 DEF TopOf, q
    <2> QED BY <2>3, <2>5, <2>6, StackIn
  <1>5. PICK l \in busy : \A b \in busy : b <= l
    <2>1. busy \subseteq 0..n /\ busy # {}
      BY <1>1, <1>2, <1>3
    <2> QED BY <1>1, <2>1, GreatestBelow
  <1>6. l \in 1..n /\ TopOf(chain[l], top(l)) /\ top(l) \in Y
    BY <1>2, <1>3, <1>4, <1>5
  <1>7. NoneBetween(l, n + 1)
    <2> SUFFICES ASSUME NEW b \in 1..n, l < b PROVE initialising[chain[b]] = <<>>
      BY DEF NoneBetween
    <2>1. ~(b <= l)
      BY <1>1, <1>6
    <2>2. b \notin busy
      BY <1>5, <2>1
    <2> QED BY <2>2 DEF busy, q
  <1> QED BY <1>6, <1>7, InnermostIs

(* An import that finds no value although the module's initialiser neither  *)
(* failed nor was left by a yield: the importer is what the module waits    *)
(* for.                                                                     *)
LEMMA EarlyAtImport ==
    ASSUME CycleInv, NEW m \in m_userModules, m \notin assigned,
           m \notin failed, m \notin interrupted, DependsOn({m})
    PROVE  DependsOnItself(m)'
  <1>0. m \in UserModules
    BY DEF CycleInv, RegistryInv, RegistryTypeOK
  <1>1. m \notin complete
    BY DEF CycleInv, EarlyInv
  <1>2. PICK f, i : At(f, i, m)
    BY <1>1 DEF CycleInv, RegistryInv, AccountedFor, OnSomeStack
  <1>3. PICK j \in 1..Len(chain) : chain[j] = f
    BY <1>2 DEF CycleInv, ChainInv, InChain
  <1>4. depends' = depends \cup (Innermost \X {m})
    <2>1. {m} \ (complete \cup failed) = {m}
      BY <1>1
    <2> QED BY <2>1 DEF DependsOn
  <1>5. ASSUME NEW X \in SUBSET UserModules,
               \A x \in X \cup {m}, y \in UserModules : <<x, y>> \in depends' => y \in X
        PROVE  m \in X
    <2> DEFINE Y == X \cup {m}
    <2>1. \A x, y : x \in Y /\ <<x, y>> \in depends => y \in Y
      BY <1>4, <1>5 DEF CycleInv, LinkInv
    <2>2. m \in Y /\ At(chain[j], i, m)
      BY <1>2, <1>3
    <2>3. RegistryTypeOK /\ LinkInv
      BY DEF CycleInv, RegistryInv
    <2> HIDE DEF Y
    <2>4. PICK w \in Y : Innermost = {w}
      BY <2>1, <2>2, <2>3, ChainIn
    <2>5. <<w, m>> \in depends'
      BY <1>4, <2>4
    <2> QED BY <1>0, <1>5, <2>4, <2>5 DEF Y
  <1> QED BY <1>5 DEF DependsOnItself


(* The running fibre is the last of the chain, and only there. *)
LEMMA RunningPlace ==
    ASSUME RegistryTypeOK, ChainInv, Runs
    PROVE  /\ Len(chain) \in Nat /\ Len(chain) >= 1 /\ chain[Len(chain)] = RunningFibre
           /\ RunningFibre \in RegistryFibres
           /\ \A l \in 1..Len(chain) : chain[l] \in RegistryFibres
           /\ \A l \in 1..Len(chain) : chain[l] = RunningFibre => l = Len(chain)
  <1>1. chain \in Seq(RegistryFibres) /\ chain # <<>>
    BY DEF RegistryTypeOK, Runs
  <1>2. Len(chain) \in Nat /\ Len(chain) >= 1 /\ Len(chain) \in 1..Len(chain)
    BY <1>1
  <1>3. \A l \in 1..Len(chain) : chain[l] \in RegistryFibres
    BY <1>1
  <1> QED BY <1>2, <1>3 DEF RunningFibre, ChainInv

(* A sequence without its last element. *)
LEMMA FrontIs ==
    ASSUME NEW T, NEW q \in Seq(T), q # <<>>
    PROVE  /\ Len(Front(q)) = Len(q) - 1
           /\ \A l \in 1..(Len(q) - 1) : Front(q)[l] = q[l]
  <1>0. Len(q) \in Nat /\ Len(q) >= 1
    OBVIOUS
  <1>1. PICK m \in 0..Len(q) : m = Len(q) - 1
    <2>1. Len(q) - 1 \in 0..Len(q)
      BY <1>0
    <2> QED BY <2>1
  <1>2. Len(SubSeq(q, 1, m)) = m
    OBVIOUS
  <1>3. \A l \in 1..m : SubSeq(q, 1, m)[l] = q[l]
    OBVIOUS
  <1> QED BY <1>1, <1>2, <1>3 DEF Front

(* The chain without its last fibre. *)
LEMMA FrontOfChain ==
    ASSUME RegistryTypeOK, Runs
    PROVE  /\ Len(Front(chain)) = Len(chain) - 1
           /\ \A l \in 1..(Len(chain) - 1) : Front(chain)[l] = chain[l]
  <1>1. chain \in Seq(RegistryFibres) /\ chain # <<>>
    BY DEF RegistryTypeOK, Runs
  <1> QED BY <1>1, FrontIs

(* Steps that take something off the running fibre's stack, or end it.      *)
LEMMA LinkShrinks ==
    ASSUME RegistryTypeOK, ChainInv, LinkInv, Runs, depends' = depends,
           chain' = chain \/ chain' = Front(chain) \/ chain' = <<>>,
           \A g \in RegistryFibres : g # RunningFibre => initialising'[g] = initialising[g],
           \A g, i, x : At(g, i, x)' => At(g, i, x)
    PROVE  LinkInv'
  <1> DEFINE n == Len(chain)
  <1>1. n \in Nat /\ n >= 1
    BY RunningPlace
  <1>2. /\ \A l \in 1..n : l < n => chain[l] \in RegistryFibres /\ chain[l] # RunningFibre
        /\ \A l \in 1..n : chain[l] \in RegistryFibres
    BY RunningPlace
  <1>3. Len(chain') \in Nat /\ Len(chain') <= n /\ \A l \in 1..Len(chain') : chain'[l] = chain[l]
    <2>1. CASE chain' = chain
      BY <1>1, <2>1
    <2>2. CASE chain' = Front(chain)
      BY <1>1, <2>2, FrontOfChain
    <2>3. CASE chain' = <<>>
      BY <1>1, <2>3
    <2> QED BY <2>1, <2>2, <2>3
  <1>4. depends' \subseteq UserModules \X UserModules
        /\ \A g, i, x, y : At(g, i, x)' /\ At(g, i + 1, y)' => <<x, y>> \in depends'
    BY DEF LinkInv
  <1>5. ASSUME NEW j \in 1..Len(chain'), NEW k \in 1..Len(chain'), j < k, NoneBetween(j, k)',
               NEW x, NEW y, TopOf(chain[j], x)', At(chain[k], 1, y)'
        PROVE  <<x, y>> \in depends'
    <2>1. j \in 1..n /\ k \in 1..n /\ j < n
      BY <1>1, <1>3, <1>5
    <2>2. initialising'[chain[j]] = initialising[chain[j]]
      BY <1>2, <2>1
    <2>c. chain'[j] = chain[j] /\ chain'[k] = chain[k]
      BY <1>3
    <2>3. TopOf(chain[j], x)
      BY <1>5, <2>2, <2>c DEF TopOf, At
    <2>4. At(chain[k], 1, y)
      BY <1>5, <2>c
    <2>5. NoneBetween(j, k)
      <3> SUFFICES ASSUME NEW l \in 1..n, j < l, l < k PROVE initialising[chain[l]] = <<>>
        BY DEF NoneBetween
      <3>1. l < n /\ l \in 1..Len(chain')
        BY <1>1, <1>3, <2>1
      <3>2. initialising'[chain'[l]] = <<>>
        BY <1>5, <3>1 DEF NoneBetween
      <3> QED BY <1>2, <1>3, <3>1, <3>2
    <2> QED BY <1>5, <2>1, <2>3, <2>4, <2>5 DEF LinkInv
  <1>7. \A j, k \in 1..Len(chain') : j < k /\ NoneBetween(j, k)' =>
          \A x, y : TopOf(chain[j], x)' /\ At(chain[k], 1, y)' => <<x, y>> \in depends'
    BY <1>5
  <1> QED BY <1>3, <1>4, <1>7 DEF LinkInv

(* A module that is started is needed by the innermost initialiser. *)
LEMMA ImportLinks ==
    ASSUME CycleInv, Runs, NEW m \in UserModules, InitModule(RunningFibre, m),
           DependsOn({m}), UNCHANGED <<chain, idle, complete, failed, interrupted>>
    PROVE  ChainInv' /\ LinkInv'
  <1> DEFINE n == Len(chain)
             f == RunningFibre
             len == Len(initialising[f])
  <1>0. RegistryTypeOK /\ ChainInv /\ LinkInv
    BY DEF CycleInv, RegistryInv
  <1>1. /\ n \in Nat /\ n >= 1 /\ chain[n] = f /\ f \in RegistryFibres
        /\ \A l \in 1..n : chain[l] \in RegistryFibres /\ (chain[l] = f => l = n)
    BY <1>0, RunningPlace
  <1>2. initialising[f] \in Seq(UserModules) /\ len \in Nat
    BY <1>0, <1>1 DEF RegistryTypeOK
  <1>3. initialising' = [initialising EXCEPT ![f] = Append(@, m)]
    BY DEF InitModule
  <1>4. /\ \A g \in RegistryFibres : g # f => initialising'[g] = initialising[g]
        /\ \A g, i, k : At(g, i, k)' <=> At(g, i, k) \/ (g = f /\ i = len + 1 /\ k = m)
    BY <1>0, <1>1, <1>3, PushEffect
  <1>5. depends' = depends \cup (Innermost \X {m})
    <2>1. m \notin complete /\ m \notin failed
      BY DEF InitModule, CycleInv, RegistryInv, AccountedFor
    <2>2. {m} \ (complete \cup failed) = {m}
      BY <2>1
    <2> QED BY <2>2 DEF DependsOn
  <1>6. \A g, i, x : At(g, i, x) => g \in RegistryFibres /\ i \in 1..Len(initialising[g])
    BY DEF At
  <1>7. Innermost \subseteq UserModules
    BY <1>0, InnermostTyped
  <1> HIDE DEF f, len
  <1>8. ChainInv'
    <2>1. InChain(f)
      BY <1>1 DEF InChain
    <2>2. ASSUME NEW g, NEW i, NEW k, At(g, i, k)' PROVE InChain(g)' \/ k \in interrupted'
      BY <1>0, <1>4, <2>1, <2>2 DEF ChainInv, InChain
    <2>3. Len(chain') # 0
      BY <1>1
    <2> QED BY <1>0, <2>2, <2>3 DEF ChainInv
  <1>9. ASSUME NEW j \in 1..n, NEW x, TopOf(chain[j], x), NoneBetween(j, n + 1)
        PROVE  <<x, m>> \in depends'
    BY <1>0, <1>5, <1>9, InnermostIs
  <1>10. ASSUME NEW g, NEW i, NEW x, NEW y, At(g, i, x)', At(g, i + 1, y)'
         PROVE  <<x, y>> \in depends'
    <2>1. CASE At(g, i, x) /\ At(g, i + 1, y)
      BY <1>0, <1>5, <2>1 DEF LinkInv
    <2>2. CASE g = f /\ i + 1 = len + 1 /\ y = m /\ At(g, i, x)
      <3>1. i = len
        BY <1>2, <1>6, <2>2
      <3>2. TopOf(chain[n], x) /\ n \in 1..n
        BY <1>1, <2>2, <3>1 DEF TopOf, len
      <3>3. NoneBetween(n, n + 1)
        BY <1>1 DEF NoneBetween
      <3> QED BY <1>9, <2>2, <3>2, <3>3
    <2>3. CASE g = f /\ i = len + 1
      <3>1. i + 1 # len + 1
        BY <1>2, <2>3
      <3>2. At(g, i + 1, y)
        BY <1>4, <1>10, <3>1
      <3>3. i + 1 \in 1..len
        BY <1>6, <2>3, <3>2 DEF len
      <3> QED BY <1>2, <2>3, <3>3
    <2> QED BY <1>4, <1>10, <2>1, <2>2, <2>3
  <1>11. ASSUME NEW j \in 1..n, NEW k \in 1..n, j < k, NoneBetween(j, k)',
                NEW x, NEW y, TopOf(chain[j], x)', At(chain[k], 1, y)'
         PROVE  <<x, y>> \in depends'
    <2>1. j # n /\ \A l \in 1..n : l < k => l # n
      BY <1>1, <1>11
    <2>2. chain[j] \in RegistryFibres /\ initialising'[chain[j]] = initialising[chain[j]]
      BY <1>1, <1>4, <2>1
    <2>3. TopOf(chain[j], x)
      BY <1>11, <2>2 DEF TopOf, At
    <2>4. \A l \in 1..n : j < l /\ l < k => initialising[chain[l]] = <<>>
      <3> SUFFICES ASSUME NEW l \in 1..n, j < l, l < k PROVE initialising[chain[l]] = <<>>
        OBVIOUS
      <3>1. initialising'[chain[l]] = <<>>
        BY <1>11 DEF NoneBetween
      <3> QED BY <1>1, <1>4, <2>1, <3>1
    <2>5. CASE At(chain[k], 1, y)
      BY <1>0, <1>5, <1>11, <2>3, <2>4, <2>5 DEF LinkInv, NoneBetween
    <2>6. CASE chain[k] = f /\ 1 = len + 1 /\ y = m
      <3>1. k = n /\ initialising[f] = <<>>
        BY <1>1, <1>2, <2>6 DEF len
      <3>2. NoneBetween(j, n + 1)
        <4> SUFFICES ASSUME NEW l \in 1..n, j < l PROVE initialising[chain[l]] = <<>>
          BY DEF NoneBetween
        <4>1. l < n \/ l = n
          BY <1>1
        <4> QED BY <1>1, <2>4, <3>1, <4>1
      <3> QED BY <1>9, <2>3, <2>6, <3>2
    <2> QED BY <1>4, <1>11, <2>5, <2>6
  <1>12. depends' \subseteq UserModules \X UserModules
    BY <1>0, <1>5, <1>7 DEF LinkInv
  <1>13. LinkInv'
    BY <1>10, <1>11, <1>12 DEF LinkInv
  <1> QED BY <1>8, <1>13


(* The host starts a module: main is the chain. *)
LEMMA RequestLinks ==
    ASSUME CycleInv, ~Runs, NEW m \in UserModules, InitModule(MainFibre, m),
           chain' = <<MainFibre>>, UNCHANGED <<idle, interrupted, depends>>
    PROVE  ChainInv' /\ LinkInv'
  <1> DEFINE f == MainFibre
             len == Len(initialising[f])
  <1>0. RegistryTypeOK /\ ChainInv /\ LinkInv
    BY DEF CycleInv, RegistryInv
  <1>1. chain = <<>> /\ Len(chain) = 0 /\ f \in RegistryFibres
    BY DEF Runs, RegistryFibres
  <1>2. initialising[f] = <<>> /\ len = 0
    BY <1>0, <1>1 DEF ChainInv
  <1>3. initialising' = [initialising EXCEPT ![f] = Append(@, m)]
    BY DEF InitModule
  <1>4. \A g, i, k : At(g, i, k)' <=> At(g, i, k) \/ (g = f /\ i = len + 1 /\ k = m)
    BY <1>0, <1>1, <1>3, PushEffect
  <1>5. Len(chain') = 1 /\ chain'[1] = MainFibre
    OBVIOUS
  <1>6. \A i, k : ~At(f, i, k)
    BY <1>2 DEF At
  <1> HIDE DEF f, len
  <1>7. \A g, i, k : At(g, i, k)' <=> At(g, i, k) \/ (g = f /\ i = 1 /\ k = m)
    BY <1>2, <1>4
  <1>8. ChainInv'
    <2>1. \A j \in 1..Len(chain') : j = 1
      BY <1>5
    <2>2. MainFibre \notin idle'
      BY <1>0, RegistryAssumption DEF ChainInv, MainFibre
    <2>3. InChain(f)'
      BY <1>5 DEF InChain, f
    <2>4. \A g : ~InChain(g)
      BY <1>1 DEF InChain
    <2>5. \A g, i, k : At(g, i, k)' => InChain(g)' \/ k \in interrupted'
      BY <1>0, <1>7, <2>3, <2>4 DEF ChainInv
    <2>6. \A j, k \in 1..Len(chain') : chain'[j] = chain'[k] => j = k
      BY <2>1
    <2>7. \A j \in 1..Len(chain') : chain'[j] \notin idle'
      BY <1>5, <2>1, <2>2
    <2> QED BY <1>0, <1>5, <2>5, <2>6, <2>7 DEF ChainInv
  <1>9. ASSUME NEW g, NEW i, NEW x, NEW y, At(g, i, x)', At(g, i + 1, y)'
        PROVE  <<x, y>> \in depends'
    <2>1. CASE g = f
      <3>1. i = 1 /\ i + 1 = 1
        BY <1>6, <1>7, <1>9, <2>1
      <3> QED BY <3>1
    <2>2. CASE g # f
      BY <1>0, <1>7, <1>9, <2>2 DEF LinkInv
    <2> QED BY <2>1, <2>2
  <1>10. \A j, k \in 1..Len(chain') : ~(j < k)
    BY <1>5
  <1>11. LinkInv'
    BY <1>0, <1>9, <1>10 DEF LinkInv
  <1> QED BY <1>8, <1>11

(* A fibre is called: the innermost initialiser needs all of its.           *)
LEMMA TryLinks ==
    ASSUME CycleInv, NEW f \in ImportFibres, TryFibre(f)
    PROVE  ChainInv' /\ LinkInv'
  <1> DEFINE n == Len(chain)
  <1>0. RegistryTypeOK /\ ChainInv /\ LinkInv /\ Runs
    BY DEF CycleInv, RegistryInv, TryFibre
  <1>1. n \in Nat /\ n >= 1 /\ chain \in Seq(RegistryFibres)
    BY <1>0, RunningPlace DEF RegistryTypeOK
  <1>2. f \in RegistryFibres /\ f \in idle /\ initialising[f] \in Seq(UserModules)
    BY <1>0 DEF TryFibre, RegistryFibres, RegistryTypeOK
  <1>3. /\ chain' = Append(chain, f) /\ idle' = idle \ {f}
        /\ initialising' = initialising /\ interrupted' = interrupted
    BY DEF TryFibre
  <1>4. /\ Len(chain') = n + 1 /\ chain'[n + 1] = f
        /\ \A l \in 1..n : chain'[l] = chain[l]
    BY <1>1, <1>2, <1>3
  <1>5. \A g, i, k : At(g, i, k)' <=> At(g, i, k)
    BY <1>3 DEF At
  <1>6. depends \subseteq depends' /\ depends' \subseteq UserModules \X UserModules
    <2>1. Innermost \subseteq UserModules
      BY <1>0, InnermostTyped
    <2>2. ToSet(initialising[f]) \subseteq UserModules
      BY <1>2 DEF ToSet
    <2> QED BY <1>0, <2>1, <2>2 DEF TryFibre, DependsOn, LinkInv
  <1>7. \A l \in 1..n : chain[l] # f
    BY <1>0, <1>2 DEF ChainInv
  <1>8. \A l \in 1..(n + 1) : l \in 1..n \/ l = n + 1
    BY <1>1
  <1>9. ChainInv'
    <2>1. \A j, k \in 1..(n + 1) : chain'[j] = chain'[k] => j = k
      <3> SUFFICES ASSUME NEW j \in 1..(n + 1), NEW k \in 1..(n + 1), chain'[j] = chain'[k]
                   PROVE  j = k
        OBVIOUS
      <3>1. CASE j \in 1..n /\ k \in 1..n
        BY <1>0, <1>4, <3>1 DEF ChainInv
      <3>2. CASE j = n + 1 \/ k = n + 1
        BY <1>4, <1>7, <1>8, <3>2
      <3> QED BY <1>8, <3>1, <3>2
    <2>2. \A j \in 1..(n + 1) : chain'[j] \notin idle'
      BY <1>0, <1>3, <1>4, <1>8 DEF ChainInv
    <2>3. Len(chain') # 0 /\ chain'[1] = MainFibre
      BY <1>0, <1>1, <1>4 DEF ChainInv
    <2>4. \A g : InChain(g) => InChain(g)'
      <3> SUFFICES ASSUME NEW g, NEW j \in 1..n, chain[j] = g PROVE InChain(g)'
        BY DEF InChain
      <3>1. j \in 1..Len(chain')
        BY <1>1, <1>4
      <3> QED BY <1>4, <3>1 DEF InChain
    <2> QED BY <1>0, <1>3, <1>4, <1>5, <2>1, <2>2, <2>3, <2>4 DEF ChainInv
  <1>10. ASSUME NEW j \in 1..(n + 1), NEW k \in 1..(n + 1), j < k, NoneBetween(j, k)',
                NEW x, NEW y, TopOf(chain[j], x)', At(chain[k], 1, y)'
         PROVE  <<x, y>> \in depends'
    <2>1. j \in 1..n /\ chain'[j] = chain[j] /\ TopOf(chain[j], x)
      <3>1. j \in 1..n
        BY <1>1, <1>10
      <3> QED BY <1>3, <1>4, <1>10, <3>1 DEF TopOf, At
    <2>2. \A l \in 1..n : j < l /\ l < k => initialising[chain[l]] = <<>>
      <3> SUFFICES ASSUME NEW l \in 1..n, j < l, l < k PROVE initialising[chain[l]] = <<>>
        OBVIOUS
      <3>1. l \in 1..Len(chain')
        BY <1>1, <1>4
      <3> QED BY <1>3, <1>4, <1>10, <3>1 DEF NoneBetween
    <2>3. CASE k \in 1..n
      BY <1>0, <1>4, <1>5, <1>6, <1>10, <2>1, <2>2, <2>3 DEF LinkInv, NoneBetween
    <2>4. CASE k = n + 1
      <3>1. NoneBetween(j, n + 1)
        BY <2>2, <2>4 DEF NoneBetween
      <3>2. Innermost = {x}
        BY <1>0, <2>1, <3>1, InnermostIs
      <3>3. At(f, 1, y)
        BY <1>4, <1>5, <1>10, <2>4
      <3>4. y \notin complete /\ y \notin failed
        BY <3>3 DEF CycleInv, RegistryInv, AccountedFor, OnSomeStack
      <3>5. y \in ToSet(initialising[f])
        BY <1>2, <3>3 DEF At, ToSet
      <3> QED BY <3>2, <3>4, <3>5 DEF TryFibre, DependsOn
    <2> QED BY <1>8, <2>3, <2>4
  <1>11. LinkInv'
    <2>1. \A g, i, x, y : At(g, i, x)' /\ At(g, i + 1, y)' => <<x, y>> \in depends'
      BY <1>0, <1>5, <1>6 DEF LinkInv
    <2> QED BY <1>4, <1>6, <1>10, <2>1 DEF LinkInv
  <1> QED BY <1>9, <1>11

(* The running fibre leaves the chain; the modules left on its stack, if    *)
(* any, are interrupted.                                                    *)
LEMMA LeaveChain ==
    ASSUME RegistryTypeOK, ChainInv, Runs, chain' = Front(chain),
           idle' \subseteq ImportFibres, idle' \subseteq idle \cup {RunningFibre},
           \A g, i, x : At(g, i, x)' => At(g, i, x),
           \A g, i, x : g = RunningFibre /\ At(g, i, x)' => x \in interrupted',
           interrupted \subseteq interrupted',
           Len(chain) = 1 => initialising'[MainFibre] = <<>>
    PROVE  ChainInv'
  <1> DEFINE n == Len(chain)
  <1>1. /\ n \in Nat /\ n >= 1 /\ chain[n] = RunningFibre
        /\ \A l \in 1..n : chain[l] = RunningFibre => l = n
    BY RunningPlace
  <1>2. Len(chain') = n - 1 /\ \A l \in 1..(n - 1) : l \in 1..n /\ l # n /\ chain'[l] = chain[l]
    BY <1>1, FrontOfChain
  <1>3. \A j, k \in 1..(n - 1) : chain'[j] = chain'[k] => j = k
    BY <1>2 DEF ChainInv
  <1>4. \A j \in 1..(n - 1) : chain'[j] \notin idle'
    BY <1>1, <1>2 DEF ChainInv
  <1>5. n - 1 # 0 => chain'[1] = MainFibre
    BY <1>1, <1>2 DEF ChainInv
  <1>6. n - 1 = 0 => initialising'[MainFibre] = <<>>
    BY <1>1
  <1>7. ASSUME NEW g, NEW i, NEW m, At(g, i, m)' PROVE InChain(g)' \/ m \in interrupted'
    <2>1. CASE g = RunningFibre
      BY <1>7, <2>1
    <2>2. CASE g # RunningFibre
      <3>1. InChain(g) \/ m \in interrupted
        BY <1>7 DEF ChainInv
      <3>2. ASSUME NEW j \in 1..n, chain[j] = g PROVE InChain(g)'
        <4>1. j \in 1..(n - 1)
          BY <1>1, <2>2, <3>2
        <4> QED BY <1>2, <3>2, <4>1 DEF InChain
      <3> QED BY <3>1, <3>2 DEF InChain
    <2> QED BY <2>1, <2>2
  <1> QED BY <1>2, <1>3, <1>4, <1>5, <1>6, <1>7 DEF ChainInv

(* An initialiser returns to the one that needed it, or to the host. *)
LEMMA ReturnsLinks ==
    ASSUME CycleInv, InitialiserReturns
    PROVE  ChainInv' /\ LinkInv'
  <1> DEFINE n == Len(chain)
             f == RunningFibre
  <1>0. RegistryTypeOK /\ ChainInv /\ LinkInv /\ Runs
    BY DEF CycleInv, RegistryInv, InitialiserReturns
  <1>1. /\ n \in Nat /\ n >= 1 /\ chain[n] = f /\ f \in RegistryFibres
        /\ \A l \in 1..n : chain[l] = f => l = n
    BY <1>0, RunningPlace
  <1>2. /\ initialising[f] # <<>>
        /\ initialising' = [initialising EXCEPT ![f] = Front(@)]
        /\ chain' = (IF f = MainFibre /\ Len(initialising[f]) = 1 THEN <<>> ELSE chain)
        /\ UNCHANGED <<idle, interrupted, depends>>
    BY DEF InitialiserReturns, Importing
  <1>3. /\ Len(initialising[f]) = 1 => initialising'[f] = <<>>
        /\ \A g \in RegistryFibres : g # f => initialising'[g] = initialising[g]
        /\ \A g, i, k : At(g, i, k)' => At(g, i, k)
        /\ \A g, i, k : g = f /\ At(g, i, k)' => i # Len(initialising[f])
    BY <1>0, <1>1, <1>2, PopEffect
  <1>4. LinkInv'
    BY <1>0, <1>2, <1>3, LinkShrinks
  <1>5. CASE f = MainFibre /\ Len(initialising[f]) = 1
    <2>1. chain' = <<>> /\ Len(chain') = 0
      BY <1>2, <1>5
    <2>2. initialising'[MainFibre] = <<>>
      BY <1>3, <1>5
    <2>3. n = 1
      <3>1. chain[1] = MainFibre /\ 1 \in 1..n
        BY <1>0, <1>1 DEF ChainInv
      <3> QED BY <1>1, <1>5, <3>1
    <2>4. \A g, i, k : g = f => ~At(g, i, k)'
      BY <1>5, <2>2 DEF At
    <2>5. ASSUME NEW g, NEW i, NEW m, At(g, i, m)' PROVE m \in interrupted'
      <3>1. g # f /\ At(g, i, m)
        BY <1>3, <2>4, <2>5
      <3>2. ~InChain(g)
        BY <1>1, <2>3, <3>1 DEF InChain
      <3> QED BY <1>0, <1>2, <3>1, <3>2 DEF ChainInv
    <2>6. ChainInv'
      BY <1>0, <1>2, <2>1, <2>2, <2>5 DEF ChainInv
    <2> QED BY <1>4, <2>6
  <1>6. CASE ~(f = MainFibre /\ Len(initialising[f]) = 1)
    <2>1. chain' = chain
      BY <1>2, <1>6
    <2>2. ChainInv'
      BY <1>0, <1>1, <1>2, <1>3, <2>1 DEF ChainInv, InChain
    <2> QED BY <1>4, <2>2
  <1> QED BY <1>5, <1>6

(* A yield, the end of a fibre and an abort. *)
LEMMA LeaveLinks ==
    ASSUME CycleInv, YieldFibre \/ FibreReturns \/ AbortFibre
    PROVE  ChainInv' /\ LinkInv'
  <1> DEFINE f == RunningFibre
  <1>0. RegistryTypeOK /\ ChainInv /\ LinkInv /\ Runs
    BY DEF CycleInv, RegistryInv, YieldFibre, FibreReturns, AbortFibre
  <1>1. /\ Len(chain) \in Nat /\ Len(chain) >= 1 /\ chain[Len(chain)] = f
        /\ f \in RegistryFibres
    BY <1>0, RunningPlace
  <1>2. chain' = Front(chain) /\ depends' = depends /\ interrupted \subseteq interrupted'
    BY DEF YieldFibre, FibreReturns, AbortFibre
  <1>3. Len(chain) = 1 => f = MainFibre
    BY <1>0, <1>1 DEF ChainInv
  <1>4. CASE YieldFibre \/ FibreReturns
    <2>1. initialising' = initialising /\ f # MainFibre
      BY <1>4 DEF YieldFibre, FibreReturns
    <2>2. \A g, i, x : At(g, i, x)' <=> At(g, i, x)
      BY <2>1 DEF At
    <2>3. idle' \subseteq ImportFibres /\ idle' \subseteq idle \cup {f}
      BY <1>0, <1>1, <1>4 DEF YieldFibre, FibreReturns, ChainInv, RegistryFibres
    <2>4. \A g, i, x : g = f /\ At(g, i, x)' => x \in interrupted'
      <3> SUFFICES ASSUME NEW i, NEW x, At(f, i, x) PROVE x \in interrupted'
        BY <2>2
      <3>1. x \in ToSet(initialising[f]) /\ initialising[f] # <<>>
        <4>1. i \in 1..Len(initialising[f]) /\ initialising[f] \in Seq(UserModules)
              /\ initialising[f][i] = x
          BY <1>0 DEF At, RegistryTypeOK
        <4> QED BY <4>1 DEF ToSet
      <3> QED BY <1>4, <3>1 DEF YieldFibre, FibreReturns, Importing
    <2>5. ChainInv'
      BY <1>0, <1>2, <1>3, <2>1, <2>2, <2>3, <2>4, LeaveChain
    <2>6. LinkInv'
      BY <1>0, <1>2, <2>1, <2>2, LinkShrinks
    <2> QED BY <2>5, <2>6
  <1>5. CASE AbortFibre
    <2>1. initialising' = [initialising EXCEPT ![f] = <<>>] /\ UNCHANGED idle
      BY <1>5 DEF AbortFibre
    <2>2. /\ initialising'[f] = <<>>
          /\ \A g \in RegistryFibres : g # f => initialising'[g] = initialising[g]
          /\ \A g, i, x : At(g, i, x)' <=> At(g, i, x) /\ g # f
      BY <1>0, <1>1, <2>1, ClearEffect
    <2>3. idle' \subseteq ImportFibres /\ idle' \subseteq idle \cup {f}
      BY <1>0, <2>1 DEF ChainInv
    <2>4. Len(chain) = 1 => initialising'[MainFibre] = <<>>
      BY <1>3, <2>2
    <2>5. (\A g, i, x : At(g, i, x)' => At(g, i, x))
          /\ \A g, i, x : g = f /\ At(g, i, x)' => x \in interrupted'
      BY <2>2
    <2>6. ChainInv'
      BY <1>0, <1>2, <2>3, <2>4, <2>5, LeaveChain
    <2>7. LinkInv'
      BY <1>0, <1>2, <2>2, <2>5, LinkShrinks
    <2> QED BY <2>6, <2>7
  <1> QED BY <1>4, <1>5


(* Every step preserves the chain, its links and the excuses. *)
LEMMA CycleNext == CycleInv /\ [RegistryNext]_registryVars => CycleInv'
  <1> SUFFICES ASSUME CycleInv, [RegistryNext]_registryVars PROVE CycleInv'
    OBVIOUS
  <1>0. RegistryInv' /\ ChainInv /\ LinkInv /\ EarlyInv
    BY RegistryNextInv DEF CycleInv
  <1> SUFFICES ChainInv' /\ LinkInv' /\ EarlyInv'
    BY <1>0 DEF CycleInv
  <1>1. ASSUME NEW m \in HostModules, RequestModule(m) PROVE ChainInv' /\ LinkInv' /\ EarlyInv'
    <2>1. /\ ~Runs /\ m \in UserModules
          /\ UNCHANGED <<idle, assigned, complete, failed, interrupted, depends>>
      BY <1>1, RegistryAssumption DEF RequestModule
    <2>2. early' = early
      BY <1>1 DEF RequestModule, InitModule
    <2>3. EarlyInv'
      BY <1>0, <2>1, <2>2, EarlyKept DEF EarlyInv
    <2>4. CASE InitModule(MainFibre, m) /\ chain' = <<MainFibre>>
      BY <2>1, <2>3, <2>4, RequestLinks
    <2>5. CASE UNCHANGED <<initialising, chain>>
      BY <1>0, <2>1, <2>3, <2>5, ChainKept, LinkKept DEF LinkInv
    <2> QED BY <1>1, <2>4, <2>5 DEF RequestModule
  <1>2. ASSUME NEW m \in UserModules, Import(m) PROVE ChainInv' /\ LinkInv' /\ EarlyInv'
    <2>1. /\ Runs /\ DependsOn({m})
          /\ UNCHANGED <<chain, idle, assigned, complete, failed, interrupted>>
      BY <1>2 DEF Import
    <2>2. depends \subseteq depends'
      BY <2>1 DEF DependsOn
    <2>3. CASE InitModule(RunningFibre, m)
      <3>1. early' = early
        BY <2>3 DEF InitModule
      <3>2. EarlyInv'
        BY <1>0, <2>1, <2>2, <3>1, EarlyKept DEF EarlyInv
      <3> QED BY <2>1, <2>3, <3>2, ImportLinks
    <2>4. CASE m \in m_userModules /\ CopyVariable(m) /\ UNCHANGED initialising
      <3>1. ChainInv'
        BY <1>0, <2>1, <2>4, ChainKept
      <3>2. depends' \subseteq UserModules \X UserModules
        <4>1. Innermost \subseteq UserModules
          BY InnermostTyped DEF CycleInv, RegistryInv
        <4> QED BY <1>0, <2>1, <4>1 DEF DependsOn, LinkInv
      <3>3. LinkInv'
        BY <1>0, <2>1, <2>2, <2>4, <3>2, LinkKept
      <3>4. CASE m \in assigned
        <4>1. early' = early
          BY <2>4, <3>4 DEF CopyVariable
        <4>2. EarlyInv'
          BY <1>0, <2>1, <2>2, <4>1, EarlyKept DEF EarlyInv
        <4> QED BY <3>1, <3>3, <4>2
      <3>5. CASE m \notin assigned
        <4>1. early' = early \cup {m}
          BY <2>4, <3>5 DEF CopyVariable
        <4>2. m \in failed \cup interrupted \/ DependsOnItself(m)'
          BY <2>1, <2>4, <3>5, EarlyAtImport
        <4>3. ASSUME NEW k, DependsOnItself(k) PROVE DependsOnItself(k)'
          BY <2>2, <4>3 DEF DependsOnItself
        <4>4. EarlyInv'
          BY <1>0, <2>1, <4>1, <4>2, <4>3 DEF EarlyInv, EarlyOnlyInCycle
        <4> QED BY <3>1, <3>3, <4>4
      <3> QED BY <3>4, <3>5
    <2> QED BY <1>2, <2>3, <2>4 DEF Import
  <1>3. CASE AssignVariable
    <2>1. /\ UNCHANGED <<initialising, chain, idle, complete, failed, early, interrupted, depends>>
          /\ assigned \subseteq assigned'
      BY <1>3 DEF AssignVariable
    <2>2. complete' \subseteq assigned'
      BY <1>0, <2>1 DEF EarlyInv
    <2> QED BY <1>0, <2>1, <2>2, ChainKept, LinkKept, EarlyKept DEF LinkInv
  <1>4. CASE InitialiserReturns
    <2>1. complete' \subseteq assigned' /\ UNCHANGED <<early, failed, interrupted, depends>>
      BY <1>0, <1>4 DEF InitialiserReturns, EarlyInv
    <2> QED BY <1>0, <1>4, <2>1, ReturnsLinks, EarlyKept
  <1>5. ASSUME NEW f \in ImportFibres, TryFibre(f) PROVE ChainInv' /\ LinkInv' /\ EarlyInv'
    <2>1. /\ UNCHANGED <<early, failed, interrupted, complete, assigned>>
          /\ depends \subseteq depends'
      BY <1>5 DEF TryFibre, DependsOn
    <2>2. EarlyInv'
      BY <1>0, <2>1, EarlyKept DEF EarlyInv
    <2> QED BY <1>5, <2>2, TryLinks
  <1>6. CASE YieldFibre \/ FibreReturns \/ AbortFibre
    <2>1. /\ UNCHANGED <<early, complete, assigned, depends>>
          /\ failed \subseteq failed' /\ interrupted \subseteq interrupted'
      BY <1>6 DEF YieldFibre, FibreReturns, AbortFibre
    <2>2. EarlyInv'
      BY <1>0, <2>1, EarlyKept DEF EarlyInv
    <2> QED BY <1>6, <2>2, LeaveLinks
  <1>7. CASE UNCHANGED registryVars
    <2>1. UNCHANGED <<initialising, chain, idle, assigned, complete, failed, early,
                      interrupted, depends>>
      BY <1>7 DEF registryVars
    <2>2. EarlyInv'
      BY <1>0, <2>1, EarlyKept DEF EarlyInv
    <2> QED BY <1>0, <2>1, <2>2, ChainKept, LinkKept DEF LinkInv
  <1> QED
    BY <1>1, <1>2, <1>3, <1>4, <1>5, <1>6, <1>7 DEF RegistryNext

(* Nothing is imported before the host asks for a module. *)
LEMMA CycleInit == RegistryInit => CycleInv
  <1> SUFFICES ASSUME RegistryInit PROVE CycleInv
    OBVIOUS
  <1>1. \A m, f, i : ~At(f, i, m)
    BY DEF RegistryInit, At
  <1>2. chain = <<>> /\ Len(chain) = 0
    BY DEF RegistryInit
  <1>3. MainFibre \in RegistryFibres
    BY DEF RegistryFibres
  <1>4. ChainInv
    BY <1>1, <1>2, <1>3 DEF RegistryInit, ChainInv
  <1>5. LinkInv
    BY <1>1, <1>2 DEF RegistryInit, LinkInv
  <1>6. EarlyInv
    BY DEF RegistryInit, EarlyInv, EarlyOnlyInCycle
  <1> QED BY <1>4, <1>5, <1>6, RegistryInitInv DEF CycleInv

(* wren_get_module_global finds a variable that has no value yet only if    *)
(* the module failed, was left by a yield, or is in a cycle of imports, for *)
(* any number of modules and fibres.                                        *)
THEOREM EarlyCorrect == RegistrySpec => []EarlyOnlyInCycle
  <1>1. CycleInv => EarlyOnlyInCycle
    BY DEF CycleInv, EarlyInv
  <1> QED BY <1>1, CycleInit, CycleNext, PTL DEF RegistrySpec
=============================================================================
