------------------------- MODULE ForeignCallsProofs -------------------------
(***************************************************************************)
(* Proofs about ForeignCalls, for every set of fibres, every set of        *)
(* messages and every depth of calls between the host and Wren code.       *)
(***************************************************************************)
EXTENDS ForeignCalls, FibresProofs, WellFoundedInduction

Kinds == {"wrenCall", "foreign", "toString", "errorFn"}

NativeTypeOK ==
    /\ native \in [Fibres -> Seq(Kinds)]
    /\ \A f \in Fibres : Len(native[f]) <= MaxNative
    /\ currentVMs \subseteq Fibres \X Nat

(* C++ frames are on mapped stacks only. *)
NativeOnStacks ==
    process = "running" => \A f \in Fibres : native[f] # <<>> => state[f] \in OnStack

(* VMsExact address by address. *)
VMsAt ==
    process = "running" =>
        \A f \in Fibres, i \in Nat :
            IF i = 0 THEN <<f, i>> \in currentVMs => f = Main
            ELSE <<f, i>> \in currentVMs
                   <=> i \in 1..Len(native[f]) /\ native[f][i] = "foreign"

ForeignInv == IInv /\ NativeTypeOK /\ NativeOnStacks /\ VMsAt

(* A bounded set of positions has a largest one: the wrenCall that catches  *)
(* is the innermost.                                                        *)
LEMMA MaxOfPositions ==
    ASSUME NEW n \in Nat, NEW T, T \subseteq 1..n, T # {}
    PROVE  Max(T) \in T /\ \A t \in T : t <= Max(T)
  <1> DEFINE D == {d \in Nat : n - d \in T}
  <1>1. D \subseteq Nat /\ D # {}
    <2>1. PICK t \in T : TRUE
      OBVIOUS
    <2>2. n - t \in Nat /\ n - (n - t) = t
      BY <2>1
    <2>3. n - t \in D
      BY <2>1, <2>2
    <2> QED BY <2>3
  <1>2. PICK d \in D : \A y \in D : ~(<<y, d>> \in OpToRel(<, Nat))
    BY <1>1, WFMin, NatLessThanWellFounded, Zenon
  <1>3. d \in Nat /\ n - d \in T
    BY <1>2
  <1>4. \A t \in T : t <= n - d
    <2> SUFFICES ASSUME NEW t \in T, ~(t <= n - d) PROVE FALSE
      OBVIOUS
    <2>1. t \in 1..n /\ n - t \in Nat /\ n - t < d /\ n - (n - t) = t
      BY <1>3
    <2>2. n - t \in D
      BY <2>1
    <2>3. <<n - t, d>> \in OpToRel(<, Nat)
      BY <2>1, <1>3 DEF OpToRel
    <2> QED BY <1>2, <2>2, <2>3
  <1>5. \E x \in T : \A y \in T : x >= y
    BY <1>3, <1>4
  <1>6. Max(T) \in T /\ \A y \in T : Max(T) >= y
    BY <1>5 DEF Max
  <1> QED BY <1>6

(* The host starts with no VM and no call in progress. *)
LEMMA InitForeign == ForeignInit => ForeignInv
  <1> SUFFICES ASSUME ForeignInit PROVE ForeignInv
    OBVIOUS
  <1>1. IInv
    BY InitIInv DEF ForeignInit
  <1>2. NativeTypeOK
    BY ForeignAssumption DEF ForeignInit, NativeTypeOK
  <1>3. NativeOnStacks /\ VMsAt
    BY DEF ForeignInit, NativeOnStacks, VMsAt
  <1> QED BY <1>1, <1>2, <1>3 DEF ForeignInv

(***************************************************************************)
(* Which fibres a fibre operation takes off their stack: none but the one  *)
(* that is failed, or whose function is over.                              *)
(***************************************************************************)
KeptExcept(gone) ==
    \A h \in Fibres \ gone : state[h] \in OnStack => state'[h] \in OnStack

(* Aborting the running fibre takes no fibre off its stack. *)
LEMMA ThrowKeeps == ASSUME NEW m, Throw(m) PROVE KeptExcept({})
  BY DEF Throw, fields, KeptExcept

(* ObjFibre::ResumeSuspended takes no fibre off its stack besides those that its
   caller has marked so. *)
LEMMA ResumeKeeps ==
    ASSUME NEW st \in [Fibres -> States], NEW old, NEW this \in Fibres, NEW terminate,
           NEW blocked, NEW exc, NEW gone,
           \A h \in Fibres \ gone : state[h] \in OnStack => st[h] \in OnStack,
           ResumeSuspended(st, old, this, terminate, blocked, exc)
    PROVE  KeptExcept(gone)
  <1>1. state' = st \/ state' = [st EXCEPT ![this] = "RUNNING"]
    BY DEF ResumeSuspended
  <1> QED BY <1>1 DEF KeptExcept, OnStack

(* ObjFibre::CallImpl takes no fibre off its stack: the caller only starts to
   wait. *)
LEMMA CallImplKeeps ==
    ASSUME IInv, NEW this \in Fibres, NEW kind \in CallKinds, CallImpl(this, kind)
    PROVE  KeptExcept({})
  <1>1. CASE ~CanBeCalled(this, kind)
    BY <1>1, ThrowKeeps DEF CallImpl
  <1>2. CASE CanBeCalled(this, kind)
    <2> DEFINE st == SetupCallerState(kind)
    <2>1. /\ st \in [Fibres -> States]
          /\ \A h \in Fibres \ {} : state[h] \in OnStack => st[h] \in OnStack
      BY DEF SetupCallerState, IInv, TypeOK, States, OnStack
    <2>2. \/ StartAndSwitchTo(st, this, Frame(kind, this))
          \/ ResumeSuspended(st, currentFibre, this, FALSE, Frame(kind, this), exception)
      BY <1>2 DEF CallImpl
    <2> HIDE DEF st
    <2>3. CASE StartAndSwitchTo(st, this, Frame(kind, this))
      BY <2>1, <2>3 DEF StartAndSwitchTo, KeptExcept, OnStack
    <2>4. CASE ResumeSuspended(st, currentFibre, this, FALSE, Frame(kind, this), exception)
      BY <2>1, <2>4, ResumeKeeps
    <2> QED BY <2>2, <2>3, <2>4
  <1> QED BY <1>1, <1>2

(* ObjFibre::Yield takes no fibre off its stack: the running one is suspended on
   it. *)
LEMMA YieldKeeps == ASSUME IInv, Yield PROVE KeptExcept({})
  <1> DEFINE st == [state EXCEPT ![currentFibre] = "SUSPENDED"]
  <1>1. /\ st \in [Fibres -> States]
        /\ \A h \in Fibres \ {} : state[h] \in OnStack => st[h] \in OnStack
    BY DEF IInv, TypeOK, States, OnStack
  <1>2. CASE parent[currentFibre] = NULL
    <2>1. state' = st
      BY <1>2 DEF Yield
    <2> QED BY <1>1, <2>1 DEF KeptExcept
  <1>3. CASE parent[currentFibre] # NULL
    <2> DEFINE g == parent[currentFibre]
    <2>1. g \in Fibres
      BY <1>3 DEF IInv, TypeOK
    <2>2. ResumeSuspended(st, currentFibre, g, FALSE, Frame("yield", NULL), exception)
      BY <1>3 DEF Yield
    <2> HIDE DEF st, g
    <2> QED BY <1>1, <2>1, <2>2, ResumeKeeps
  <1> QED BY <1>2, <1>3

(* A function that ends takes its own fibre off its stack, and no other. *)
LEMMA LeaveKeeps ==
    ASSUME IInv, NEW final \in Terminal, LeaveNewStack(sp, final)
    PROVE  KeptExcept({sp})
  <1> DEFINE st == [state EXCEPT ![sp] = final]
  <1>1. /\ st \in [Fibres -> States]
        /\ \A h \in Fibres \ {sp} : state[h] \in OnStack => st[h] \in OnStack
    BY DEF IInv, TypeOK, States, OnStack, Terminal
  <1>2. CASE parent[sp] = NULL
    <2>1. state' = st
      BY <1>2 DEF LeaveNewStack
    <2> QED BY <1>1, <2>1 DEF KeptExcept
  <1>3. CASE parent[sp] # NULL
    <2> DEFINE g == parent[sp]
    <2>1. g \in Fibres
      BY <1>3 DEF IInv, TypeOK
    <2>2. ResumeSuspended(st, currentFibre, g, TRUE, NoFrame, exception')
      BY <1>3 DEF LeaveNewStack
    <2> HIDE DEF st, g
    <2> QED BY <1>1, <2>1, <2>2, ResumeKeeps
  <1> QED BY <1>2, <1>3

(* ObjFibre::TransferError takes the fibre that it fails off its stack, and no
   other. *)
LEMMA TransferErrorKeeps ==
    ASSUME IInv, NEW this \in Fibres, NEW m, TransferError(this, m)
    PROVE  KeptExcept({this})
  <1>1. CASE state[this] \notin {"NOT_STARTED", "SUSPENDED"}
    <2>1. KeptExcept({})
      BY <1>1, ThrowKeeps DEF TransferError
    <2> QED BY <2>1 DEF KeptExcept
  <1>2. CASE state[this] \in {"NOT_STARTED", "SUSPENDED"}
    <2> DEFINE st == [state EXCEPT ![this] = "FAILED"]
    <2>1. /\ st \in [Fibres -> States]
          /\ \A h \in Fibres \ {this} : state[h] \in OnStack => st[h] \in OnStack
      BY DEF IInv, TypeOK, States, OnStack
    <2>2. CASE parent[this] = NULL
      <3>1. state' = st
        BY <1>2, <2>2 DEF TransferError
      <3> QED BY <2>1, <3>1 DEF KeptExcept
    <2>3. CASE parent[this] # NULL
      <3> DEFINE g == parent[this]
      <3>1. g \in Fibres
        BY <2>3 DEF IInv, TypeOK
      <3>2. ResumeSuspended(st, this, g, TRUE, Frame("transferError", this), exception')
        BY <1>2, <2>3 DEF TransferError
      <3> HIDE DEF st, g
      <3> QED BY <2>1, <3>1, <3>2, ResumeKeeps
    <2> QED BY <2>2, <2>3
  <1> QED BY <1>1, <1>2

(***************************************************************************)
(* The steps.                                                              *)
(***************************************************************************)

(* The fibres' own invariant holds under the host as well: only the catch   *)
(* of a wrenCall and the error that nothing catches are not steps of        *)
(* theirs, and they just end the throw.                                     *)
LEMMA ForeignIInv ==
    ASSUME ForeignInv, [ForeignNext]_foreignVars PROVE IInv'
  <1>1. IInv
    BY DEF ForeignInv
  <1>2. CASE CaughtByWrenCall \/ EscapesToHost
    BY <1>1, <1>2 DEF CaughtByWrenCall, EscapesToHost, fields, IInv, TypeOK, RunsOnCurrentStack,
        SuspendedIsResumable, StackLifetime, StateMatchesFrame, ExceptionIffFailed,
        NotOwnParent, MainStarted, IsSuspended
  <1>3. CASE FibreOperation
    <2>1. Next
      BY <1>3 DEF FibreOperation, Next
    <2> QED BY <1>1, <2>1, NextIInv
  <1>4. ASSUME NEW m \in Messages, AbortFiber(m) PROVE IInv'
    BY <1>1, <1>4, ThrowIInv DEF AbortFiber, Abort
  <1>5. CASE CaughtByFibre
    <2>1. Next
      BY <1>5 DEF CaughtByFibre, Next
    <2> QED BY <1>1, <2>1, NextIInv
  <1>6. CASE UNCHANGED vars
    BY <1>1, <1>6, NextIInv
  <1> QED
    BY <1>2, <1>3, <1>4, <1>5, <1>6
    DEF ForeignNext, NewVM, FreeVM, WrenCall, WrenCallReturns, DispatchForeignCall,
        ForeignReturns, ToStringReturns, ErrorFnReturns, Ended, foreignVars

(* Frames are kept where a fibre operation leaves the fibres on their       *)
(* stacks.                                                                  *)
LEMMA FramesKept ==
    ASSUME ForeignInv, IInv', FramesOfMappedStacks, process = "running",
           process' = "running", NEW gone,
           \A f \in Fibres : f \in gone => native[f] = <<>>,
           KeptExcept(gone)
    PROVE  native' = native
  <1> SUFFICES ASSUME NEW f \in Fibres PROVE native'[f] = native[f]
    BY DEF FramesOfMappedStacks, ForeignInv, NativeTypeOK
  <1>1. CASE native[f] = <<>>
    BY <1>1 DEF FramesOfMappedStacks
  <1>2. CASE native[f] # <<>>
    <2>1. state[f] \in OnStack /\ f \notin gone
      BY <1>2 DEF ForeignInv, NativeOnStacks
    <2>2. state'[f] \in OnStack
      BY <2>1 DEF KeptExcept
    <2>3. f = Main \/ stack'[f]
      BY <2>2 DEF IInv, StackLifetime
    <2> QED BY <2>3 DEF FramesOfMappedStacks
  <1> QED BY <1>1, <1>2

(* Such an operation keeps the rest of the invariant.                       *)
LEMMA OperationKeeps ==
    ASSUME ForeignInv, IInv', FramesOfMappedStacks, UNCHANGED currentVMs,
           process = "running", NEW gone,
           \A f \in Fibres : f \in gone => native[f] = <<>>,
           KeptExcept(gone)
    PROVE  ForeignInv'
  <1>1. NativeTypeOK'
    <2>1. \A f \in Fibres : native'[f] = native[f] \/ native'[f] = <<>>
      BY DEF FramesOfMappedStacks
    <2>2. native' \in [Fibres -> Seq(Kinds)]
      BY DEF FramesOfMappedStacks, ForeignInv, NativeTypeOK
    <2>3. \A f \in Fibres : Len(native'[f]) <= MaxNative
      BY <2>1, ForeignAssumption DEF ForeignInv, NativeTypeOK
    <2> QED BY <2>2, <2>3 DEF ForeignInv, NativeTypeOK
  <1>2. CASE process' # "running"
    BY <1>1, <1>2 DEF ForeignInv, NativeOnStacks, VMsAt
  <1>3. CASE process' = "running"
    <2>1. native' = native
      BY <1>3, FramesKept
    <2>2. NativeOnStacks'
      BY <2>1 DEF ForeignInv, NativeOnStacks, KeptExcept
    <2>3. VMsAt'
      BY <2>1 DEF ForeignInv, VMsAt
    <2> QED BY <1>1, <2>2, <2>3 DEF ForeignInv
  <1> QED BY <1>2, <1>3

(* What a frame that is pushed or popped does to one stack. *)
LEMMA PushPop ==
    ASSUME NEW s \in Seq(Kinds), NEW k \in Kinds
    PROVE  /\ Append(s, k) \in Seq(Kinds) /\ Len(Append(s, k)) = Len(s) + 1
           /\ Append(s, k)[Len(s) + 1] = k
           /\ \A i \in 1..Len(s) : Append(s, k)[i] = s[i]
           /\ \A n \in 0..Len(s) : /\ SubSeq(s, 1, n) \in Seq(Kinds)
                                   /\ Len(SubSeq(s, 1, n)) = n
                                   /\ \A i \in 1..n : SubSeq(s, 1, n)[i] = s[i]
  OBVIOUS

(* A step that changes the frames of the running stack, and the VMs on that *)
(* stack to match, keeps the invariant.                                     *)
LEMMA StackChange ==
    ASSUME ForeignInv, IInv', process = "running", UNCHANGED state,
           NEW s \in Seq(Kinds), Len(s) <= MaxNative,
           native' = [native EXCEPT ![sp] = s],
           currentVMs' \subseteq Fibres \X Nat,
           \A f \in Fibres, i \in Nat : f # sp \/ i = 0 =>
               (<<f, i>> \in currentVMs' <=> <<f, i>> \in currentVMs),
           \A i \in Nat \ {0} :
               <<sp, i>> \in currentVMs' <=> i \in 1..Len(s) /\ s[i] = "foreign"
    PROVE  ForeignInv'
  <1>1. sp \in Fibres /\ state[sp] \in OnStack
    BY DEF ForeignInv, IInv, TypeOK, RunsOnCurrentStack, OnStack
  <1>2. \A f \in Fibres : native'[f] = IF f = sp THEN s ELSE native[f]
    BY DEF ForeignInv, NativeTypeOK
  <1>3. NativeTypeOK'
    BY <1>1, <1>2 DEF ForeignInv, NativeTypeOK
  <1>4. NativeOnStacks'
    BY <1>1, <1>2 DEF ForeignInv, NativeOnStacks
  <1>5. VMsAt'
    <2> SUFFICES ASSUME NEW f \in Fibres, NEW i \in Nat
                 PROVE  IF i = 0 THEN <<f, i>> \in currentVMs' => f = Main
                        ELSE <<f, i>> \in currentVMs'
                               <=> i \in 1..Len(native'[f]) /\ native'[f][i] = "foreign"
      BY DEF VMsAt
    <2>1. CASE i = 0
      BY <2>1 DEF ForeignInv, VMsAt
    <2>2. CASE i # 0 /\ f = sp
      BY <2>2, <1>2
    <2>3. CASE i # 0 /\ f # sp
      BY <2>3, <1>2 DEF ForeignInv, VMsAt
    <2> QED BY <2>1, <2>2, <2>3
  <1> QED BY <1>3, <1>4, <1>5 DEF ForeignInv

(* What the invariant says of the running stack. *)
LEMMA RunningStack ==
    ASSUME ForeignInv, process = "running"
    PROVE  /\ sp \in Fibres /\ native[sp] \in Seq(Kinds)
           /\ Len(native[sp]) \in 0..MaxNative
           /\ currentVMs \subseteq Fibres \X Nat
           /\ \A i \in Nat \ {0} : <<sp, i>> \in currentVMs
                 <=> i \in 1..Len(native[sp]) /\ native[sp][i] = "foreign"
  <1>1. sp \in Fibres
    BY DEF ForeignInv, IInv, TypeOK
  <1>2. native[sp] \in Seq(Kinds) /\ Len(native[sp]) <= MaxNative
    BY <1>1 DEF ForeignInv, NativeTypeOK
  <1>3. \A i \in Nat \ {0} : <<sp, i>> \in currentVMs
                 <=> i \in 1..Len(native[sp]) /\ native[sp][i] = "foreign"
    BY <1>1 DEF ForeignInv, VMsAt
  <1> QED BY <1>1, <1>2, <1>3, ForeignAssumption DEF ForeignInv, NativeTypeOK

(* Calls from and to the host. *)
LEMMA PushForeign ==
    ASSUME ForeignInv, IInv',
           \/ WrenCall \/ DispatchForeignCall \/ WrenCallReturns \/ ForeignReturns
           \/ ToStringReturns \/ ErrorFnReturns
    PROVE  ForeignInv'
  <1> DEFINE s == native[sp]
             n == Len(s)
  <1>1. process = "running" /\ UNCHANGED state
    BY DEF WrenCall, DispatchForeignCall, WrenCallReturns, ForeignReturns, ToStringReturns,
           ErrorFnReturns, HostRuns, InWren, InHost, In, WrenCodeRuns, vars, fields
  <1>2. /\ sp \in Fibres /\ s \in Seq(Kinds) /\ n \in 0..MaxNative /\ n \in Nat
        /\ currentVMs \subseteq Fibres \X Nat
        /\ \A i \in Nat \ {0} : <<sp, i>> \in currentVMs <=> i \in 1..n /\ s[i] = "foreign"
    BY <1>1, RunningStack, ForeignAssumption
  <1>4. CASE WrenCall
    <2> DEFINE t == Append(s, "wrenCall")
    <2>1. /\ native' = [native EXCEPT ![sp] = t] /\ n < MaxNative
          /\ currentVMs' = currentVMs
      BY <1>4 DEF WrenCall, Push
    <2>2. /\ t \in Seq(Kinds) /\ Len(t) = n + 1 /\ t[n + 1] = "wrenCall"
          /\ \A i \in 1..n : t[i] = s[i]
      BY <1>2, PushPop DEF Kinds
    <2>3. \A i \in Nat \ {0} : <<sp, i>> \in currentVMs' <=> i \in 1..Len(t) /\ t[i] = "foreign"
      BY <1>2, <2>1, <2>2
    <2>4. Len(t) <= MaxNative
      BY <1>2, <2>1, <2>2, ForeignAssumption
    <2> HIDE DEF t
    <2> QED BY <1>1, <1>2, <2>1, <2>2, <2>3, <2>4, StackChange
  <1>5. CASE DispatchForeignCall
    <2> DEFINE t == Append(s, "foreign")
    <2>1. /\ native' = [native EXCEPT ![sp] = t] /\ n < MaxNative
          /\ currentVMs' = currentVMs \cup {<<sp, n + 1>>}
      BY <1>5 DEF DispatchForeignCall, Push
    <2>2. /\ t \in Seq(Kinds) /\ Len(t) = n + 1 /\ t[n + 1] = "foreign"
          /\ \A i \in 1..n : t[i] = s[i]
      BY <1>2, PushPop DEF Kinds
    <2>3. \A i \in Nat \ {0} : <<sp, i>> \in currentVMs' <=> i \in 1..Len(t) /\ t[i] = "foreign"
      <3> SUFFICES ASSUME NEW i \in Nat \ {0}
                   PROVE  <<sp, i>> \in currentVMs' <=> i \in 1..Len(t) /\ t[i] = "foreign"
        OBVIOUS
      <3>1. <<sp, i>> \in currentVMs' <=> <<sp, i>> \in currentVMs \/ i = n + 1
        BY <2>1
      <3> QED BY <1>2, <2>2, <3>1
    <2>4. Len(t) <= MaxNative
      BY <1>2, <2>1, <2>2, ForeignAssumption
    <2>5. currentVMs' \subseteq Fibres \X Nat
      BY <1>2, <2>1
    <2>6. \A f \in Fibres, i \in Nat : f # sp \/ i = 0 =>
               (<<f, i>> \in currentVMs' <=> <<f, i>> \in currentVMs)
      BY <1>2, <2>1
    <2> HIDE DEF t
    <2> QED BY <1>1, <2>1, <2>2, <2>3, <2>4, <2>5, <2>6, StackChange
  <1>6. ASSUME NEW kind \in Kinds, In(kind), Pop,
               currentVMs' = currentVMs \ (IF kind = "foreign" THEN {<<sp, n>>} ELSE {})
        PROVE  ForeignInv'
    <2> DEFINE t == SubSeq(s, 1, n - 1)
    <2>1. s # <<>> /\ s[n] = kind /\ native' = [native EXCEPT ![sp] = t]
      BY <1>6 DEF In, Pop
    <2>2. n - 1 \in 0..n
      BY <1>2, <2>1
    <2>3. t \in Seq(Kinds) /\ Len(t) = n - 1 /\ \A i \in 1..(n - 1) : t[i] = s[i]
      BY <1>2, <2>2, PushPop
    <2>4. \A i \in Nat \ {0} : <<sp, i>> \in currentVMs' <=> i \in 1..Len(t) /\ t[i] = "foreign"
      <3> SUFFICES ASSUME NEW i \in Nat \ {0}
                   PROVE  <<sp, i>> \in currentVMs' <=> i \in 1..Len(t) /\ t[i] = "foreign"
        OBVIOUS
      <3>1. <<sp, i>> \in currentVMs' <=> <<sp, i>> \in currentVMs /\ ~(i = n /\ kind = "foreign")
        BY <1>6
      <3> QED BY <1>2, <2>1, <2>2, <2>3, <3>1
    <2>5. Len(t) <= MaxNative /\ currentVMs' \subseteq Fibres \X Nat
      BY <1>2, <1>6, <2>2, <2>3, ForeignAssumption
    <2>6. \A f \in Fibres, i \in Nat : f # sp \/ i = 0 =>
               (<<f, i>> \in currentVMs' <=> <<f, i>> \in currentVMs)
      BY <1>2, <1>6, <2>2
    <2> HIDE DEF t
    <2> QED BY <1>1, <2>1, <2>3, <2>4, <2>5, <2>6, StackChange
  <1>7. CASE WrenCallReturns
    BY <1>6, <1>7 DEF WrenCallReturns, Kinds
  <1>8. CASE ForeignReturns
    BY <1>6, <1>8 DEF ForeignReturns, Kinds
  <1>9. CASE ErrorFnReturns
    BY <1>6, <1>9 DEF ErrorFnReturns, Kinds
  <1>10. CASE ToStringReturns
    <2> DEFINE r == SubSeq(s, 1, n - 1)
               t == Append(r, "errorFn")
    <2>1. /\ s # <<>> /\ s[n] = "toString" /\ native' = [native EXCEPT ![sp] = t]
          /\ currentVMs' = currentVMs
      BY <1>10 DEF ToStringReturns, In, GoOnAs
    <2>2. n - 1 \in 0..n
      BY <1>2, <2>1
    <2>3. r \in Seq(Kinds) /\ Len(r) = n - 1 /\ \A i \in 1..(n - 1) : r[i] = s[i]
      BY <1>2, <2>2, PushPop
    <2> HIDE DEF r
    <2>4. /\ t \in Seq(Kinds) /\ Len(t) = n /\ t[n] = "errorFn"
          /\ \A i \in 1..(n - 1) : t[i] = s[i]
      BY <1>2, <2>3, PushPop DEF Kinds
    <2>5. \A i \in Nat \ {0} : <<sp, i>> \in currentVMs' <=> i \in 1..Len(t) /\ t[i] = "foreign"
      BY <1>2, <2>1, <2>4
    <2>6. Len(t) <= MaxNative
      BY <1>2, <2>4, ForeignAssumption
    <2> HIDE DEF t
    <2> QED BY <1>1, <1>2, <2>1, <2>4, <2>5, <2>6, StackChange
  <1> QED BY <1>4, <1>5, <1>7, <1>8, <1>9, <1>10

(* The exception stops at the innermost wrenCall, which goes on in its      *)
(* catch block: the VMs from there on are the ones destructed.              *)
LEMMA CaughtKeeps ==
    ASSUME ForeignInv, IInv', CaughtByWrenCall PROVE ForeignInv'
  <1> DEFINE s == native[sp]
             k == Max(Catching)
             r == SubSeq(s, 1, k - 1)
             t == Append(r, Reporting)
  <1>1. process = "running" /\ UNCHANGED state /\ Catching # {}
    BY DEF CaughtByWrenCall, fields
  <1>2. /\ sp \in Fibres /\ s \in Seq(Kinds) /\ Len(s) \in 0..MaxNative /\ Len(s) \in Nat
        /\ currentVMs \subseteq Fibres \X Nat
        /\ \A i \in Nat \ {0} : <<sp, i>> \in currentVMs <=> i \in 1..Len(s) /\ s[i] = "foreign"
    BY <1>1, RunningStack, ForeignAssumption
  <1>3. Catching \subseteq 1..Len(s)
    BY <1>2 DEF Catching
  <1>4. k \in Catching
    BY <1>1, <1>2, <1>3, MaxOfPositions
  <1>5. k \in 1..Len(s) /\ k - 1 \in 0..Len(s)
    <2>1. k \in 1..Len(s)
      BY <1>3, <1>4
    <2> HIDE DEF k, s
    <2> QED BY <1>2, <2>1
  <1>6. native' = [native EXCEPT ![sp] = t] /\ currentVMs' = currentVMs \ VMsFrom(k)
    BY DEF CaughtByWrenCall, GoOnAs
  <1>7. /\ t \in Seq(Kinds) /\ Len(t) = k /\ t[k] # "foreign"
        /\ \A i \in 1..(k - 1) : t[i] = s[i]
    <2>1. r \in Seq(Kinds) /\ Len(r) = k - 1 /\ \A i \in 1..(k - 1) : r[i] = s[i]
      BY <1>2, <1>5, PushPop
    <2>2. Reporting \in Kinds /\ Reporting # "foreign"
      BY DEF Reporting, Kinds
    <2> HIDE DEF r, k
    <2> QED BY <1>5, <2>1, <2>2, PushPop
  <1> HIDE DEF k
  <1>8. \A i \in Nat : <<sp, i>> \in VMsFrom(k) <=> i \in k..MaxNative
    BY <1>2, <1>5 DEF VMsFrom
  <1>9. \A i \in Nat \ {0} : <<sp, i>> \in currentVMs' <=> i \in 1..Len(t) /\ t[i] = "foreign"
    <2> SUFFICES ASSUME NEW i \in Nat \ {0}
                 PROVE  <<sp, i>> \in currentVMs' <=> i \in 1..Len(t) /\ t[i] = "foreign"
      OBVIOUS
    <2>1. <<sp, i>> \in currentVMs' <=> <<sp, i>> \in currentVMs /\ ~(i \in k..MaxNative)
      BY <1>6, <1>8
    <2> QED BY <1>2, <1>5, <1>7, <2>1, ForeignAssumption
  <1>10. Len(t) <= MaxNative /\ currentVMs' \subseteq Fibres \X Nat
    BY <1>2, <1>5, <1>6, <1>7, ForeignAssumption
  <1>11. \A f \in Fibres, i \in Nat : f # sp \/ i = 0 =>
             (<<f, i>> \in currentVMs' <=> <<f, i>> \in currentVMs)
    <2> SUFFICES ASSUME NEW f \in Fibres, NEW i \in Nat, f # sp \/ i = 0
                 PROVE  <<f, i>> \notin VMsFrom(k)
      BY <1>6
    <2>1. \A j \in k..MaxNative : j # 0
      BY <1>2, <1>5, ForeignAssumption
    <2> QED BY <2>1 DEF VMsFrom
  <1> HIDE DEF t
  <1> QED BY <1>1, <1>6, <1>7, <1>9, <1>10, <1>11, StackChange

(* An exception that no wrenCall takes clears the stack of the fibre that   *)
(* it fails, and no other.                                                  *)
LEMMA CaughtByFibreFrames ==
    ASSUME ForeignInv, IInv', CaughtByFibre, process' = "running"
    PROVE  /\ KeptExcept({sp})
           /\ native'[sp] = <<>>
           /\ \A f \in Fibres : f # sp => native'[f] = native[f]
  <1>1. /\ process = "running" /\ sp # Main /\ LeaveNewStack(sp, "FAILED")
        /\ FramesOfMappedStacks
    BY DEF CaughtByFibre, Unwind
  <1>2. sp \in Fibres
    BY DEF ForeignInv, IInv, TypeOK
  <1>3. KeptExcept({sp})
    BY <1>1, LeaveKeeps DEF ForeignInv, Terminal
  <1>4. state'[sp] = "FAILED"
    <2>1. parent[sp] # NULL
      BY <1>1 DEF LeaveNewStack, LastFibreExited
    <2> DEFINE g == parent[sp]
               st == [state EXCEPT ![sp] = "FAILED"]
    <2>2. g # sp
      BY <1>2 DEF ForeignInv, IInv, NotOwnParent
    <2>3. ResumeSuspended(st, currentFibre, g, TRUE, NoFrame, exception')
      BY <1>1, <2>1 DEF LeaveNewStack
    <2>4. state' = [st EXCEPT ![g] = "RUNNING"]
      BY <2>3 DEF ResumeSuspended
    <2> QED BY <1>2, <2>2, <2>4 DEF ForeignInv, IInv, TypeOK
  <1>5. native'[sp] = <<>>
    <2>1. ~stack'[sp]
      BY <1>1, <1>2, <1>4 DEF IInv, StackLifetime, OnStack
    <2> QED BY <1>1, <1>2, <2>1 DEF FramesOfMappedStacks
  <1>6. ASSUME NEW f \in Fibres, f # sp PROVE native'[f] = native[f]
    <2>1. CASE native[f] = <<>>
      BY <1>1, <2>1 DEF FramesOfMappedStacks
    <2>2. CASE native[f] # <<>>
      <3>1. state'[f] \in OnStack
        BY <1>1, <1>3, <1>6, <2>2 DEF KeptExcept, ForeignInv, NativeOnStacks
      <3>2. f = Main \/ stack'[f]
        BY <3>1 DEF IInv, StackLifetime
      <3> QED BY <1>1, <3>2 DEF FramesOfMappedStacks
    <2> QED BY <2>1, <2>2
  <1> QED BY <1>3, <1>5, <1>6

(* An exception that no wrenCall takes leaves no frame on the stack of the  *)
(* fibre it fails.                                                          *)
LEMMA CaughtByFibreKeeps ==
    ASSUME ForeignInv, IInv', CaughtByFibre PROVE ForeignInv'
  <1>1. process = "running" /\ sp # Main /\ LeaveNewStack(sp, "FAILED")
    BY DEF CaughtByFibre, Unwind
  <1>2. /\ sp \in Fibres /\ native[sp] \in Seq(Kinds) /\ Len(native[sp]) \in 0..MaxNative
        /\ currentVMs \subseteq Fibres \X Nat
        /\ \A i \in Nat \ {0} : <<sp, i>> \in currentVMs
              <=> i \in 1..Len(native[sp]) /\ native[sp][i] = "foreign"
    BY <1>1, RunningStack
  <1>3. currentVMs' = currentVMs \ VMsFrom(1) /\ FramesOfMappedStacks
    BY DEF CaughtByFibre
  <1>4. NativeTypeOK'
    <2>1. \A f \in Fibres : native'[f] = native[f] \/ native'[f] = <<>>
      BY <1>3 DEF FramesOfMappedStacks
    <2>2. native' \in [Fibres -> Seq(Kinds)]
      BY <1>3 DEF FramesOfMappedStacks, ForeignInv, NativeTypeOK
    <2>3. \A f \in Fibres : Len(native'[f]) <= MaxNative
      BY <2>1, ForeignAssumption DEF ForeignInv, NativeTypeOK
    <2> QED BY <1>2, <1>3, <2>2, <2>3 DEF NativeTypeOK
  <1>5. CASE process' # "running"
    BY <1>4, <1>5 DEF ForeignInv, NativeOnStacks, VMsAt
  <1>6. CASE process' = "running"
    <2>1. /\ KeptExcept({sp})
          /\ native'[sp] = <<>>
          /\ \A f \in Fibres : f # sp => native'[f] = native[f]
      BY <1>6, CaughtByFibreFrames
    <2>2. NativeOnStacks'
      BY <1>1, <2>1 DEF NativeOnStacks, KeptExcept, ForeignInv
    <2>3. VMsAt'
      <3> SUFFICES ASSUME NEW f \in Fibres, NEW i \in Nat
                   PROVE  IF i = 0 THEN <<f, i>> \in currentVMs' => f = Main
                          ELSE <<f, i>> \in currentVMs'
                                 <=> i \in 1..Len(native'[f]) /\ native'[f][i] = "foreign"
        BY DEF VMsAt
      <3>1. CASE i = 0
        BY <1>1, <1>3, <3>1 DEF ForeignInv, VMsAt
      <3>2. CASE i # 0 /\ f = sp
        <4>1. <<f, i>> \notin currentVMs'
          <5> SUFFICES ASSUME <<sp, i>> \in currentVMs PROVE <<sp, i>> \in VMsFrom(1)
            BY <1>3, <3>2
          <5>1. i \in 1..MaxNative
            BY <1>2, <3>2, ForeignAssumption
          <5> QED BY <5>1 DEF VMsFrom
        <4>2. Len(native'[f]) = 0
          BY <2>1, <3>2
        <4> QED BY <3>2, <4>1, <4>2
      <3>3. CASE i # 0 /\ f # sp
        <4>1. <<f, i>> \in currentVMs' <=> <<f, i>> \in currentVMs
          BY <1>3, <3>3 DEF VMsFrom
        <4>2. native'[f] = native[f]
          BY <2>1, <3>3
        <4> QED BY <1>1, <3>3, <4>1, <4>2 DEF ForeignInv, VMsAt
      <3> QED BY <3>1, <3>2, <3>3
    <2> QED BY <1>4, <2>2, <2>3 DEF ForeignInv
  <1> QED BY <1>5, <1>6

(* A fibre operation takes fibres off their stacks only where these are in  *)
(* no call from or to the host, as long as transferError is not used on one *)
(* that is.                                                                 *)
LEMMA FibreOperationTakes ==
    ASSUME ~FailsInForeignCall, IInv, FibreOperation
    PROVE  \E gone \in SUBSET Fibres :
              (\A f \in gone : native[f] = <<>>) /\ KeptExcept(gone)
  <1>1. CASE \E f \in Fibres, arity \in 0..2 : New(f, arity)
    <2>1. PICK f \in Fibres, arity \in 0..2 : New(f, arity)
      BY <1>1
    <2>2. KeptExcept({})
      <3>1. CASE arity > 1
        BY <2>1, <3>1, ThrowKeeps DEF New
      <3>2. CASE ~(arity > 1)
        BY <2>1, <3>2 DEF New, KeptExcept, OnStack, IInv, TypeOK
      <3> QED BY <3>1, <3>2
    <2> QED BY <2>2
  <1>2. CASE \E f \in Fibres : Call(f) \/ Try(f) \/ Transfer(f)
    <2>1. KeptExcept({})
      BY <1>2, CallImplKeeps DEF Call, Try, Transfer, CallKinds
    <2> QED BY <2>1
  <1>3. CASE \E f \in Fibres, m \in Messages \cup {NullVal} :
                (native[f] # <<>> => FailsInForeignCall) /\ TransferError(f, m)
    <2>1. PICK f \in Fibres, m \in Messages \cup {NullVal} :
             (native[f] # <<>> => FailsInForeignCall) /\ TransferError(f, m)
      BY <1>3
    <2>2. KeptExcept({f}) /\ native[f] = <<>>
      BY <2>1, TransferErrorKeeps
    <2> QED BY <2>2
  <1>4. CASE \E m \in Messages : Abort(m)
    <2>1. KeptExcept({})
      BY <1>4, ThrowKeeps DEF Abort
    <2> QED BY <2>1
  <1>5. CASE Yield
    <2>1. KeptExcept({})
      BY <1>5, YieldKeeps
    <2> QED BY <2>1
  <1>6. CASE native[sp] = <<>> /\ FunctionReturns
    <2>1. KeptExcept({sp})
      BY <1>6, LeaveKeeps DEF FunctionReturns, Terminal
    <2>2. sp \in Fibres
      BY DEF IInv, TypeOK
    <2> QED BY <1>6, <2>1, <2>2
  <1> QED BY <1>1, <1>2, <1>3, <1>4, <1>5, <1>6 DEF FibreOperation

(* So it keeps the invariant... *)
LEMMA FibreOperationKeeps ==
    ASSUME ~FailsInForeignCall, ForeignInv, IInv', FibreOperation PROVE ForeignInv'
  <1>1. process = "running" /\ FramesOfMappedStacks /\ UNCHANGED currentVMs /\ IInv
    BY DEF FibreOperation, InWren, In, WrenCodeRuns, ForeignInv
  <1>2. PICK gone \in SUBSET Fibres : (\A f \in gone : native[f] = <<>>) /\ KeptExcept(gone)
    BY <1>1, FibreOperationTakes
  <1>3. \A f \in Fibres : f \in gone => native[f] = <<>>
    BY <1>2
  <1> QED BY <1>1, <1>2, <1>3, OperationKeeps

(* ... and all the calls from and to the host. *)
LEMMA FibreOperationFrames ==
    ASSUME ~FailsInForeignCall, ForeignInv, IInv', FibreOperation, process' = "running"
    PROVE  native' = native
  <1>1. process = "running" /\ FramesOfMappedStacks /\ IInv
    BY DEF FibreOperation, InWren, In, WrenCodeRuns, ForeignInv
  <1>2. PICK gone \in SUBSET Fibres : (\A f \in gone : native[f] = <<>>) /\ KeptExcept(gone)
    BY <1>1, FibreOperationTakes
  <1>3. \A f \in Fibres : f \in gone => native[f] = <<>>
    BY <1>2
  <1> QED BY <1>1, <1>2, <1>3, FramesKept

(* Every step keeps the invariant. *)
LEMMA NextForeign ==
    ASSUME ~FailsInForeignCall PROVE ForeignInv /\ [ForeignNext]_foreignVars => ForeignInv'
  <1> SUFFICES ASSUME ForeignInv, [ForeignNext]_foreignVars PROVE ForeignInv'
    OBVIOUS
  <1>1. IInv'
    BY ForeignIInv
  <1>2. CASE NewVM \/ FreeVM
    <2>1. /\ UNCHANGED <<vars, native>> /\ process = "running"
          /\ currentVMs' = currentVMs \cup {HostVM} \/ currentVMs' = currentVMs \ {HostVM}
      BY <1>2 DEF NewVM, FreeVM, HostRuns, WrenCodeRuns
    <2>2. HostVM \in Fibres \X Nat
      BY FibresAssumption DEF HostVM
    <2>3. NativeTypeOK'
      BY <2>1, <2>2 DEF ForeignInv, NativeTypeOK
    <2>4. NativeOnStacks'
      BY <2>1 DEF ForeignInv, NativeOnStacks, vars, fields
    <2>5. VMsAt'
      <3>1. \A f \in Fibres, i \in Nat : i # 0 \/ f # Main =>
               (<<f, i>> \in currentVMs' <=> <<f, i>> \in currentVMs)
        BY <2>1 DEF HostVM
      <3> QED BY <2>1, <3>1 DEF ForeignInv, VMsAt, vars, fields
    <2> QED BY <1>1, <2>3, <2>4, <2>5 DEF ForeignInv
  <1>3. CASE \/ WrenCall \/ DispatchForeignCall \/ WrenCallReturns \/ ForeignReturns
             \/ ToStringReturns \/ ErrorFnReturns
    BY <1>1, <1>3, PushForeign
  <1>4. ASSUME NEW m \in Messages, AbortFiber(m) PROVE ForeignInv'
    <2>1. UNCHANGED <<state, process, native, currentVMs>>
      BY <1>4 DEF AbortFiber, Abort, Throw, fields
    <2> QED BY <1>1, <2>1 DEF ForeignInv, NativeTypeOK, NativeOnStacks, VMsAt
  <1>5. CASE FibreOperation
    BY <1>1, <1>5, FibreOperationKeeps
  <1>6. CASE CaughtByWrenCall
    BY <1>1, <1>6, CaughtKeeps
  <1>7. CASE CaughtByFibre
    BY <1>1, <1>7, CaughtByFibreKeeps
  <1>8. CASE UNCHANGED foreignVars
    <2>1. UNCHANGED <<state, process, native, currentVMs>>
      BY <1>8 DEF foreignVars, vars, fields
    <2> QED BY <1>1, <2>1 DEF ForeignInv, NativeTypeOK, NativeOnStacks, VMsAt
  <1>9. CASE EscapesToHost
    <2>1. UNCHANGED <<native, currentVMs>> /\ process' # "running"
      BY <1>9 DEF EscapesToHost
    <2> QED BY <1>1, <2>1 DEF ForeignInv, NativeTypeOK, NativeOnStacks, VMsAt
  <1> QED BY <1>2, <1>3, <1>4, <1>5, <1>6, <1>7, <1>8, <1>9 DEF ForeignNext, Ended

(***************************************************************************)
(* The theorems.  transferError on a fibre in the middle of a foreign call *)
(* is excluded: the run foreign_fail shows what it does.                   *)
(***************************************************************************)
THEOREM ForeignInvariance ==
    ASSUME ~FailsInForeignCall PROVE ForeignSpec => []ForeignInv
  BY InitForeign, NextForeign, PTL DEF ForeignSpec

(* currentVMs holds exactly the VMs of the foreign calls in progress, on    *)
(* suspended fibres too: WrenVM's constructor and destructor pair up        *)
(* however calls, fibre switches and exceptions are nested.                 *)
THEOREM VMsCorrect ==
    ASSUME ~FailsInForeignCall PROVE ForeignSpec => []VMsExact
  <1>1. ForeignInv => VMsExact
    <2> SUFFICES ASSUME ForeignInv, process = "running"
                 PROVE  currentVMs \ {HostVM} =
                          UNION {{<<f, i>> : i \in {i \in DOMAIN native[f] :
                                                      native[f][i] = "foreign"}} : f \in Fibres}
      BY DEF VMsExact
    <2>a. \A f \in Fibres : native[f] \in Seq(Kinds)
      BY DEF ForeignInv, NativeTypeOK
    <2>b. \A s \in Seq(Kinds) : DOMAIN s = 1..Len(s)
      OBVIOUS
    <2>1. \A f \in Fibres : DOMAIN native[f] = 1..Len(native[f])
      BY <2>a, <2>b, Zenon
    <2>2. ASSUME NEW vm \in currentVMs \ {HostVM}
          PROVE  \E f \in Fibres : \E i \in {i \in DOMAIN native[f] : native[f][i] = "foreign"} :
                    vm = <<f, i>>
      <3>1. PICK f \in Fibres, i \in Nat : vm = <<f, i>>
        BY <2>2 DEF ForeignInv, NativeTypeOK
      <3>2. i # 0
        BY <2>2, <3>1 DEF ForeignInv, VMsAt, HostVM
      <3>3. i \in 1..Len(native[f]) /\ native[f][i] = "foreign"
        BY <2>2, <3>1, <3>2 DEF ForeignInv, VMsAt
      <3> QED BY <2>1, <3>1, <3>3
    <2>3. ASSUME NEW f \in Fibres, NEW i \in DOMAIN native[f], native[f][i] = "foreign"
          PROVE  <<f, i>> \in currentVMs \ {HostVM}
      <3>1. i \in 1..Len(native[f]) /\ i \in Nat /\ i # 0
        BY <2>1
      <3>2. <<f, i>> # HostVM
        BY <3>1 DEF HostVM
      <3>3. <<f, i>> \in currentVMs
        BY <2>3, <3>1 DEF ForeignInv, VMsAt
      <3> QED BY <3>2, <3>3
    <2> QED BY <2>2, <2>3
  <1> QED BY ForeignInvariance, <1>1, PTL

(* No registered VM is on a stack that is gone: transferError on a fibre in *)
(* the middle of a foreign call is the only way to break this.              *)
THEOREM VMsMappedCorrect ==
    ASSUME ~FailsInForeignCall PROVE ForeignSpec => []VMsOnMappedStacks
  <1>1. ForeignInv => VMsOnMappedStacks
    <2> SUFFICES ASSUME ForeignInv, process = "running", NEW vm \in currentVMs
                 PROVE  vm[1] = Main \/ stack[vm[1]]
      BY DEF VMsOnMappedStacks
    <2>1. PICK f \in Fibres, i \in Nat : vm = <<f, i>>
      BY DEF ForeignInv, NativeTypeOK
    <2>2. CASE i = 0
      BY <2>1, <2>2 DEF ForeignInv, VMsAt
    <2>3. CASE i # 0
      <3>1. i \in 1..Len(native[f])
        BY <2>1, <2>3 DEF ForeignInv, VMsAt
      <3>2. native[f] # <<>>
        BY <3>1
      <3>3. f = Main \/ stack[f]
        BY <3>2 DEF ForeignInv, NativeOnStacks, IInv, StackLifetime
      <3> QED BY <2>1, <3>3
    <2> QED BY <2>2, <2>3
  <1> QED BY ForeignInvariance, <1>1, PTL

(* No step of a fibre takes a call from or to the host away from another    *)
(* one, or leaves one behind on a stack that is over: neither a fibre that  *)
(* ends or fails, nor an error on its way through several of them.          *)
THEOREM HostCallsKeptCorrect ==
    ASSUME ~FailsInForeignCall PROVE ForeignSpec => HostCallsKept
  <1> DEFINE Kept == \A f \in Fibres :
                        /\ f # sp => native'[f] = native[f]
                        /\ state'[f] \in Terminal => native'[f] = <<>>
  <1>1. ForeignInv /\ [ForeignNext]_foreignVars
          => [process' = "running" => Kept]_foreignVars
    <2> SUFFICES ASSUME ForeignInv, ForeignNext, process' = "running" PROVE Kept
      OBVIOUS
    <2>1. ForeignInv'
      BY NextForeign
    <2>2. ASSUME NEW f \in Fibres, state'[f] \in Terminal PROVE native'[f] = <<>>
      BY <2>1, <2>2 DEF ForeignInv, NativeOnStacks, Terminal, OnStack
    <2>3. ASSUME NEW f \in Fibres, f # sp PROVE native'[f] = native[f]
      <3>1. CASE FibreOperation
        BY <2>1, <3>1, FibreOperationFrames DEF ForeignInv
      <3>2. CASE CaughtByFibre
        BY <2>1, <2>3, <3>2, CaughtByFibreFrames DEF ForeignInv
      <3>3. CASE WrenCall \/ DispatchForeignCall
        BY <2>3, <3>3 DEF WrenCall, DispatchForeignCall, Push, ForeignInv, NativeTypeOK
      <3>4. CASE WrenCallReturns \/ ForeignReturns \/ ErrorFnReturns
        BY <2>3, <3>4 DEF WrenCallReturns, ForeignReturns, ErrorFnReturns, Pop,
                          ForeignInv, NativeTypeOK
      <3>5. CASE CaughtByWrenCall \/ ToStringReturns
        BY <2>3, <3>5 DEF CaughtByWrenCall, ToStringReturns, GoOnAs, ForeignInv, NativeTypeOK
      <3>6. CASE UNCHANGED native
        BY <3>6
      <3> QED
        BY <3>1, <3>2, <3>3, <3>4, <3>5, <3>6
        DEF ForeignNext, NewVM, FreeVM, AbortFiber, EscapesToHost, Ended, foreignVars
    <2> QED BY <2>2, <2>3
  <1> QED BY <1>1, ForeignInvariance, PTL DEF ForeignSpec, HostCallsKept
=============================================================================
