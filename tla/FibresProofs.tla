---------------------------- MODULE FibresProofs ----------------------------
(***************************************************************************)
(* Proofs about Fibres, for every set of fibres and of messages.           *)
(***************************************************************************)
EXTENDS Fibres, TLAPS

(* A fibre that yields does not wake itself. *)
NotOwnParent == \A f \in Fibres : parent[f] # f

(* The main fibre is never given a stack of its own. *)
MainStarted == state[Main] \notin {"FREE", "NOT_STARTED"}

(* The inductive invariant: the properties of Fibres need one another.  For *)
(* instance a fibre that is woken finds its own stack only because the one  *)
(* that suspended it was running on its own stack.                          *)
IInv ==
    /\ TypeOK
    /\ RunsOnCurrentStack
    /\ SuspendedIsResumable
    /\ StackLifetime
    /\ StateMatchesFrame
    /\ ExceptionIffFailed
    /\ NotOwnParent
    /\ MainStarted

(* The invariant holds when the main module starts on the OS stack. *)
LEMMA InitIInv == Init => IInv
  BY FibresAssumption
  DEF Init, IInv, TypeOK, RunsOnCurrentStack, SuspendedIsResumable,
      StackLifetime, StateMatchesFrame, ExceptionIffFailed, NotOwnParent, MainStarted,
      States, Ops,
      CallKinds, Frame, UserCode, NoFrame, IsSuspended, OnStack

(* Throwing changes nothing of the fibres until the exception lands. *)
LEMMA ThrowIInv ==
    ASSUME IInv, NEW m \in Messages, Throw(m) PROVE IInv'
  BY DEF Throw, fields, IInv, TypeOK, RunsOnCurrentStack, SuspendedIsResumable,
      StackLifetime, StateMatchesFrame, ExceptionIffFailed, NotOwnParent,
      MainStarted, IsSuspended

(* What a switch to a suspended fibre does to the parts of the invariant    *)
(* about stacks, whoever `old` is: the fibre that ran until now, or (in     *)
(* transferError) a fibre that never gets to run again.                     *)
LEMMA ResumeTypeOK ==
    ASSUME TypeOK, NEW st \in [Fibres -> States], NEW old \in Fibres,
           NEW this \in Fibres, NEW terminate \in BOOLEAN, NEW blocked,
           blocked \in [op : Ops, on : Fibres \cup {NULL}], NEW exc,
           resumeAddress[this] \in Fibres \/ ~IsSuspended(st, this),
           parent' \in [Fibres -> Fibres \cup {NULL}],
           exception' \in [Fibres -> Messages \cup {NullVal, NoException}],
           ResumeSuspended(st, old, this, terminate, blocked, exc)
    PROVE TypeOK'
  <1>1. CASE ~IsSuspended(st, this)
    BY <1>1 DEF ResumeSuspended, TypeOK
  <1>2. CASE IsSuspended(st, this)
    <2>1. UserCode \in [op : Ops, on : Fibres \cup {NULL}]
          /\ NoFrame \in [op : Ops, on : Fibres \cup {NULL}]
      BY DEF UserCode, NoFrame, Frame, Ops, CallKinds
    <2>2. Rethrown(frame[resumeAddress[this]], exc) \in Messages \cup {NoException}
      BY DEF Rethrown
    <2> DEFINE woken == resumeAddress[this]
    <2>3. /\ state' = [st EXCEPT ![this] = "RUNNING"]
          /\ suspendedContext' = [suspendedContext EXCEPT ![old] = sp, ![this] = NULL]
          /\ resumeAddress' = [resumeAddress EXCEPT ![this] = NULL, ![old] = sp]
          /\ currentFibre' = this
          /\ sp' = woken
          /\ thrown' = Rethrown(frame[woken], exc)
          /\ frame' = [frame EXCEPT ![sp] = blocked, ![woken] = UserCode,
                                    ![old] = IF terminate THEN NoFrame ELSE @]
          /\ function' = IF terminate THEN [function EXCEPT ![old] = FALSE] ELSE function
          /\ stack' = IF terminate THEN [stack EXCEPT ![old] = FALSE] ELSE stack
          /\ UNCHANGED process
      BY <1>2 DEF ResumeSuspended
    <2>4. frame' \in [Fibres -> [op : Ops, on : Fibres \cup {NULL}]]
      <3> HIDE DEF woken
      <3> QED BY <1>2, <2>1, <2>3 DEF TypeOK
    <2>5. /\ state' \in [Fibres -> States]
          /\ suspendedContext' \in [Fibres -> Fibres \cup {NULL}]
          /\ resumeAddress' \in [Fibres -> Fibres \cup {NULL}]
          /\ function' \in [Fibres -> BOOLEAN]
          /\ stack' \in [Fibres -> BOOLEAN]
      BY <2>3 DEF TypeOK, States
    <2> QED BY <1>2, <2>2, <2>3, <2>4, <2>5 DEF TypeOK
  <1> QED BY <1>1, <1>2

(* How `old` leaves: the running fibre blocks or terminates, or a fibre     *)
(* that is not running is failed by transferError on the running stack.     *)
Leaves(old, final, terminate, blocked) ==
    \/ /\ old = sp /\ ~terminate /\ final = "WAITING"
       /\ blocked.op \in {"call", "try"}
    \/ /\ old = sp /\ ~terminate /\ final = "SUSPENDED"
       /\ blocked.op \in {"yield", "transfer"}
    \/ /\ old = sp /\ terminate /\ final \in Terminal
    \/ /\ old # sp /\ terminate /\ final = "FAILED"
       /\ state[old] \in {"NOT_STARTED", "SUSPENDED"}
       /\ blocked.op = "transferError"

(* Switching to a suspended fibre keeps the invariant, however `old` leaves.*)
LEMMA ResumeIInv ==
    ASSUME IInv, process = "running",
           NEW old \in Fibres, NEW this \in Fibres, this # old,
           NEW final \in States, NEW terminate \in BOOLEAN,
           NEW st \in [Fibres -> States],
           \A f \in Fibres : st[f] = IF f = old THEN final ELSE state[f],
           NEW blocked \in [op : Ops, on : Fibres \cup {NULL}], NEW exc,
           Leaves(old, final, terminate, blocked),
           parent' \in [Fibres -> Fibres \cup {NULL}],
           \A f \in Fibres : parent'[f] # f,
           exception' \in [Fibres -> Messages \cup {NullVal, NoException}],
           \A f \in Fibres : exception'[f] # NoException <=> st[f] = "FAILED",
           ResumeSuspended(st, old, this, terminate, blocked, exc)
    PROVE IInv'
  <1> DEFINE woken == resumeAddress[this]
  <1>1. st \in [Fibres -> States]
    OBVIOUS
  <1>2. IsSuspended(st, this) => IsSuspended(state, this) /\ this # sp /\ woken = this
    BY DEF IInv, IsSuspended, TypeOK, SuspendedIsResumable, RunsOnCurrentStack
  <1>3. TypeOK'
    <2>1. TypeOK
      BY DEF IInv
    <2>2. resumeAddress[this] \in Fibres \/ ~IsSuspended(st, this)
      BY <1>2
    <2>3. ResumeSuspended(st, old, this, terminate, blocked, exc)
      OBVIOUS
    <2> QED BY <1>1, <2>1, <2>2, <2>3, ResumeTypeOK
  <1>4. NotOwnParent'
    BY DEF NotOwnParent
  <1>5. CASE ~IsSuspended(st, this)
    <2>1. process' = "abort" /\ state' = st
      BY <1>5 DEF ResumeSuspended
    <2>2. ExceptionIffFailed'
      BY <2>1 DEF ExceptionIffFailed
    <2>3. MainStarted'
      BY <2>1, <1>1, FibresAssumption DEF IInv, TypeOK, MainStarted, Leaves, Terminal
    <2> QED
      BY <1>3, <1>4, <2>1, <2>2, <2>3
      DEF IInv, RunsOnCurrentStack, SuspendedIsResumable, StackLifetime,
          StateMatchesFrame
  <1>6. CASE IsSuspended(st, this)
    <2>1. /\ state' = [st EXCEPT ![this] = "RUNNING"]
          /\ suspendedContext' = [suspendedContext EXCEPT ![old] = sp, ![this] = NULL]
          /\ resumeAddress' = [resumeAddress EXCEPT ![this] = NULL, ![old] = sp]
          /\ currentFibre' = this
          /\ sp' = this
          /\ frame' = [frame EXCEPT ![sp] = blocked, ![this] = UserCode,
                                    ![old] = IF terminate THEN NoFrame ELSE @]
          /\ function' = IF terminate THEN [function EXCEPT ![old] = FALSE] ELSE function
          /\ stack' = IF terminate THEN [stack EXCEPT ![old] = FALSE] ELSE stack
          /\ process' = "running"
      BY <1>2, <1>6 DEF ResumeSuspended
    <2>2. \A f \in Fibres : state'[f] = IF f = this THEN "RUNNING"
                                        ELSE IF f = old THEN final ELSE state[f]
      BY <2>1 DEF IInv, TypeOK
    <2>3. \A f \in Fibres : frame'[f] = IF f = this THEN UserCode
                                ELSE IF f = old /\ terminate THEN NoFrame
                                ELSE IF f = sp THEN blocked ELSE frame[f]
      BY <2>1, <1>2, <1>6 DEF IInv, TypeOK
    <2>4. sp \in Fibres /\ sp = currentFibre /\ state[sp] = "RUNNING"
          /\ frame[sp] = UserCode /\ (sp # Main => stack[sp])
      BY DEF IInv, TypeOK, RunsOnCurrentStack
    <2>5. RunsOnCurrentStack'
      BY <1>2, <1>6, <2>1, <2>2, <2>3
      DEF IInv, TypeOK, RunsOnCurrentStack, SuspendedIsResumable, Leaves
    <2>6. SuspendedIsResumable'
      BY <1>2, <1>6, <2>1, <2>2, <2>4
      DEF IInv, TypeOK, SuspendedIsResumable, Leaves, IsSuspended, Terminal
    <2>7. StackLifetime'
      BY <1>2, <1>6, <2>1, <2>2, <2>4
      DEF IInv, TypeOK, StackLifetime, Leaves, IsSuspended, OnStack, Terminal
    <2>8. StateMatchesFrame'
      <3> SUFFICES ASSUME NEW f \in Fibres
                   PROVE  /\ state'[f] = "WAITING" <=> frame'[f].op \in {"call", "try"}
                          /\ state'[f] = "SUSPENDED" <=> frame'[f].op \in {"yield", "transfer"}
                          /\ state'[f] = "RUNNING" <=> frame'[f].op \in {"user", "transferError"}
                          /\ frame'[f].op = "user" <=> f = sp'
        BY DEF StateMatchesFrame
      <3>1. UserCode.op = "user" /\ NoFrame.op = "none"
        BY DEF UserCode, NoFrame, Frame
      <3>a. sp' = this
        BY <2>1
      <3>2. CASE f = this
        <4>1. state'[f] = "RUNNING" /\ frame'[f] = UserCode
          BY <3>2, <2>2, <2>3
        <4> QED BY <3>1, <3>2, <3>a, <4>1
      <3>3. CASE f # this /\ f = old
        <4>1. state'[f] = final
          BY <3>3, <2>2
        <4>2. frame'[f] = IF terminate THEN NoFrame ELSE blocked
          BY <3>3, <2>3 DEF Leaves
        <4> QED BY <3>1, <3>3, <3>a, <4>1, <4>2 DEF Leaves, Terminal
      <3>4. CASE f # this /\ f # old /\ f = sp
        <4>1. state'[f] = "RUNNING" /\ frame'[f] = blocked
          BY <3>4, <2>2, <2>3, <2>4
        <4> QED BY <3>4, <3>a, <4>1 DEF Leaves
      <3>5. CASE f # this /\ f # old /\ f # sp
        <4>1. state'[f] = state[f] /\ frame'[f] = frame[f]
          BY <3>5, <2>2, <2>3
        <4> QED BY <3>5, <3>a, <4>1 DEF IInv, StateMatchesFrame
      <3> QED BY <3>2, <3>3, <3>4, <3>5
    <2>9. ExceptionIffFailed'
      BY <1>6, <2>2 DEF ExceptionIffFailed, IsSuspended, IInv, TypeOK
    <2>10. MainStarted'
      BY <2>2, FibresAssumption DEF IInv, MainStarted, Leaves, Terminal
    <2> QED BY <1>3, <1>4, <2>5, <2>6, <2>7, <2>8, <2>9, <2>10 DEF IInv
  <1> QED BY <1>5, <1>6

(* Starting a fibre: the caller blocks on its own stack, the callee gets a  *)
(* new one.                                                                 *)
LEMMA StartIInv ==
    ASSUME IInv, process = "running", NEW this \in Fibres,
           state[this] = "NOT_STARTED", this # Main,
           NEW final \in {"SUSPENDED", "WAITING"},
           NEW blocked \in [op : Ops, on : Fibres \cup {NULL}],
           Leaves(currentFibre, final, FALSE, blocked),
           parent' \in [Fibres -> Fibres \cup {NULL}],
           \A f \in Fibres : parent'[f] # f,
           UNCHANGED exception,
           StartAndSwitchTo([state EXCEPT ![currentFibre] = final], this, blocked)
    PROVE IInv'
  <1>1. sp \in Fibres /\ sp = currentFibre /\ state[sp] = "RUNNING"
        /\ frame[sp] = UserCode /\ (sp # Main => stack[sp]) /\ this # sp
    BY DEF IInv, TypeOK, RunsOnCurrentStack
  <1>2. /\ stack' = [stack EXCEPT ![this] = TRUE]
        /\ state' = [[state EXCEPT ![sp] = final] EXCEPT ![this] = "RUNNING"]
        /\ suspendedContext' = [suspendedContext EXCEPT ![sp] = sp]
        /\ resumeAddress' = [resumeAddress EXCEPT ![sp] = sp]
        /\ frame' = [frame EXCEPT ![sp] = blocked, ![this] = UserCode]
    BY <1>1 DEF StartAndSwitchTo
  <1>3. currentFibre' = this /\ sp' = this
        /\ UNCHANGED <<function, thrown, process, exception>>
    BY DEF StartAndSwitchTo
  <1>4. UserCode \in [op : Ops, on : Fibres \cup {NULL}] /\ UserCode.op = "user"
    BY DEF UserCode, Frame, Ops, CallKinds
  <1>5. TypeOK'
    <2>1. frame' \in [Fibres -> [op : Ops, on : Fibres \cup {NULL}]]
      BY <1>1, <1>2, <1>4 DEF IInv, TypeOK
    <2>2. /\ state' \in [Fibres -> States]
          /\ suspendedContext' \in [Fibres -> Fibres \cup {NULL}]
          /\ resumeAddress' \in [Fibres -> Fibres \cup {NULL}]
          /\ stack' \in [Fibres -> BOOLEAN]
      BY <1>1, <1>2 DEF IInv, TypeOK, States
    <2> QED BY <1>3, <2>1, <2>2 DEF IInv, TypeOK
  <1>6. \A f \in Fibres : state'[f] = IF f = this THEN "RUNNING"
                                      ELSE IF f = sp THEN final ELSE state[f]
    BY <1>1, <1>2 DEF IInv, TypeOK
  <1>7. \A f \in Fibres : frame'[f] = IF f = this THEN UserCode
                                      ELSE IF f = sp THEN blocked ELSE frame[f]
    BY <1>1, <1>2 DEF IInv, TypeOK
  <1>8. RunsOnCurrentStack'
    BY <1>1, <1>2, <1>3, <1>6, <1>7 DEF IInv, TypeOK, RunsOnCurrentStack
  <1>9. SuspendedIsResumable'
    BY <1>1, <1>2, <1>3, <1>6 DEF IInv, TypeOK, SuspendedIsResumable, IsSuspended
  <1>10. StackLifetime'
    BY <1>1, <1>2, <1>3, <1>6 DEF IInv, TypeOK, StackLifetime, OnStack
  <1>11. StateMatchesFrame'
    <2> SUFFICES ASSUME NEW f \in Fibres
                 PROVE  /\ state'[f] = "WAITING" <=> frame'[f].op \in {"call", "try"}
                        /\ state'[f] = "SUSPENDED" <=> frame'[f].op \in {"yield", "transfer"}
                        /\ state'[f] = "RUNNING" <=> frame'[f].op \in {"user", "transferError"}
                        /\ frame'[f].op = "user" <=> f = sp'
      BY DEF StateMatchesFrame
    <2>1. CASE f = this
      <3>1. state'[f] = "RUNNING" /\ frame'[f] = UserCode
        BY <2>1, <1>6, <1>7
      <3> QED BY <2>1, <1>3, <1>4, <3>1
    <2>2. CASE f # this /\ f = sp
      <3>1. state'[f] = final /\ frame'[f] = blocked
        BY <2>2, <1>6, <1>7
      <3> QED BY <2>2, <1>1, <1>3, <3>1 DEF Leaves
    <2>3. CASE f # this /\ f # sp
      <3>1. state'[f] = state[f] /\ frame'[f] = frame[f]
        BY <2>3, <1>6, <1>7
      <3> QED BY <2>3, <1>3, <3>1 DEF IInv, StateMatchesFrame
    <2> QED BY <2>1, <2>2, <2>3
  <1>12. ExceptionIffFailed'
    BY <1>1, <1>3, <1>6 DEF IInv, ExceptionIffFailed
  <1>13. NotOwnParent'
    BY DEF NotOwnParent
  <1>14. MainStarted'
    BY <1>6, FibresAssumption DEF IInv, MainStarted
  <1> QED BY <1>5, <1>8, <1>9, <1>10, <1>11, <1>12, <1>13, <1>14 DEF IInv

(* Call, try and transfer, which differ only in their kind. *)
LEMMA CallImplIInv ==
    ASSUME IInv, WrenCodeRuns, NEW this \in Fibres, NEW kind \in CallKinds,
           state[this] # "FREE", CallImpl(this, kind)
    PROVE IInv'
  <1>1. CASE ~CanBeCalled(this, kind)
    BY <1>1, ThrowIInv, FibresAssumption DEF CallImpl
  <1>2. CASE CanBeCalled(this, kind)
    <2> DEFINE final == IF kind = "transfer" THEN "SUSPENDED" ELSE "WAITING"
               blocked == Frame(kind, this)
    <2>1. /\ process = "running"
          /\ currentFibre \in Fibres /\ sp = currentFibre
          /\ state[sp] = "RUNNING" /\ this # sp
      BY <1>2 DEF WrenCodeRuns, IInv, TypeOK, RunsOnCurrentStack, CanBeCalled
    <2>2. /\ parent' \in [Fibres -> Fibres \cup {NULL}]
          /\ \A f \in Fibres : parent'[f] # f
      BY <1>2, <2>1 DEF CallImpl, SetupParent, IInv, TypeOK, NotOwnParent
    <2>3. blocked \in [op : Ops, on : Fibres \cup {NULL}]
      BY DEF Frame, Ops
    <2>4. Leaves(currentFibre, final, FALSE, blocked)
      BY <2>1 DEF Leaves, Frame, CallKinds
    <2>5. UNCHANGED exception
      BY <1>2 DEF CallImpl
    <2>6. SetupCallerState(kind) = [state EXCEPT ![currentFibre] = final]
      BY DEF SetupCallerState
    <2>7. CASE /\ state[this] = "NOT_STARTED"
               /\ StartAndSwitchTo(SetupCallerState(kind), this, blocked)
      <3>1. this # Main
        BY <2>7, <2>1 DEF IInv, MainStarted
      <3>2. final \in {"SUSPENDED", "WAITING"}
        OBVIOUS
      <3>3. StartAndSwitchTo([state EXCEPT ![currentFibre] = final], this, blocked)
        BY <2>6, <2>7
      <3> HIDE DEF final, blocked
      <3> QED BY <2>1, <2>2, <2>3, <2>4, <2>5, <2>7, <3>1, <3>2, <3>3, StartIInv
    <2>8. CASE /\ state[this] = "SUSPENDED"
               /\ ResumeSuspended(SetupCallerState(kind), currentFibre, this, FALSE,
                                  blocked, exception)
      <3>1. final \in States
        BY DEF States
      <3> DEFINE st == SetupCallerState(kind)
      <3>2. ResumeSuspended(st, currentFibre, this, FALSE, blocked, exception)
        BY <2>8
      <3>3. exception' \in [Fibres -> Messages \cup {NullVal, NoException}]
        BY <2>5 DEF IInv, TypeOK
      <3>6. /\ st \in [Fibres -> States]
            /\ \A f \in Fibres : st[f] = IF f = currentFibre THEN final ELSE state[f]
        BY <2>6, <3>1 DEF IInv, TypeOK
      <3>4. \A f \in Fibres : exception'[f] # NoException <=> st[f] = "FAILED"
        BY <2>1, <2>5, <3>6 DEF IInv, TypeOK, ExceptionIffFailed
      <3>5. this # currentFibre /\ FALSE \in BOOLEAN
        BY <2>1
      <3> HIDE DEF final, blocked, st
      <3> QED BY <3>6, <2>1, <2>2, <2>3, <2>4, <3>1, <3>2, <3>3, <3>4, <3>5, ResumeIInv
    <2> QED BY <1>2, <2>7, <2>8 DEF CallImpl
  <1> QED BY <1>1, <1>2

(* The last fibre exits: of the invariant only the parts that hold of a     *)
(* process that has ended are left.                                         *)
LEMMA ExitIInv ==
    ASSUME IInv, TypeOK', process' # "running", ExceptionIffFailed',
           NotOwnParent', MainStarted'
    PROVE IInv'
  BY DEF IInv, RunsOnCurrentStack, SuspendedIsResumable, StackLifetime,
         StateMatchesFrame

(* Fiber.new: a fibre without a stack, or an abort. *)
LEMMA NewIInv ==
    ASSUME IInv, NEW f \in Fibres, NEW arity \in 0..2, New(f, arity)
    PROVE IInv'
  <1>1. CASE arity > 1
    BY <1>1, ThrowIInv, FibresAssumption DEF New
  <1>2. CASE ~(arity > 1)
    <2>1. /\ process = "running"
          /\ state[f] = "FREE"
          /\ state' = [state EXCEPT ![f] = "NOT_STARTED"]
          /\ function' = [function EXCEPT ![f] = TRUE]
          /\ UNCHANGED <<parent, stack, resumeAddress, suspendedContext,
                         exception, currentFibre, sp, frame, thrown, process>>
      BY <1>2 DEF New, WrenCodeRuns
    <2>2. f # Main /\ f # sp
      BY <2>1 DEF IInv, MainStarted, RunsOnCurrentStack
    <2>3. TypeOK' /\ NotOwnParent' /\ MainStarted'
      BY <2>1, <2>2, FibresAssumption DEF IInv, TypeOK, NotOwnParent, MainStarted, States
    <2>4. RunsOnCurrentStack' /\ SuspendedIsResumable'
      BY <2>1, <2>2 DEF IInv, TypeOK, RunsOnCurrentStack, SuspendedIsResumable, IsSuspended
    <2>5. StackLifetime'
      BY <2>1 DEF IInv, TypeOK, StackLifetime, OnStack
    <2>6. StateMatchesFrame'
      BY <2>1 DEF IInv, TypeOK, StateMatchesFrame
    <2>7. ExceptionIffFailed'
      BY <2>1 DEF IInv, TypeOK, ExceptionIffFailed
    <2> QED BY <2>3, <2>4, <2>5, <2>6, <2>7 DEF IInv
  <1> QED BY <1>1, <1>2

(* transferError: the failed fibre's stack is unmapped though control was  *)
(* never on it, and the caller stays behind on a stack of its own.          *)
LEMMA TransferErrorIInv ==
    ASSUME IInv, NEW this \in Fibres, NEW m \in Messages \cup {NullVal},
           TransferError(this, m)
    PROVE IInv'
  <1>1. CASE state[this] \notin {"NOT_STARTED", "SUSPENDED"}
    BY <1>1, ThrowIInv, FibresAssumption DEF TransferError
  <1>2. CASE state[this] \in {"NOT_STARTED", "SUSPENDED"}
    <2> DEFINE failed == [state EXCEPT ![this] = "FAILED"]
               blocked == Frame("transferError", this)
    <2>1. /\ process = "running"
          /\ exception' = [exception EXCEPT ![this] = m]
          /\ UNCHANGED parent
          /\ IF parent[this] = NULL
               THEN /\ state' = failed
                    /\ currentFibre' = this
                    /\ LastFibreExited(TRUE)
               ELSE ResumeSuspended(failed, this, parent[this], TRUE, blocked, exception')
      BY <1>2 DEF TransferError, WrenCodeRuns
    <2>2. sp \in Fibres /\ this # sp
      BY <1>2, <2>1 DEF IInv, TypeOK, RunsOnCurrentStack
    <2>3. exception' \in [Fibres -> Messages \cup {NullVal, NoException}]
      BY <2>1 DEF IInv, TypeOK
    <2>4. \A f \in Fibres : exception'[f] # NoException <=> failed[f] = "FAILED"
      BY <2>1, FibresAssumption DEF IInv, TypeOK, ExceptionIffFailed
    <2>5. /\ parent' \in [Fibres -> Fibres \cup {NULL}]
          /\ \A f \in Fibres : parent'[f] # f
      BY <2>1 DEF IInv, TypeOK, NotOwnParent
    <2>6. CASE parent[this] = NULL
      <3>1. process' # "running" /\ state' = failed
        BY <2>1, <2>6 DEF LastFibreExited
      <3>2. TypeOK'
        BY <2>1, <2>3, <2>6 DEF IInv, TypeOK, LastFibreExited, States
      <3>3. ExceptionIffFailed' /\ NotOwnParent'
        BY <2>4, <2>5, <3>1 DEF ExceptionIffFailed, NotOwnParent
      <3>4. MainStarted'
        BY <3>1, FibresAssumption DEF IInv, TypeOK, MainStarted
      <3> QED BY <3>1, <3>2, <3>3, <3>4, ExitIInv
    <2>7. CASE parent[this] # NULL
      <3>1. ResumeSuspended(failed, this, parent[this], TRUE, blocked, exception')
        BY <2>1, <2>7
      <3>2. parent[this] \in Fibres /\ parent[this] # this
        BY <2>7 DEF IInv, TypeOK, NotOwnParent
      <3>3. blocked \in [op : Ops, on : Fibres \cup {NULL}]
        BY DEF Frame, Ops
      <3>4. Leaves(this, "FAILED", TRUE, blocked)
        BY <1>2, <2>2 DEF Leaves, Frame
      <3>5. "FAILED" \in States /\ TRUE \in BOOLEAN
        BY DEF States
      <3>6. /\ failed \in [Fibres -> States]
            /\ \A f \in Fibres : failed[f] = IF f = this THEN "FAILED" ELSE state[f]
        BY <3>5 DEF IInv, TypeOK
      <3>7. process = "running"
        BY <2>1
      <3> HIDE DEF blocked, failed
      <3> QED BY <2>3, <2>4, <2>5, <3>1, <3>2, <3>3, <3>4, <3>5, <3>6, <3>7, ResumeIInv
    <2> QED BY <2>6, <2>7
  <1> QED BY <1>1, <1>2

(* Fiber.yield wakes m_parent, or ends the process. *)
LEMMA YieldIInv ==
    ASSUME IInv, Yield PROVE IInv'
  <1> DEFINE st == [state EXCEPT ![currentFibre] = "SUSPENDED"]
             blocked == Frame("yield", NULL)
  <1>1. /\ process = "running"
        /\ UNCHANGED <<parent, exception>>
        /\ IF parent[currentFibre] = NULL
             THEN /\ state' = st
                  /\ UNCHANGED currentFibre
                  /\ LastFibreExited(FALSE)
             ELSE ResumeSuspended(st, currentFibre, parent[currentFibre], FALSE,
                                  blocked, exception)
    BY DEF Yield, WrenCodeRuns
  <1>2. currentFibre \in Fibres /\ sp = currentFibre /\ state[currentFibre] = "RUNNING"
    BY <1>1 DEF IInv, TypeOK, RunsOnCurrentStack
  <1>3. exception' \in [Fibres -> Messages \cup {NullVal, NoException}]
    BY <1>1 DEF IInv, TypeOK
  <1>4. \A f \in Fibres : exception'[f] # NoException <=> st[f] = "FAILED"
    BY <1>1, <1>2 DEF IInv, TypeOK, ExceptionIffFailed
  <1>5. /\ parent' \in [Fibres -> Fibres \cup {NULL}]
        /\ \A f \in Fibres : parent'[f] # f
    BY <1>1 DEF IInv, TypeOK, NotOwnParent
  <1>6. CASE parent[currentFibre] = NULL
    <2>1. process' # "running" /\ state' = st
      BY <1>1, <1>6 DEF LastFibreExited
    <2>2. TypeOK'
      BY <1>1, <1>2, <1>6 DEF IInv, TypeOK, LastFibreExited, States
    <2>3. ExceptionIffFailed' /\ NotOwnParent'
      BY <1>4, <1>5, <2>1 DEF ExceptionIffFailed, NotOwnParent
    <2>4. MainStarted'
      BY <2>1, FibresAssumption DEF IInv, TypeOK, MainStarted
    <2> QED BY <2>1, <2>2, <2>3, <2>4, ExitIInv
  <1>7. CASE parent[currentFibre] # NULL
    <2>1. ResumeSuspended(st, currentFibre, parent[currentFibre], FALSE, blocked, exception)
      BY <1>1, <1>7
    <2>2. parent[currentFibre] \in Fibres /\ parent[currentFibre] # currentFibre
      BY <1>2, <1>7 DEF IInv, TypeOK, NotOwnParent
    <2>3. blocked \in [op : Ops, on : Fibres \cup {NULL}]
      BY DEF Frame, Ops
    <2>4. Leaves(currentFibre, "SUSPENDED", FALSE, blocked)
      BY <1>2 DEF Leaves, Frame
    <2>5. "SUSPENDED" \in States /\ FALSE \in BOOLEAN
      BY DEF States
    <2>6. /\ st \in [Fibres -> States]
          /\ \A f \in Fibres : st[f] = IF f = currentFibre THEN "SUSPENDED" ELSE state[f]
      BY <2>5 DEF IInv, TypeOK
    <2>7. process = "running"
      BY <1>1
    <2> HIDE DEF blocked, st
    <2> QED BY <1>2, <1>3, <1>4, <1>5, <2>1, <2>2, <2>3, <2>4, <2>5, <2>6, <2>7, ResumeIInv
  <1> QED BY <1>6, <1>7

(* Both ways out of RunOnNewStack. *)
LEMMA LeaveNewStackIInv ==
    ASSUME IInv, process = "running", NEW final \in Terminal,
           exception' \in [Fibres -> Messages \cup {NullVal, NoException}],
           \A f \in Fibres : exception'[f] # NoException
                <=> (IF f = sp THEN final = "FAILED" ELSE state[f] = "FAILED"),
           LeaveNewStack(sp, final)
    PROVE IInv'
  <1> DEFINE st == [state EXCEPT ![sp] = final]
  <1>1. sp \in Fibres /\ sp = currentFibre /\ state[sp] = "RUNNING"
    BY DEF IInv, TypeOK, RunsOnCurrentStack
  <1>2. /\ UNCHANGED parent
        /\ IF parent[sp] = NULL
             THEN /\ state' = st
                  /\ UNCHANGED currentFibre
                  /\ LastFibreExited(final = "FAILED")
             ELSE ResumeSuspended(st, currentFibre, parent[sp], TRUE, NoFrame, exception')
    BY DEF LeaveNewStack
  <1>3. final \in States /\ TRUE \in BOOLEAN
    BY DEF Terminal, States
  <1>4. /\ st \in [Fibres -> States]
        /\ \A f \in Fibres : st[f] = IF f = sp THEN final ELSE state[f]
    BY <1>1, <1>3 DEF IInv, TypeOK
  <1>5. \A f \in Fibres : exception'[f] # NoException <=> st[f] = "FAILED"
    BY <1>4
  <1>6. /\ parent' \in [Fibres -> Fibres \cup {NULL}]
        /\ \A f \in Fibres : parent'[f] # f
    BY <1>2 DEF IInv, TypeOK, NotOwnParent
  <1>7. CASE parent[sp] = NULL
    <2>1. process' # "running" /\ state' = st
      BY <1>2, <1>7 DEF LastFibreExited
    <2>2. TypeOK'
      BY <1>1, <1>2, <1>4, <1>7 DEF IInv, TypeOK, LastFibreExited
    <2>3. ExceptionIffFailed' /\ NotOwnParent'
      BY <1>5, <1>6, <2>1 DEF ExceptionIffFailed, NotOwnParent
    <2>4. MainStarted'
      BY <1>4, <2>1, FibresAssumption DEF IInv, MainStarted, Terminal
    <2> QED BY <2>1, <2>2, <2>3, <2>4, ExitIInv
  <1>8. CASE parent[sp] # NULL
    <2>1. ResumeSuspended(st, sp, parent[sp], TRUE, NoFrame, exception')
      BY <1>1, <1>2, <1>8
    <2>2. parent[sp] \in Fibres /\ parent[sp] # sp
      BY <1>1, <1>8 DEF IInv, TypeOK, NotOwnParent
    <2>3. NoFrame \in [op : Ops, on : Fibres \cup {NULL}]
      BY DEF NoFrame, Frame, Ops
    <2>4. Leaves(sp, final, TRUE, NoFrame)
      BY DEF Leaves
    <2> HIDE DEF st
    <2>5. sp \in Fibres
      BY <1>1
    <2>6. \A f \in Fibres : st[f] = IF f = sp THEN final ELSE state[f]
      BY <1>4
    <2> QED BY <1>3, <1>4, <1>5, <1>6, <2>1, <2>2, <2>3, <2>4, <2>5, <2>6, ResumeIInv
  <1> QED BY <1>7, <1>8

(* Every step keeps the invariant. *)
LEMMA NextIInv == IInv /\ [Next]_vars => IInv'
  <1> SUFFICES ASSUME IInv, [Next]_vars PROVE IInv'
    OBVIOUS
  <1>1. ASSUME NEW f \in Fibres, NEW arity \in 0..2, New(f, arity) PROVE IInv'
    BY <1>1, NewIInv
  <1>2. ASSUME NEW f \in Fibres, Call(f) PROVE IInv'
    BY <1>2, CallImplIInv DEF Call, CallKinds
  <1>3. ASSUME NEW f \in Fibres, Try(f) PROVE IInv'
    BY <1>3, CallImplIInv DEF Try, CallKinds
  <1>4. ASSUME NEW f \in Fibres, Transfer(f) PROVE IInv'
    BY <1>4, CallImplIInv DEF Transfer, CallKinds
  <1>5. ASSUME NEW f \in Fibres, NEW m \in Messages \cup {NullVal}, TransferError(f, m)
        PROVE IInv'
    BY <1>5, TransferErrorIInv
  <1>6. ASSUME NEW m \in Messages \cup {NullVal}, Abort(m) PROVE IInv'
    BY <1>6, ThrowIInv DEF Abort
  <1>7. CASE Yield
    BY <1>7, YieldIInv
  <1>8. CASE FunctionReturns
    <2>1. \A f \in Fibres : exception'[f] # NoException
                <=> (IF f = sp THEN "FINISHED" = "FAILED" ELSE state[f] = "FAILED")
      BY <1>8 DEF FunctionReturns, WrenCodeRuns, IInv, TypeOK, ExceptionIffFailed,
                  RunsOnCurrentStack
    <2>2. /\ process = "running" /\ "FINISHED" \in Terminal
          /\ exception' \in [Fibres -> Messages \cup {NullVal, NoException}]
          /\ LeaveNewStack(sp, "FINISHED")
      BY <1>8 DEF FunctionReturns, WrenCodeRuns, IInv, TypeOK, Terminal
    <2> QED BY <2>1, <2>2, LeaveNewStackIInv
  <1>9. CASE Unwind
    <2>1. /\ process = "running" /\ "FAILED" \in Terminal
          /\ thrown \in Messages
          /\ exception' = [exception EXCEPT ![sp] = thrown]
          /\ LeaveNewStack(sp, "FAILED")
      BY <1>9 DEF Unwind, IInv, TypeOK, Terminal
    <2>2. exception' \in [Fibres -> Messages \cup {NullVal, NoException}]
      BY <2>1 DEF IInv, TypeOK
    <2>3. \A f \in Fibres : exception'[f] # NoException
                <=> (IF f = sp THEN "FAILED" = "FAILED" ELSE state[f] = "FAILED")
      BY <2>1, FibresAssumption DEF IInv, TypeOK, ExceptionIffFailed
    <2> QED BY <2>1, <2>2, <2>3, LeaveNewStackIInv
  <1>10. CASE MainReturns
    <2>1. TypeOK' /\ process' # "running" /\ ExceptionIffFailed' /\ NotOwnParent'
          /\ MainStarted'
      BY <1>10 DEF MainReturns, fields, IInv, TypeOK, ExceptionIffFailed, NotOwnParent,
                   MainStarted
    <2> QED BY <2>1, ExitIInv
  <1>11. CASE MainUnwinds
    <2>1. TypeOK' /\ process' # "running" /\ ExceptionIffFailed' /\ NotOwnParent'
          /\ MainStarted'
      BY <1>11 DEF MainUnwinds, fields, IInv, TypeOK, ExceptionIffFailed, NotOwnParent,
                   MainStarted
    <2> QED BY <2>1, ExitIInv
  <1>12. CASE UNCHANGED vars
    BY <1>12 DEF vars, fields, IInv, TypeOK, RunsOnCurrentStack, SuspendedIsResumable,
        StackLifetime, StateMatchesFrame, ExceptionIffFailed, NotOwnParent,
        MainStarted, IsSuspended
  <1> QED
    BY <1>1, <1>2, <1>3, <1>4, <1>5, <1>6, <1>7, <1>8, <1>9, <1>10, <1>11, <1>12
    DEF Next, Terminated

(* The inductive invariant holds throughout. *)
THEOREM Invariance == Spec => []IInv
  BY InitIInv, NextIInv, PTL DEF Spec

(* Every variable keeps its type, whatever the Wren program does. *)
THEOREM TypeCorrect == Spec => []TypeOK
  <1>1. IInv => TypeOK
    BY DEF IInv
  <1> QED BY Invariance, <1>1, PTL

(* Control is always on the mapped stack of the current, RUNNING fibre      *)
(* (ObjFibre.cpp:443 asserts it of the end of a fibre only).                *)
THEOREM CurrentStackCorrect == Spec => []RunsOnCurrentStack
  <1>1. IInv => RunsOnCurrentStack
    BY DEF IInv
  <1> QED BY Invariance, <1>1, PTL

(* A suspended fibre can always be switched to and walked by the GC: its    *)
(* saved addresses lie in its own, mapped stack.                            *)
THEOREM ResumableCorrect == Spec => []SuspendedIsResumable
  <1>1. IInv => SuspendedIsResumable
    BY DEF IInv
  <1> QED BY Invariance, <1>1, PTL

(* Stacks are neither freed early nor kept after the fibre terminates.      *)
THEOREM StackLifetimeCorrect == Spec => []StackLifetime
  <1>1. IInv => StackLifetime
    BY DEF IInv
  <1> QED BY Invariance, <1>1, PTL

(* m_state tells which call the stack of each fibre is blocked in.          *)
THEOREM FrameCorrect == Spec => []StateMatchesFrame
  <1>1. IInv => StateMatchesFrame
    BY DEF IInv
  <1> QED BY Invariance, <1>1, PTL

(* Fiber.error is set for the failed fibres and no other. *)
THEOREM ExceptionCorrect == Spec => []ExceptionIffFailed
  <1>1. IInv => ExceptionIffFailed
    BY DEF IInv
  <1> QED BY Invariance, <1>1, PTL

(***************************************************************************)
(* Terminated fibres.                                                      *)
(***************************************************************************)
TerminalKept ==
    \A f \in Fibres : state[f] \in Terminal =>
        /\ state'[f] = state[f]
        /\ exception'[f] = exception[f]
        /\ sp' # f

(* Throwing leaves every fibre as it is. *)
LEMMA ThrowTerminal ==
    ASSUME IInv, process = "running", NEW m, Throw(m) PROVE TerminalKept
  BY DEF Throw, fields, TerminalKept, IInv, RunsOnCurrentStack, Terminal

(* A switch to a suspended fibre wakes no terminated one.                   *)
LEMMA ResumeTerminal ==
    ASSUME IInv, process = "running",
           NEW old \in Fibres, NEW this \in Fibres, NEW terminate, NEW blocked, NEW exc,
           NEW st \in [Fibres -> States],
           st[this] = state[this],
           \A f \in Fibres : state[f] \in Terminal =>
               st[f] = state[f] /\ exception'[f] = exception[f],
           ResumeSuspended(st, old, this, terminate, blocked, exc)
    PROVE TerminalKept
  <1>1. CASE ~IsSuspended(st, this)
    BY <1>1 DEF ResumeSuspended, TerminalKept, IInv, RunsOnCurrentStack, Terminal
  <1>2. CASE IsSuspended(st, this)
    <2>1. state' = [st EXCEPT ![this] = "RUNNING"] /\ sp' = resumeAddress[this]
      BY <1>2 DEF ResumeSuspended
    <2>2. state[this] \in {"SUSPENDED", "WAITING"} /\ resumeAddress[this] = this
      BY <1>2 DEF IsSuspended, IInv, SuspendedIsResumable
    <2> QED BY <2>1, <2>2 DEF TerminalKept, Terminal
  <1> QED BY <1>1, <1>2

(* Starting a fibre starts no terminated one. *)
LEMMA StartTerminal ==
    ASSUME IInv, process = "running", NEW this \in Fibres, NEW blocked,
           state[this] = "NOT_STARTED", UNCHANGED exception,
           NEW st \in [Fibres -> States],
           \A f \in Fibres : state[f] \in Terminal => st[f] = state[f],
           StartAndSwitchTo(st, this, blocked)
    PROVE TerminalKept
  BY DEF StartAndSwitchTo, TerminalKept, Terminal

(* Call, try and transfer reject terminated fibres. *)
LEMMA CallImplTerminal ==
    ASSUME IInv, WrenCodeRuns, NEW this \in Fibres, NEW kind \in CallKinds,
           CallImpl(this, kind)
    PROVE TerminalKept
  <1>1. process = "running" /\ state[currentFibre] = "RUNNING" /\ currentFibre \in Fibres
    BY DEF WrenCodeRuns, IInv, RunsOnCurrentStack, TypeOK
  <1>2. CASE ~CanBeCalled(this, kind)
    BY <1>1, <1>2, ThrowTerminal DEF CallImpl
  <1>3. CASE CanBeCalled(this, kind)
    <2> DEFINE st == SetupCallerState(kind)
    <2>1. /\ st \in [Fibres -> States]
          /\ \A f \in Fibres : f # currentFibre => st[f] = state[f]
          /\ \A f \in Fibres : state[f] \in Terminal => st[f] = state[f]
      BY <1>1 DEF SetupCallerState, IInv, TypeOK, States, Terminal
    <2>2. UNCHANGED exception
      BY <1>3 DEF CallImpl
    <2> HIDE DEF st
    <2>3. CASE /\ state[this] = "NOT_STARTED"
               /\ StartAndSwitchTo(st, this, Frame(kind, this))
      BY <1>1, <2>1, <2>2, <2>3, StartTerminal
    <2>4. CASE /\ state[this] = "SUSPENDED"
               /\ ResumeSuspended(st, currentFibre, this, FALSE, Frame(kind, this), exception)
      <3>1. st[this] = state[this]
        BY <1>1, <2>1, <2>4
      <3> QED BY <1>1, <2>1, <2>2, <2>4, <3>1, ResumeTerminal
    <2> QED BY <1>3, <2>3, <2>4 DEF CallImpl, st
  <1> QED BY <1>2, <1>3

(* Neither way out of RunOnNewStack touches another terminated fibre. *)
LEMMA LeaveTerminal ==
    ASSUME IInv, process = "running", NEW final \in Terminal,
           \A f \in Fibres : f # sp => exception'[f] = exception[f],
           LeaveNewStack(sp, final)
    PROVE TerminalKept
  <1>1. sp \in Fibres /\ sp = currentFibre /\ state[sp] = "RUNNING"
    BY DEF IInv, TypeOK, RunsOnCurrentStack
  <1> DEFINE st == [state EXCEPT ![sp] = final]
  <1>2. /\ st \in [Fibres -> States]
        /\ \A f \in Fibres : f # sp => st[f] = state[f]
    BY <1>1 DEF IInv, TypeOK, States, Terminal
  <1>3. \A f \in Fibres : state[f] \in Terminal =>
          st[f] = state[f] /\ exception'[f] = exception[f]
    BY <1>1, <1>2 DEF Terminal
  <1>4. CASE parent[sp] = NULL
    <2>1. state' = st /\ sp' = sp
      BY <1>4 DEF LeaveNewStack, LastFibreExited
    <2> QED BY <1>1, <1>3, <2>1 DEF TerminalKept, Terminal
  <1>5. CASE parent[sp] # NULL
    <2>1. parent[sp] \in Fibres /\ parent[sp] # sp
      BY <1>1, <1>5 DEF IInv, TypeOK, NotOwnParent
    <2>2. st[parent[sp]] = state[parent[sp]]
      BY <1>2, <2>1
    <2>3. ResumeSuspended(st, currentFibre, parent[sp], TRUE, NoFrame, exception')
      BY <1>5 DEF LeaveNewStack
    <2> HIDE DEF st
    <2> QED BY <1>1, <1>2, <1>3, <2>1, <2>2, <2>3, ResumeTerminal
  <1> QED BY <1>4, <1>5

(* transferError rejects terminated fibres, and wakes none. *)
LEMMA TransferErrorTerminal ==
    ASSUME IInv, NEW this \in Fibres, NEW m \in Messages \cup {NullVal},
           TransferError(this, m)
    PROVE TerminalKept
  <1>1. process = "running"
    BY DEF TransferError, WrenCodeRuns
  <1>2. CASE state[this] \notin {"NOT_STARTED", "SUSPENDED"}
    BY <1>1, <1>2, ThrowTerminal DEF TransferError
  <1>3. CASE state[this] \in {"NOT_STARTED", "SUSPENDED"}
    <2> DEFINE st == [state EXCEPT ![this] = "FAILED"]
    <2>1. exception' = [exception EXCEPT ![this] = m]
      BY <1>3 DEF TransferError
    <2>2. st \in [Fibres -> States] /\ \A f \in Fibres : f # this => st[f] = state[f]
      BY DEF IInv, TypeOK, States
    <2>3. \A f \in Fibres : state[f] \in Terminal =>
            st[f] = state[f] /\ exception'[f] = exception[f]
      BY <1>3, <2>1, <2>2 DEF Terminal, IInv, TypeOK
    <2>4. CASE parent[this] = NULL
      <3>1. state' = st /\ sp' = sp
        BY <1>3, <2>4 DEF TransferError, LastFibreExited
      <3>2. state[sp] = "RUNNING"
        BY <1>1 DEF IInv, RunsOnCurrentStack
      <3> QED BY <2>3, <3>1, <3>2 DEF TerminalKept, Terminal
    <2>5. CASE parent[this] # NULL
      <3>1. parent[this] \in Fibres /\ parent[this] # this
        BY <2>5 DEF IInv, TypeOK, NotOwnParent
      <3>2. st[parent[this]] = state[parent[this]]
        BY <2>2, <3>1
      <3>3. ResumeSuspended(st, this, parent[this], TRUE,
                            Frame("transferError", this), exception')
        BY <1>3, <2>5 DEF TransferError
      <3> HIDE DEF st
      <3> QED BY <1>1, <2>2, <2>3, <3>1, <3>2, <3>3, ResumeTerminal
    <2> QED BY <2>4, <2>5
  <1> QED BY <1>2, <1>3

(* Fiber.yield wakes no terminated fibre. *)
LEMMA YieldTerminal ==
    ASSUME IInv, Yield PROVE TerminalKept
  <1> DEFINE st == [state EXCEPT ![currentFibre] = "SUSPENDED"]
  <1>1. /\ process = "running" /\ currentFibre \in Fibres
        /\ state[currentFibre] = "RUNNING" /\ sp = currentFibre
        /\ UNCHANGED exception
    BY DEF Yield, WrenCodeRuns, IInv, TypeOK, RunsOnCurrentStack
  <1>2. /\ st \in [Fibres -> States]
        /\ \A f \in Fibres : f # currentFibre => st[f] = state[f]
    BY <1>1 DEF IInv, TypeOK, States
  <1>3. \A f \in Fibres : state[f] \in Terminal =>
          st[f] = state[f] /\ exception'[f] = exception[f]
    BY <1>1, <1>2 DEF Terminal
  <1>4. CASE parent[currentFibre] = NULL
    <2>1. state' = st /\ sp' = sp
      BY <1>4 DEF Yield, LastFibreExited
    <2> QED BY <1>1, <1>3, <2>1 DEF TerminalKept, Terminal
  <1>5. CASE parent[currentFibre] # NULL
    <2>1. parent[currentFibre] \in Fibres /\ parent[currentFibre] # currentFibre
      BY <1>1, <1>5 DEF IInv, TypeOK, NotOwnParent
    <2>2. st[parent[currentFibre]] = state[parent[currentFibre]]
      BY <1>2, <2>1
    <2>3. ResumeSuspended(st, currentFibre, parent[currentFibre], FALSE,
                          Frame("yield", NULL), exception)
      BY <1>5 DEF Yield
    <2> HIDE DEF st
    <2> QED BY <1>1, <1>2, <1>3, <2>1, <2>2, <2>3, ResumeTerminal
  <1> QED BY <1>4, <1>5

(* A fibre that has finished or failed stays so with the same error, and    *)
(* control never moves to it (CallImpl and TransferError check m_state, and *)
(* ResumeSuspended abort()s on a terminated parent).                        *)
THEOREM TerminalCorrect == Spec => TerminalIsForever
  <1>1. IInv /\ [Next]_vars => [TerminalKept]_vars
    <2> SUFFICES ASSUME IInv, Next PROVE [TerminalKept]_vars
      OBVIOUS
    <2>1. ASSUME NEW f \in Fibres, NEW arity \in 0..2, New(f, arity) PROVE TerminalKept
      <3>1. process = "running" /\ state[f] = "FREE" /\ state[sp] = "RUNNING"
        BY <2>1 DEF New, WrenCodeRuns, IInv, RunsOnCurrentStack
      <3>2. CASE arity > 1
        BY <2>1, <3>1, <3>2, ThrowTerminal DEF New
      <3>3. CASE ~(arity > 1)
        BY <2>1, <3>1, <3>3 DEF New, TerminalKept, Terminal, IInv, TypeOK
      <3> QED BY <3>2, <3>3
    <2>2. ASSUME NEW f \in Fibres, Call(f) PROVE TerminalKept
      BY <2>2, CallImplTerminal DEF Call, CallKinds
    <2>3. ASSUME NEW f \in Fibres, Try(f) PROVE TerminalKept
      BY <2>3, CallImplTerminal DEF Try, CallKinds
    <2>4. ASSUME NEW f \in Fibres, Transfer(f) PROVE TerminalKept
      BY <2>4, CallImplTerminal DEF Transfer, CallKinds
    <2>5. ASSUME NEW f \in Fibres, NEW m \in Messages \cup {NullVal}, TransferError(f, m)
          PROVE TerminalKept
      BY <2>5, TransferErrorTerminal
    <2>6. ASSUME NEW m \in Messages \cup {NullVal}, Abort(m) PROVE TerminalKept
      BY <2>6, ThrowTerminal DEF Abort, WrenCodeRuns
    <2>7. CASE Yield
      BY <2>7, YieldTerminal
    <2>8. CASE FunctionReturns
      BY <2>8, LeaveTerminal DEF FunctionReturns, WrenCodeRuns, Terminal
    <2>9. CASE Unwind
      <3>1. \A f \in Fibres : f # sp => exception'[f] = exception[f]
        BY <2>9 DEF Unwind, IInv, TypeOK
      <3> QED BY <2>9, <3>1, LeaveTerminal DEF Unwind, Terminal
    <2>10. CASE MainReturns \/ MainUnwinds
      BY <2>10 DEF MainReturns, MainUnwinds, WrenCodeRuns, fields, TerminalKept, IInv,
                   RunsOnCurrentStack, Terminal
    <2>11. ASSUME Terminated PROVE [TerminalKept]_vars
      BY <2>11 DEF Terminated
    <2> QED BY <2>1, <2>2, <2>3, <2>4, <2>5, <2>6, <2>7, <2>8, <2>9, <2>10, <2>11 DEF Next
  <1> QED BY <1>1, Invariance, PTL DEF Spec, TerminalIsForever, TerminalKept

(***************************************************************************)
(* The shapes of a step: whatever operation it is, either control stays    *)
(* where it is, or a fibre leaves and another one continues or starts, or  *)
(* the process ends.                                                       *)
(***************************************************************************)

(* Who may leave: the running fibre blocks or is over, or one that does not *)
(* run is failed by transferError.                                          *)
Departs(old, final) ==
    \/ old = sp /\ final \in {"SUSPENDED", "WAITING"} \cup Terminal
    \/ state[old] \in {"NOT_STARTED", "SUSPENDED"} /\ final = "FAILED"

StateAfter(old, final) ==
    \A f \in Fibres : state'[f] = IF f = old THEN final ELSE state[f]

(* `this` continues on its own stack, and throws what its callee left it.   *)
Wakes(old, final, this) ==
    /\ this # old
    /\ IsSuspended(state, this)
    /\ \A f \in Fibres : state'[f] = IF f = this THEN "RUNNING"
                                     ELSE IF f = old THEN final ELSE state[f]
    /\ currentFibre' = this /\ sp' = this /\ process' = "running"
    /\ thrown' = Rethrown(frame[this], exception')

Starts(this, final) ==
    /\ state[this] = "NOT_STARTED"
    /\ \A f \in Fibres : state'[f] = IF f = this THEN "RUNNING"
                                     ELSE IF f = sp THEN final ELSE state[f]
    /\ sp' = this /\ process' = "running"

Quiet ==
    /\ sp' = sp /\ process' = "running"
    /\ \/ \A f \in Fibres : state'[f] = state[f]
       \/ \E f \in Fibres : state[f] = "FREE" /\ StateAfter(f, "NOT_STARTED")

SomeoneContinues ==
    \E old, this \in Fibres, final \in States :
        /\ Departs(old, final)
        /\ Wakes(old, final, this)
        /\ state[this] = "SUSPENDED" \/ parent[old] = this

SomeoneStarts ==
    \E this \in Fibres, final \in {"SUSPENDED", "WAITING"} : Starts(this, final)

ProcessEnds ==
    /\ process' \in {"exit0", "exit1", "abort"} /\ sp' = sp
    /\ \/ \A f \in Fibres : state'[f] = state[f]
       \/ \E old \in Fibres, final \in States :
            Departs(old, final) /\ StateAfter(old, final)

Shape == Quiet \/ SomeoneContinues \/ SomeoneStarts \/ ProcessEnds

(* Throwing moves nothing. *)
LEMMA ThrowShape ==
    ASSUME process = "running", NEW m, Throw(m) PROVE Shape
  BY DEF Throw, fields, Shape, Quiet

(* A switch to a suspended fibre finds its stack, or ends the process. *)
LEMMA ResumeShape ==
    ASSUME IInv, process = "running",
           NEW old \in Fibres, NEW this \in Fibres, this # old,
           NEW final \in States, NEW terminate, NEW blocked,
           Departs(old, final),
           state[this] = "SUSPENDED" \/ parent[old] = this,
           NEW st \in [Fibres -> States],
           \A f \in Fibres : st[f] = IF f = old THEN final ELSE state[f],
           ResumeSuspended(st, old, this, terminate, blocked, exception')
    PROVE Shape
  <1>1. CASE ~IsSuspended(st, this)
    <2>1. process' = "abort" /\ state' = st /\ sp' = sp
      BY <1>1 DEF ResumeSuspended
    <2>2. StateAfter(old, final)
      BY <2>1 DEF StateAfter
    <2>3. ProcessEnds
      BY <2>1, <2>2 DEF ProcessEnds
    <2> QED BY <2>3 DEF Shape
  <1>2. CASE IsSuspended(st, this)
    <2>1. /\ state' = [st EXCEPT ![this] = "RUNNING"]
          /\ currentFibre' = this /\ sp' = resumeAddress[this]
          /\ thrown' = Rethrown(frame[resumeAddress[this]], exception')
          /\ process' = process
      BY <1>2 DEF ResumeSuspended
    <2>2. IsSuspended(state, this) /\ resumeAddress[this] = this
      BY <1>2 DEF IsSuspended, IInv, SuspendedIsResumable
    <2>3. \A f \in Fibres : state'[f] = IF f = this THEN "RUNNING"
                                        ELSE IF f = old THEN final ELSE state[f]
      BY <2>1
    <2>4. Wakes(old, final, this)
      BY <2>1, <2>2, <2>3 DEF Wakes
    <2> QED BY <2>4 DEF Shape, SomeoneContinues
  <1> QED BY <1>1, <1>2

(* Starting a fibre is the shape of that name. *)
LEMMA StartShape ==
    ASSUME IInv, process = "running", NEW this \in Fibres, NEW blocked,
           state[this] = "NOT_STARTED", NEW final \in {"SUSPENDED", "WAITING"},
           NEW st \in [Fibres -> States],
           \A f \in Fibres : st[f] = IF f = sp THEN final ELSE state[f],
           StartAndSwitchTo(st, this, blocked)
    PROVE Shape
  <1>1. state' = [st EXCEPT ![this] = "RUNNING"] /\ sp' = this /\ process' = "running"
    BY DEF StartAndSwitchTo
  <1>2. Starts(this, final)
    BY <1>1 DEF Starts
  <1> QED BY <1>2 DEF Shape, SomeoneStarts

(* Call, try and transfer resume a SUSPENDED fibre or start a new one. *)
LEMMA CallImplShape ==
    ASSUME IInv, WrenCodeRuns, NEW this \in Fibres, NEW kind \in CallKinds,
           CallImpl(this, kind)
    PROVE Shape
  <1>1. /\ process = "running" /\ state[currentFibre] = "RUNNING"
        /\ currentFibre \in Fibres /\ sp = currentFibre
    BY DEF WrenCodeRuns, IInv, RunsOnCurrentStack, TypeOK
  <1>2. CASE ~CanBeCalled(this, kind)
    BY <1>1, <1>2, ThrowShape DEF CallImpl
  <1>3. CASE CanBeCalled(this, kind)
    <2> DEFINE st == SetupCallerState(kind)
               final == IF kind = "transfer" THEN "SUSPENDED" ELSE "WAITING"
    <2>1. /\ st \in [Fibres -> States]
          /\ \A f \in Fibres : st[f] = IF f = currentFibre THEN final ELSE state[f]
      BY <1>1 DEF SetupCallerState, IInv, TypeOK, States
    <2>2. exception' = exception
      BY <1>3 DEF CallImpl
    <2>3. /\ final \in {"SUSPENDED", "WAITING"} /\ final \in States
          /\ Departs(currentFibre, final)
      BY <1>1 DEF Departs, States
    <2>4. \/ /\ state[this] = "NOT_STARTED"
             /\ StartAndSwitchTo(st, this, Frame(kind, this))
          \/ /\ state[this] = "SUSPENDED"
             /\ ResumeSuspended(st, currentFibre, this, FALSE, Frame(kind, this), exception')
      BY <1>3, <2>2 DEF CallImpl
    <2> HIDE DEF st, final
    <2>5. CASE /\ state[this] = "NOT_STARTED"
               /\ StartAndSwitchTo(st, this, Frame(kind, this))
      BY <1>1, <2>1, <2>3, <2>5, StartShape
    <2>6. CASE /\ state[this] = "SUSPENDED"
               /\ ResumeSuspended(st, currentFibre, this, FALSE, Frame(kind, this), exception')
      <3>1. this # currentFibre
        BY <1>1, <2>6
      <3> QED BY <1>1, <2>1, <2>3, <2>6, <3>1, ResumeShape
    <2> QED BY <2>4, <2>5, <2>6
  <1> QED BY <1>2, <1>3

(* A fibre whose function is over gives control to its parent. *)
LEMMA LeaveShape ==
    ASSUME IInv, process = "running", NEW final \in Terminal, LeaveNewStack(sp, final)
    PROVE Shape
  <1>1. sp \in Fibres /\ sp = currentFibre /\ final \in States /\ Departs(sp, final)
    BY DEF IInv, TypeOK, RunsOnCurrentStack, Departs, Terminal, States
  <1> DEFINE st == [state EXCEPT ![sp] = final]
  <1>2. /\ st \in [Fibres -> States]
        /\ \A f \in Fibres : st[f] = IF f = sp THEN final ELSE state[f]
    BY <1>1 DEF IInv, TypeOK
  <1>3. CASE parent[sp] = NULL
    <2>1. state' = st /\ sp' = sp /\ process' \in {"exit0", "exit1"}
      BY <1>3 DEF LeaveNewStack, LastFibreExited
    <2>2. StateAfter(sp, final)
      BY <1>2, <2>1 DEF StateAfter
    <2> QED BY <1>1, <2>1, <2>2 DEF Shape, ProcessEnds
  <1>4. CASE parent[sp] # NULL
    <2> DEFINE g == parent[sp]
    <2>1. g \in Fibres /\ g # sp /\ parent[sp] = g
      BY <1>1, <1>4 DEF IInv, TypeOK, NotOwnParent
    <2>2. ResumeSuspended(st, sp, g, TRUE, NoFrame, exception')
      BY <1>1, <1>4 DEF LeaveNewStack
    <2>3. state[g] = "SUSPENDED" \/ parent[sp] = g
      BY <1>1, <2>1
    <2> HIDE DEF st, g
    <2> QED BY <1>1, <1>2, <2>1, <2>2, <2>3, ResumeShape, ZenonT(60)
  <1> QED BY <1>3, <1>4

(* A fibre that is failed from outside gives control to its parent. *)
LEMMA TransferErrorShape ==
    ASSUME IInv, NEW this \in Fibres, NEW m \in Messages \cup {NullVal},
           TransferError(this, m)
    PROVE Shape
  <1>1. process = "running"
    BY DEF TransferError, WrenCodeRuns
  <1>2. CASE state[this] \notin {"NOT_STARTED", "SUSPENDED"}
    BY <1>1, <1>2, ThrowShape DEF TransferError
  <1>3. CASE state[this] \in {"NOT_STARTED", "SUSPENDED"}
    <2> DEFINE st == [state EXCEPT ![this] = "FAILED"]
    <2>1. /\ st \in [Fibres -> States]
          /\ \A f \in Fibres : st[f] = IF f = this THEN "FAILED" ELSE state[f]
          /\ "FAILED" \in States
      BY DEF IInv, TypeOK, States
    <2>2. Departs(this, "FAILED")
      BY <1>3 DEF Departs
    <2>3. CASE parent[this] = NULL
      <3>1. state' = st /\ sp' = sp /\ process' = "exit1"
        BY <1>3, <2>3 DEF TransferError, LastFibreExited
      <3>2. StateAfter(this, "FAILED")
        BY <2>1, <3>1 DEF StateAfter
      <3> QED BY <2>1, <2>2, <3>1, <3>2 DEF Shape, ProcessEnds
    <2>4. CASE parent[this] # NULL
      <3>1. parent[this] \in Fibres /\ parent[this] # this
        BY <2>4 DEF IInv, TypeOK, NotOwnParent
      <3>2. ResumeSuspended(st, this, parent[this], TRUE,
                            Frame("transferError", this), exception')
        BY <1>3, <2>4 DEF TransferError
      <3> HIDE DEF st
      <3> QED BY <1>1, <2>1, <2>2, <3>1, <3>2, ResumeShape, ZenonT(60)
    <2> QED BY <2>3, <2>4
  <1> QED BY <1>2, <1>3

(* A fibre that yields gives control to its parent. *)
LEMMA YieldShape ==
    ASSUME IInv, Yield PROVE Shape
  <1> DEFINE st == [state EXCEPT ![currentFibre] = "SUSPENDED"]
  <1>1. /\ process = "running" /\ currentFibre \in Fibres /\ sp = currentFibre
        /\ exception' = exception /\ Departs(currentFibre, "SUSPENDED")
    BY DEF Yield, WrenCodeRuns, IInv, TypeOK, RunsOnCurrentStack, Departs
  <1>2. /\ st \in [Fibres -> States] /\ "SUSPENDED" \in States
        /\ \A f \in Fibres : st[f] = IF f = currentFibre THEN "SUSPENDED" ELSE state[f]
    BY <1>1 DEF IInv, TypeOK, States
  <1>3. CASE parent[currentFibre] = NULL
    <2>1. state' = st /\ sp' = sp /\ process' = "exit0"
      BY <1>3 DEF Yield, LastFibreExited
    <2>2. StateAfter(currentFibre, "SUSPENDED")
      BY <1>2, <2>1 DEF StateAfter
    <2> QED BY <1>1, <1>2, <2>1, <2>2 DEF Shape, ProcessEnds
  <1>4. CASE parent[currentFibre] # NULL
    <2> DEFINE g == parent[currentFibre]
    <2>1. g \in Fibres /\ g # currentFibre /\ parent[currentFibre] = g
      BY <1>1, <1>4 DEF IInv, TypeOK, NotOwnParent
    <2>2. ResumeSuspended(st, currentFibre, g, FALSE, Frame("yield", NULL), exception')
      BY <1>1, <1>4 DEF Yield
    <2>3. state[g] = "SUSPENDED" \/ parent[sp] = g
      BY <1>1, <2>1
    <2> HIDE DEF st, g
    <2> QED BY <1>1, <1>2, <2>1, <2>2, <2>3, ResumeShape, ZenonT(60)
  <1> QED BY <1>3, <1>4

(* Every step of a running process has one of the shapes. *)
LEMMA NextShape ==
    ASSUME IInv, Next PROVE (process = "running" /\ Shape) \/ UNCHANGED vars
  <1>1. ASSUME NEW f \in Fibres, NEW arity \in 0..2, New(f, arity)
        PROVE process = "running" /\ Shape
    <2>1. process = "running" /\ state[f] = "FREE"
      BY <1>1 DEF New, WrenCodeRuns
    <2>2. CASE arity > 1
      BY <1>1, <2>1, <2>2, ThrowShape DEF New
    <2>3. CASE ~(arity > 1)
      <3>1. StateAfter(f, "NOT_STARTED") /\ sp' = sp /\ process' = process
        BY <1>1, <2>3 DEF New, StateAfter, IInv, TypeOK
      <3> QED BY <2>1, <3>1 DEF Shape, Quiet
    <2> QED BY <2>1, <2>2, <2>3
  <1>2. ASSUME NEW f \in Fibres, Call(f) PROVE process = "running" /\ Shape
    BY <1>2, CallImplShape DEF Call, CallKinds, WrenCodeRuns
  <1>3. ASSUME NEW f \in Fibres, Try(f) PROVE process = "running" /\ Shape
    BY <1>3, CallImplShape DEF Try, CallKinds, WrenCodeRuns
  <1>4. ASSUME NEW f \in Fibres, Transfer(f) PROVE process = "running" /\ Shape
    BY <1>4, CallImplShape DEF Transfer, CallKinds, WrenCodeRuns
  <1>5. ASSUME NEW f \in Fibres, NEW m \in Messages \cup {NullVal}, TransferError(f, m)
        PROVE process = "running" /\ Shape
    BY <1>5, TransferErrorShape DEF TransferError, WrenCodeRuns
  <1>6. ASSUME NEW m \in Messages \cup {NullVal}, Abort(m)
        PROVE process = "running" /\ Shape
    BY <1>6, ThrowShape DEF Abort, WrenCodeRuns
  <1>7. CASE Yield
    BY <1>7, YieldShape DEF Yield, WrenCodeRuns
  <1>8. CASE FunctionReturns
    BY <1>8, LeaveShape DEF FunctionReturns, WrenCodeRuns, Terminal
  <1>9. CASE Unwind
    BY <1>9, LeaveShape DEF Unwind, Terminal
  <1>10. CASE MainReturns \/ MainUnwinds
    BY <1>10 DEF MainReturns, MainUnwinds, WrenCodeRuns, fields, Shape, ProcessEnds
  <1>11. CASE Terminated
    BY <1>11 DEF Terminated
  <1> QED BY <1>1, <1>2, <1>3, <1>4, <1>5, <1>6, <1>7, <1>8, <1>9, <1>10, <1>11 DEF Next

(* Nobody but a fibre that has it as m_parent wakes a WAITING fibre: call   *)
(* and transfer only accept NOT_STARTED and SUSPENDED ones.                 *)
THEOREM WokenByChildCorrect == Spec => WaitingWokenByChild
  <1> DEFINE Woken == \A w \in Fibres : state[w] = "WAITING" /\ state'[w] # "WAITING" =>
                 /\ state'[w] = "RUNNING"
                 /\ \E f \in Fibres :
                      /\ parent[f] = w
                      /\ f = currentFibre \/ (state[f] # "FAILED" /\ state'[f] = "FAILED")
  <1>1. IInv /\ [Next]_vars => [Woken]_vars
    <2> SUFFICES ASSUME IInv, Next, process = "running", Shape,
                        NEW w \in Fibres, state[w] = "WAITING", state'[w] # "WAITING"
                 PROVE  /\ state'[w] = "RUNNING"
                        /\ \E f \in Fibres :
                             /\ parent[f] = w
                             /\ f = currentFibre
                                  \/ (state[f] # "FAILED" /\ state'[f] = "FAILED")
      BY NextShape
    <2>1. sp = currentFibre /\ state[sp] = "RUNNING" /\ w # sp
      BY DEF IInv, RunsOnCurrentStack
    <2>2. ~Quiet /\ ~SomeoneStarts /\ ~ProcessEnds
      BY <2>1 DEF Quiet, SomeoneStarts, Starts, ProcessEnds, StateAfter, Departs
    <2>3. PICK old \in Fibres, this \in Fibres, final \in States :
            /\ Departs(old, final)
            /\ Wakes(old, final, this)
            /\ state[this] = "SUSPENDED" \/ parent[old] = this
      BY <2>2 DEF Shape, SomeoneContinues
    <2>4. w = this /\ parent[old] = w /\ state'[w] = "RUNNING"
      BY <2>1, <2>3 DEF Departs, Wakes
    <2>5. old = currentFibre \/ (state[old] # "FAILED" /\ state'[old] = "FAILED")
      BY <2>1, <2>3 DEF Departs, Wakes
    <2> QED BY <2>4, <2>5
  <1> QED BY <1>1, Invariance, PTL DEF Spec, WaitingWokenByChild

(* The error of a fibre comes out of the call that waits for it, and out of *)
(* no try.                                                                  *)
THEOREM ErrorReachesCallerCorrect == Spec => ErrorReachesCaller
  <1> DEFINE Reaches == \A f, p \in Fibres :
          ( /\ state[f] # "FAILED" /\ state'[f] = "FAILED"
            /\ process' = "running"
            /\ currentFibre' = p
            /\ frame[p].on = f )
          => /\ frame[p].op = "try" => thrown' = NoException
             /\ frame[p].op = "call" =>
                  thrown' = IF exception'[f] = NullVal THEN NoException
                                                      ELSE exception'[f]
  <1>1. IInv /\ [Next]_vars => [Reaches]_vars
    <2> SUFFICES ASSUME IInv, Next, process = "running", Shape, IInv',
                        NEW f \in Fibres, NEW p \in Fibres,
                        state[f] # "FAILED", state'[f] = "FAILED",
                        process' = "running", currentFibre' = p, frame[p].on = f
                 PROVE  /\ frame[p].op = "try" => thrown' = NoException
                        /\ frame[p].op = "call" =>
                             thrown' = IF exception'[f] = NullVal THEN NoException
                                                                 ELSE exception'[f]
      BY NextShape, NextIInv
    <2>1. ~Quiet /\ ~SomeoneStarts /\ ~ProcessEnds
      BY DEF Quiet, SomeoneStarts, Starts, ProcessEnds, StateAfter
    <2>2. thrown' = Rethrown(frame[p], exception')
      BY <2>1 DEF Shape, SomeoneContinues, Wakes
    <2>3. exception'[f] \in Messages \cup {NullVal}
      BY DEF IInv, TypeOK, ExceptionIffFailed
    <2> QED BY <2>2, <2>3, FibresAssumption DEF Rethrown
  <1> QED BY <1>1, Invariance, PTL DEF Spec, ErrorReachesCaller

(***************************************************************************)
(* The fibres implement coroutines.                                        *)
(***************************************************************************)

(* What the abstract phase of a fibre says about its state, now and after   *)
(* the step.                                                                *)
LEMMA PhaseValues ==
    ASSUME NEW f
    PROVE /\ state[f] = "FREE" => Phase(f) = "absent"
          /\ state[f] = "NOT_STARTED" => Phase(f) = "fresh"
          /\ state[f] \in OnStack => Phase(f) = "live"
          /\ state[f] \in Terminal => Phase(f) = "done"
          /\ state'[f] = "FREE" => Phase(f)' = "absent"
          /\ state'[f] = "NOT_STARTED" => Phase(f)' = "fresh"
          /\ state'[f] \in OnStack => Phase(f)' = "live"
          /\ state'[f] \in Terminal => Phase(f)' = "done"
          /\ state'[f] = state[f] => Phase(f)' = Phase(f)
  BY DEF Phase, OnStack, Terminal

(* A step that changes only the phase of f, to ph, is an EXCEPT of phase.   *)
LEMMA PhaseExcept ==
    ASSUME NEW f \in Fibres, NEW ph, Phase(f)' = ph,
           \A h \in Fibres : h # f => Phase(h)' = Phase(h)
    PROVE [h \in Fibres |-> Phase(h)]' = [[h \in Fibres |-> Phase(h)] EXCEPT ![f] = ph]
  OBVIOUS

(* Every shape is a coroutine step: waking a fibre is Switch, or Finish     *)
(* when the one that leaves is over.                                        *)
LEMMA ShapeRefines ==
    ASSUME IInv, process = "running", Shape PROVE [Co!CoNext]_(Co!coVars)
  <1> DEFINE ph == [f \in Fibres |-> Phase(f)]
  <1>1. sp \in Fibres /\ state[sp] = "RUNNING" /\ Phase(sp) = "live"
    BY PhaseValues DEF IInv, TypeOK, RunsOnCurrentStack, OnStack
  <1>2. ASSUME \A f \in Fibres : state'[f] = state[f] PROVE ph' = ph
    BY <1>2, PhaseValues
  <1>3. CASE Quiet
    <2>1. sp' = sp /\ process' = process
      BY <1>3 DEF Quiet
    <2>2. CASE \A f \in Fibres : state'[f] = state[f]
      BY <1>2, <2>1, <2>2 DEF Co!coVars
    <2>3. ASSUME NEW f \in Fibres, state[f] = "FREE", StateAfter(f, "NOT_STARTED")
          PROVE  Co!Create(f)
      <3>1. Phase(f) = "absent" /\ Phase(f)' = "fresh"
        BY <2>3, PhaseValues DEF StateAfter
      <3>2. \A h \in Fibres : h # f => Phase(h)' = Phase(h)
        BY <2>3, PhaseValues DEF StateAfter
      <3>3. ph' = [ph EXCEPT ![f] = "fresh"]
        BY <3>1, <3>2, PhaseExcept
      <3> QED BY <2>1, <3>1, <3>3 DEF Co!Create
    <2> QED BY <1>3, <2>2, <2>3 DEF Quiet, Co!CoNext
  <1>4. CASE SomeoneContinues
    <2>1. PICK old \in Fibres, this \in Fibres, final \in States :
            Departs(old, final) /\ Wakes(old, final, this)
      BY <1>4 DEF SomeoneContinues
    <2>2. /\ this # old /\ this # sp /\ sp' = this /\ process' = process
          /\ Phase(this) = "live" /\ Phase(this)' = "live"
          /\ Phase(old) \in {"fresh", "live"}
      BY <1>1, <2>1, PhaseValues DEF Wakes, IsSuspended, Departs, OnStack
    <2>3. \A h \in Fibres : h # old => Phase(h)' = Phase(h)
      BY <2>1, <2>2, PhaseValues DEF Wakes
    <2>4. CASE final \in Terminal
      <3>1. Phase(old)' = "done"
        BY <2>1, <2>2, <2>4, PhaseValues DEF Wakes
      <3>2. ph' = [ph EXCEPT ![old] = "done"]
        BY <2>3, <3>1, PhaseExcept
      <3>3. Co!Finish(old, this)
        BY <2>2, <3>2 DEF Co!Finish
      <3> QED BY <3>3 DEF Co!CoNext
    <2>5. CASE final \notin Terminal
      <3>1. old = sp /\ Phase(old)' = "live"
        BY <2>1, <2>2, <2>5, PhaseValues DEF Wakes, Departs, OnStack, Terminal
      <3>2. ph' = [ph EXCEPT ![this] = "live"]
        BY <1>1, <2>2, <2>3, <3>1, PhaseExcept
      <3>3. Co!Switch(this)
        BY <2>2, <3>2 DEF Co!Switch
      <3> QED BY <3>3 DEF Co!CoNext
    <2> QED BY <2>4, <2>5
  <1>5. CASE SomeoneStarts
    <2>1. PICK this \in Fibres, final \in {"SUSPENDED", "WAITING"} : Starts(this, final)
      BY <1>5 DEF SomeoneStarts
    <2>2. /\ this # sp /\ sp' = this /\ process' = process
          /\ Phase(this) = "fresh" /\ Phase(this)' = "live" /\ Phase(sp)' = "live"
      BY <1>1, <2>1, PhaseValues DEF Starts, OnStack
    <2>a. Phase(sp)' = "live"
      BY <2>2
    <2>3. \A h \in Fibres : h # this => Phase(h)' = Phase(h)
      BY <1>1, <2>1, <2>2, PhaseValues DEF Starts, OnStack
    <2>4. ph' = [ph EXCEPT ![this] = "live"]
      BY <2>2, <2>3, PhaseExcept
    <2>5. Co!Switch(this)
      BY <2>2, <2>4 DEF Co!Switch
    <2> QED BY <2>5 DEF Co!CoNext
  <1>6. CASE ProcessEnds
    <2>1. sp' = sp /\ process' # "running"
      BY <1>6 DEF ProcessEnds
    <2>2. CASE \A f \in Fibres : state'[f] = state[f]
      BY <1>2, <2>1, <2>2 DEF Co!End, Co!CoNext
    <2>3. ASSUME NEW old \in Fibres, NEW final \in States,
                 Departs(old, final), StateAfter(old, final)
          PROVE  Co!End
      <3>1. \A h \in Fibres : h # old => Phase(h)' = Phase(h)
        BY <2>3, PhaseValues DEF StateAfter
      <3>2. Phase(old) \in {"fresh", "live"}
        BY <1>1, <2>3, PhaseValues DEF Departs, OnStack
      <3>3. CASE final \in Terminal
        <4>1. Phase(old)' = "done"
          BY <2>3, <3>3, PhaseValues DEF StateAfter
        <4>2. ph' = [ph EXCEPT ![old] = "done"]
          BY <3>1, <4>1, PhaseExcept
        <4> QED BY <2>1, <3>2, <4>2 DEF Co!End
      <3>4. CASE final \notin Terminal
        <4>1. Phase(old) = "live" /\ Phase(old)' = "live"
          BY <1>1, <2>3, <3>4, PhaseValues DEF Departs, StateAfter, OnStack, Terminal
        <4>2. ph' = ph
          BY <3>1, <4>1
        <4> QED BY <2>1, <4>2 DEF Co!End
      <3> QED BY <3>3, <3>4
    <2> QED BY <1>6, <2>2, <2>3 DEF ProcessEnds, Co!CoNext
  <1> QED BY <1>3, <1>4, <1>5, <1>6 DEF Shape

(* Fibres implements Coroutines: every fibre operation is a coroutine step, *)
(* with the stack pointer as the coroutine in control.                      *)
THEOREM CoroutinesCorrect == Spec => ImplementsCoroutines
  <1>1. Init => Co!CoInit
    <2> SUFFICES ASSUME Init PROVE Co!CoInit
      OBVIOUS
    <2>1. \A f \in Fibres : Phase(f) = IF f = Main THEN "live" ELSE "absent"
      BY FibresAssumption DEF Init, Phase, OnStack
    <2> QED BY <2>1 DEF Init, Co!CoInit
  <1>2. IInv /\ [Next]_vars => [Co!CoNext]_(Co!coVars)
    <2>1. ASSUME UNCHANGED vars PROVE UNCHANGED Co!coVars
      <3>1. \A f \in Fibres : Phase(f)' = Phase(f)
        BY <2>1 DEF vars, fields, Phase
      <3> QED BY <2>1, <3>1 DEF vars, Co!coVars
    <2> QED BY <2>1, NextShape, ShapeRefines
  <1> QED BY <1>1, <1>2, Invariance, PTL DEF Spec, ImplementsCoroutines, Co!CoSpec
=============================================================================
