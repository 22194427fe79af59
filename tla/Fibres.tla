------------------------------- MODULE Fibres -------------------------------
(***************************************************************************)
(* The fibres of the Wren runtime (rtsrc/ObjFibre.cpp): one thread of      *)
(* control that moves between stacks.  A step of this module is one whole  *)
(* call of the Fiber class made by the Wren code that is running, up to    *)
(* the moment Wren code runs again on whichever stack received control.    *)
(* The Wren program itself is arbitrary: it may call any method on any     *)
(* fibre object at any time, since fibres can be kept in globals.          *)
(*                                                                         *)
(* Values passed between fibres are not tracked, only abort messages are.  *)
(* A stack is named after the fibre it was allocated for, a resume address *)
(* or a saved unwind context after the stack it points into.               *)
(***************************************************************************)
EXTENDS Naturals

CONSTANTS Fibres,        \* the addresses of ObjFibre objects
          Main,          \* GetMainThreadFibre(): it runs on the OS stack
          Messages,      \* non-null values passed to Fiber.abort
          RuntimeError,  \* what errors::wrenAbort throws
          NullVal,       \* NULL_VAL as an abort message
          NoException,   \* an empty m_exception
          NULL           \* a null pointer

ASSUME FibresAssumption ==
    /\ Main \in Fibres
    /\ NULL \notin Fibres
    /\ RuntimeError \in Messages
    /\ NullVal \notin Messages
    /\ NoException \notin Messages
    /\ NoException # NullVal

VARIABLES
    state,            \* m_state; "FREE" while no object lives at the address
    parent,           \* m_parent
    stack,            \* TRUE while m_stack is mapped (FALSE for Main: OS stack)
    resumeAddress,    \* m_resumeAddress: the stack it points into, or NULL
    suspendedContext, \* m_suspendedContext: the stack it describes, or NULL
    function,         \* TRUE while m_function is non-null
    exception,        \* the message of m_exception, or NoException
    currentFibre,     \* ObjFibre::currentFibre
    sp,               \* the stack the processor executes on
    frame,            \* per stack: the fibre call its innermost frames are in
    thrown,           \* the FibreAbortException being unwound, or NoException
    process           \* "running", or how the process ended

fields == <<state, parent, stack, resumeAddress, suspendedContext, function,
            exception>>
vars == <<fields, currentFibre, sp, frame, thrown, process>>

States == {"FREE", "NOT_STARTED", "RUNNING", "SUSPENDED", "WAITING",
           "FINISHED", "FAILED"}
CallKinds == {"call", "try", "transfer"}
Ops == CallKinds \cup {"user", "yield", "transferError", "none"}

Frame(op, on) == [op |-> op, on |-> on]
UserCode == Frame("user", NULL)      \* running Wren code
NoFrame  == Frame("none", NULL)      \* nothing that will ever return

TypeOK ==
    /\ state \in [Fibres -> States]
    /\ parent \in [Fibres -> Fibres \cup {NULL}]
    /\ stack \in [Fibres -> BOOLEAN]
    /\ resumeAddress \in [Fibres -> Fibres \cup {NULL}]
    /\ suspendedContext \in [Fibres -> Fibres \cup {NULL}]
    /\ function \in [Fibres -> BOOLEAN]
    /\ exception \in [Fibres -> Messages \cup {NullVal, NoException}]
    /\ currentFibre \in Fibres
    /\ sp \in Fibres
    /\ frame \in [Fibres -> [op : Ops, on : Fibres \cup {NULL}]]
    /\ thrown \in Messages \cup {NoException}
    /\ process \in {"running", "exit0", "exit1", "abort"}

(* The main module is running on the OS stack; Current() has made the main  *)
(* fibre the current one, as the first use of Fiber does.                   *)
Init ==
    /\ state = [f \in Fibres |-> IF f = Main THEN "RUNNING" ELSE "FREE"]
    /\ parent = [f \in Fibres |-> NULL]
    /\ stack = [f \in Fibres |-> FALSE]
    /\ resumeAddress = [f \in Fibres |-> NULL]
    /\ suspendedContext = [f \in Fibres |-> NULL]
    /\ function = [f \in Fibres |-> FALSE]
    /\ exception = [f \in Fibres |-> NoException]
    /\ currentFibre = Main
    /\ sp = Main
    /\ frame = [f \in Fibres |-> IF f = Main THEN UserCode ELSE NoFrame]
    /\ thrown = NoException
    /\ process = "running"

(***************************************************************************)
(* Parts shared by the operations.                                         *)
(***************************************************************************)
WrenCodeRuns == process = "running" /\ thrown = NoException

IsSuspended(st, f) == st[f] \in {"SUSPENDED", "WAITING"}

(* throw FibreAbortException: nothing but the unwinder runs until it lands. *)
Throw(message) ==
    /\ thrown' = message
    /\ UNCHANGED <<fields, currentFibre, sp, frame, process>>

(* The process ends.  The message is made a string before, which may run a  *)
(* toString in Wren that aborts or switches fibres: that is left out here.  *)
LastFibreExited(withError) ==
    /\ process' = IF withError THEN "exit1" ELSE "exit0"
    /\ thrown' = NoException
    /\ UNCHANGED <<stack, resumeAddress, suspendedContext, function, sp, frame>>

(* Faulty variants: the null check of ObjFibre::Abort is left out; try      *)
(* throws like call.                                                        *)
RethrownNull(woken, exc) ==
    IF woken.op = "call" THEN exc[woken.on] ELSE NoException
RethrownByTry(woken, exc) ==
    IF woken.op \in {"call", "try"} /\ exc[woken.on] \in Messages
      THEN exc[woken.on]
      ELSE NoException

(* What the woken stack does once HandleResumed has returned into it: only  *)
(* ObjFibre::Call looks at its callee's m_exception and throws it again,    *)
(* unless the message is null (ObjFibre::Abort).                            *)
Rethrown(woken, exc) ==
    IF woken.op = "call" /\ exc[woken.on] \in Messages
      THEN exc[woken.on]
      ELSE NoException

(* Faulty variant: the unwind context of the stack left behind is not saved.*)
ResumeWithoutContext(st, old, this, terminate, blocked, exc) ==
    IF ~IsSuspended(st, this) THEN
      /\ process' = "abort"
      /\ state' = st
      /\ currentFibre' = old
      /\ thrown' = NoException
      /\ UNCHANGED <<stack, resumeAddress, suspendedContext, function, sp, frame>>
    ELSE
      LET woken == resumeAddress[this] IN
      /\ state' = [st EXCEPT ![this] = "RUNNING"]
      /\ suspendedContext' = [suspendedContext EXCEPT ![this] = NULL]
      /\ resumeAddress' = [resumeAddress EXCEPT ![this] = NULL, ![old] = sp]
      /\ currentFibre' = this
      /\ sp' = woken
      /\ thrown' = Rethrown(frame[woken], exc)
      /\ frame' = [frame EXCEPT ![sp] = blocked, ![woken] = UserCode,
                                ![old] = IF terminate THEN NoFrame ELSE @]
      /\ function' = IF terminate THEN [function EXCEPT ![old] = FALSE] ELSE function
      /\ stack' = IF terminate THEN [stack EXCEPT ![old] = FALSE] ELSE stack
      /\ UNCHANGED process

(* this->ResumeSuspended(_, terminate), called with currentFibre = old and  *)
(* m_state = st, and HandleResumed on the stack that it wakes.  The stack   *)
(* left behind is blocked in `blocked`.                                     *)
ResumeSuspended(st, old, this, terminate, blocked, exc) ==
    IF ~IsSuspended(st, this) THEN
      /\ process' = "abort"
      /\ state' = st
      /\ currentFibre' = old
      /\ thrown' = NoException
      /\ UNCHANGED <<stack, resumeAddress, suspendedContext, function, sp, frame>>
    ELSE
      LET woken == resumeAddress[this] IN
      /\ state' = [st EXCEPT ![this] = "RUNNING"]
      /\ suspendedContext' = [suspendedContext EXCEPT ![old] = sp, ![this] = NULL]
      /\ resumeAddress' = [resumeAddress EXCEPT ![this] = NULL, ![old] = sp]
      /\ currentFibre' = this
      /\ sp' = woken
      /\ thrown' = Rethrown(frame[woken], exc)
      /\ frame' = [frame EXCEPT ![sp] = blocked, ![woken] = UserCode,
                                ![old] = IF terminate THEN NoFrame ELSE @]
      /\ function' = IF terminate THEN [function EXCEPT ![old] = FALSE] ELSE function
      /\ stack' = IF terminate THEN [stack EXCEPT ![old] = FALSE] ELSE stack
      /\ UNCHANGED process

(* Faulty variant: currentFibre is not updated. *)
StartWithoutCurrent(st, this, blocked) ==
    /\ stack' = [stack EXCEPT ![this] = TRUE]
    /\ state' = [st EXCEPT ![this] = "RUNNING"]
    /\ suspendedContext' = [suspendedContext EXCEPT ![currentFibre] = sp]
    /\ resumeAddress' = [resumeAddress EXCEPT ![currentFibre] = sp]
    /\ sp' = this
    /\ frame' = [frame EXCEPT ![sp] = blocked, ![this] = UserCode]
    /\ UNCHANGED <<currentFibre, function, thrown, process>>

(* this->StartAndSwitchTo and the head of RunOnNewStack, with m_state = st. *)
StartAndSwitchTo(st, this, blocked) ==
    /\ stack' = [stack EXCEPT ![this] = TRUE]
    /\ state' = [st EXCEPT ![this] = "RUNNING"]
    /\ suspendedContext' = [suspendedContext EXCEPT ![currentFibre] = sp]
    /\ resumeAddress' = [resumeAddress EXCEPT ![currentFibre] = sp]
    /\ currentFibre' = this
    /\ sp' = this
    /\ frame' = [frame EXCEPT ![sp] = blocked, ![this] = UserCode]
    /\ UNCHANGED <<function, thrown, process>>

(***************************************************************************)
(* The operations of the Fiber class.                                      *)
(***************************************************************************)
New(f, arity) ==
    /\ WrenCodeRuns
    /\ state[f] = "FREE"
    /\ IF arity > 1 THEN Throw(RuntimeError) ELSE
         /\ state' = [state EXCEPT ![f] = "NOT_STARTED"]
         /\ function' = [function EXCEPT ![f] = TRUE]
         /\ UNCHANGED <<parent, stack, resumeAddress, suspendedContext,
                        exception, currentFibre, sp, frame, thrown, process>>

Abort(message) ==
    /\ WrenCodeRuns
    /\ message # NullVal
    /\ Throw(message)

(* setupState: a transfer leaves m_parent alone and leaves the caller       *)
(* SUSPENDED, so that it can be transferred back to.                        *)
SetupParent(this, kind) ==
    parent' = IF kind = "transfer" THEN parent
                                   ELSE [parent EXCEPT ![this] = currentFibre]
(* Faulty variant: a transferring fibre waits as if it had called. *)
CallerAlwaysWaits(kind) == [state EXCEPT ![currentFibre] = "WAITING"]

SetupCallerState(kind) ==
    [state EXCEPT ![currentFibre] =
        IF kind = "transfer" THEN "SUSPENDED" ELSE "WAITING"]

CanBeCalled(this, kind) ==
    /\ this # Main \/ kind = "transfer"
    /\ state[this] \in {"NOT_STARTED", "SUSPENDED"}

(* Faulty variant: a fibre that waits for another one can be called too. *)
CallImplWaiting(this, kind) ==
    IF ~(state[this] = "WAITING" \/ CanBeCalled(this, kind)) THEN Throw(RuntimeError) ELSE
      /\ SetupParent(this, kind)
      /\ UNCHANGED exception
      /\ \/ /\ state[this] = "NOT_STARTED"
            /\ StartAndSwitchTo(SetupCallerState(kind), this, Frame(kind, this))
         \/ /\ IsSuspended(state, this)
            /\ ResumeSuspended(SetupCallerState(kind), currentFibre, this, FALSE,
                               Frame(kind, this), exception)
(* Faulty variant: a finished fibre starts again. *)
CallImplRestarting(this, kind) ==
    IF ~(state[this] = "FINISHED" \/ CanBeCalled(this, kind)) THEN Throw(RuntimeError) ELSE
      /\ SetupParent(this, kind)
      /\ UNCHANGED exception
      /\ \/ /\ state[this] \in {"NOT_STARTED", "FINISHED"}
            /\ StartAndSwitchTo(SetupCallerState(kind), this, Frame(kind, this))
         \/ /\ state[this] = "SUSPENDED"
            /\ ResumeSuspended(SetupCallerState(kind), currentFibre, this, FALSE,
                               Frame(kind, this), exception)

CallImpl(this, kind) ==
    IF ~CanBeCalled(this, kind) THEN Throw(RuntimeError) ELSE
      /\ SetupParent(this, kind)
      /\ UNCHANGED exception
      /\ \/ /\ state[this] = "NOT_STARTED"
            /\ StartAndSwitchTo(SetupCallerState(kind), this, Frame(kind, this))
         \/ /\ state[this] = "SUSPENDED"
            /\ ResumeSuspended(SetupCallerState(kind), currentFibre, this, FALSE,
                               Frame(kind, this), exception)

Call(this) ==
    /\ WrenCodeRuns
    /\ state[this] # "FREE"
    /\ CallImpl(this, "call")

Try(this) ==
    /\ WrenCodeRuns
    /\ state[this] # "FREE"
    /\ CallImpl(this, "try")

(* Transferring to oneself only returns the argument. *)
Transfer(this) ==
    /\ WrenCodeRuns
    /\ state[this] # "FREE"
    /\ this # currentFibre
    /\ CallImpl(this, "transfer")

(* Faulty variant: a fibre that has finished or failed already is accepted. *)
TransferErrorToTerminal(this, message) ==
    /\ WrenCodeRuns
    /\ state[this] # "FREE"
    /\ IF state[this] \in {"RUNNING", "WAITING"} THEN Throw(RuntimeError) ELSE
         LET failed == [state EXCEPT ![this] = "FAILED"] IN
         /\ exception' = [exception EXCEPT ![this] = message]
         /\ UNCHANGED parent
         /\ IF parent[this] = NULL
              THEN /\ state' = failed
                   /\ currentFibre' = this
                   /\ LastFibreExited(TRUE)
              ELSE ResumeSuspended(failed, this, parent[this], TRUE,
                                   Frame("transferError", this), exception')

(* `this` is failed without ever running: control goes to its parent.  The  *)
(* caller's own m_state is not touched.  m_resumeAddress and                *)
(* m_suspendedContext are cleared and then, with currentFibre = this,       *)
(* overwritten by ResumeSuspended, which runs on the caller's stack.        *)
TransferError(this, message) ==
    /\ WrenCodeRuns
    /\ state[this] # "FREE"
    /\ IF state[this] \notin {"NOT_STARTED", "SUSPENDED"} THEN Throw(RuntimeError) ELSE
         LET failed == [state EXCEPT ![this] = "FAILED"] IN
         /\ exception' = [exception EXCEPT ![this] = message]
         /\ UNCHANGED parent
         /\ IF parent[this] = NULL
              THEN /\ state' = failed
                   /\ currentFibre' = this
                   /\ LastFibreExited(TRUE)
              ELSE ResumeSuspended(failed, this, parent[this], TRUE,
                                   Frame("transferError", this), exception')

Yield ==
    /\ WrenCodeRuns
    /\ UNCHANGED <<parent, exception>>
    /\ LET st == [state EXCEPT ![currentFibre] = "SUSPENDED"] IN
       IF parent[currentFibre] = NULL
         THEN /\ state' = st
              /\ UNCHANGED currentFibre
              /\ LastFibreExited(FALSE)
         ELSE ResumeSuspended(st, currentFibre, parent[currentFibre], FALSE,
                              Frame("yield", NULL), exception)

(* Faulty variant: the stack that is left is not released. *)
LeaveWithoutTerminating(newFibre, final) ==
    /\ UNCHANGED parent
    /\ IF parent[newFibre] = NULL
         THEN /\ state' = [state EXCEPT ![newFibre] = final]
              /\ UNCHANGED currentFibre
              /\ LastFibreExited(final = "FAILED")
         ELSE ResumeSuspended([state EXCEPT ![newFibre] = final], currentFibre,
                              parent[newFibre], FALSE, NoFrame, exception')

(* Faulty variant: currentFibre is set before the switch, so that the old   *)
(* fibre, which HandleResumed releases, is the one that is woken.           *)
LeaveReleasingParent(newFibre, final) ==
    /\ UNCHANGED parent
    /\ IF parent[newFibre] = NULL
         THEN /\ state' = [state EXCEPT ![newFibre] = final]
              /\ UNCHANGED currentFibre
              /\ LastFibreExited(final = "FAILED")
         ELSE ResumeSuspended([state EXCEPT ![newFibre] = final], parent[newFibre],
                              parent[newFibre], TRUE, NoFrame, exception')

(* The tail of RunOnNewStack, for the fibre whose stack this is.            *)
LeaveNewStack(newFibre, final) ==
    /\ UNCHANGED parent
    /\ IF parent[newFibre] = NULL
         THEN /\ state' = [state EXCEPT ![newFibre] = final]
              /\ UNCHANGED currentFibre
              /\ LastFibreExited(final = "FAILED")
         ELSE ResumeSuspended([state EXCEPT ![newFibre] = final], currentFibre,
                              parent[newFibre], TRUE, NoFrame, exception')

(* The fibre's function returns. *)
FunctionReturns ==
    /\ WrenCodeRuns
    /\ sp # Main
    /\ UNCHANGED exception
    /\ LeaveNewStack(sp, "FINISHED")

(* The exception reaches the catch block of RunOnNewStack. *)
Unwind ==
    /\ process = "running"
    /\ thrown # NoException
    /\ sp # Main
    /\ exception' = [exception EXCEPT ![sp] = thrown]
    /\ LeaveNewStack(sp, "FAILED")

(* The main module's function returns, or its exception reaches             *)
(* GetOrInitModuleCaught: the process exits.                                *)
MainReturns ==
    /\ WrenCodeRuns
    /\ sp = Main
    /\ process' = "exit0"
    /\ UNCHANGED <<fields, currentFibre, sp, frame, thrown>>

MainUnwinds ==
    /\ process = "running"
    /\ thrown # NoException
    /\ sp = Main
    /\ process' = "exit1"
    /\ thrown' = NoException
    /\ UNCHANGED <<fields, currentFibre, sp, frame>>

Terminated == process # "running" /\ UNCHANGED vars

Next ==
    \/ \E f \in Fibres, arity \in 0..2 : New(f, arity)
    \/ \E f \in Fibres : Call(f)
    \/ \E f \in Fibres : Try(f)
    \/ \E f \in Fibres : Transfer(f)
    \/ \E f \in Fibres, m \in Messages \cup {NullVal} : TransferError(f, m)
    \/ \E m \in Messages \cup {NullVal} : Abort(m)
    \/ Yield
    \/ FunctionReturns
    \/ Unwind
    \/ MainReturns
    \/ MainUnwinds
    \/ Terminated

Spec == Init /\ [][Next]_vars

(***************************************************************************)
(* What the fibres promise.                                                *)
(***************************************************************************)
Terminal == {"FINISHED", "FAILED"}
OnStack  == {"RUNNING", "SUSPENDED", "WAITING"}

(* The processor always executes on the stack of currentFibre, that fibre   *)
(* is RUNNING and its stack is mapped (the assert in RunOnNewStack, and     *)
(* what SetupFibreEnvironment relies on), however control got there.        *)
RunsOnCurrentStack ==
    process = "running" =>
        /\ sp = currentFibre
        /\ state[currentFibre] = "RUNNING"
        /\ frame[sp] = UserCode
        /\ sp # Main => stack[sp]

(* Whatever ResumeSuspended or MarkGCValues is given as a suspended fibre   *)
(* can be switched to and walked: its resume address and unwind context     *)
(* point into its own stack, which is still mapped.                         *)
SuspendedIsResumable ==
    \A f \in Fibres : process = "running" /\ IsSuspended(state, f) =>
        /\ resumeAddress[f] = f
        /\ suspendedContext[f] = f
        /\ f # Main => stack[f]

(* A fibre's stack is mapped from StartAndSwitchTo until HandleResumed sees *)
(* it terminate, neither less nor longer, and its function is kept just as  *)
(* long: DeleteStack never runs twice, early or never.                      *)
StackLifetime ==
    process = "running" =>
        \A f \in Fibres \ {Main} :
            /\ stack[f] <=> state[f] \in OnStack
            /\ function[f] <=> state[f] \in OnStack \cup {"NOT_STARTED"}

(* m_state agrees with the call the fibre's stack is blocked in: WAITING in *)
(* call or try, SUSPENDED in yield or transfer, and a RUNNING fibre that is *)
(* not the current one is one that called transferError.                    *)
StateMatchesFrame ==
    process = "running" =>
        \A f \in Fibres :
            /\ state[f] = "WAITING" <=> frame[f].op \in {"call", "try"}
            /\ state[f] = "SUSPENDED" <=> frame[f].op \in {"yield", "transfer"}
            /\ state[f] = "RUNNING" <=> frame[f].op \in {"user", "transferError"}
            /\ frame[f].op = "user" <=> f = sp

(* Fiber.error: m_exception is set for the failed fibres and no other.      *)
ExceptionIffFailed ==
    \A f \in Fibres : exception[f] # NoException <=> state[f] = "FAILED"

(* A finished or failed fibre stays so, with the same error, and is never   *)
(* the fibre that control moves to.                                         *)
TerminalIsForever ==
    [][\A f \in Fibres : state[f] \in Terminal =>
          /\ state'[f] = state[f]
          /\ exception'[f] = exception[f]
          /\ sp' # f]_vars

(* A WAITING fibre is only ever woken on behalf of a fibre that has it as   *)
(* m_parent: the one that ran until now, or the one transferError failed.   *)
(* In particular it cannot be called or transferred to.                     *)
WaitingWokenByChild ==
    [][\A w \in Fibres : state[w] = "WAITING" /\ state'[w] # "WAITING" =>
          /\ state'[w] = "RUNNING"
          /\ \E f \in Fibres :
               /\ parent[f] = w
               /\ f = currentFibre \/ (state[f] # "FAILED" /\ state'[f] = "FAILED")]_vars

(* A fibre whose error reaches the fibre that is blocked in calling it      *)
(* makes that one throw the same error from `call` and return from `try`.   *)
ErrorReachesCaller ==
    [][\A f, p \in Fibres :
          ( /\ state[f] # "FAILED" /\ state'[f] = "FAILED"
            /\ process' = "running"
            /\ currentFibre' = p
            /\ frame[p].on = f )
          => /\ frame[p].op = "try" => thrown' = NoException
             /\ frame[p].op = "call" =>
                  thrown' = IF exception'[f] = NullVal THEN NoException
                                                      ELSE exception'[f]]_vars

(* An abort cannot travel for ever: it is caught by a try, is delivered to  *)
(* a fibre that does not rethrow it, or ends the process - even where stale *)
(* parents make the chain of callers a cycle.                               *)
AbortLands == (thrown # NoException) ~> (thrown = NoException)

(***************************************************************************)
(* The fibres implement coroutines: the code that executes is that of the  *)
(* stack the processor is on.                                              *)
(***************************************************************************)
Phase(f) ==
    CASE state[f] = "FREE" -> "absent"
      [] state[f] = "NOT_STARTED" -> "fresh"
      [] state[f] \in OnStack -> "live"
      [] OTHER -> "done"

Co == INSTANCE Coroutines WITH phase <- [f \in Fibres |-> Phase(f)],
                               control <- sp,
                               ended <- process # "running"

(* Every fibre operation is a legal coroutine step: a fibre is entered      *)
(* once, is resumed only while it is live, and never after it is done.      *)
ImplementsCoroutines == Co!CoSpec

(***************************************************************************)
(* What comments in the code say, and the code does not do.                *)
(***************************************************************************)

(* ObjFibre.h:146: m_parent "is the fibre it will return control to when it *)
(* exits or calls yield".  m_parent outlives the call that set it, so that  *)
(* fibre may have terminated or be running, and the process abort()s.       *)
ParentCanBeResumed == process # "abort"
=============================================================================
