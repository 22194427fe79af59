---------------------------- MODULE ForeignCalls ----------------------------
(***************************************************************************)
(* The fibres of module Fibres under a host that embeds the runtime        *)
(* (rtsrc/WrenAPI.cpp).  The host calls Wren code, Wren code calls foreign *)
(* functions of the host, and those call Wren code again; each such call   *)
(* is a C++ frame on the stack of the fibre that made it.  A foreign call  *)
(* has a WrenVM in its frame, which the constructor and the destructor     *)
(* enter in and erase from currentVMs, where the collector finds the slots *)
(* to mark.  wrenCall catches the exception of an abort.  Its catch block  *)
(* runs Wren code too, where the message is an object with a toString, and *)
(* the host's errorFn: both are frames of their own, which nothing guards. *)
(*                                                                         *)
(* Wren code may switch fibres at any depth, so a foreign call can be left *)
(* suspended in the middle, and its fibre can be failed in that state.     *)
(***************************************************************************)
EXTENDS Fibres, Sequences, FiniteSetsExt

CONSTANTS MaxNative,           \* bound: C++ frames on one stack
          FailsInForeignCall,  \* transferError is also called on fibres that
                               \* are suspended in a call from or to the host
          WithToString         \* the messages whose toString is Wren code

ASSUME ForeignAssumption ==
    /\ MaxNative \in Nat
    /\ FailsInForeignCall \in BOOLEAN
    /\ WithToString \subseteq Messages \ {RuntimeError}

VARIABLES native,     \* per stack: its C++ frames, the innermost last
          currentVMs  \* the WrenVMs registered: the stack each is on, and where

foreignVars == <<vars, native, currentVMs>>

(* The VM that wrenNewVM gives the host. *)
HostVM == <<Main, 0>>

(* The host has not called anything yet. *)
ForeignInit ==
    /\ Init
    /\ native = [f \in Fibres |-> <<>>]
    /\ currentVMs = {}

HostRuns == WrenCodeRuns /\ sp = Main /\ native[Main] = <<>>
In(kind) == WrenCodeRuns /\ native[sp] # <<>> /\ native[sp][Len(native[sp])] = kind

(* The innermost frames are those of Wren code: of the fibre's function, of *)
(* what wrenCall has called, or of the toString of the message it reports.  *)
InWren ==
    \/ In("wrenCall") \/ In("toString")
    \/ WrenCodeRuns /\ sp # Main /\ native[sp] = <<>>

(* The innermost frame is a function that the runtime has called in the host. *)
InHost == In("foreign") \/ In("errorFn")

Push(kind) ==
    /\ Len(native[sp]) < MaxNative
    /\ native' = [native EXCEPT ![sp] = Append(@, kind)]
Pop == native' = [native EXCEPT ![sp] = SubSeq(@, 1, Len(@) - 1)]

(* The i-th frame goes on as a frame of another kind; those above are gone. *)
GoOnAs(i, kind) ==
    native' = [native EXCEPT ![sp] = Append(SubSeq(@, 1, i - 1), kind)]

-----------------------------------------------------------------------------
(* The host. *)
NewVM ==
    /\ HostRuns
    /\ currentVMs' = currentVMs \cup {HostVM}
    /\ UNCHANGED <<vars, native>>

FreeVM ==
    /\ HostRuns
    /\ HostVM \in currentVMs
    /\ currentVMs' = currentVMs \ {HostVM}
    /\ UNCHANGED <<vars, native>>

(* wrenCall, by the host, a foreign function or errorFn, of a method that   *)
(* exists.                                                                  *)
(* wrencInitModule runs a module under a try of its own in the same way.    *)
WrenCall ==
    /\ (HostRuns /\ HostVM \in currentVMs) \/ InHost
    /\ Push("wrenCall")
    /\ UNCHANGED <<vars, currentVMs>>

WrenCallReturns ==
    /\ In("wrenCall")
    /\ Pop
    /\ UNCHANGED <<vars, currentVMs>>

-----------------------------------------------------------------------------
(* dispatchForeignCall and ForeignClassInterface::Allocate.                 *)
DispatchForeignCall ==
    /\ InWren
    /\ Push("foreign")
    /\ currentVMs' = currentVMs \cup {<<sp, Len(native[sp]) + 1>>}
    /\ UNCHANGED vars

ForeignReturns ==
    /\ In("foreign")
    /\ Pop
    /\ currentVMs' = currentVMs \ {<<sp, Len(native[sp])>>}
    /\ UNCHANGED vars

(* wrenAbortFiber throws through the foreign function, or through errorFn.  *)
AbortFiber(message) ==
    /\ InHost
    /\ Abort(message)
    /\ UNCHANGED <<native, currentVMs>>

-----------------------------------------------------------------------------
(* What fibres do to the C++ frames: those of a stack that is unmapped are  *)
(* gone, without having been unwound.                                       *)
FramesOfMappedStacks ==
    native' = [f \in Fibres |-> IF f = Main \/ stack'[f] THEN native[f] ELSE <<>>]

FibreOperation ==
    /\ InWren
    /\ \/ \E f \in Fibres, arity \in 0..2 : New(f, arity)
       \/ \E f \in Fibres : Call(f) \/ Try(f) \/ Transfer(f)
       \/ \E f \in Fibres, m \in Messages \cup {NullVal} :
            /\ native[f] # <<>> => FailsInForeignCall
            /\ TransferError(f, m)
       \/ \E m \in Messages : Abort(m)
       \/ Yield
       \/ native[sp] = <<>> /\ FunctionReturns
    /\ FramesOfMappedStacks
    /\ UNCHANGED currentVMs

(* The frames from the i-th on are unwound: their VMs are destructed.       *)
VMsFrom(i) == {<<sp, j>> : j \in i..MaxNative}

Catching == {i \in DOMAIN native[sp] : native[sp][i] = "wrenCall"}

(* What the catch block does first: Obj::ToString(ex.message) calls Wren    *)
(* code, or goes on to errorFn.                                             *)
Reporting == IF thrown \in WithToString THEN "toString" ELSE "errorFn"

(* Faulty variants: the VMs below a wrenCall that catches are not erased;   *)
(* wrenCall waits instead of returning an error.                            *)
CaughtByWrenCallLeaking ==
    /\ process = "running" /\ thrown # NoException /\ Catching # {}
    /\ GoOnAs(Max(Catching), Reporting)
    /\ thrown' = NoException
    /\ UNCHANGED <<fields, currentFibre, sp, frame, process, currentVMs>>
CaughtByWrenCallForever ==
    /\ process = "running" /\ thrown # NoException /\ Catching # {}
    /\ UNCHANGED foreignVars

(* The exception reaches the catch block of a wrenCall on this stack...     *)
CaughtByWrenCall ==
    /\ process = "running" /\ thrown # NoException /\ Catching # {}
    /\ GoOnAs(Max(Catching), Reporting)
    /\ currentVMs' = currentVMs \ VMsFrom(Max(Catching))
    /\ thrown' = NoException
    /\ UNCHANGED <<fields, currentFibre, sp, frame, process>>

(* ... or, if there is none, the one of RunOnNewStack...                    *)
CaughtByFibre ==
    /\ Catching = {}
    /\ Unwind
    /\ currentVMs' = currentVMs \ VMsFrom(1)
    /\ FramesOfMappedStacks

(* ... or, on the stack of the host, nothing: std::terminate.  An error of  *)
(* a catch block, which the try before it does not guard, can get here.     *)
EscapesToHost ==
    /\ process = "running" /\ thrown # NoException /\ Catching = {}
    /\ sp = Main
    /\ process' = "abort"
    /\ thrown' = NoException
    /\ UNCHANGED <<fields, currentFibre, sp, frame, native, currentVMs>>

(* In the catch block: the message is a string now.  A toString that gives  *)
(* no string aborts with RuntimeError, as the Wren code in it may.          *)
ToStringReturns ==
    /\ In("toString")
    /\ GoOnAs(Len(native[sp]), "errorFn")
    /\ UNCHANGED <<vars, currentVMs>>

(* errorFn returns, or there is none: wrenCall answers with an error.       *)
ErrorFnReturns ==
    /\ In("errorFn")
    /\ Pop
    /\ UNCHANGED <<vars, currentVMs>>

Ended == process # "running" /\ UNCHANGED foreignVars

ForeignNext ==
    \/ NewVM \/ FreeVM \/ WrenCall \/ WrenCallReturns
    \/ DispatchForeignCall \/ ForeignReturns
    \/ \E m \in Messages : AbortFiber(m)
    \/ FibreOperation
    \/ CaughtByWrenCall \/ CaughtByFibre \/ EscapesToHost
    \/ ToStringReturns \/ ErrorFnReturns
    \/ Ended

(* Unwinding makes progress; the host, foreign functions and Wren code may  *)
(* run for ever.                                                            *)
ForeignSpec ==
    /\ ForeignInit /\ [][ForeignNext]_foreignVars
    /\ WF_foreignVars(CaughtByWrenCall) /\ WF_foreignVars(CaughtByFibre)
    /\ WF_foreignVars(EscapesToHost)

-----------------------------------------------------------------------------
(* The collector's list is exact: every foreign call in progress, also on   *)
(* suspended fibres, has its slots marked, and nothing else is read.        *)
VMsExact ==
    process = "running" =>
        currentVMs \ {HostVM} =
            UNION {{<<f, i>> : i \in {i \in DOMAIN native[f] : native[f][i] = "foreign"}} :
                   f \in Fibres}

(* ObjFibre.cpp:242: transferError simulates "the behaviour of resuming the *)
(* fibre and immediately sending an abort", which would unwind the stack.   *)
(* It unmaps the stack instead; no registered VM may be on such a stack.    *)
VMsOnMappedStacks ==
    process = "running" =>
        \A vm \in currentVMs : vm[1] = Main \/ stack[vm[1]]

(* Calls from and to the host, catch blocks that report an error included,  *)
(* begin and end on the stack that executes.  Whatever other fibres start,  *)
(* wake, leave, fail or unwind, the calls that a suspended fibre is in the  *)
(* middle of are still there; and when a fibre is over, it is in none.      *)
HostCallsKept ==
    [][process' = "running" =>
          \A f \in Fibres :
             /\ f # sp => native'[f] = native[f]
             /\ state'[f] \in Terminal => native'[f] = <<>>]_foreignVars
=============================================================================
