------------------------------ MODULE Compiler ------------------------------
(***************************************************************************)
(* The compiler from the statements of a function to the program the back  *)
(* end makes of it: the front end writes any function within the bounds,   *)
(* the passes run over it in the order of main.cpp, and the result is      *)
(* executed next to a memory with one cell per local, which is what the    *)
(* source means.                                                           *)
(***************************************************************************)
EXTENDS FrontEnd, TypeInference

VARIABLES
    phase,  \* where the compiler, or the program it compiled, is; or how it
            \* ended: "crashed" when a null pointer was used, "aborted" when an
            \* assertion failed, "undefined" when anything may happen
    ssa,    \* the function as BasicBlockPass, and then SSAPass, leaves it
    inf,    \* the state of TypeInferencePass
    pc,     \* the statement to execute: block and index
    local,  \* the value of each local, as the source says
    value   \* the value of each variable of the compiled function

passVars == <<ssa, inf>>
runVars == <<pc, local, value>>
compilerVars == <<phase, frontVars, passVars, runVars>>

None == <<>>

CompilerInit ==
    /\ phase = "parse"
    /\ FrontInit
    /\ ssa = None /\ inf = None
    /\ pc = None /\ local = None /\ value = None

Parse ==
    /\ phase = "parse"
    /\ FrontNext
    /\ UNCHANGED <<phase, passVars, runVars>>

(* The variables that Phi nodes or loads use although they were replaced:   *)
(* the data of such a variable is still the one of SSAPass, and             *)
(* TypeInferencePass takes it for its own.                                  *)
Dangling(result) ==
    (UNION {ToSet(result.inputs[phi]) : phi \in ToSet(result.prepend)}
       \cup UNION {Range(result.uses[b]) : b \in DOMAIN result.uses})
      \cap DOMAIN result.replacement

MakeBlocks ==
    /\ phase = "parse" /\ open = <<>>
    /\ ssa' = BasicBlocks(Cleanup(Body))
    /\ phase' = IF ssa'.lost THEN "crashed" ELSE "blocks"
    /\ code' = <<>> /\ statements' = 0 /\ labels' = 0
    /\ UNCHANGED <<open, inf, runVars>>

ConstructSSA ==
    /\ phase = "blocks"
    /\ ssa' = SSA(ssa.blocks)
    /\ phase' = CASE ssa'.failed # {} -> "aborted"
                  [] ssa'.failed = {} /\ Dangling(ssa') # {} -> "undefined"
                  [] OTHER -> "infer"
    /\ inf' = IF phase' = "infer" THEN SetupVariables(ssa') ELSE None
    /\ UNCHANGED <<frontVars, runVars>>

Infer ==
    /\ phase = "infer"
    /\ inf.work # <<>>
    /\ inf' = InferenceCycle(inf, ssa)
    /\ UNCHANGED <<phase, frontVars, ssa, runVars>>

EndInference ==
    /\ phase = "infer"
    /\ inf.work = <<>>
    /\ phase' = IF Unset(inf) # {} THEN "aborted" ELSE "run"
    /\ pc' = <<1, 1>>
    /\ local' = [l \in Locals \cup {TMP} |-> NULL]
    /\ value' = [v \in DOMAIN inf.type |-> NULL]
    /\ UNCHANGED <<frontVars, passVars>>

-----------------------------------------------------------------------------
(* The compiled program. *)

At == ssa.blocks[pc[1]][pc[2]]
Following == <<pc[1], pc[2] + 1>>
Operand == local[At.expr.load]

Executing(op) == phase = "run" /\ At.op = op /\ UNCHANGED <<frontVars, passVars>>

(* Values that were made by different statements, or by one statement in    *)
(* two consecutive executions of it, can be told apart.                     *)
Fresh(types) ==
    {[type |-> t, at |-> pc, again |-> value[pc] # NULL /\ ~value[pc].again] : t \in types}

Results ==
    CASE At.expr.kind = "load" -> {Operand}
      [] At.expr.kind = "call" -> Fresh({"num", "str"})
      [] At.expr.kind = "str" -> Fresh({"str"})
      [] OTHER -> Fresh({"num"})

AddsToString == At.expr.kind = "plus" /\ Operand.type = "str"

ExecuteAssign ==
    /\ Executing("assign")
    /\ ~AddsToString
    /\ \E result \in Results :
         /\ local' = [local EXCEPT ![At.var] = result]
         /\ value' = [value EXCEPT ![pc] = result]
    /\ pc' = Following
    /\ UNCHANGED phase

(* String.+ aborts the fibre as its argument is a number; a floating-point  *)
(* addition takes the bits of the pointer for a number.                     *)
ExecuteFaultyPlus ==
    /\ Executing("assign")
    /\ AddsToString
    /\ phase' = IF pc \in inf.intrinsic THEN "undefined" ELSE "done"
    /\ UNCHANGED runVars

ExecuteOther ==
    /\ Executing("label") \/ Executing("eval")
    /\ pc' = Following
    /\ UNCHANGED <<phase, local, value>>

(* The Phi nodes of a block take their values from the edge, all at once.   *)
JumpTo(target) ==
    LET phis == {v \in ToSet(ssa.prepend) : ssa.home[v] = target}
        edge == CHOOSE k \in DOMAIN ssa.preds[target] : ssa.preds[target][k] = pc[1]
    IN  /\ value' = [v \in DOMAIN value |->
                       IF v \in phis THEN value[ssa.inputs[v][edge]] ELSE value[v]]
        /\ pc' = <<target, 1>>
        /\ UNCHANGED <<phase, local>>

ExecuteJump ==
    /\ Executing("jump") \/ Executing("jumpOnFalse")
    /\ JumpTo(BlockOf(ssa.blocks, At.label))

ConditionHolds ==
    /\ Executing("jumpOnFalse")
    /\ pc' = Following
    /\ UNCHANGED <<phase, local, value>>

ExecuteReturn ==
    /\ Executing("return")
    /\ phase' = "done"
    /\ UNCHANGED runVars

Stopped ==
    /\ phase \in {"done", "crashed", "aborted", "undefined"}
    /\ UNCHANGED compilerVars

CompilerNext ==
    \/ Parse \/ MakeBlocks \/ ConstructSSA \/ Infer \/ EndInference
    \/ ExecuteAssign \/ ExecuteFaultyPlus \/ ExecuteOther
    \/ ExecuteJump \/ ConditionHolds \/ ExecuteReturn
    \/ Stopped

CompilerSpec == CompilerInit /\ [][CompilerNext]_compilerVars

-----------------------------------------------------------------------------

(* What the passes rely on: no jump is left without a target, however the   *)
(* breaks of nested loops are patched, and no statement but a label follows *)
(* an unconditional branch, where BasicBlockPass would dereference a null   *)
(* `current', whatever is written after a break, continue or return.        *)
BlocksWellFormed ==
    /\ phase = "parse" => JumpsPatched
    /\ phase # "crashed"

(* SSAPass keeps the meaning of the function: on every path and in every    *)
(* iteration a load reads, from the variable it was given, the value that   *)
(* the last assignment to the local wrote.                                  *)
LoadsSeeLastAssignment ==
    (phase = "run" /\ At.expr.load # NULL) =>
      value[ssa.uses[pc[1]][pc[2]]] = Operand

(* "it must never be inaccurate" (TypeInferencePass.cpp): a variable that   *)
(* was given a type holds values of this type only.                         *)
TypesAccurate ==
    phase = "run" =>
      \A v \in DOMAIN value :
        (value[v] # NULL /\ inf.type[v] # "unknown") => value[v].type = inf.type[v]

(* Blocks that no path from the first block leads to. *)
DeadCode ==
    \E S \in SUBSET (2..Len(ssa.blocks)) :
      S # {} /\ \A b \in S : ToSet(ssa.preds[b]) \subseteq S

(* The work list does not run dry while a variable has no type, where       *)
(* Process abort()s, unless the function has code that nothing reaches; and *)
(* it is empty after at most two cycles per variable, since types only get  *)
(* looser, loops in the dependencies included.                              *)
InferenceConverges ==
    phase = "infer" =>
      /\ inf.work = <<>> /\ Unset(inf) # {} => DeadCode
      /\ inf.cycle <= 2 * Cardinality(DOMAIN inf.type) + 1

(* TypeInferencePass.cpp:478: "we need to make sure we don't make the call  *)
(* an intrinsic, since that might replace the error message with undefined  *)
(* behaviour": a call becomes a floating-point addition only if its         *)
(* receiver is a number whenever it is executed.                            *)
IntrinsicsOnNumbers ==
    (phase = "run" /\ pc \in inf.intrinsic) => Operand.type = "num"
=============================================================================
