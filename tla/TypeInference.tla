--------------------------- MODULE TypeInference ----------------------------
(***************************************************************************)
(* src/passes/TypeInferencePass.cpp: the types of the SSA variables and    *)
(* temporaries of a function, found with a work list.  A type that is not  *)
(* known is a null pointer in the code.                                    *)
(***************************************************************************)
EXTENDS SSAPass

(* The variables assigned by the statements that satisfy P, in order. *)
AssignedBy(ssa, P(_)) ==
    FlattenSeq([b \in DOMAIN ssa.blocks |->
      SelectSeq([i \in DOMAIN ssa.blocks[b] |-> <<b, i>>],
                LAMBDA v : LET s == ssa.blocks[b][v[2]] IN s.op = "assign" /\ P(s.var))])

(* fn->ssaVars, from which replaced variables were removed, and then        *)
(* fn->temporaries.                                                         *)
AllVars(ssa) ==
    AssignedBy(ssa, LAMBDA x : x \in Locals)
      \o SelectSeq([n \in 1..ssa.made |-> <<0, n>>], LAMBDA v : ~Replaced(ssa, v))
      \o AssignedBy(ssa, LAMBDA x : x = TMP)

IsPhi(v) == v[1] = 0
ExprOf(ssa, v) == ssa.blocks[v[1]][v[2]].expr
UseOf(ssa, v) == ssa.uses[v[1]][v[2]]

(* GetExprDeps, GetExprDepsPhi *)
Dependencies(ssa, v) ==
    IF IsPhi(v) THEN ssa.inputs[v]
    ELSE IF ExprOf(ssa, v).load = NULL THEN <<>>
    ELSE <<UseOf(ssa, v)>>

(* A variable that is used twice by a Phi node is there twice. *)
ReverseDependencies(ssa, v) ==
    LET Uses(w) == SelectSeq(Dependencies(ssa, w), LAMBDA d : d = v)
        vars == AllVars(ssa)
    IN  FlattenSeq([n \in DOMAIN vars |-> [k \in DOMAIN Uses(vars[n]) |-> vars[n]]])

(* SetupVariable: only what has no dependencies goes on the list, and never *)
(* a Phi node.                                                              *)
SetupVariables(ssa) ==
    [work |-> SelectSeq(AllVars(ssa), LAMBDA v : ~IsPhi(v) /\ Dependencies(ssa, v) = <<>>),
     known |-> {},              \* the variables with setType
     type |-> [v \in ToSet(AllVars(ssa)) |-> "unknown"],
     intrinsic |-> {},          \* sums that became a floating-point addition
     cycle |-> 1]

Ready(inf, ssa, v) ==
    IsPhi(v) \/ ToSet(Dependencies(ssa, v)) \subseteq inf.known

KnownTypes(inf, inputs) == {inf.type[v] : v \in ToSet(inputs) \cap inf.known}

(* Faulty variant: the first input that is known decides. *)
PhiTypeOfFirst(inf, inputs) ==
    inf.type[SelectSeq(inputs, LAMBDA v : v \in inf.known)[1]]

PhiType(inf, inputs) ==
    LET types == KnownTypes(inf, inputs) IN
    IF Cardinality(types) = 1 THEN CHOOSE t \in types : TRUE ELSE "unknown"

(* The result of Num.+ is a number and that of String.+ a string.           *)
ProcessExpr(inf, ssa, v) ==
    IF IsPhi(v) THEN PhiType(inf, ssa.inputs[v])
    ELSE CASE ExprOf(ssa, v).kind \in {"num", "str"} -> ExprOf(ssa, v).kind
           [] ExprOf(ssa, v).kind \in {"load", "plus"} -> inf.type[UseOf(ssa, v)]
           [] OTHER -> "unknown"

(* expr->intrinsic is written only if the type of the receiver is known.    *)
(* Only Num.+ has an intrinsic.                                             *)
Intrinsic(inf, ssa, v) ==
    IF IsPhi(v) \/ ExprOf(ssa, v).kind # "plus" THEN inf.intrinsic
    ELSE CASE inf.type[UseOf(ssa, v)] = "num" -> inf.intrinsic \cup {v}
           [] inf.type[UseOf(ssa, v)] = "str" -> inf.intrinsic \ {v}
           [] OTHER -> inf.intrinsic

Processed(inf, ssa, v) == [inf EXCEPT !.intrinsic = Intrinsic(inf, ssa, v)]

SetType(inf, ssa, v, type) ==
    [Processed(inf, ssa, v) EXCEPT !.known = @ \cup {v}, !.type[v] = type,
                                   !.work = @ \o ReverseDependencies(ssa, v)]

(* Faulty variant: what depends on a variable is updated each time.         *)
UpdateAlways(inf, ssa, v) ==
    IF ~Ready(inf, ssa, v) THEN inf
    ELSE SetType(inf, ssa, v, ProcessExpr(inf, ssa, v))

Update(inf, ssa, v) ==
    LET type == ProcessExpr(inf, ssa, v) IN
    IF ~Ready(inf, ssa, v) THEN inf
    ELSE IF type = inf.type[v] /\ v \in inf.known THEN Processed(inf, ssa, v)
    ELSE SetType(inf, ssa, v, type)

(* lastUpdateCycle: a variable is updated once in a cycle. *)
FirstOccurrences(list) ==
    FoldLeft(LAMBDA acc, v : IF Contains(acc, v) THEN acc ELSE Append(acc, v), <<>>, list)

InferenceCycle(inf, ssa) ==
    FoldLeft(LAMBDA acc, v : Update(acc, ssa, v),
             [inf EXCEPT !.work = <<>>, !.cycle = @ + 1],
             FirstOccurrences(inf.work))

Unset(inf) == DOMAIN inf.type \ inf.known
=============================================================================
