------------------------------ MODULE IRPasses ------------------------------
(***************************************************************************)
(* The statements of the compiler's intermediate form and the two passes   *)
(* that turn the body of a function into basic blocks: IRCleanup, which    *)
(* drops dead statements and unused labels, and BasicBlockPass.            *)
(*                                                                         *)
(* The body is one sequence: IRCleanup replaces each nested block by its   *)
(* statements before it removes anything.                                  *)
(***************************************************************************)
EXTENDS Integers, Sequences, FiniteSets, SequencesExt

CONSTANTS Locals,  \* the local variables of the function
          TMP,     \* a temporary, written once and read by the next statement
          NULL

(* A number, a string, a load, the sum of a variable and a number, or a     *)
(* call of a method of `this' with a variable as its argument.              *)
Num == [kind |-> "num", load |-> NULL]
Str == [kind |-> "str", load |-> NULL]
Load(v) == [kind |-> "load", load |-> v]
Plus(v) == [kind |-> "plus", load |-> v]
CallThis(v) == [kind |-> "call", load |-> v]

(* The condition of a jump is the result of a call: it loads nothing.       *)
Stmt(op, label, var, expr) ==
    [op |-> op, label |-> label, var |-> var, expr |-> expr]
StmtLabel(l) == Stmt("label", l, NULL, Num)
StmtJump(l) == Stmt("jump", l, NULL, Num)
StmtJumpOnFalse(l) == Stmt("jumpOnFalse", l, NULL, Num)
StmtAssign(v, e) == Stmt("assign", NULL, v, e)
StmtEvalAndIgnore(e) == Stmt("eval", NULL, NULL, e)
StmtReturn == Stmt("return", NULL, NULL, Num)

IsLabel(s) == s.op = "label"
IsJump(s) == s.op \in {"jump", "jumpOnFalse"}
IsUnconditionalBranch(s) == s.op \in {"jump", "return"}

-----------------------------------------------------------------------------
(* IRCleanup *)

Keep(body, Dead(_)) ==
    LET kept == SelectSeq([i \in DOMAIN body |-> i], LAMBDA i : ~Dead(i))
    IN  [n \in DOMAIN kept |-> body[kept[n]]]

(* Everything between an unconditional branch and the next label goes.      *)
RemoveDead(body) ==
    Keep(body, LAMBDA i : \E j \in 1..(i - 1) :
                            /\ IsUnconditionalBranch(body[j])
                            /\ \A k \in (j + 1)..i : ~IsLabel(body[k]))

(* The targets of all the jumps that were visited, which includes the dead  *)
(* ones: they are removed later.                                            *)
UsedLabels(body) == {body[i].label : i \in {j \in DOMAIN body : IsJump(body[j])}}

RemoveUnusedLabels(body, used) ==
    SelectSeq(body, LAMBDA s : IsLabel(s) => s.label \in used)

Cleanup(body) ==
    RemoveDead(RemoveUnusedLabels(RemoveDead(body), UsedLabels(body)))

-----------------------------------------------------------------------------
(* BasicBlockPass *)

(* The label that a conditional jump falls through to starts block b. *)
FallthroughLabel(b) == -b

AddToLast(blocks, s) == [blocks EXCEPT ![Len(blocks)] = Append(@, s)]

(* One turn of the loop of Process.  `ended' says that the statement before *)
(* was an unconditional branch, after which `current' is null until a label *)
(* comes: `lost' that another statement came.                               *)
AddStatement(acc, s) ==
    LET blocks == acc.blocks
        fall == FallthroughLabel(Len(blocks) + 1)
        joined == IF acc.ended THEN blocks ELSE AddToLast(blocks, StmtJump(s.label))
    IN  [blocks |->
           CASE s.op = "label" -> Append(joined, <<s>>)
             [] s.op = "jumpOnFalse" ->
                  Append(AddToLast(AddToLast(blocks, s), StmtJump(fall)), <<StmtLabel(fall)>>)
             [] OTHER -> AddToLast(blocks, s),
         ended |-> IsUnconditionalBranch(s),
         lost |-> acc.lost \/ (acc.ended /\ ~IsLabel(s))]

BasicBlocks(body) ==
    FoldLeft(AddStatement, [blocks |-> <<<<>>>>, ended |-> FALSE, lost |-> FALSE], body)
=============================================================================
