------------------------------ MODULE FrontEnd ------------------------------
(***************************************************************************)
(* The part of src/wren_compiler.cpp that turns the statements of a        *)
(* function into intermediate form while it parses them, in one pass: the  *)
(* targets of the jumps forward are filled in when the if or the loop      *)
(* ends.                                                                   *)
(***************************************************************************)
EXTENDS IRPasses

CONSTANTS Kinds,          \* bound: the kinds of statement a program has
          MaxStatements,  \* bound: statements of the function
          MaxDepth        \* bound: nesting of ifs and loops

AllKinds == {"use", "num", "str", "plus", "call", "if", "while", "break", "continue", "return"}

ASSUME FrontEndAssumption ==
    /\ NULL \notin Locals /\ TMP \notin Locals /\ NULL # TMP
    /\ Kinds \subseteq AllKinds
    /\ MaxStatements \in Nat /\ MaxDepth \in Nat

VARIABLES
    code,        \* the intermediate form so far
    open,        \* the ifs and loops that have not ended, innermost last, with
                 \* the jumps that still need a target (exitJumps of a loop)
    statements,  \* statements begun
    labels       \* labels made: they are numbered

frontVars == <<code, open, statements, labels>>

(* var x = 1, for each local *)
Declarations == FoldLeft(LAMBDA s, l : Append(s, StmtAssign(l, Num)), <<>>, SetToSeq(Locals))

FrontInit ==
    /\ code = Declarations
    /\ open = <<>>
    /\ statements = 0
    /\ labels = 0

Innermost == open[Len(open)]
Loops == {i \in DOMAIN open : open[i].kind = "while"}
Loop == CHOOSE i \in Loops : \A j \in Loops : j <= i        \* compiler->loop

Here == Len(code) + 1
Emit(stmts) == code' = code \o stmts
PatchAndEmit(jumps, label, stmts) ==
    code' = [i \in DOMAIN code |->
               IF i \in jumps THEN [code[i] EXCEPT !.label = label] ELSE code[i]] \o stmts

Begin(kind) ==
    /\ kind \in Kinds
    /\ statements < MaxStatements
    /\ statements' = statements + 1

(* An assignment is an expression: its value goes to a temporary first.     *)
Assign(kind, l, e) ==
    /\ Begin(kind)
    /\ Emit(<<StmtAssign(TMP, e), StmtAssign(l, Load(TMP))>>)
    /\ UNCHANGED <<open, labels>>

ExpressionStatement(l) ==
    /\ Begin("use")
    /\ Emit(<<StmtEvalAndIgnore(CallThis(l))>>)
    /\ UNCHANGED <<open, labels>>

BeginIf ==
    /\ Begin("if")
    /\ Len(open) < MaxDepth
    /\ Emit(<<StmtJumpOnFalse(NULL)>>)
    /\ open' = Append(open, [kind |-> "then", jumps |-> {Here}, start |-> 0])
    /\ UNCHANGED labels

Else ==
    /\ open # <<>> /\ Innermost.kind = "then"
    /\ labels' = labels + 1
    /\ PatchAndEmit(Innermost.jumps, labels', <<StmtJump(NULL), StmtLabel(labels')>>)
    /\ open' = Append(Front(open), [kind |-> "else", jumps |-> {Here}, start |-> 0])
    /\ UNCHANGED statements

EndIf ==
    /\ open # <<>> /\ Innermost.kind \in {"then", "else"}
    /\ labels' = labels + 1
    /\ PatchAndEmit(Innermost.jumps, labels', <<StmtLabel(labels')>>)
    /\ open' = Front(open)
    /\ UNCHANGED statements

BeginWhile ==
    /\ Begin("while")
    /\ Len(open) < MaxDepth
    /\ labels' = labels + 2
    /\ Emit(<<StmtLabel(labels + 1), StmtJumpOnFalse(NULL), StmtLabel(labels + 2)>>)
    /\ open' = Append(open, [kind |-> "while", jumps |-> {Here + 1}, start |-> labels + 1])

(* Faulty variant: the jumps of the breaks are forgotten. *)
EndLoopForgettingBreaks ==
    /\ open # <<>> /\ Innermost.kind = "while"
    /\ labels' = labels + 1
    /\ PatchAndEmit({CHOOSE i \in Innermost.jumps : \A j \in Innermost.jumps : i <= j}, labels',
                    <<StmtJump(Innermost.start), StmtLabel(labels')>>)
    /\ open' = Front(open)
    /\ UNCHANGED statements

EndLoop ==
    /\ open # <<>> /\ Innermost.kind = "while"
    /\ labels' = labels + 1
    /\ PatchAndEmit(Innermost.jumps, labels', <<StmtJump(Innermost.start), StmtLabel(labels')>>)
    /\ open' = Front(open)
    /\ UNCHANGED statements

Break ==
    /\ Begin("break")
    /\ Loops # {}
    /\ Emit(<<StmtJump(NULL)>>)
    /\ open' = [open EXCEPT ![Loop].jumps = @ \cup {Here}]
    /\ UNCHANGED labels

Continue ==
    /\ Begin("continue")
    /\ Loops # {}
    /\ Emit(<<StmtJump(open[Loop].start)>>)
    /\ UNCHANGED <<open, labels>>

(* The value returned goes to a temporary, which nothing else reads.        *)
Return ==
    /\ Begin("return")
    /\ Emit(<<StmtReturn>>)
    /\ UNCHANGED <<open, labels>>

FrontNext ==
    \/ \E l \in Locals :
         \/ ExpressionStatement(l)
         \/ Assign("num", l, Num)
         \/ Assign("str", l, Str)
         \/ \E m \in Locals : Assign("plus", l, Plus(m)) \/ Assign("call", l, CallThis(m))
    \/ BeginIf \/ Else \/ EndIf
    \/ BeginWhile \/ EndLoop \/ Break \/ Continue
    \/ Return

(* finishBody: the function returns null at its end. *)
Body == Append(code, StmtReturn)

(* Once no if or loop is open every jump has a label, and every label that  *)
(* is jumped to is in the function once.                                    *)
JumpsPatched ==
    open = <<>> =>
      \A i \in DOMAIN code : IsJump(code[i]) =>
        \E j \in DOMAIN code :
          {k \in DOMAIN code : code[k] = StmtLabel(code[i].label)} = {j}
=============================================================================
