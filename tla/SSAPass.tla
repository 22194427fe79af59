------------------------------ MODULE SSAPass -------------------------------
(***************************************************************************)
(* src/passes/SSAPass.cpp: every assignment to a local gets a variable of  *)
(* its own and every load is given the variable that holds the value,      *)
(* with Phi nodes where blocks meet.                                       *)
(*                                                                         *)
(* A variable is named <<b, i>> after the assignment at statement i of     *)
(* block b, or <<0, n>> when it is the n-th one made for a Phi node.  A    *)
(* Phi node is known by the variable it is assigned to.                    *)
(***************************************************************************)
EXTENDS IRPasses, TLC

OPEN == <<0, 0>>    \* an offer whose producer has not been called

Starts(blocks, b, label) == blocks[b] # <<>> /\ blocks[b][1] = StmtLabel(label)
BlockOf(blocks, label) == CHOOSE b \in DOMAIN blocks : Starts(blocks, b, label)

(* Faulty variant: only the last jump of a block counts. *)
LastJumpTo(blocks, b, target) ==
    LET last == blocks[b][Len(blocks[b])]
    IN  IsJump(last) /\ Starts(blocks, target, last.label)

(* A block can end with several jumps: a conditional one comes first. *)
JumpsTo(blocks, b, target) ==
    \E i \in DOMAIN blocks[b] :
      /\ Starts(blocks, target, blocks[b][i].label)
      /\ \A j \in i..Len(blocks[b]) : IsJump(blocks[b][j])

Predecessors(blocks) ==
    [target \in DOMAIN blocks |->
       SelectSeq([b \in DOMAIN blocks |-> b], LAMBDA b : JumpsTo(blocks, b, target))]

LoadAt(blocks, b, i) == blocks[b][i].expr.load

(* VarScanner: the assignments to l in block b before statement i. *)
AssignsBefore(blocks, b, i, l) ==
    {j \in 1..(i - 1) : blocks[b][j].op = "assign" /\ blocks[b][j].var = l}

LastAssign(blocks, b, i, l) ==
    LET before == AssignsBefore(blocks, b, i, l) IN
    IF before = {} THEN NULL ELSE <<b, CHOOSE j \in before : \A k \in before : k <= j>>

LoadsOf(blocks, b) == {i \in DOMAIN blocks[b] : LoadAt(blocks, b, i) # NULL}

(* bi->loads: the loads of block b that no earlier statement of it assigns. *)
PendingLoads(blocks, b) ==
    SelectSeq([i \in DOMAIN blocks[b] |-> i],
              LAMBDA i : /\ i \in LoadsOf(blocks, b)
                         /\ LastAssign(blocks, b, i, LoadAt(blocks, b, i)) = NULL)

(* What the pass knows before it scans the first block.  `uses' is the      *)
(* variable each load has been given; `prepend' the Phi nodes that will be  *)
(* put at the start of their blocks; `failed' the assertions that failed.   *)
ScannedLocally(blocks) ==
    LET B == DOMAIN blocks IN
    [blocks |-> blocks,
     preds |-> Predecessors(blocks),
     exports |-> [b \in B |-> [l \in Locals |-> LastAssign(blocks, b, Len(blocks[b]) + 1, l)]],
     offers |-> [b \in B |-> [l \in Locals |-> NULL]],
     uses |-> [b \in B |-> [i \in LoadsOf(blocks, b) |->
                             LastAssign(blocks, b, i, LoadAt(blocks, b, i))]],
     scanned |-> {},
     made |-> 0,
     inputs |-> <<>>,       \* per Phi node
     home |-> <<>>,         \* the block of a Phi node
     prepend |-> <<>>,
     phiUsers |-> <<>>,     \* per variable that has any, in order
     replacement |-> <<>>,  \* of the variables that have been replaced
     failed |-> {}]

Fail(st, assertion) == [st EXCEPT !.failed = @ \cup {assertion}]

Replaced(st, v) == v \in DOMAIN st.replacement

UsersOf(st, v) == IF v \in DOMAIN st.phiUsers THEN st.phiUsers[v] ELSE <<>>
SetUsers(st, v, users) == [st EXCEPT !.phiUsers = (v :> users) @@ @]

RECURSIVE Current(_, _)
Current(st, v) == IF Replaced(st, v) THEN Current(st, st.replacement[v]) ELSE v

(* The one variable a Phi node could be replaced with. NULL stands for the  *)
(* null pointer: the Phi node is needed.                                    *)
OtherInputs(output, inputs) == ToSet(inputs) \ {output}
IsPhiTrivial(output, inputs) ==
    LET others == OtherInputs(output, inputs) IN
    IF Cardinality(others) = 1 THEN CHOOSE v \in others : TRUE ELSE NULL

CheckHasInput(st, output, inputs) ==
    IF OtherInputs(output, inputs) = {} THEN Fail(st, "only != nullptr") ELSE st

-----------------------------------------------------------------------------

RECURSIVE RemoveTrivialPhi(_, _, _)
RemoveTrivialPhi(st, var, replacement) ==
    IF Replaced(st, var) \/ Replaced(st, replacement)
      THEN Fail(st, "replacement == nullptr")
      ELSE
        LET AndUser(s, phi) ==
              LET inputs == ReplaceAll(s.inputs[phi], var, replacement)
                  remaining == IsPhiTrivial(phi, inputs)
                  s1 == CheckHasInput([s EXCEPT !.inputs[phi] = inputs], phi, inputs)
                  s2 == [s1 EXCEPT !.prepend = Remove(@, phi)]
                  s3 == SetUsers(s2, remaining, Remove(UsersOf(s2, remaining), phi))
              IN  IF s.failed # {} THEN s
                  ELSE IF remaining = NULL THEN s1
                  ELSE RemoveTrivialPhi(s3, phi, remaining)
            start ==
              [st EXCEPT !.replacement = (var :> replacement) @@ @,
                         !.uses = [b \in DOMAIN @ |-> [i \in DOMAIN @[b] |->
                                     IF @[b][i] = var THEN replacement ELSE @[b][i]]]]
        IN  FoldLeft(AndUser, start, UsersOf(st, var))

(* PhiOffer::producer *)
Produce(st, b, l) ==
    IF st.offers[b][l] # OPEN THEN st
    ELSE [st EXCEPT !.made = @ + 1, !.offers[b][l] = <<0, st.made + 1>>]

(* The Phi node for the variable of the offer, used by all its inputs. *)
MakePhi(st, b, phi, inputs) ==
    FoldLeft(LAMBDA s, v : SetUsers(s, v, Append(UsersOf(s, v), phi)),
             [st EXCEPT !.inputs = (phi :> inputs) @@ @,
                        !.home = (phi :> b) @@ @,
                        !.prepend = Append(@, phi)],
             inputs)

(* What a block exports once it has imported a variable: what the block     *)
(* assigns itself comes first.                                              *)
Export(exported, imported) == IF exported = NULL THEN imported ELSE exported

(* What ImportVariable does once its predecessors have been asked. *)
Resolve(st, b, l, imported) ==
    LET inputs == [i \in DOMAIN imported |-> Current(st, imported[i])]
        producer == st.offers[b][l]
        output == IF producer = OPEN THEN NULL ELSE producer
        trivial == IsPhiTrivial(output, inputs)
        st1 == CheckHasInput(st, output, inputs)
        made == Produce(st1, b, l)
        phi == made.offers[b][l]
        st2 == IF trivial = NULL THEN MakePhi(made, b, phi, inputs)
               ELSE IF output # NULL THEN RemoveTrivialPhi(st1, output, trivial)
               ELSE st1
        result == IF trivial = NULL THEN phi ELSE Current(st2, trivial)
    IN  [st |-> [st2 EXCEPT !.offers[b][l] = NULL, !.exports[b][l] = Export(@, result)],
         var |-> result]

RECURSIVE ImportVariable(_, _, _, _), Scan(_, _)

ImportVariable(st, block, local, excludeBlock) ==
    LET st1 == IF excludeBlock THEN st ELSE Scan(st, block)
        exported == st1.exports[block][local]
        offered == st1.offers[block][local]
        FromPredecessor(acc, pred) ==
          LET r == ImportVariable(acc.st, pred, local, FALSE)
          IN  IF acc.st.failed # {} THEN acc
              ELSE [st |-> r.st, vars |-> Append(acc.vars, r.var)]
        all == FoldLeft(FromPredecessor,
                        [st |-> [st1 EXCEPT !.offers[block][local] = OPEN], vars |-> <<>>],
                        st1.preds[block])
    IN  CASE st1.failed # {} -> [st |-> st1, var |-> NULL]
          [] st1.failed = {} /\ ~excludeBlock /\ exported # NULL ->
               [st |-> st1, var |-> exported]
          [] st1.failed = {} /\ ~excludeBlock /\ exported = NULL /\ offered # NULL ->
               LET made == Produce(st1, block, local)
               IN  [st |-> made, var |-> made.offers[block][local]]
          [] OTHER -> IF all.st.failed # {} THEN [st |-> all.st, var |-> NULL]
                      ELSE Resolve(all.st, block, local, all.vars)

(* `cache' holds what earlier loads of this block imported. *)
Scan(st, block) ==
    LET GiveVariable(acc, i) ==
          LET local == LoadAt(acc.st.blocks, block, i)
              r == IF acc.cache[local] # NULL THEN [st |-> acc.st, var |-> acc.cache[local]]
                   ELSE ImportVariable(acc.st, block, local, TRUE)
              given == [r.st EXCEPT !.uses[block][i] = r.var]
          IN  IF acc.st.failed # {} THEN acc
              ELSE [st |-> IF Replaced(r.st, r.var) THEN Fail(given, "load not replaced") ELSE given,
                    cache |-> [acc.cache EXCEPT ![local] = r.var]]
    IN  IF block \in st.scanned THEN st
        ELSE FoldLeft(GiveVariable,
                      [st |-> [st EXCEPT !.scanned = @ \cup {block}],
                       cache |-> [l \in Locals |-> NULL]],
                      PendingLoads(st.blocks, block)).st

SSA(blocks) ==
    FoldLeft(Scan, ScannedLocally(blocks), [b \in DOMAIN blocks |-> b])
=============================================================================
