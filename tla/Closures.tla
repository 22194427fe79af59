------------------------------- MODULE Closures -----------------------------
(***************************************************************************)
(* Closures, from the parser to the reference counts.  The first half      *)
(* compiles a function token by token, the way the front end resolves      *)
(* names and decides where the storage of captured variables is set up and *)
(* released.  The second half runs the result: activations, closure        *)
(* objects, the storage blocks they share, calls at any time and           *)
(* collection of closures at any time.                                     *)
(***************************************************************************)
EXTENDS Integers, Sequences, FiniteSets, FiniteSetsExt, SequencesExt

CONSTANTS Programs,       \* the sources: sequences of tokens
          MaxIterations,  \* bound: rounds of all loops of a run together
          MaxCalls,       \* bound: calls of closures
          MaxClosures     \* bound: closure objects created

VARIABLES tokens,     \* what the parser has not consumed yet
          compilers,  \* the stack of Compilers, the innermost last
          variables,  \* the LocalVariables: their name and container
          captured,   \* the variables with a non-empty list of upvalues
          upvalues,   \* fn->upvalues and fn->upvaluesByName of each function
          code,       \* the statements of each function
          labels,     \* each loop's function, start and end
          containers  \* the StmtBeginUpvalues: which function each belongs to

VARIABLES stack,      \* the activations, the running one last
          storages,   \* the UpvalueStorage blocks
          closures,   \* the ObjFn objects
          entries,    \* how often a block with captured variables was entered
          rounds,     \* loop rounds so far
          calls       \* calls so far

compileVars == <<tokens, compilers, variables, captured, upvalues, code,
                 labels, containers>>
runVars == <<stack, storages, closures, entries, rounds, calls>>
closureVars == <<compileVars, runVars>>

-----------------------------------------------------------------------------
(* Declarations, by the functions between them and the variable they stand  *)
(* for in the end: a local variable, an upvalue for a local of the function *)
(* around, an upvalue for an upvalue of that one.                           *)
Local(id) == [depth |-> 0, target |-> id]
Upvalue(parent) == [parent EXCEPT !.depth = @ + 1]
Parent(upvalue) == [upvalue EXCEPT !.depth = @ - 1]
GetFinalTarget(decl) == decl.target

IsUpvalue(decl) == decl.depth > 0
NotFound == Local(0)

Frame(container) == [container |-> container, locals |-> {}]

NewCompiler(fn, container) ==
    [fn |-> fn, frames |-> <<Frame(container)>>, loops |-> <<>>]

Top == compilers[Len(compilers)]

(* The containers of the frames that are open in a compiler: what is in     *)
(* scope at a statement.                                                    *)
Scope(compiler) == {compiler.frames[i].container : i \in DOMAIN compiler.frames}

Statement(op, scope) ==
    [op |-> op, scope |-> scope, decl |-> NotFound, means |-> 0,
     drop |-> {}, uncaptured |-> {}, fn |-> 0, loop |-> 0, container |-> 0]
Instruction(op, compiler) == Statement(op, Scope(compiler))

(* The statement a function begins with.                                    *)
Entry(container) == [Statement("begin", {}) EXCEPT !.container = container]

ClosuresInit ==
    /\ tokens \in Programs
    /\ compilers = <<NewCompiler(1, 1)>>
    /\ variables = <<>>
    /\ captured = {}
    /\ upvalues = <<{}>>
    /\ code = <<<<Entry(1)>>>>
    /\ labels = <<>>
    /\ containers = <<1>>
    /\ stack = <<>> /\ storages = <<>> /\ closures = <<>>
    /\ entries = 0 /\ rounds = 0 /\ calls = 0

-----------------------------------------------------------------------------
(* The parser.  Each action consumes one token; the guards on the frames    *)
(* and loops are the parser's own nesting, and a source that does not nest  *)
(* is a syntax error and goes no further.                                   *)
Parses(kind) ==
    /\ tokens # <<>> /\ Head(tokens)[1] = kind
    /\ tokens' = Tail(tokens)
    /\ UNCHANGED runVars

SetTop(compiler) == compilers' = [compilers EXCEPT ![Len(compilers)] = compiler]
EmitAll(fn, list) == code' = [code EXCEPT ![fn] = @ \o list]

PushFrame(compiler, container) ==
    [compiler EXCEPT !.frames = Append(@, Frame(container))]
PopFrame(compiler) == [compiler EXCEPT !.frames = Front(@)]

(* ScopeStack::Add: the variable belongs to the innermost frame.            *)
AddLocal(compiler, id) ==
    [compiler EXCEPT !.frames[Len(compiler.frames)].locals = @ \cup {id}]

(* Faulty variant: an exit releases the innermost block only. *)
DiscardInnermost(compiler, since) ==
    {c \in {compiler.frames[Len(compiler.frames)].container} :
        \E v \in captured : variables[v].container = c}

(* GetFramesSince and discardLocals: the blocks released when the frames    *)
(* from this index on are left.  Only variables captured so far count.      *)
FramesSince(compiler, since) ==
    {compiler.frames[i].container : i \in since..Len(compiler.frames)}
DiscardLocals(compiler, since) ==
    {c \in FramesSince(compiler, since) : \E v \in captured : variables[v].container = c}

(* An exit, and beside it the blocks it leaves of which no variable has     *)
(* been captured yet.                                                       *)
Exit(instruction, compiler, since) ==
    [instruction EXCEPT
        !.drop = DiscardLocals(compiler, since),
        !.uncaptured = {c \in FramesSince(compiler, since) :
                          \A v \in captured : variables[v].container # c}]

(* declareVariable and addLocal, in a local scope. *)
DeclareVariable ==
    /\ Parses("var")
    /\ variables' = Append(variables,
          [name |-> Head(tokens)[2],
           container |-> Top.frames[Len(Top.frames)].container])
    /\ SetTop(AddLocal(Top, Len(variables')))
    /\ UNCHANGED <<captured, upvalues, code, labels, containers>>

Begin(compiler, container) ==
    [Instruction("begin", compiler) EXCEPT !.container = container]
Cleanup(compiler) ==
    [Instruction("relocate", compiler) EXCEPT
        !.drop = DiscardLocals(compiler, Len(compiler.frames))]

(* How many frames are open in the body of the innermost loop, or of the    *)
(* function.                                                                *)
BodyDepth(compiler) ==
    IF compiler.loops = <<>> THEN 1 ELSE Last(compiler.loops).depth
AtBodyEnd(compiler) == Len(compiler.frames) = BodyDepth(compiler)

(* The braces of a block statement: pushScope and popScope.                 *)
OpenBlock ==
    /\ Parses("{")
    /\ containers' = Append(containers, Top.fn)
    /\ SetTop(PushFrame(Top, Len(containers')))
    /\ EmitAll(Top.fn, <<Begin(Top, Len(containers'))>>)
    /\ UNCHANGED <<variables, captured, upvalues, labels>>

CloseBlock ==
    /\ Parses("}")
    /\ ~AtBodyEnd(Top)
    /\ SetTop(PopFrame(Top))
    /\ EmitAll(Top.fn, <<Cleanup(Top)>>)
    /\ UNCHANGED <<variables, captured, upvalues, labels, containers>>

(* startLoop remembers the frame that is on top when it is called; the body *)
(* is so many scopes further in.                                            *)
StartLoop(compiler, scopes) ==
    [compiler EXCEPT !.loops = Append(@,
        [id |-> Len(labels) + 1, contentFrameId |-> Len(compiler.frames),
         depth |-> Len(compiler.frames) + scopes])]
AtLoopEnd(compiler, scopes) ==
    /\ compiler.loops # <<>> /\ AtBodyEnd(compiler)
    /\ Last(compiler.loops).depth = Last(compiler.loops).contentFrameId + scopes

InLoop(op, compiler, loop) == [Instruction(op, compiler) EXCEPT !.loop = loop]

(* A while loop, with the block that is its body.                           *)
WhileStatement ==
    /\ Parses("while")
    /\ LET looping == StartLoop(Top, 1)
           body == PushFrame(looping, Len(containers) + 1)
           loop == Len(labels) + 1
       IN
       /\ SetTop(body)
       /\ EmitAll(Top.fn, <<InLoop("test", Top, loop), Begin(Top, Len(containers) + 1)>>)
       /\ labels' = Append(labels, [fn |-> Top.fn, start |-> Len(code[Top.fn]) + 1, end |-> 0])
    /\ containers' = Append(containers, Top.fn)
    /\ UNCHANGED <<variables, captured, upvalues>>

EndLoop(compiler, emitted) ==
    LET loop == Last(compiler.loops).id IN
    /\ labels' = [labels EXCEPT ![loop].end = Len(code[compiler.fn]) + emitted + 1]
    /\ SetTop([compiler EXCEPT !.loops = Front(@)])

EndWhile ==
    /\ Parses("endwhile")
    /\ AtLoopEnd(Top, 1)
    /\ LET loop == Last(Top.loops).id
           outer == PopFrame(Top)
       IN
       /\ EmitAll(Top.fn, <<Cleanup(Top), InLoop("jump", outer, loop)>>)
       /\ EndLoop(outer, 2)
    /\ UNCHANGED <<variables, captured, upvalues, containers>>

(* A for loop: a scope for the hidden variables, which nothing captures,    *)
(* around one for the loop variable, around the block that is the body.     *)
ForStatement ==
    /\ Parses("for")
    /\ LET hidden == PushFrame(Top, Len(containers) + 1)
           looping == StartLoop(hidden, 2)
           each == PushFrame(looping, Len(containers) + 2)
           loop == Len(labels) + 1
       IN
       /\ variables' = Append(variables,
             [name |-> Head(tokens)[2], container |-> Len(containers) + 2])
       /\ SetTop(PushFrame(AddLocal(each, Len(variables')), Len(containers) + 3))
       /\ EmitAll(Top.fn, <<Begin(Top, Len(containers) + 1), InLoop("test", hidden, loop),
                            Begin(hidden, Len(containers) + 2), Begin(each, Len(containers) + 3)>>)
       /\ labels' = Append(labels, [fn |-> Top.fn, start |-> Len(code[Top.fn]) + 2, end |-> 0])
    /\ containers' = containers \o <<Top.fn, Top.fn, Top.fn>>
    /\ UNCHANGED <<captured, upvalues>>

EndFor ==
    /\ Parses("endfor")
    /\ AtLoopEnd(Top, 2)
    /\ LET loop == Last(Top.loops).id
           each == PopFrame(Top)
           hidden == PopFrame(each)
       IN
       /\ EmitAll(Top.fn, <<Cleanup(Top), Cleanup(each), InLoop("jump", hidden, loop),
                            Cleanup(hidden)>>)
       /\ labels' = [labels EXCEPT ![loop].end = Len(code[Top.fn]) + 4]
       /\ SetTop([PopFrame(hidden) EXCEPT !.loops = Front(@)])
    /\ UNCHANGED <<variables, captured, upvalues, containers>>

(* "if (condition) break" and "if (condition) continue". *)
LeaveLoop ==
    /\ Parses("break") \/ Parses("continue")
    /\ Top.loops # <<>>
    /\ LET loop == Last(Top.loops) IN
       EmitAll(Top.fn, <<Exit(InLoop(Head(tokens)[1], Top, loop.id), Top,
                              loop.contentFrameId)>>)
    /\ UNCHANGED <<compilers, variables, captured, upvalues, labels, containers>>

(* "if (condition) return". *)
ReturnStatement ==
    /\ Parses("return")
    /\ EmitAll(Top.fn, <<Exit(Instruction("return", Top), Top, 1)>>)
    /\ UNCHANGED <<compilers, variables, captured, upvalues, labels, containers>>

(* Fn.new { ... }: a compiler of its own. *)
OpenFunction ==
    /\ Parses("fn")
    /\ containers' = Append(containers, Len(code) + 1)
    /\ compilers' = Append(compilers, NewCompiler(Len(code) + 1, Len(containers')))
    /\ upvalues' = Append(upvalues, {})
    /\ code' = Append(code, <<Entry(Len(containers'))>>)
    /\ UNCHANGED <<variables, captured, labels>>

(* finishBody and endCompiler. *)
FinishBody ==
    [Instruction("end", Top) EXCEPT !.drop = DiscardLocals(Top, 1)]

CloseFunction ==
    /\ Parses("endfn")
    /\ Len(compilers) > 1 /\ Top.loops = <<>> /\ AtBodyEnd(Top)
    /\ LET parent == compilers[Len(compilers) - 1] IN
       code' = [code EXCEPT
                  ![Top.fn] = Append(@, FinishBody),
                  ![parent.fn] = Append(@, [Instruction("closure", parent) EXCEPT
                                              !.fn = Top.fn])]
    /\ compilers' = Front(compilers)
    /\ UNCHANGED <<variables, captured, upvalues, labels, containers>>

(* ScopeStack::Lookup: the variable of that name in the innermost frame     *)
(* that has one, or 0.                                                      *)
Named(frame, name) == {v \in frame.locals : variables[v].name = name}
FramesWith(compiler, name) ==
    {i \in DOMAIN compiler.frames : Named(compiler.frames[i], name) # {}}
AnyOf(ids) == CHOOSE id \in ids : TRUE
Lookup(compiler, name) ==
    IF FramesWith(compiler, name) = {} THEN 0
    ELSE AnyOf(Named(compiler.frames[Max(FramesWith(compiler, name))], name))

(* The variables for which the i-th compiler's function already has an      *)
(* upvalue of that name.  Only an upvalue for a local has a plain name.     *)
Cached(i, name) ==
    {v \in DOMAIN variables :
        variables[v].name = name /\ Upvalue(Local(v)) \in upvalues[compilers[i].fn]}

(* Where findUpvalue ends its walk outwards: at the first function that has *)
(* the upvalue, or whose enclosing function declares the variable.          *)
Bases(name) ==
    {i \in 2..Len(compilers) :
        Cached(i, name) # {} \/ Lookup(compilers[i - 1], name) # 0}

(* Faulty variant: finds the outermost declaration of the name.             *)
OutermostBase(name) == Min(Bases(name))
UpvalueBase(name) == Max(Bases(name))

(* findUpvalue and addUpvalue: the upvalues of all functions from the base  *)
(* to the innermost, each for the declaration one function further out.     *)
FindUpvalue(name) ==
    LET base == UpvalueBase(name)
        target == IF Cached(base, name) # {} THEN AnyOf(Cached(base, name))
                  ELSE Lookup(compilers[base - 1], name)
    IN [i \in base..Len(compilers) |-> [depth |-> i - base + 1, target |-> target]]

(* What a name means in the source: the innermost declaration around it.    *)
Meaning(name) ==
    LET hits == {i \in DOMAIN compilers : Lookup(compilers[i], name) # 0} IN
    Lookup(compilers[Max(hits)], name)

Use(decl, name) ==
    [Instruction("use", Top) EXCEPT !.decl = decl, !.means = Meaning(name)]

(* resolveNonmodule for a name that is a local of this function...          *)
UseLocal ==
    /\ Parses("use")
    /\ LET name == Head(tokens)[2] IN
       /\ Lookup(Top, name) # 0
       /\ EmitAll(Top.fn, <<Use(Local(Lookup(Top, name)), name)>>)
    /\ UNCHANGED <<compilers, variables, captured, upvalues, labels, containers>>

(* ... or of a function around it.                                          *)
UseUpvalue ==
    /\ Parses("use")
    /\ LET name == Head(tokens)[2]
           chain == FindUpvalue(name)
           At(fn) == {chain[i] : i \in {i \in DOMAIN chain : compilers[i].fn = fn}}
       IN
       /\ Lookup(Top, name) = 0 /\ Bases(name) # {}
       /\ EmitAll(Top.fn, <<Use(chain[Len(compilers)], name)>>)
       /\ upvalues' = [fn \in DOMAIN upvalues |-> upvalues[fn] \cup At(fn)]
       /\ captured' = captured \cup {chain[Len(compilers)].target}
    /\ UNCHANGED <<compilers, variables, labels, containers>>

(* The end of the outermost function, which is then called.                 *)
EndOfSource ==
    /\ tokens = <<>>
    /\ Len(compilers) = 1 /\ Top.loops = <<>> /\ AtBodyEnd(Top)
    /\ EmitAll(1, <<FinishBody>>)
    /\ compilers' = <<>>
    /\ stack' = <<[fn |-> 1, pc |-> 1, closure |-> 0, packs |-> <<>>, env |-> <<>>]>>
    /\ UNCHANGED <<tokens, variables, captured, upvalues, labels, containers,
                   storages, closures, entries, rounds, calls>>

Compile ==
    \/ DeclareVariable \/ OpenBlock \/ CloseBlock \/ WhileStatement \/ EndWhile
    \/ ForStatement \/ EndFor \/ LeaveLoop \/ ReturnStatement
    \/ OpenFunction \/ CloseFunction \/ UseLocal \/ UseUpvalue \/ EndOfSource

-----------------------------------------------------------------------------
(* The compiled program.                                                    *)

(* IRCleanup drops a StmtBeginUpvalues none of whose variables is captured. *)
HasStorage(container) == \E v \in captured : variables[v].container = container

Running == stack[Len(stack)]
Current == code[Running.fn][Running.pc]

Runs(op) == compilers = <<>> /\ stack # <<>> /\ Current.op = op
Goto(pc) == stack' = [stack EXCEPT ![Len(stack)].pc = pc]
Advance == Goto(Running.pc + 1)

(* UpvalueStorage::Unref: at 0 the contents are overwritten.                *)
UnrefAll(ids) ==
    storages' = [s \in DOMAIN storages |->
        IF s \notin ids THEN storages[s]
        ELSE [storages[s] EXCEPT !.count = @ - 1,
                                 !.clobbered = @ \/ storages[s].count = 1]]

StoragesOf(activation, dropped) == {activation.packs[c] : c \in dropped}

(* Faulty variant: the block of an earlier round of the loop is reused.     *)
AllocatesFirstTime(container) ==
    HasStorage(container) /\ container \notin DOMAIN Running.packs
AllocatesStorage(container) == HasStorage(container)

With(f, key, value) ==
    [k \in DOMAIN f \cup {key} |-> IF k = key THEN value ELSE f[k]]

(* VisitStmtBeginUpvalues and wren_alloc_upvalue_storage.  What the source  *)
(* means is recorded beside it: each entry makes new variables.             *)
BeginUpvalues ==
    /\ Runs("begin")
    /\ entries' = entries + 1
    /\ storages' = IF AllocatesStorage(Current.container)
                     THEN Append(storages, [count |-> 1, clobbered |-> FALSE,
                                            entry |-> entries'])
                     ELSE storages
    /\ stack' = [stack EXCEPT ![Len(stack)] =
          [Running EXCEPT
              !.pc = @ + 1,
              !.packs = IF AllocatesStorage(Current.container)
                          THEN With(@, Current.container, Len(storages')) ELSE @,
              !.env = With(@, Current.container, entries')]]
    /\ UNCHANGED <<compileVars, closures, rounds, calls>>

(* VisitStmtRelocateUpvalues. *)
RelocateUpvalues ==
    /\ Runs("relocate")
    /\ UnrefAll(StoragesOf(Running, Current.drop))
    /\ Advance
    /\ UNCHANGED <<compileVars, closures, entries, rounds, calls>>

UseVariable ==
    /\ Runs("use")
    /\ Advance
    /\ UNCHANGED <<compileVars, storages, closures, entries, rounds, calls>>

(* GetLocalPointer and GetUpvaluePointer: the storage and the variable.     *)
Pointer(activation, decl) ==
    IF IsUpvalue(decl) THEN closures[activation.closure].vars[decl]
    ELSE <<activation.packs[variables[decl.target].container], decl.target>>

(* The storage of a block of this function, or of one further out, which is *)
(* then in the closure's own pack.                                          *)
StorageAddress(activation, container) ==
    IF containers[container] = activation.fn THEN activation.packs[container]
    ELSE closures[activation.closure].blocks[container]

StorageContainers(fn) == {variables[GetFinalTarget(u)].container : u \in upvalues[fn]}

(* Faulty variant: nested closures do not count as users of a block.        *)
RefOwnBlocks(activation, fn) ==
    {c \in StorageContainers(fn) : containers[c] = activation.fn}
RefBlocks(activation, fn) == StorageContainers(fn)

(* VisitExprClosure: the pointers, and one more reference to each block.    *)
CreateClosure ==
    /\ Runs("closure")
    /\ Len(closures) < MaxClosures
    /\ LET fn == Current.fn
           counted == {StorageAddress(Running, c) : c \in RefBlocks(Running, fn)}
       IN
       /\ closures' = Append(closures,
             [fn |-> fn, alive |-> TRUE, env |-> Running.env,
              vars |-> [u \in upvalues[fn] |-> Pointer(Running, Parent(u))],
              blocks |-> [c \in StorageContainers(fn) |-> StorageAddress(Running, c)]])
       /\ storages' = [s \in DOMAIN storages |->
             IF s \in counted THEN [storages[s] EXCEPT !.count = @ + 1] ELSE storages[s]]
    /\ Advance
    /\ UNCHANGED <<compileVars, entries, rounds, calls>>

(* The condition of a loop holds, or does not. *)
TestCondition ==
    /\ Runs("test")
    /\ \/ /\ rounds < MaxIterations
          /\ rounds' = rounds + 1
          /\ Advance
       \/ Goto(labels[Current.loop].end) /\ UNCHANGED rounds
    /\ UNCHANGED <<compileVars, storages, closures, entries, calls>>

JumpToStart ==
    /\ Runs("jump")
    /\ Goto(labels[Current.loop].start)
    /\ UNCHANGED <<compileVars, storages, closures, entries, rounds, calls>>

(* A conditional break or continue, taken or not. *)
BreakOrContinue ==
    /\ Runs("break") \/ Runs("continue")
    /\ \/ Advance /\ UNCHANGED storages
       \/ /\ UnrefAll(StoragesOf(Running, Current.drop))
          /\ Goto(IF Current.op = "break" THEN labels[Current.loop].end
                  ELSE labels[Current.loop].start)
    /\ UNCHANGED <<compileVars, closures, entries, rounds, calls>>

(* A conditional return, taken or not, and the end of a function body.      *)
ReturnOrEnd ==
    /\ Runs("return") \/ Runs("end")
    /\ \/ Current.op = "return" /\ Advance /\ UNCHANGED storages
       \/ UnrefAll(StoragesOf(Running, Current.drop)) /\ stack' = Front(stack)
    /\ UNCHANGED <<compileVars, closures, entries, rounds, calls>>

(* ObjFn::Call: any live closure may be called at any time.                 *)
Call(c) ==
    /\ compilers = <<>>
    /\ calls < MaxCalls
    /\ closures[c].alive
    /\ stack' = Append(stack, [fn |-> closures[c].fn, pc |-> 1, closure |-> c,
                               packs |-> <<>>, env |-> closures[c].env])
    /\ calls' = calls + 1
    /\ UNCHANGED <<compileVars, storages, closures, entries, rounds>>

(* The collector frees a closure that is not running: ObjFn::~ObjFn.        *)
Collect(c) ==
    /\ closures[c].alive
    /\ \A i \in DOMAIN stack : stack[i].closure # c
    /\ closures' = [closures EXCEPT ![c].alive = FALSE]
    /\ UnrefAll({closures[c].blocks[b] : b \in DOMAIN closures[c].blocks})
    /\ UNCHANGED <<compileVars, stack, entries, rounds, calls>>

Run ==
    \/ BeginUpvalues \/ RelocateUpvalues \/ UseVariable \/ CreateClosure
    \/ TestCondition \/ JumpToStart \/ BreakOrContinue \/ ReturnOrEnd
    \/ \E c \in DOMAIN closures : Call(c) \/ Collect(c)

ClosuresNext == Compile \/ Run

ClosuresSpec == ClosuresInit /\ [][ClosuresNext]_closureVars

-----------------------------------------------------------------------------
(* Every use of a name reaches, through however many functions, the         *)
(* innermost declaration around it, whatever it shadows and whatever other  *)
(* closures captured before: the function has the upvalue it uses, and each *)
(* function that creates a closure has the upvalues the closure copies, as  *)
(* asserts of the back end say.                                             *)
ResolvesLexically ==
    \A fn \in DOMAIN code : \A i \in DOMAIN code[fn] :
        LET statement == code[fn][i] IN
        /\ statement.op = "use" =>
              /\ GetFinalTarget(statement.decl) = statement.means
              /\ IsUpvalue(statement.decl) => statement.decl \in upvalues[fn]
        /\ statement.op = "closure" =>
              \A u \in upvalues[statement.fn] :
                  IsUpvalue(Parent(u)) => Parent(u) \in upvalues[fn]

(* A running function that is about to use a captured variable finds the    *)
(* instance of the environment its closure was created in: the block of     *)
(* that round of the loop and that call, not of another.                    *)
PointsIntoOwnEnvironment ==
    compilers = <<>> /\ stack # <<>> /\ Current.op = "use"
      /\ Current.means \in captured =>
        LET pointer == Pointer(Running, Current.decl) IN
        /\ pointer[2] = Current.means
        /\ storages[pointer[1]].entry = Running.env[variables[Current.means].container]

(* The blocks in scope at the next statement of an activation.              *)
OpenBlocks(activation) ==
    StoragesOf(activation,
        {c \in code[activation.fn][activation.pc].scope : HasStorage(c)})

(* No block of captured variables is overwritten while it is in scope in    *)
(* some activation or a closure over it is alive, in whatever order blocks  *)
(* are left, closures called and closures collected.                        *)
StorageOutlivesUsers ==
    compilers = <<>> =>
        /\ \A i \in DOMAIN stack : \A s \in OpenBlocks(stack[i]) : ~storages[s].clobbered
        /\ \A c \in DOMAIN closures : closures[c].alive =>
              \A b \in DOMAIN closures[c].blocks :
                  ~storages[closures[c].blocks[b]].clobbered

(* An exit compiled before the first capture of a variable in a block that  *)
(* it leaves does not release that block.                                   *)
HasEarlyExit ==
    \E fn \in DOMAIN code : \E i \in DOMAIN code[fn] :
        \E c \in code[fn][i].uncaptured : HasStorage(c)

(* When the program has returned and its closures are collected, every      *)
(* block has been released exactly as often as it was taken: no count is    *)
(* left over and none went below zero.                                      *)
StorageReleased ==
    /\ \A s \in DOMAIN storages : storages[s].count >= 0
    /\ compilers = <<>> /\ stack = <<>> /\ ~HasEarlyExit
          /\ (\A c \in DOMAIN closures : ~closures[c].alive)
        => \A s \in DOMAIN storages : storages[s].count = 0
=============================================================================
