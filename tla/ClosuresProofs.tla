--------------------------- MODULE ClosuresProofs ---------------------------
(***************************************************************************)
(* Closures, for every source: names are resolved lexically, a running     *)
(* function finds the variables of the environment its closure was created *)
(* in, and the blocks they are in are released when their last user is     *)
(* gone and not before.                                                    *)
(***************************************************************************)
EXTENDS Closures, FiniteSetTheorems, WellFoundedInduction, TLAPS

(***************************************************************************)
(* Sequences of anything.                                                  *)
(***************************************************************************)
IsSeq(q) == \E T : q \in Seq(T)

LEMMA SeqIs ==
    ASSUME NEW q, IsSeq(q)
    PROVE  Len(q) \in Nat /\ DOMAIN q = 1..Len(q) /\ (q = <<>> <=> Len(q) = 0)
<1>1. PICK T : q \in Seq(T)
  BY DEF IsSeq
<1> QED
  BY <1>1

LEMMA AppendIs ==
    ASSUME NEW q, IsSeq(q), NEW e
    PROVE  /\ IsSeq(Append(q, e))
           /\ Len(Append(q, e)) = Len(q) + 1
           /\ DOMAIN Append(q, e) = 1..(Len(q) + 1)
           /\ \A i \in 1..Len(q) : Append(q, e)[i] = q[i]
           /\ Append(q, e)[Len(q) + 1] = e
<1>1. PICK T : q \in Seq(T)
  BY DEF IsSeq
<1> DEFINE U == T \cup {e}
<1>2. q \in Seq(U) /\ e \in U
  BY <1>1
<1>3. Append(q, e) \in Seq(U)
  BY <1>2
<1> HIDE DEF U
<1>4. IsSeq(Append(q, e))
  BY <1>3 DEF IsSeq
<1> QED
  BY <1>2, <1>3, <1>4

LEMMA ConcatIs ==
    ASSUME NEW p, IsSeq(p), NEW q, IsSeq(q)
    PROVE  /\ IsSeq(p \o q)
           /\ Len(p \o q) = Len(p) + Len(q)
           /\ DOMAIN (p \o q) = 1..(Len(p) + Len(q))
           /\ \A i \in 1..Len(p) : (p \o q)[i] = p[i]
           /\ \A i \in 1..Len(q) : (p \o q)[Len(p) + i] = q[i]
<1>1. PICK T : p \in Seq(T)
  BY DEF IsSeq
<1>2. PICK V : q \in Seq(V)
  BY DEF IsSeq
<1> DEFINE U == T \cup V
<1>3. p \in Seq(U) /\ q \in Seq(U)
  BY <1>1, <1>2
<1> HIDE DEF U
<1>4. p \o q \in Seq(U)
  BY <1>3
<1>5. IsSeq(p \o q)
  BY <1>4 DEF IsSeq
<1>6. /\ Len(p \o q) = Len(p) + Len(q)
      /\ DOMAIN (p \o q) = 1..(Len(p) + Len(q))
  BY <1>3, <1>4
<1>7. \A i \in 1..Len(p) : (p \o q)[i] = p[i]
  BY <1>3
<1>8. \A i \in 1..Len(q) : (p \o q)[Len(p) + i] = q[i]
  BY <1>3
<1> QED
  BY <1>5, <1>6, <1>7, <1>8

LEMMA FrontIs ==
    ASSUME NEW q, IsSeq(q), q # <<>>
    PROVE  /\ IsSeq(Front(q))
           /\ Len(Front(q)) = Len(q) - 1
           /\ DOMAIN Front(q) = 1..(Len(q) - 1)
           /\ \A i \in 1..(Len(q) - 1) : Front(q)[i] = q[i]
           /\ Last(q) = q[Len(q)] /\ Len(q) >= 1
<1>1. PICK T : q \in Seq(T)
  BY DEF IsSeq
<1>2. Len(q) \in Nat /\ Len(q) >= 1
  BY <1>1
<1>3. PICK m \in 0..Len(q) : m = Len(q) - 1
  <2>1. Len(q) - 1 \in 0..Len(q)
    BY <1>2
  <2> QED BY <2>1
<1>4. Len(SubSeq(q, 1, m)) = m /\ SubSeq(q, 1, m) \in Seq(T)
  BY <1>1
<1>5. \A i \in 1..m : SubSeq(q, 1, m)[i] = q[i]
  BY <1>1
<1>6. IsSeq(Front(q))
  BY <1>3, <1>4 DEF Front, IsSeq
<1>7. DOMAIN SubSeq(q, 1, m) = 1..m
  BY <1>4
<1> QED
  BY <1>2, <1>3, <1>4, <1>5, <1>6, <1>7 DEF Front, Last

LEMMA FunctionIs ==
    ASSUME NEW n \in Nat, NEW f, f = [i \in 1..n |-> f[i]]
    PROVE  IsSeq(f) /\ Len(f) = n
<1> DEFINE T == {f[i] : i \in 1..n}
<1>1. f \in [1..n -> T]
  <2>1. \A i \in 1..n : f[i] \in T
    OBVIOUS
  <2> HIDE DEF T
  <2> QED BY <2>1
<1> HIDE DEF T
<1>2. f \in Seq(T) /\ Len(f) = n
  BY <1>1
<1> QED
  BY <1>2 DEF IsSeq

LEMMA TuplesAre ==
    ASSUME NEW a, NEW b, NEW c, NEW d
    PROVE  /\ IsSeq(<<>>) /\ Len(<<>>) = 0
           /\ IsSeq(<<a>>) /\ Len(<<a>>) = 1 /\ <<a>>[1] = a
           /\ IsSeq(<<a, b>>) /\ Len(<<a, b>>) = 2 /\ <<a, b>>[1] = a /\ <<a, b>>[2] = b
           /\ IsSeq(<<a, b, c, d>>) /\ Len(<<a, b, c, d>>) = 4
           /\ <<a, b, c, d>>[1] = a /\ <<a, b, c, d>>[2] = b
           /\ <<a, b, c, d>>[3] = c /\ <<a, b, c, d>>[4] = d
<1>1. <<>> \in Seq({}) /\ <<a>> \in Seq({a}) /\ <<a, b>> \in Seq({a, b})
  OBVIOUS
<1>2. <<a, b, c, d>> \in Seq({a, b, c, d})
  OBVIOUS
<1>3. IsSeq(<<>>) /\ IsSeq(<<a>>) /\ IsSeq(<<a, b>>) /\ IsSeq(<<a, b, c, d>>)
  BY <1>1, <1>2 DEF IsSeq
<1> QED
  BY <1>3

(***************************************************************************)
(* The invariant of the compiler.                                          *)
(***************************************************************************)
(* What is in scope behind a statement.                                     *)
After(statement) ==
    statement.scope \cup (IF statement.op = "begin" THEN {statement.container} ELSE {})

IsCompiler(compiler) ==
    /\ compiler = [fn |-> compiler.fn, frames |-> compiler.frames, loops |-> compiler.loops]
    /\ IsSeq(compiler.frames) /\ IsSeq(compiler.loops)
    /\ \A k \in DOMAIN compiler.frames : compiler.frames[k] =
          [container |-> compiler.frames[k].container, locals |-> compiler.frames[k].locals]

Shapes ==
    /\ IsSeq(compilers) /\ IsSeq(variables) /\ IsSeq(upvalues) /\ IsSeq(code)
    /\ IsSeq(labels) /\ IsSeq(containers)
    /\ Len(upvalues) = Len(code)
    /\ \A fn \in DOMAIN code : IsSeq(code[fn]) /\ code[fn] # <<>>
    /\ \A i \in DOMAIN compilers : IsCompiler(compilers[i])
    /\ \A l \in DOMAIN labels : labels[l] =
          [fn |-> labels[l].fn, start |-> labels[l].start, end |-> labels[l].end]

(* The open functions: different ones, the outermost of which is the first. *)
Open(fn) == \E i \in DOMAIN compilers : compilers[i].fn = fn

OpenFunctions ==
    /\ \A i \in DOMAIN compilers : compilers[i].fn \in DOMAIN code
    /\ \A i, j \in DOMAIN compilers : compilers[i].fn = compilers[j].fn => i = j
    /\ 1 \in DOMAIN code
    /\ \A i \in DOMAIN compilers : compilers[i].fn = 1 <=> i = 1

(* The frames of an open function are blocks of its own, with the variables *)
(* that were declared in them.                                              *)
FrameOK(fn, frame) ==
    /\ frame.container \in DOMAIN containers /\ containers[frame.container] = fn
    /\ frame.locals \subseteq DOMAIN variables
    /\ \A v \in frame.locals : variables[v].container = frame.container

FramesOK(compiler) ==
    /\ compiler.frames # <<>>
    /\ \A k \in DOMAIN compiler.frames : FrameOK(compiler.fn, compiler.frames[k])

(* A loop that is open goes back to where its content frame was on top.     *)
ScopeUpTo(compiler, n) == {compiler.frames[j].container : j \in 1..n}
StartScope(l) == code[labels[l].fn][labels[l].start].scope

LoopOK(compiler, loop) ==
    /\ loop.id \in DOMAIN labels /\ labels[loop.id].fn = compiler.fn
    /\ loop.contentFrameId \in Nat /\ loop.depth \in Nat
    /\ 1 <= loop.contentFrameId /\ loop.contentFrameId < loop.depth
    /\ loop.depth <= loop.contentFrameId + 2
    /\ loop.depth = loop.contentFrameId + 2 => 2 <= loop.contentFrameId
    /\ loop.depth <= Len(compiler.frames)
    /\ ScopeUpTo(compiler, loop.contentFrameId) = StartScope(loop.id)

LoopsOK(compiler) ==
    /\ \A k \in DOMAIN compiler.loops : LoopOK(compiler, compiler.loops[k])
    /\ \A j, k \in DOMAIN compiler.loops : j < k =>
          /\ compiler.loops[j].depth <= compiler.loops[k].contentFrameId
          /\ compiler.loops[k].depth = compiler.loops[k].contentFrameId + 2 =>
                compiler.loops[j].depth < compiler.loops[k].contentFrameId
          /\ compiler.loops[j].id # compiler.loops[k].id

OpenLoop(l) ==
    \E i \in DOMAIN compilers : \E k \in DOMAIN compilers[i].loops : compilers[i].loops[k].id = l

(* A loop that is closed ends where no more is in scope than at its start.  *)
EndOK(l) ==
    \/ /\ labels[l].end \in DOMAIN code[labels[l].fn]
       /\ code[labels[l].fn][labels[l].end].scope \subseteq StartScope(l)
    \/ /\ labels[l].end = Len(code[labels[l].fn]) + 1
       /\ \E i \in DOMAIN compilers :
             compilers[i].fn = labels[l].fn /\ Scope(compilers[i]) \subseteq StartScope(l)

LabelOK(l) ==
    /\ labels[l].fn \in DOMAIN code
    /\ labels[l].start \in DOMAIN code[labels[l].fn]
    /\ OpenLoop(l) \/ EndOK(l)

LabelsOK == \A l \in DOMAIN labels : LabelOK(l)

(* What is in scope at a statement was in scope, or begun, just before it.  *)
FlowOK ==
    /\ \A fn \in DOMAIN code : code[fn][1].scope = {}
    /\ \A fn \in DOMAIN code : \A p \in DOMAIN code[fn] : p + 1 \in DOMAIN code[fn] =>
          code[fn][p + 1].scope \subseteq After(code[fn][p])
    /\ \A i \in DOMAIN compilers :
          Scope(compilers[i]) \subseteq After(Last(code[compilers[i].fn]))
    /\ \A fn \in DOMAIN code : Open(fn) \/ Last(code[fn]).op = "end"

(* The upvalues of a function are for captured variables of functions       *)
(* around it.                                                               *)
UpvalueOK(fn, u) ==
    /\ u = [depth |-> u.depth, target |-> u.target] /\ u.depth \in Nat /\ u.depth >= 1
    /\ u.target \in DOMAIN variables /\ u.target \in captured
    /\ variables[u.target].container \in DOMAIN containers
    /\ containers[variables[u.target].container] # fn

UpvaluesOK ==
    /\ upvalues[1] = {}
    /\ \A fn \in DOMAIN upvalues : \A u \in upvalues[fn] : UpvalueOK(fn, u)

(* While the function around it is open, that one has the upvalue's parent. *)
ParentOK(outer, u) ==
    /\ u.depth = 1 =>
          /\ \E k \in DOMAIN outer.frames : u.target \in outer.frames[k].locals
          /\ Lookup(outer, variables[u.target].name) = u.target
    /\ u.depth > 1 => Parent(u) \in upvalues[outer.fn]

ParentsOK ==
    \A i \in DOMAIN compilers : i > 1 =>
        \A u \in upvalues[compilers[i].fn] : ParentOK(compilers[i - 1], u)

(* What the statements of a function say.                                   *)
LoopOps == {"test", "jump", "break", "continue"}

BeginOK(fn, s) == s.op = "begin" =>
    s.container \in DOMAIN containers /\ containers[s.container] = fn
UseOK(fn, s) == s.op = "use" =>
    /\ s.decl.target = s.means /\ s.decl.depth \in Nat
    /\ s.decl.depth = 0 =>
          /\ s.decl.target \in DOMAIN variables
          /\ variables[s.decl.target].container \in s.scope
    /\ s.decl.depth > 0 => s.decl \in upvalues[fn]
ClosureOK(fn, s) == s.op = "closure" =>
    /\ s.fn \in DOMAIN code /\ s.fn # 1 /\ ~Open(s.fn)
    /\ \A u \in upvalues[s.fn] :
          /\ u.depth = 1 => variables[u.target].container \in s.scope
          /\ u.depth > 1 => Parent(u) \in upvalues[fn]
JumpOK(fn, s) == s.op \in LoopOps =>
    /\ s.loop \in DOMAIN labels /\ labels[s.loop].fn = fn
    /\ StartScope(s.loop) \subseteq s.scope

StatementOK(fn, s) == BeginOK(fn, s) /\ UseOK(fn, s) /\ ClosureOK(fn, s) /\ JumpOK(fn, s)

CodeOK == \A fn \in DOMAIN code : \A p \in DOMAIN code[fn] : StatementOK(fn, code[fn][p])

CompileInv ==
    /\ Shapes /\ OpenFunctions
    /\ \A i \in DOMAIN compilers : FramesOK(compilers[i]) /\ LoopsOK(compilers[i])
    /\ LabelsOK /\ FlowOK /\ UpvaluesOK /\ ParentsOK /\ CodeOK

(***************************************************************************)
(* What a step of the compiler leaves as it was.                           *)
(***************************************************************************)
Extends(q, r) == IsSeq(r) /\ DOMAIN q \subseteq DOMAIN r /\ \A i \in DOMAIN q : r[i] = q[i]

Grows ==
    /\ Extends(variables, variables') /\ Extends(containers, containers')
    /\ captured \subseteq captured'
    /\ IsSeq(labels') /\ DOMAIN labels \subseteq DOMAIN labels'
    /\ \A l \in DOMAIN labels :
          labels'[l].fn = labels[l].fn /\ labels'[l].start = labels[l].start
    /\ IsSeq(code') /\ DOMAIN code \subseteq DOMAIN code'
    /\ \A fn \in DOMAIN code : Extends(code[fn], code'[fn])
    /\ IsSeq(upvalues') /\ Len(upvalues') = Len(code')
    /\ \A fn \in DOMAIN code : upvalues[fn] \subseteq upvalues'[fn]
    /\ \A fn \in DOMAIN code : ~Open(fn) => upvalues'[fn] = upvalues[fn] /\ ~Open(fn)'

(* A label's start is where it was.                                         *)
LEMMA StartKept ==
    ASSUME Grows, LabelsOK, NEW l \in DOMAIN labels
    PROVE  /\ l \in DOMAIN labels' /\ labels'[l].fn = labels[l].fn
           /\ labels'[l].start = labels[l].start
           /\ labels[l].fn \in DOMAIN code' /\ labels[l].start \in DOMAIN code'[labels[l].fn]
           /\ StartScope(l)' = StartScope(l)
<1>1. labels[l].fn \in DOMAIN code /\ labels[l].start \in DOMAIN code[labels[l].fn]
  BY DEF LabelsOK, LabelOK
<1>2. l \in DOMAIN labels' /\ labels'[l].fn = labels[l].fn /\ labels'[l].start = labels[l].start
  BY DEF Grows
<1>3. Extends(code[labels[l].fn], code'[labels[l].fn]) /\ labels[l].fn \in DOMAIN code'
  BY <1>1 DEF Grows
<1>4. /\ labels[l].start \in DOMAIN code'[labels[l].fn]
      /\ code'[labels[l].fn][labels[l].start] = code[labels[l].fn][labels[l].start]
  BY <1>1, <1>3 DEF Extends
<1> QED
  BY <1>2, <1>3, <1>4 DEF StartScope

LEMMA UpvalueKept ==
    ASSUME Grows, NEW fn, NEW u, UpvalueOK(fn, u)
    PROVE  UpvalueOK(fn, u)'
<1>1. /\ u.target \in DOMAIN variables' /\ variables'[u.target] = variables[u.target]
      /\ u.target \in captured'
  BY DEF Grows, Extends, UpvalueOK
<1>2. LET c == variables[u.target].container IN
      c \in DOMAIN containers' /\ containers'[c] = containers[c]
  BY DEF Grows, Extends, UpvalueOK
<1> QED
  BY <1>1, <1>2 DEF UpvalueOK

LEMMA FrameKept ==
    ASSUME Grows, NEW fn, NEW frame, FrameOK(fn, frame)
    PROVE  FrameOK(fn, frame)'
<1>1. /\ frame.container \in DOMAIN containers'
      /\ containers'[frame.container] = containers[frame.container]
  BY DEF Grows, Extends, FrameOK
<1>2. \A v \in frame.locals : v \in DOMAIN variables' /\ variables'[v] = variables[v]
  BY DEF Grows, Extends, FrameOK
<1> QED
  BY <1>1, <1>2 DEF FrameOK

(* A statement stays right.                                                 *)
LEMMA StatementKept ==
    ASSUME CompileInv, Grows, NEW fn \in DOMAIN code, NEW s, StatementOK(fn, s)
    PROVE  StatementOK(fn, s)'
<1>0. Shapes /\ LabelsOK /\ UpvaluesOK /\ Len(upvalues) = Len(code) /\ DOMAIN upvalues = DOMAIN code
  <2>1. Shapes /\ LabelsOK /\ UpvaluesOK
    BY DEF CompileInv
  <2>2. IsSeq(code) /\ IsSeq(upvalues) /\ Len(upvalues) = Len(code)
    BY <2>1 DEF Shapes
  <2>3. DOMAIN code = 1..Len(code) /\ DOMAIN upvalues = 1..Len(upvalues)
    BY <2>2, SeqIs
  <2> QED BY <2>1, <2>2, <2>3
<1>1. BeginOK(fn, s)'
  BY DEF StatementOK, BeginOK, Grows, Extends
<1>2. UseOK(fn, s)'
  <2> SUFFICES ASSUME s.op = "use" PROVE UseOK(fn, s)'
    BY DEF UseOK
  <2>1. /\ s.decl.target = s.means /\ s.decl.depth \in Nat
        /\ s.decl.depth > 0 => s.decl \in upvalues[fn]
        /\ s.decl.depth = 0 => s.decl.target \in DOMAIN variables
                               /\ variables[s.decl.target].container \in s.scope
    BY DEF StatementOK, UseOK
  <2>2. upvalues[fn] \subseteq upvalues'[fn]
    BY DEF Grows
  <2>3. s.decl.depth = 0 => s.decl.target \in DOMAIN variables'
                            /\ variables'[s.decl.target].container \in s.scope
    BY <2>1 DEF Grows, Extends
  <2> QED BY <2>1, <2>2, <2>3 DEF UseOK
<1>3. ClosureOK(fn, s)'
  <2> SUFFICES ASSUME s.op = "closure" PROVE ClosureOK(fn, s)'
    BY DEF ClosureOK
  <2>1. /\ s.fn \in DOMAIN code /\ s.fn # 1 /\ ~Open(s.fn)
        /\ \A u \in upvalues[s.fn] :
              /\ u.depth = 1 => variables[u.target].container \in s.scope
              /\ u.depth > 1 => Parent(u) \in upvalues[fn]
    BY DEF StatementOK, ClosureOK
  <2>2. s.fn \in DOMAIN code' /\ upvalues'[s.fn] = upvalues[s.fn] /\ ~Open(s.fn)'
    BY <2>1 DEF Grows
  <2>3. upvalues[fn] \subseteq upvalues'[fn]
    BY DEF Grows
  <2>4. \A u \in upvalues[s.fn] : variables'[u.target] = variables[u.target]
    <3>1. \A u \in upvalues[s.fn] : u.target \in DOMAIN variables
      BY <1>0, <2>1 DEF UpvaluesOK, UpvalueOK
    <3> QED BY <3>1 DEF Grows, Extends
  <2> QED BY <2>1, <2>2, <2>3, <2>4 DEF ClosureOK
<1>4. JumpOK(fn, s)'
  <2> SUFFICES ASSUME s.op \in LoopOps PROVE JumpOK(fn, s)'
    BY DEF JumpOK
  <2>1. s.loop \in DOMAIN labels /\ labels[s.loop].fn = fn /\ StartScope(s.loop) \subseteq s.scope
    BY DEF StatementOK, JumpOK
  <2>2. /\ s.loop \in DOMAIN labels' /\ labels'[s.loop].fn = labels[s.loop].fn
        /\ StartScope(s.loop)' = StartScope(s.loop)
    BY <1>0, <2>1, StartKept
  <2> QED BY <2>1, <2>2 DEF JumpOK
<1> QED
  BY <1>1, <1>2, <1>3, <1>4 DEF StatementOK

(***************************************************************************)
(* Looking up a name.                                                      *)
(***************************************************************************)
(* A set of natural numbers below a bound has a greatest, which Max finds.  *)
LEMMA GreatestIs ==
    ASSUME NEW S, NEW n \in Nat, S \subseteq 1..n, S # {}
    PROVE  Max(S) \in S /\ \A k \in S : k <= Max(S)
<1> DEFINE T == {n - k : k \in S}
<1>1. T \subseteq Nat /\ T # {}
  <2>1. \A k \in S : n - k \in Nat
    OBVIOUS
  <2>2. PICK k \in S : TRUE
    OBVIOUS
  <2> QED BY <2>1, <2>2
<1> HIDE DEF T
<1>2. PICK t \in T : \A k \in T : ~(<<k, t>> \in OpToRel(<, Nat))
  BY <1>1, WFMin, NatLessThanWellFounded, Zenon
<1>3. t \in Nat /\ \A k \in T : t <= k
  <2>1. \A k \in T : ~(k < t)
    BY <1>1, <1>2 DEF OpToRel
  <2> QED BY <1>1, <2>1
<1>4. PICK m \in S : t = n - m
  BY DEF T
<1>5. \A k \in S : n - k \in T
  BY DEF T
<1>6. \A k \in S : m >= k
  BY <1>3, <1>4, <1>5
<1> QED
  BY <1>6 DEF Max

LEMMA AnyOfIs == ASSUME NEW ids, ids # {} PROVE AnyOf(ids) \in ids
  BY DEF AnyOf

(* What a lookup finds is a variable of that name in one of the frames.     *)
LEMMA LookupIs ==
    ASSUME NEW compiler, IsSeq(compiler.frames), IsSeq(variables), NEW name,
           \A k \in DOMAIN compiler.frames : compiler.frames[k].locals \subseteq DOMAIN variables
    PROVE  Lookup(compiler, name) # 0 =>
              /\ Lookup(compiler, name) \in DOMAIN variables
              /\ variables[Lookup(compiler, name)].name = name
              /\ \E k \in DOMAIN compiler.frames : Lookup(compiler, name) \in compiler.frames[k].locals
<1> SUFFICES ASSUME Lookup(compiler, name) # 0
             PROVE  /\ Lookup(compiler, name) \in DOMAIN variables
                    /\ variables[Lookup(compiler, name)].name = name
                    /\ \E k \in DOMAIN compiler.frames : Lookup(compiler, name) \in compiler.frames[k].locals
  OBVIOUS
<1> DEFINE H == FramesWith(compiler, name)
<1>1. H # {}
  BY DEF Lookup
<1>2. Len(compiler.frames) \in Nat /\ DOMAIN compiler.frames = 1..Len(compiler.frames)
  BY SeqIs
<1>3. H \subseteq 1..Len(compiler.frames)
  BY <1>2 DEF FramesWith
<1>4. Max(H) \in H
  <2> HIDE DEF H
  <2> QED BY <1>1, <1>2, <1>3, GreatestIs
<1>5. PICK k \in DOMAIN compiler.frames : k = Max(H) /\ Named(compiler.frames[k], name) # {}
  BY <1>4 DEF FramesWith
<1>6. Lookup(compiler, name) = AnyOf(Named(compiler.frames[k], name))
  BY <1>1, <1>5 DEF Lookup
<1>7. Lookup(compiler, name) \in Named(compiler.frames[k], name)
  BY <1>5, <1>6, AnyOfIs
<1> QED
  BY <1>7 DEF Named

(* A function whose frames do not change finds what it found.               *)
LEMMA LookupKept ==
    ASSUME NEW compiler, IsSeq(compiler.frames), NEW name, Extends(variables, variables'),
           \A k \in DOMAIN compiler.frames : compiler.frames[k].locals \subseteq DOMAIN variables
    PROVE  Lookup(compiler, name)' = Lookup(compiler, name)
<1>1. \A k \in DOMAIN compiler.frames : \A v \in compiler.frames[k].locals :
          variables'[v] = variables[v]
  BY DEF Extends
<1>2. \A k \in DOMAIN compiler.frames :
          Named(compiler.frames[k], name)' = Named(compiler.frames[k], name)
  BY <1>1 DEF Named
<1>3. FramesWith(compiler, name)' = FramesWith(compiler, name)
  BY <1>2 DEF FramesWith
<1> DEFINE H == FramesWith(compiler, name)
<1>4. CASE H = {}
  BY <1>3, <1>4 DEF Lookup
<1>5. CASE H # {}
  <2>1. Len(compiler.frames) \in Nat /\ DOMAIN compiler.frames = 1..Len(compiler.frames)
    BY SeqIs
  <2>2. H \subseteq 1..Len(compiler.frames) /\ H \subseteq DOMAIN compiler.frames
    BY <2>1 DEF FramesWith
  <2>3. Max(H) \in DOMAIN compiler.frames
    <3> HIDE DEF H
    <3> QED BY <1>5, <2>1, <2>2, GreatestIs
  <2> QED BY <1>2, <1>3, <1>5, <2>3 DEF Lookup
<1> QED
  BY <1>4, <1>5

LEMMA ParentKept ==
    ASSUME Grows, NEW outer, NEW fn, NEW u, UpvalueOK(fn, u), ParentOK(outer, u),
           outer.fn \in DOMAIN code, IsSeq(outer.frames), FramesOK(outer)
    PROVE  ParentOK(outer, u)'
<1>1. upvalues[outer.fn] \subseteq upvalues'[outer.fn]
  BY DEF Grows
<1>2. variables'[u.target] = variables[u.target]
  BY DEF Grows, Extends, UpvalueOK
<1>3. \A k \in DOMAIN outer.frames : outer.frames[k].locals \subseteq DOMAIN variables
  BY DEF FramesOK, FrameOK
<1>4. Extends(variables, variables')
  BY DEF Grows
<1>6. \A name : Lookup(outer, name)' = Lookup(outer, name)
  BY <1>3, <1>4, LookupKept, Zenon
<1> QED
  BY <1>1, <1>2, <1>6 DEF ParentOK

(***************************************************************************)
(* A step that appends statements to the innermost function, and changes   *)
(* no other compiler.                                                      *)
(***************************************************************************)
Appended(q, list, r) ==
    /\ Len(r) = Len(q) + Len(list) /\ DOMAIN r = 1..(Len(q) + Len(list))
    /\ \A p \in 1..Len(q) : r[p] = q[p]
    /\ \A p \in 1..Len(list) : r[Len(q) + p] = list[p]

TopStep(c, list) ==
    /\ compilers # <<>>
    /\ compilers' = [compilers EXCEPT ![Len(compilers)] = c]
    /\ IsCompiler(c) /\ c.fn = Top.fn
    /\ IsSeq(list) /\ code' = [code EXCEPT ![Top.fn] = @ \o list]

LEMMA ExtendsIs ==
    ASSUME NEW q, IsSeq(q), NEW r, IsSeq(r), Len(q) <= Len(r), \A i \in 1..Len(q) : r[i] = q[i]
    PROVE  Extends(q, r)
<1>1. Len(q) \in Nat /\ DOMAIN q = 1..Len(q) /\ Len(r) \in Nat /\ DOMAIN r = 1..Len(r)
  BY SeqIs
<1>2. 1..Len(q) \subseteq 1..Len(r)
  BY <1>1
<1> QED
  BY <1>1, <1>2 DEF Extends

LEMMA TopIs ==
    ASSUME CompileInv, compilers # <<>>
    PROVE  /\ Len(compilers) \in Nat /\ Len(compilers) >= 1
           /\ DOMAIN compilers = 1..Len(compilers) /\ Len(compilers) \in DOMAIN compilers
           /\ Top = compilers[Len(compilers)] /\ IsCompiler(Top) /\ FramesOK(Top) /\ LoopsOK(Top)
           /\ Top.fn \in DOMAIN code /\ Open(Top.fn)
           /\ IsSeq(code[Top.fn]) /\ code[Top.fn] # <<>>
           /\ Len(code[Top.fn]) \in Nat /\ Len(code[Top.fn]) >= 1
           /\ DOMAIN code[Top.fn] = 1..Len(code[Top.fn])
           /\ Last(code[Top.fn]) = code[Top.fn][Len(code[Top.fn])]
<1>1. IsSeq(compilers)
  BY DEF CompileInv, Shapes
<1>2. /\ Len(compilers) \in Nat /\ Len(compilers) >= 1
      /\ DOMAIN compilers = 1..Len(compilers) /\ Len(compilers) \in DOMAIN compilers
  BY <1>1, SeqIs
<1>3. Top = compilers[Len(compilers)]
  BY DEF Top
<1>4. IsCompiler(Top) /\ FramesOK(Top) /\ LoopsOK(Top) /\ Top.fn \in DOMAIN code /\ Open(Top.fn)
  BY <1>2, <1>3 DEF CompileInv, Shapes, OpenFunctions, Open
<1>5. IsSeq(code[Top.fn]) /\ code[Top.fn] # <<>>
  BY <1>4 DEF CompileInv, Shapes
<1>6. Len(code[Top.fn]) \in Nat /\ DOMAIN code[Top.fn] = 1..Len(code[Top.fn]) /\ Len(code[Top.fn]) # 0
  BY <1>5, SeqIs
<1>7. Last(code[Top.fn]) = code[Top.fn][Len(code[Top.fn])]
  BY DEF Last
<1> QED
  BY <1>2, <1>3, <1>4, <1>5, <1>6, <1>7

LEMMA TopEffect ==
    ASSUME CompileInv, NEW c, NEW list, TopStep(c, list), NEW f, f = Top.fn
    PROVE  /\ IsSeq(compilers') /\ Len(compilers') = Len(compilers)
           /\ DOMAIN compilers' = DOMAIN compilers
           /\ compilers'[Len(compilers)] = c
           /\ \A i \in DOMAIN compilers : i # Len(compilers) => compilers'[i] = compilers[i]
           /\ \A i \in DOMAIN compilers : compilers'[i].fn = compilers[i].fn
           /\ \A fn : Open(fn)' <=> Open(fn)
           /\ IsSeq(code') /\ DOMAIN code' = DOMAIN code /\ Len(code') = Len(code)
           /\ \A fn \in DOMAIN code : fn # f => code'[fn] = code[fn]
           /\ Appended(code[f], list, code'[f])
           /\ \A fn \in DOMAIN code : Extends(code[fn], code'[fn])
           /\ \A fn \in DOMAIN code : IsSeq(code'[fn]) /\ code'[fn] # <<>>
<1> DEFINE n == Len(compilers)
<1>0. compilers # <<>>
  BY DEF TopStep
<1>1. /\ n \in Nat /\ n >= 1 /\ DOMAIN compilers = 1..n /\ n \in DOMAIN compilers
      /\ Top = compilers[n] /\ f \in DOMAIN code
      /\ IsSeq(code[f]) /\ Len(code[f]) \in Nat /\ Len(code[f]) >= 1 /\ DOMAIN code[f] = 1..Len(code[f])
  BY <1>0, TopIs
<1>2. compilers' = [compilers EXCEPT ![n] = c] /\ c.fn = f /\ IsSeq(list)
      /\ code' = [code EXCEPT ![f] = code[f] \o list]
  BY DEF TopStep
<1>3. /\ DOMAIN compilers' = 1..n /\ compilers'[n] = c
      /\ \A i \in DOMAIN compilers : i # n => compilers'[i] = compilers[i]
      /\ compilers' = [i \in 1..n |-> compilers'[i]]
  BY <1>1, <1>2
<1>4. IsSeq(compilers') /\ Len(compilers') = n
  BY <1>1, <1>3, FunctionIs
<1>5. \A i \in DOMAIN compilers : compilers'[i].fn = compilers[i].fn
  BY <1>1, <1>2, <1>3
<1>6. \A fn : Open(fn)' <=> Open(fn)
  BY <1>1, <1>3, <1>5 DEF Open
<1>7. IsSeq(code) /\ Len(code) \in Nat /\ DOMAIN code = 1..Len(code)
  <2>1. IsSeq(code)
    BY DEF CompileInv, Shapes
  <2> QED BY <2>1, SeqIs
<1>8. /\ DOMAIN code' = DOMAIN code /\ code' = [i \in 1..Len(code) |-> code'[i]]
      /\ code'[f] = code[f] \o list
      /\ \A fn \in DOMAIN code : fn # f => code'[fn] = code[fn]
  BY <1>1, <1>2, <1>7
<1>9. IsSeq(code') /\ Len(code') = Len(code)
  BY <1>7, <1>8, FunctionIs
<1>10. /\ IsSeq(code'[f])
       /\ Len(code'[f]) = Len(code[f]) + Len(list)
       /\ DOMAIN code'[f] = 1..(Len(code[f]) + Len(list))
       /\ \A p \in 1..Len(code[f]) : code'[f][p] = code[f][p]
       /\ \A p \in 1..Len(list) : code'[f][Len(code[f]) + p] = list[p]
  <2>1. PICK old : old = code[f]
    OBVIOUS
  <2>2. IsSeq(old) /\ IsSeq(list) /\ code'[f] = old \o list
    BY <1>1, <1>2, <1>8, <2>1
  <2>3. PICK new : new = code'[f]
    OBVIOUS
  <2>4. new = old \o list
    BY <2>2, <2>3
  <2>5. /\ IsSeq(new) /\ Len(new) = Len(old) + Len(list)
        /\ DOMAIN new = 1..(Len(old) + Len(list))
        /\ \A p \in 1..Len(old) : new[p] = old[p]
        /\ \A p \in 1..Len(list) : new[Len(old) + p] = list[p]
    BY <2>2, <2>4, ConcatIs
  <2> QED BY <2>1, <2>3, <2>5
<1>11. Len(list) \in Nat
  BY <1>2, SeqIs
<1>12. code'[f] # <<>>
  BY <1>1, <1>10, <1>11, SeqIs
<1>13. Extends(code[f], code'[f])
  <2>1. Len(code[f]) <= Len(code'[f])
    BY <1>1, <1>10, <1>11
  <2> QED BY <1>1, <1>10, <2>1, ExtendsIs
<1>14. ASSUME NEW fn \in DOMAIN code
       PROVE  Extends(code[fn], code'[fn]) /\ IsSeq(code'[fn]) /\ code'[fn] # <<>>
  <2>1. CASE fn = f
    BY <1>10, <1>12, <1>13, <2>1
  <2>2. CASE fn # f
    <3>1. code'[fn] = code[fn] /\ IsSeq(code[fn]) /\ code[fn] # <<>>
      BY <1>8, <2>2 DEF CompileInv, Shapes
    <3> QED BY <3>1 DEF Extends
  <2> QED BY <2>1, <2>2
<1>17. Appended(code[f], list, code'[f])
  BY <1>10 DEF Appended
<1>15. \A fn \in DOMAIN code : Extends(code[fn], code'[fn])
  BY <1>14
<1>16. \A fn \in DOMAIN code : IsSeq(code'[fn]) /\ code'[fn] # <<>>
  BY <1>14
<1> QED
  BY <1>1, <1>3, <1>4, <1>5, <1>6, <1>8, <1>9, <1>15, <1>16, <1>17, Zenon

(* What such a step may do beside.                                          *)
IsLabel(label) == label = [fn |-> label.fn, start |-> label.start, end |-> label.end]

Beside ==
    /\ Extends(variables, variables') /\ Extends(containers, containers')
    /\ captured \subseteq captured'
    /\ IsSeq(labels') /\ DOMAIN labels \subseteq DOMAIN labels'
    /\ \A l \in DOMAIN labels :
          labels'[l].fn = labels[l].fn /\ labels'[l].start = labels[l].start
    /\ \A l \in DOMAIN labels' : IsLabel(labels'[l])
    /\ IsSeq(upvalues') /\ Len(upvalues') = Len(upvalues)
    /\ \A fn \in DOMAIN code : upvalues[fn] \subseteq upvalues'[fn]
    /\ \A fn \in DOMAIN code : ~Open(fn) => upvalues'[fn] = upvalues[fn]

LEMMA TopGrows ==
    ASSUME CompileInv, NEW c, NEW list, TopStep(c, list), Beside
    PROVE  Grows
<1>1. /\ \A fn : Open(fn)' <=> Open(fn)
      /\ IsSeq(code') /\ DOMAIN code' = DOMAIN code /\ Len(code') = Len(code)
      /\ \A fn \in DOMAIN code : Extends(code[fn], code'[fn])
  BY TopEffect
<1>2. Len(upvalues') = Len(code')
  BY <1>1 DEF Beside, CompileInv, Shapes
<1> QED
  BY <1>1, <1>2 DEF Beside, Grows

(* The appended statements follow one from the other.                       *)
FollowsOn(list, from, to) ==
    /\ list = <<>> => to \subseteq from
    /\ list # <<>> => list[1].scope \subseteq from /\ to \subseteq After(list[Len(list)])
    /\ \A k \in DOMAIN list : k + 1 \in DOMAIN list => list[k + 1].scope \subseteq After(list[k])

LEMMA TopShapes ==
    ASSUME CompileInv, NEW c, NEW list, TopStep(c, list), Beside
    PROVE  Shapes' /\ OpenFunctions'
<1>1. /\ IsSeq(compilers') /\ Len(compilers') = Len(compilers)
      /\ DOMAIN compilers' = DOMAIN compilers
      /\ compilers'[Len(compilers)] = c
      /\ \A i \in DOMAIN compilers : i # Len(compilers) => compilers'[i] = compilers[i]
      /\ \A i \in DOMAIN compilers : compilers'[i].fn = compilers[i].fn
      /\ IsSeq(code') /\ DOMAIN code' = DOMAIN code /\ Len(code') = Len(code)
      /\ \A fn \in DOMAIN code : IsSeq(code'[fn]) /\ code'[fn] # <<>>
  BY TopEffect
<1>2. Grows
  BY TopGrows
<1>3. IsSeq(variables') /\ IsSeq(upvalues') /\ IsSeq(labels') /\ IsSeq(containers')
  BY <1>2 DEF Grows, Extends
<1>4. Len(upvalues') = Len(code')
  BY <1>2 DEF Grows
<1>5. \A i \in DOMAIN compilers' : IsCompiler(compilers'[i])
  BY <1>1 DEF CompileInv, Shapes, TopStep
<1>6. \A l \in DOMAIN labels' : IsLabel(labels'[l])
  BY DEF Beside
<1>7. Shapes'
  BY <1>1, <1>3, <1>4, <1>5, <1>6 DEF Shapes, IsLabel
<1>8. OpenFunctions
  BY DEF CompileInv
<1>9. OpenFunctions'
  BY <1>1, <1>8 DEF OpenFunctions
<1> QED
  BY <1>7, <1>9

LEMMA TopFlow ==
    ASSUME CompileInv, NEW c, NEW list, TopStep(c, list), Beside,
           FollowsOn(list, Scope(Top), Scope(c))
    PROVE  FlowOK'
<1>a. PICK f : f = Top.fn
  OBVIOUS
<1>b. PICK n : n = Len(code[f])
  OBVIOUS
<1>0. compilers # <<>> /\ FlowOK
  BY DEF TopStep, CompileInv
<1>1. /\ Len(compilers) \in DOMAIN compilers /\ Top = compilers[Len(compilers)] /\ f \in DOMAIN code
      /\ IsSeq(code[f]) /\ n \in Nat /\ n >= 1 /\ DOMAIN code[f] = 1..n
      /\ Last(code[f]) = code[f][n]
  BY <1>a, <1>b, <1>0, TopIs
<1>2. /\ DOMAIN compilers' = DOMAIN compilers
      /\ compilers'[Len(compilers)] = c
      /\ \A i \in DOMAIN compilers : i # Len(compilers) => compilers'[i] = compilers[i]
      /\ \A i \in DOMAIN compilers : compilers'[i].fn = compilers[i].fn
      /\ DOMAIN code' = DOMAIN code
      /\ \A fn \in DOMAIN code : fn # f => code'[fn] = code[fn]
      /\ Len(code'[f]) = n + Len(list)
      /\ DOMAIN code'[f] = 1..(n + Len(list))
      /\ \A p \in 1..n : code'[f][p] = code[f][p]
      /\ \A p \in 1..Len(list) : code'[f][n + p] = list[p]
  <2>1. /\ DOMAIN compilers' = DOMAIN compilers
        /\ compilers'[Len(compilers)] = c
        /\ \A i \in DOMAIN compilers : i # Len(compilers) => compilers'[i] = compilers[i]
        /\ \A i \in DOMAIN compilers : compilers'[i].fn = compilers[i].fn
    BY <1>a, TopEffect
  <2>2. /\ DOMAIN code' = DOMAIN code
        /\ \A fn \in DOMAIN code : fn # f => code'[fn] = code[fn]
    BY <1>a, TopEffect
  <2>3. Appended(code[f], list, code'[f])
    BY <1>a, TopEffect
  <2> QED BY <1>b, <2>1, <2>2, <2>3 DEF Appended
<1>3. \A fn : Open(fn)' <=> Open(fn)
  BY TopEffect
<1>4. IsSeq(list) /\ Len(list) \in Nat /\ DOMAIN list = 1..Len(list) /\ (list = <<>> <=> Len(list) = 0)
  BY SeqIs DEF TopStep
<1>5. Scope(Top) \subseteq After(code[f][n])
  BY <1>a, <1>0, <1>1 DEF FlowOK
<1>6. \A fn \in DOMAIN code : code'[fn][1].scope = {}
  <2>1. ASSUME NEW fn \in DOMAIN code PROVE code'[fn][1].scope = {}
    <3>1. code[fn][1].scope = {}
      BY <1>0 DEF FlowOK
    <3>2. CASE fn = f
      BY <1>1, <1>2, <3>1, <3>2
    <3>3. CASE fn # f
      BY <1>2, <3>1, <3>3
    <3> QED BY <3>2, <3>3
  <2> QED BY <2>1
<1>7. ASSUME NEW p \in 1..(n + Len(list)), p + 1 \in 1..(n + Len(list))
      PROVE  code'[f][p + 1].scope \subseteq After(code'[f][p])
  <2>1. CASE p < n
    <3>1. p \in 1..n /\ p + 1 \in 1..n
      BY <1>1, <2>1
    <3> QED BY <1>0, <1>1, <1>2, <3>1 DEF FlowOK
  <2>2. CASE p = n
    <3>1. 1 \in 1..Len(list) /\ list # <<>> /\ n \in 1..n
      BY <1>1, <1>4, <1>7, <2>2
    <3>2. code'[f][n + 1] = list[1] /\ code'[f][n] = code[f][n]
      BY <1>2, <3>1
    <3>3. list[1].scope \subseteq Scope(Top)
      BY <3>1 DEF FollowsOn
    <3> QED BY <1>5, <2>2, <3>2, <3>3
  <2>3. CASE p > n
    <3>1. PICK k \in 1..Len(list) : p = n + k /\ k + 1 \in 1..Len(list)
      <4>1. p - n \in 1..Len(list) /\ p = n + (p - n) /\ (p - n) + 1 \in 1..Len(list)
        BY <1>1, <1>4, <1>7, <2>3
      <4> QED BY <4>1
    <3>2. code'[f][p] = list[k] /\ code'[f][n + (k + 1)] = list[k + 1] /\ n + (k + 1) = p + 1
      <4>1. k \in 1..Len(list) /\ n + (k + 1) = p + 1
        BY <1>1, <3>1
      <4> QED BY <1>2, <3>1, <4>1
    <3>3. list[k + 1].scope \subseteq After(list[k])
      BY <1>4, <3>1 DEF FollowsOn
    <3> QED BY <3>2, <3>3
  <2> QED BY <1>1, <1>4, <2>1, <2>2, <2>3
<1>8. ASSUME NEW fn \in DOMAIN code', NEW p \in DOMAIN code'[fn], p + 1 \in DOMAIN code'[fn]
      PROVE  code'[fn][p + 1].scope \subseteq After(code'[fn][p])
  <2>1. CASE fn = f
    BY <1>2, <1>7, <1>8, <2>1
  <2>2. CASE fn # f
    BY <1>0, <1>2, <1>8, <2>2 DEF FlowOK
  <2> QED BY <2>1, <2>2
<1>9. Scope(c) \subseteq After(Last(code'[f]))
  <2>1. Last(code'[f]) = code'[f][n + Len(list)]
    BY <1>2 DEF Last
  <2>2. CASE list = <<>>
    <3>1. n + Len(list) = n /\ n \in 1..n
      BY <1>1, <1>4, <2>2
    <3> QED BY <1>2, <1>5, <2>1, <2>2, <3>1 DEF FollowsOn
  <2>3. CASE list # <<>>
    <3>1. Len(list) \in 1..Len(list)
      BY <1>4, <2>3
    <3> QED BY <1>2, <2>1, <2>3, <3>1 DEF FollowsOn
  <2> QED BY <2>2, <2>3
<1>10. ASSUME NEW i \in DOMAIN compilers'
       PROVE  Scope(compilers'[i]) \subseteq After(Last(code'[compilers'[i].fn]))
  <2>1. CASE i = Len(compilers)
    BY <1>a, <1>2, <1>9, <2>1 DEF TopStep
  <2>2. CASE i # Len(compilers)
    <3>1. i \in DOMAIN compilers /\ compilers'[i] = compilers[i]
      BY <1>2, <2>2
    <3>2. compilers[i].fn # f /\ compilers[i].fn \in DOMAIN code
      BY <1>a, <1>1, <2>2, <3>1 DEF CompileInv, OpenFunctions
    <3> QED BY <1>0, <1>2, <3>1, <3>2 DEF FlowOK
  <2> QED BY <2>1, <2>2
<1>11. ASSUME NEW fn \in DOMAIN code' PROVE Open(fn)' \/ Last(code'[fn]).op = "end"
  <2>1. CASE fn = f
    <3>1. Open(fn)
      BY <1>a, <1>0, <2>1, TopIs
    <3> QED BY <1>3, <3>1
  <2>2. CASE fn # f
    <3>1. fn \in DOMAIN code /\ code'[fn] = code[fn]
      BY <1>2, <2>2
    <3> QED BY <1>0, <1>3, <3>1 DEF FlowOK
  <2> QED BY <2>1, <2>2
<1> QED
  BY <1>2, <1>6, <1>8, <1>10, <1>11 DEF FlowOK

LEMMA LoopKept ==
    ASSUME Grows, LabelsOK, NEW compiler, NEW loop, LoopOK(compiler, loop)
    PROVE  LoopOK(compiler, loop)'
<1>1. loop.id \in DOMAIN labels
  BY DEF LoopOK
<1>2. /\ loop.id \in DOMAIN labels' /\ labels'[loop.id].fn = labels[loop.id].fn
      /\ StartScope(loop.id)' = StartScope(loop.id)
  BY <1>1, StartKept
<1> QED
  BY <1>2 DEF LoopOK, ScopeUpTo

LEMMA CompilerKept ==
    ASSUME Grows, LabelsOK, NEW compiler, FramesOK(compiler), LoopsOK(compiler)
    PROVE  FramesOK(compiler)' /\ LoopsOK(compiler)'
<1>1. \A k \in DOMAIN compiler.frames : FrameOK(compiler.fn, compiler.frames[k])'
  BY FrameKept DEF FramesOK
<1>2. \A k \in DOMAIN compiler.loops : LoopOK(compiler, compiler.loops[k])'
  BY LoopKept DEF LoopsOK
<1> QED
  BY <1>1, <1>2 DEF FramesOK, LoopsOK

(* A label that the step does not touch stays right.                        *)
LEMMA TopLabel ==
    ASSUME CompileInv, NEW c, NEW list, TopStep(c, list), Beside,
           FollowsOn(list, Scope(Top), Scope(c)),
           NEW l \in DOMAIN labels, labels'[l] = labels[l], OpenLoop(l) => OpenLoop(l)'
    PROVE  LabelOK(l)'
<1>a. PICK f : f = Top.fn
  OBVIOUS
<1>0. compilers # <<>> /\ LabelsOK /\ LabelOK(l)
  BY DEF TopStep, CompileInv, LabelsOK
<1>1. Grows
  BY TopGrows
<1>2. /\ labels[l].fn \in DOMAIN code' /\ labels[l].start \in DOMAIN code'[labels[l].fn]
      /\ StartScope(l)' = StartScope(l)
  BY <1>0, <1>1, StartKept
<1> SUFFICES ASSUME EndOK(l) PROVE EndOK(l)'
  BY <1>0, <1>2 DEF LabelOK
<1> DEFINE g == labels[l].fn
           e == labels[l].end
<1>3. g \in DOMAIN code /\ IsSeq(code[g]) /\ DOMAIN code[g] = 1..Len(code[g]) /\ Len(code[g]) \in Nat
  <2>1. g \in DOMAIN code
    BY <1>0 DEF LabelOK
  <2>2. IsSeq(code[g])
    BY <2>1 DEF CompileInv, Shapes
  <2> QED BY <2>1, <2>2, SeqIs
<1>4. CASE e \in DOMAIN code[g] /\ code[g][e].scope \subseteq StartScope(l)
  <2>1. Extends(code[g], code'[g])
    BY <1>1, <1>3 DEF Grows
  <2> QED BY <1>2, <1>4, <2>1 DEF EndOK, Extends
<1>5. ASSUME e = Len(code[g]) + 1, NEW i \in DOMAIN compilers,
             compilers[i].fn = g, Scope(compilers[i]) \subseteq StartScope(l)
      PROVE  EndOK(l)'
  <2>1. /\ DOMAIN compilers' = DOMAIN compilers
        /\ compilers'[Len(compilers)] = c
        /\ \A k \in DOMAIN compilers : k # Len(compilers) => compilers'[k] = compilers[k]
        /\ Appended(code[f], list, code'[f])
        /\ \A fn \in DOMAIN code : fn # f => code'[fn] = code[fn]
    BY <1>a, TopEffect
  <2>2. Len(compilers) \in DOMAIN compilers /\ Top = compilers[Len(compilers)]
    BY <1>0, TopIs
  <2>3. CASE i # Len(compilers)
    <3>1. g # f
      BY <1>a, <1>5, <2>2, <2>3 DEF CompileInv, OpenFunctions
    <3>2. code'[g] = code[g] /\ compilers'[i] = compilers[i] /\ i \in DOMAIN compilers'
      BY <1>3, <2>1, <2>3, <3>1
    <3> QED BY <1>2, <1>5, <3>2 DEF EndOK
  <2>4. CASE i = Len(compilers)
    <3>1. g = f /\ Scope(Top) \subseteq StartScope(l)
      BY <1>a, <1>5, <2>2, <2>4
    <3>2. IsSeq(list) /\ Len(list) \in Nat /\ (list = <<>> <=> Len(list) = 0)
      BY SeqIs DEF TopStep
    <3>3. CASE list = <<>>
      <4>1. Len(code'[g]) = Len(code[g])
        BY <1>3, <2>1, <3>1, <3>2, <3>3 DEF Appended
      <4>2. Scope(c) \subseteq StartScope(l)
        BY <3>1, <3>3 DEF FollowsOn
      <4>3. compilers'[i] = c /\ c.fn = g /\ i \in DOMAIN compilers'
        BY <1>a, <2>1, <2>4, <3>1 DEF TopStep
      <4> QED BY <1>2, <1>5, <4>1, <4>2, <4>3 DEF EndOK
    <3>4. CASE list # <<>>
      <4>1. 1 \in 1..Len(list) /\ Len(code[g]) + 1 \in 1..(Len(code[g]) + Len(list))
        BY <1>3, <3>2, <3>4
      <4>2. code'[g][e] = list[1] /\ e \in DOMAIN code'[g]
        BY <1>5, <2>1, <3>1, <4>1 DEF Appended
      <4>3. list[1].scope \subseteq StartScope(l)
        BY <3>1, <3>4 DEF FollowsOn
      <4> QED BY <1>2, <4>2, <4>3 DEF EndOK
    <3> QED BY <3>3, <3>4
  <2> QED BY <2>3, <2>4
<1> QED
  BY <1>4, <1>5 DEF EndOK

LEMMA TopCode ==
    ASSUME CompileInv, NEW c, NEW list, TopStep(c, list), Beside, NEW f, f = Top.fn,
           \A k \in DOMAIN list : StatementOK(f, list[k])'
    PROVE  CodeOK'
<1>0. compilers # <<>> /\ IsSeq(list) /\ Len(list) \in Nat /\ DOMAIN list = 1..Len(list)
  BY SeqIs DEF TopStep
<1>1. f \in DOMAIN code /\ Len(code[f]) \in Nat /\ DOMAIN code[f] = 1..Len(code[f])
  BY <1>0, TopIs
<1>2. /\ DOMAIN code' = DOMAIN code
      /\ \A fn \in DOMAIN code : fn # f => code'[fn] = code[fn]
      /\ Appended(code[f], list, code'[f])
  BY TopEffect
<1>3. Grows
  BY TopGrows
<1>4. \A fn \in DOMAIN code : \A p \in DOMAIN code[fn] : StatementOK(fn, code[fn][p])
  BY DEF CompileInv, CodeOK
<1>5. ASSUME NEW fn \in DOMAIN code, NEW p \in DOMAIN code[fn], NEW s, s = code[fn][p]
      PROVE  StatementOK(fn, s)'
  BY <1>3, <1>4, <1>5, StatementKept
<1>6. ASSUME NEW fn \in DOMAIN code', NEW p \in DOMAIN code'[fn], NEW s, s = code'[fn][p]
      PROVE  StatementOK(fn, s)'
  <2>0. fn \in DOMAIN code
    BY <1>2
  <2>1. CASE fn # f
    <3>1. p \in DOMAIN code[fn] /\ s = code[fn][p]
      BY <1>2, <1>6, <2>0, <2>1
    <3> QED BY <1>5, <2>0, <3>1
  <2>2. CASE fn = f
    <3>1. p \in 1..(Len(code[f]) + Len(list))
      BY <1>2, <2>2 DEF Appended
    <3>2. CASE p <= Len(code[f])
      <4>1. p \in 1..Len(code[f]) /\ p \in DOMAIN code[f]
        BY <1>1, <3>1, <3>2
      <4>2. s = code[f][p]
        BY <1>2, <1>6, <2>2, <4>1 DEF Appended
      <4> QED BY <1>1, <1>5, <2>2, <4>1, <4>2
    <3>3. CASE p > Len(code[f])
      <4>1. PICK k \in 1..Len(list) : p = Len(code[f]) + k
        <5>1. p - Len(code[f]) \in 1..Len(list) /\ p = Len(code[f]) + (p - Len(code[f]))
          BY <1>0, <1>1, <3>1, <3>3
        <5> QED BY <5>1
      <4>2. s = list[k]
        BY <1>2, <1>6, <2>2, <4>1 DEF Appended
      <4> QED BY <1>0, <2>2, <4>1, <4>2
    <3> QED BY <1>0, <1>1, <3>1, <3>2, <3>3
  <2> QED BY <2>1, <2>2
<1> QED
  BY <1>6 DEF CodeOK

LEMMA TopUpvalues ==
    ASSUME CompileInv, NEW c, NEW list, TopStep(c, list), Beside, upvalues' = upvalues
    PROVE  UpvaluesOK' /\ ParentsOK'
<1>0. compilers # <<>> /\ Grows /\ IsSeq(upvalues) /\ IsSeq(code) /\ DOMAIN upvalues = DOMAIN code
  <2>1. IsSeq(upvalues) /\ IsSeq(code) /\ Len(upvalues) = Len(code)
    BY DEF CompileInv, Shapes
  <2>2. DOMAIN upvalues = 1..Len(upvalues) /\ DOMAIN code = 1..Len(code)
    BY <2>1, SeqIs
  <2> QED BY <2>1, <2>2, TopGrows DEF TopStep
<1>1. \A fn \in DOMAIN upvalues : \A u \in upvalues[fn] : UpvalueOK(fn, u) /\ UpvalueOK(fn, u)'
  BY <1>0, UpvalueKept DEF CompileInv, UpvaluesOK
<1>2. UpvaluesOK'
  BY <1>1 DEF CompileInv, UpvaluesOK
<1>3. Len(compilers) \in Nat /\ DOMAIN compilers = 1..Len(compilers)
  BY <1>0, TopIs
<1>4. /\ DOMAIN compilers' = DOMAIN compilers
      /\ \A i \in DOMAIN compilers : i # Len(compilers) => compilers'[i] = compilers[i]
      /\ \A i \in DOMAIN compilers : compilers'[i].fn = compilers[i].fn
  BY TopEffect
<1>5. ASSUME NEW i \in DOMAIN compilers, i > 1, NEW u \in upvalues[compilers[i].fn],
             NEW outer, outer = compilers[i - 1]
      PROVE  ParentOK(outer, u)' /\ compilers'[i - 1] = outer
  <2>1. i - 1 \in DOMAIN compilers /\ i - 1 # Len(compilers)
    BY <1>3, <1>5
  <2>2. FramesOK(outer) /\ IsSeq(outer.frames) /\ outer.fn \in DOMAIN code /\ ParentOK(outer, u)
    BY <1>5, <2>1 DEF CompileInv, Shapes, IsCompiler, OpenFunctions, ParentsOK
  <2>3. compilers[i].fn \in DOMAIN upvalues
    BY <1>0, <1>5 DEF CompileInv, OpenFunctions
  <2>4. UpvalueOK(compilers[i].fn, u)
    BY <1>1, <2>3
  <2> QED BY <1>0, <1>4, <1>5, <2>1, <2>2, <2>4, ParentKept
<1>6. ASSUME NEW i \in DOMAIN compilers', i > 1, NEW u \in upvalues'[compilers'[i].fn],
             NEW outer, outer = compilers'[i - 1]
      PROVE  ParentOK(outer, u)'
  BY <1>4, <1>5, <1>6
<1>7. ParentsOK'
  BY <1>6 DEF ParentsOK
<1> QED
  BY <1>2, <1>7

LEMMA TopKeeps ==
    ASSUME CompileInv, NEW c, NEW list, TopStep(c, list), Beside, NEW f, f = Top.fn,
           FollowsOn(list, Scope(Top), Scope(c)),
           FramesOK(c)', LoopsOK(c)',
           \A k \in DOMAIN list : StatementOK(f, list[k])',
           \A l \in DOMAIN labels' :
              \/ LabelOK(l)'
              \/ l \in DOMAIN labels /\ labels'[l] = labels[l] /\ (OpenLoop(l) => OpenLoop(l)'),
           UpvaluesOK', ParentsOK'
    PROVE  CompileInv'
<1>1. Shapes' /\ OpenFunctions'
  BY TopShapes
<1>2. FlowOK'
  BY TopFlow
<1>3. CodeOK'
  BY TopCode
<1>4. LabelsOK'
  <2>1. ASSUME NEW l \in DOMAIN labels' PROVE LabelOK(l)'
    BY TopLabel
  <2> QED BY <2>1 DEF LabelsOK
<1>5. ASSUME NEW i \in DOMAIN compilers', NEW compiler, compiler = compilers'[i]
      PROVE  FramesOK(compiler)' /\ LoopsOK(compiler)'
  <2>1. /\ DOMAIN compilers' = DOMAIN compilers
        /\ compilers'[Len(compilers)] = c
        /\ \A k \in DOMAIN compilers : k # Len(compilers) => compilers'[k] = compilers[k]
    BY TopEffect
  <2>2. CASE i = Len(compilers)
    BY <1>5, <2>1, <2>2
  <2>3. CASE i # Len(compilers)
    <3>1. compiler = compilers[i] /\ i \in DOMAIN compilers
      BY <1>5, <2>1, <2>3
    <3>2. FramesOK(compiler) /\ LoopsOK(compiler) /\ LabelsOK
      BY <3>1 DEF CompileInv
    <3> QED BY <3>2, TopGrows, CompilerKept
  <2> QED BY <2>2, <2>3
<1>6. \A i \in DOMAIN compilers' : FramesOK(compilers[i])' /\ LoopsOK(compilers[i])'
  BY <1>5
<1> QED
  BY <1>1, <1>2, <1>3, <1>4, <1>6 DEF CompileInv

(***************************************************************************)
(* What is released where, and when a block may be released: it holds in   *)
(* every program in which break and continue leave for loops only.  For a  *)
(* while loop the code is wrong (see the run closures_while).              *)
(***************************************************************************)
(* Every exit leaves a for loop, whose content frame is the one of the      *)
(* hidden variables.                                                        *)
LeavesForLoop ==
    LeaveLoop => Last(Top.loops).depth = Last(Top.loops).contentFrameId + 2

(* A block that is closed for good.                                         *)
Done(c) ==
    c \in DOMAIN containers /\ \A i \in DOMAIN compilers : c \notin Scope(compilers[i])

(* From a statement to what is in scope behind it: a cleanup releases what  *)
(* leaves the scope, and nothing else leaves it.                            *)
Leaves(s, next) ==
    IF s.op = "relocate"
      THEN /\ s.drop \cap next = {}
           /\ \A c \in s.scope \ next : Done(c) /\ (HasStorage(c) => c \in s.drop)
      ELSE After(s) \subseteq next

(* What a statement releases when control goes elsewhere.                   *)
ScopeIs(fn, s) == \A c \in s.scope : c \in DOMAIN containers /\ containers[c] = fn
DropIs(s) == s.drop \subseteq s.scope /\ \A c \in s.drop : HasStorage(c)
ExitIs(s) == s.op \in {"break", "continue"} =>
    /\ s.drop \cap StartScope(s.loop) = {}
    /\ s.scope \ StartScope(s.loop) \subseteq s.drop \cup s.uncaptured
TurnIs(s) == s.op \in {"test", "jump"} => s.scope = StartScope(s.loop)
ReturnIs(s) == s.op = "return" => s.scope \subseteq s.drop \cup s.uncaptured
EndIs(s) == s.op = "end" => \A c \in s.scope : Done(c) /\ (HasStorage(c) => c \in s.drop)
EntryIs(s) == s.op = "begin" => s.container \notin s.scope

ReleaseOK(fn, s) ==
    /\ ScopeIs(fn, s) /\ DropIs(s) /\ ExitIs(s) /\ TurnIs(s) /\ ReturnIs(s) /\ EndIs(s)
    /\ EntryIs(s)

(* Frames have blocks of their own, and nothing is declared in the frame of *)
(* a for loop's hidden variables.                                           *)
OwnBlocks(compiler) ==
    \A j, k \in DOMAIN compiler.frames :
        compiler.frames[j].container = compiler.frames[k].container => j = k
HiddenFrames(compiler) ==
    \A k \in DOMAIN compiler.loops :
        compiler.loops[k].depth = compiler.loops[k].contentFrameId + 2 =>
            \A v \in DOMAIN variables : variables[v].container
                # compiler.frames[compiler.loops[k].contentFrameId].container

(* A closed loop ends where as much is in scope as at its start.            *)
EndsWhole(l) ==
    \/ OpenLoop(l)
    \/ /\ labels[l].end \in DOMAIN code[labels[l].fn]
       /\ StartScope(l) \subseteq code[labels[l].fn][labels[l].end].scope
    \/ /\ labels[l].end = Len(code[labels[l].fn]) + 1
       /\ \E i \in DOMAIN compilers :
             compilers[i].fn = labels[l].fn /\ StartScope(l) \subseteq Scope(compilers[i])

VariablesOK ==
    /\ \A v \in DOMAIN variables : variables[v].container \in DOMAIN containers
    /\ captured \subseteq DOMAIN variables

ReleaseInv ==
    /\ VariablesOK
    /\ \A i \in DOMAIN compilers : OwnBlocks(compilers[i]) /\ HiddenFrames(compilers[i])
    /\ \A fn \in DOMAIN code : \A p \in DOMAIN code[fn] : ReleaseOK(fn, code[fn][p])
    /\ \A fn \in DOMAIN code : \A p \in DOMAIN code[fn] : p + 1 \in DOMAIN code[fn] =>
          Leaves(code[fn][p], code[fn][p + 1].scope)
    /\ \A i \in DOMAIN compilers :
          Leaves(Last(code[compilers[i].fn]), Scope(compilers[i]))
    /\ \A l \in DOMAIN labels : EndsWhole(l)

(***************************************************************************)
(* What a step of the compiler leaves as it was, of what is released.      *)
(***************************************************************************)
(* What is closed stays closed, and nothing of it is captured any more.     *)
Steady == \A c : Done(c) => Done(c)' /\ (HasStorage(c)' => HasStorage(c))

LEMMA CapturedKept ==
    ASSUME VariablesOK, Grows, NEW c, HasStorage(c)
    PROVE  HasStorage(c)'
<1>1. PICK v \in captured : variables[v].container = c
  BY DEF HasStorage
<1>2. v \in captured' /\ variables'[v] = variables[v]
  BY DEF VariablesOK, Grows, Extends
<1> QED
  BY <1>1, <1>2 DEF HasStorage

LEMMA ReleaseKept ==
    ASSUME CompileInv, VariablesOK, Grows, Steady, NEW fn \in DOMAIN code,
           NEW s, StatementOK(fn, s), ReleaseOK(fn, s)
    PROVE  ReleaseOK(fn, s)'
<1>1. ScopeIs(fn, s)'
  BY DEF ReleaseOK, ScopeIs, Grows, Extends
<1>2. DropIs(s)'
  BY CapturedKept DEF ReleaseOK, DropIs
<1>3. s.op \in LoopOps => StartScope(s.loop)' = StartScope(s.loop)
  BY StartKept DEF CompileInv, StatementOK, JumpOK
<1>4. ExitIs(s)' /\ TurnIs(s)'
  BY <1>3 DEF ReleaseOK, ExitIs, TurnIs, LoopOps
<1>5. ReturnIs(s)' /\ EntryIs(s)'
  BY DEF ReleaseOK, ReturnIs, EntryIs
<1>6. EndIs(s)'
  BY DEF ReleaseOK, EndIs, Steady
<1> QED
  BY <1>1, <1>2, <1>4, <1>5, <1>6 DEF ReleaseOK

LEMMA LeavesKept ==
    ASSUME Steady, NEW s, NEW next, Leaves(s, next)
    PROVE  Leaves(s, next)'
<1>1. CASE s.op = "relocate"
  BY <1>1 DEF Leaves, Steady
<1>2. CASE s.op # "relocate"
  <2>1. After(s)' = After(s)
    BY DEF After
  <2> QED BY <1>2, <2>1 DEF Leaves
<1> QED
  BY <1>1, <1>2

LEMMA EndKept ==
    ASSUME CompileInv, Grows, NEW l \in DOMAIN labels, labels'[l] = labels[l],
           labels[l].end \in DOMAIN code[labels[l].fn],
           StartScope(l) \subseteq code[labels[l].fn][labels[l].end].scope
    PROVE  EndsWhole(l)'
<1> DEFINE g == labels[l].fn
           e == labels[l].end
<1>1. StartScope(l)' = StartScope(l) /\ g \in DOMAIN code
  BY StartKept DEF CompileInv, LabelsOK, LabelOK
<1>2. Extends(code[g], code'[g])
  BY <1>1 DEF Grows
<1>3. e \in DOMAIN code'[g] /\ code'[g][e] = code[g][e]
  BY <1>2 DEF Extends
<1> QED
  BY <1>1, <1>3 DEF EndsWhole

(* What is left to show of a step of the compiler.                          *)
LEMMA KeepRelease ==
    ASSUME CompileInv, ReleaseInv, Grows, Steady, VariablesOK',
           \A i \in DOMAIN compilers' :
              /\ OwnBlocks(compilers'[i]) /\ HiddenFrames(compilers[i])'
              /\ Leaves(Last(code[compilers[i].fn]), Scope(compilers[i]))',
           \A fn \in DOMAIN code' : \A p \in DOMAIN code'[fn] :
              \/ fn \in DOMAIN code /\ p \in DOMAIN code[fn]
              \/ ReleaseOK(fn, code[fn][p])',
           \A fn \in DOMAIN code' : \A p \in DOMAIN code'[fn] : p + 1 \in DOMAIN code'[fn] =>
              \/ fn \in DOMAIN code /\ p \in DOMAIN code[fn] /\ p + 1 \in DOMAIN code[fn]
              \/ Leaves(code[fn][p], code[fn][p + 1].scope)',
           \A l \in DOMAIN labels' : EndsWhole(l)'
    PROVE  ReleaseInv'
<1>0. VariablesOK /\ \A fn \in DOMAIN code : Extends(code[fn], code'[fn])
  BY DEF ReleaseInv, Grows
<1>1. ASSUME NEW fn \in DOMAIN code', NEW p \in DOMAIN code'[fn]
      PROVE  ReleaseOK(fn, code[fn][p])'
  <2>1. CASE fn \in DOMAIN code /\ p \in DOMAIN code[fn]
    <3>1. PICK s : s = code[fn][p]
      OBVIOUS
    <3>2. code'[fn][p] = s
      BY <1>0, <2>1, <3>1 DEF Extends
    <3>3. StatementOK(fn, s) /\ ReleaseOK(fn, s)
      BY <2>1, <3>1 DEF CompileInv, CodeOK, ReleaseInv
    <3>4. ReleaseOK(fn, s)'
      BY <1>0, <2>1, <3>3, ReleaseKept
    <3> QED BY <3>2, <3>4
  <2> QED BY <1>1, <2>1
<1>2. ASSUME NEW fn \in DOMAIN code', NEW p \in DOMAIN code'[fn], p + 1 \in DOMAIN code'[fn]
      PROVE  Leaves(code[fn][p], code[fn][p + 1].scope)'
  <2>1. CASE fn \in DOMAIN code /\ p \in DOMAIN code[fn] /\ p + 1 \in DOMAIN code[fn]
    <3>1. PICK s, next : s = code[fn][p] /\ next = code[fn][p + 1].scope
      OBVIOUS
    <3>2. code'[fn][p] = s /\ code'[fn][p + 1].scope = next
      BY <1>0, <2>1, <3>1 DEF Extends
    <3>3. Leaves(s, next)
      BY <2>1, <3>1 DEF ReleaseInv
    <3>4. Leaves(s, next)'
      BY <3>3, LeavesKept
    <3> QED BY <3>2, <3>4
  <2> QED BY <1>2, <2>1
<1> QED
  BY <1>1, <1>2 DEF ReleaseInv, OwnBlocks

(***************************************************************************)
(* A step of the innermost function's compiler.                            *)
(***************************************************************************)
(* A new variable belongs to a new block or to one that is open.            *)
DeclaresInside ==
    \A v \in DOMAIN variables' : v \notin DOMAIN variables =>
        /\ variables'[v].container \in DOMAIN containers'
        /\ \/ variables'[v].container \notin DOMAIN containers
           \/ variables'[v].container = Last(Top.frames).container

(* The frames of a compiler are blocks of its function.                     *)
LEMMA ScopeOwn ==
    ASSUME NEW compiler, FramesOK(compiler), NEW k \in Scope(compiler)
    PROVE  k \in DOMAIN containers /\ containers[k] = compiler.fn
  BY DEF Scope, FramesOK, FrameOK

LEMMA SameCaptured ==
    ASSUME VariablesOK, Grows, captured' = captured, NEW c, HasStorage(c)'
    PROVE  HasStorage(c)
<1>1. PICK v \in captured : variables'[v].container = c
  BY DEF HasStorage
<1>2. variables'[v] = variables[v]
  BY DEF VariablesOK, Grows, Extends
<1> QED
  BY <1>1, <1>2 DEF HasStorage

LEMMA SteadyTop ==
    ASSUME CompileInv, NEW c, NEW list, TopStep(c, list), Grows,
           \A k \in Scope(c) : k \in Scope(Top) \/ k \notin DOMAIN containers,
           \A k : Done(k) /\ HasStorage(k)' => HasStorage(k)
    PROVE  Steady
<1>1. /\ DOMAIN compilers' = DOMAIN compilers
      /\ compilers'[Len(compilers)] = c
      /\ \A i \in DOMAIN compilers : i # Len(compilers) => compilers'[i] = compilers[i]
  BY TopEffect
<1>2. Len(compilers) \in DOMAIN compilers /\ Top = compilers[Len(compilers)]
  BY TopIs DEF TopStep
<1>3. ASSUME NEW k, Done(k), NEW i \in DOMAIN compilers', NEW compiler, compiler = compilers'[i]
      PROVE  k \notin Scope(compiler)
  <2>1. CASE i = Len(compilers)
    <3>1. k \in DOMAIN containers /\ k \notin Scope(Top)
      BY <1>2, <1>3 DEF Done
    <3> QED BY <1>1, <1>3, <2>1, <3>1
  <2>2. CASE i # Len(compilers)
    BY <1>1, <1>3, <2>2 DEF Done
  <2> QED BY <2>1, <2>2
<1>4. ASSUME NEW k, Done(k) PROVE Done(k)'
  <2>1. k \in DOMAIN containers'
    BY <1>4 DEF Done, Grows, Extends
  <2>2. \A i \in DOMAIN compilers' : k \notin Scope(compilers'[i])
    BY <1>3, <1>4
  <2>3. \A i \in DOMAIN compilers' : Scope(compilers[i])' = Scope(compilers'[i])
    BY DEF Scope
  <2> QED BY <2>1, <2>2, <2>3 DEF Done
<1> QED
  BY <1>4 DEF Steady

(* The hidden frames stay without variables.                                *)
LEMMA HiddenKept ==
    ASSUME CompileInv, Grows, NEW compiler, FramesOK(compiler), LoopsOK(compiler),
           IsCompiler(compiler), HiddenFrames(compiler),
           \A v \in DOMAIN variables' : v \notin DOMAIN variables =>
              LET k == variables'[v].container IN
              k \in DOMAIN containers => containers[k] # compiler.fn \/ k = Last(compiler.frames).container,
           \A k \in DOMAIN compiler.loops : compiler.loops[k].depth = compiler.loops[k].contentFrameId + 2
              => compiler.frames[compiler.loops[k].contentFrameId].container # Last(compiler.frames).container
    PROVE  HiddenFrames(compiler)'
<1> SUFFICES ASSUME NEW k \in DOMAIN compiler.loops, NEW loop, loop = compiler.loops[k],
                    loop.depth = loop.contentFrameId + 2,
                    NEW v \in DOMAIN variables'
             PROVE  variables'[v].container # compiler.frames[loop.contentFrameId].container
  BY DEF HiddenFrames
<1>1. LoopOK(compiler, loop)
  BY DEF LoopsOK
<1>2. loop.contentFrameId \in DOMAIN compiler.frames
  <2>1. DOMAIN compiler.frames = 1..Len(compiler.frames) /\ Len(compiler.frames) \in Nat
    BY SeqIs DEF IsCompiler
  <2> QED BY <1>1, <2>1 DEF LoopOK
<1>3. PICK h : h = compiler.frames[loop.contentFrameId].container
  OBVIOUS
<1>4. h \in DOMAIN containers /\ containers[h] = compiler.fn /\ h # Last(compiler.frames).container
  BY <1>2, <1>3 DEF FramesOK, FrameOK
<1>5. CASE v \in DOMAIN variables
  <2>1. variables'[v] = variables[v]
    BY <1>5 DEF Grows, Extends
  <2> QED BY <1>5, <2>1 DEF HiddenFrames
<1>6. CASE v \notin DOMAIN variables
  BY <1>3, <1>4, <1>6
<1> QED
  BY <1>5, <1>6

(* The statements that are appended follow one from the other.              *)
Follows(list, from, to) ==
    /\ list = <<>> => to = from
    /\ list # <<>> => list[1].scope = from /\ Leaves(list[Len(list)], to)
    /\ \A k \in DOMAIN list : k + 1 \in DOMAIN list => Leaves(list[k], list[k + 1].scope)

LEMMA LastFrame ==
    ASSUME NEW compiler, IsCompiler(compiler), FramesOK(compiler)
    PROVE  /\ Len(compiler.frames) \in Nat /\ DOMAIN compiler.frames = 1..Len(compiler.frames)
           /\ Len(compiler.frames) \in DOMAIN compiler.frames
           /\ Last(compiler.frames) = compiler.frames[Len(compiler.frames)]
  BY SeqIs DEF IsCompiler, FramesOK, Last

LEMMA HiddenAll ==
    ASSUME CompileInv, ReleaseInv, Grows, DeclaresInside, compilers # <<>>,
           NEW i \in DOMAIN compilers, NEW compiler, compiler = compilers[i]
    PROVE  HiddenFrames(compiler)'
<1>1. /\ IsCompiler(compiler) /\ FramesOK(compiler) /\ LoopsOK(compiler) /\ HiddenFrames(compiler)
      /\ OwnBlocks(compiler)
  BY DEF CompileInv, Shapes, ReleaseInv
<1>2. /\ Len(compilers) \in DOMAIN compilers /\ Top = compilers[Len(compilers)]
      /\ IsCompiler(Top) /\ FramesOK(Top)
  BY TopIs
<1>3. \A k \in DOMAIN compiler.loops :
          compiler.frames[compiler.loops[k].contentFrameId].container # Last(compiler.frames).container
  <2> SUFFICES ASSUME NEW k \in DOMAIN compiler.loops, NEW loop, loop = compiler.loops[k]
               PROVE  compiler.frames[loop.contentFrameId].container # Last(compiler.frames).container
    OBVIOUS
  <2>1. LoopOK(compiler, loop)
    BY <1>1 DEF LoopsOK
  <2>2. /\ Len(compiler.frames) \in Nat /\ DOMAIN compiler.frames = 1..Len(compiler.frames)
        /\ Len(compiler.frames) \in DOMAIN compiler.frames
        /\ Last(compiler.frames) = compiler.frames[Len(compiler.frames)]
    BY <1>1, LastFrame
  <2>3. loop.contentFrameId \in DOMAIN compiler.frames /\ loop.contentFrameId # Len(compiler.frames)
    BY <2>1, <2>2 DEF LoopOK
  <2> QED BY <1>1, <2>2, <2>3 DEF OwnBlocks
<1>4. ASSUME NEW v \in DOMAIN variables', v \notin DOMAIN variables,
             NEW k, k = variables'[v].container, k \in DOMAIN containers
      PROVE  containers[k] # compiler.fn \/ k = Last(compiler.frames).container
  <2>1. k = Last(Top.frames).container
    BY <1>4 DEF DeclaresInside
  <2>2. containers[k] = Top.fn
    BY <1>2, <2>1, LastFrame DEF FramesOK, FrameOK
  <2>3. CASE i = Len(compilers)
    BY <1>2, <2>1, <2>3
  <2>4. CASE i # Len(compilers)
    BY <1>2, <2>2, <2>4 DEF CompileInv, OpenFunctions
  <2> QED BY <2>3, <2>4
<1> QED
  BY <1>1, <1>3, <1>4, HiddenKept

(* Another compiler with the same loops and the same frames below them.     *)
LEMMA HiddenSame ==
    ASSUME NEW d, HiddenFrames(d)', NEW c,
           \A k \in DOMAIN c.loops : k \in DOMAIN d.loops /\ c.loops[k] = d.loops[k]
              /\ c.frames[c.loops[k].contentFrameId].container
                    = d.frames[c.loops[k].contentFrameId].container
    PROVE  HiddenFrames(c)'
  BY DEF HiddenFrames

LEMMA DeclaredOK ==
    ASSUME CompileInv, VariablesOK, Grows, DeclaresInside, compilers # <<>>,
           captured' \subseteq DOMAIN variables'
    PROVE  VariablesOK'
<1>1. ASSUME NEW v \in DOMAIN variables' PROVE variables'[v].container \in DOMAIN containers'
  <2>1. CASE v \in DOMAIN variables
    <3>1. variables'[v] = variables[v] /\ DOMAIN containers \subseteq DOMAIN containers'
      BY <2>1 DEF Grows, Extends
    <3> QED BY <2>1, <3>1 DEF VariablesOK
  <2> QED BY <1>1, <2>1 DEF DeclaresInside
<1> QED
  BY <1>1 DEF VariablesOK

(* The end of a loop that the step does not touch.                          *)
LEMMA TopEnd ==
    ASSUME CompileInv, ReleaseInv, NEW c, NEW list, TopStep(c, list), Grows,
           NEW from, from = Scope(Top), NEW to, to = Scope(c), Follows(list, from, to)',
           NEW l \in DOMAIN labels, labels'[l] = labels[l], OpenLoop(l) => OpenLoop(l)'
    PROVE  EndsWhole(l)'
<1>a. PICK f : f = Top.fn
  OBVIOUS
<1>0. compilers # <<>> /\ LabelOK(l) /\ EndsWhole(l) /\ LabelsOK
  BY DEF TopStep, CompileInv, LabelsOK, ReleaseInv
<1>2. /\ labels[l].fn \in DOMAIN code' /\ labels[l].start \in DOMAIN code'[labels[l].fn]
      /\ StartScope(l)' = StartScope(l)
  BY <1>0, StartKept
<1> DEFINE g == labels[l].fn
           e == labels[l].end
<1>3. g \in DOMAIN code /\ IsSeq(code[g]) /\ DOMAIN code[g] = 1..Len(code[g]) /\ Len(code[g]) \in Nat
  <2>1. g \in DOMAIN code
    BY <1>0 DEF LabelOK
  <2>2. IsSeq(code[g])
    BY <2>1 DEF CompileInv, Shapes
  <2> QED BY <2>1, <2>2, SeqIs
<1>4. CASE OpenLoop(l)
  BY <1>4 DEF EndsWhole
<1>5. CASE e \in DOMAIN code[g] /\ StartScope(l) \subseteq code[g][e].scope
  BY <1>5, EndKept
<1>6. ASSUME e = Len(code[g]) + 1, NEW i \in DOMAIN compilers,
             compilers[i].fn = g, StartScope(l) \subseteq Scope(compilers[i])
      PROVE  EndsWhole(l)'
  <2>1. /\ DOMAIN compilers' = DOMAIN compilers
        /\ compilers'[Len(compilers)] = c
        /\ \A k \in DOMAIN compilers : k # Len(compilers) => compilers'[k] = compilers[k]
        /\ Appended(code[f], list, code'[f])
        /\ \A fn \in DOMAIN code : fn # f => code'[fn] = code[fn]
    BY <1>a, TopEffect
  <2>2. Len(compilers) \in DOMAIN compilers /\ Top = compilers[Len(compilers)]
    BY <1>0, TopIs
  <2>3. CASE i # Len(compilers)
    <3>1. g # f
      BY <1>a, <1>6, <2>2, <2>3 DEF CompileInv, OpenFunctions
    <3>2. code'[g] = code[g] /\ compilers'[i] = compilers[i] /\ i \in DOMAIN compilers'
      BY <1>3, <2>1, <2>3, <3>1
    <3>3. Scope(compilers[i])' = Scope(compilers[i])
      BY <3>2 DEF Scope
    <3> QED BY <1>2, <1>6, <3>2, <3>3 DEF EndsWhole
  <2>4. CASE i = Len(compilers)
    <3>1. g = f /\ StartScope(l) \subseteq from
      BY <1>a, <1>6, <2>2, <2>4
    <3>2. IsSeq(list) /\ Len(list) \in Nat /\ (list = <<>> <=> Len(list) = 0)
      BY SeqIs DEF TopStep
    <3>3. CASE list = <<>>
      <4>1. Len(code'[g]) = Len(code[g])
        BY <1>3, <2>1, <3>1, <3>2, <3>3 DEF Appended
      <4>2. StartScope(l) \subseteq to
        BY <3>1, <3>3 DEF Follows
      <4>3. compilers'[i] = c /\ c.fn = g /\ i \in DOMAIN compilers'
        BY <1>a, <2>1, <2>4, <3>1 DEF TopStep
      <4>4. Scope(compilers[i])' = to
        BY <4>3 DEF Scope
      <4> QED BY <1>2, <1>6, <4>1, <4>2, <4>3, <4>4 DEF EndsWhole
    <3>4. CASE list # <<>>
      <4>1. 1 \in 1..Len(list) /\ Len(code[g]) + 1 \in 1..(Len(code[g]) + Len(list))
        BY <1>3, <3>2, <3>4
      <4>2. code'[g][e] = list[1] /\ e \in DOMAIN code'[g]
        BY <1>6, <2>1, <3>1, <4>1 DEF Appended
      <4>3. StartScope(l) \subseteq list[1].scope
        BY <3>1, <3>4 DEF Follows
      <4> QED BY <1>2, <4>2, <4>3 DEF EndsWhole
    <3> QED BY <3>3, <3>4
  <2> QED BY <2>3, <2>4
<1> QED
  BY <1>4, <1>5, <1>6, <1>0 DEF EndsWhole

LEMMA TopRelease ==
    ASSUME CompileInv, ReleaseInv, NEW c, NEW list, TopStep(c, list), Grows, NEW f, f = Top.fn,
           NEW from, from = Scope(Top), NEW to, to = Scope(c), Follows(list, from, to)',
           \A k \in to : k \in from \/ k \notin DOMAIN containers,
           \A k : Done(k) /\ HasStorage(k)' => HasStorage(k),
           DeclaresInside, captured' \subseteq DOMAIN variables',
           OwnBlocks(c), HiddenFrames(c)',
           \A k \in DOMAIN list : ReleaseOK(f, list[k])',
           \A l \in DOMAIN labels' :
              \/ EndsWhole(l)'
              \/ l \in DOMAIN labels /\ labels'[l] = labels[l] /\ (OpenLoop(l) => OpenLoop(l)')
    PROVE  ReleaseInv'
<1>0. /\ compilers # <<>> /\ VariablesOK /\ IsSeq(list) /\ Len(list) \in Nat
      /\ DOMAIN list = 1..Len(list) /\ (list = <<>> <=> Len(list) = 0) /\ c.fn = f
  BY SeqIs DEF TopStep, ReleaseInv
<1>1. PICK n : n = Len(code[f])
  OBVIOUS
<1>2. /\ f \in DOMAIN code /\ n \in Nat /\ n >= 1 /\ DOMAIN code[f] = 1..n /\ IsSeq(code[f])
      /\ Last(code[f]) = code[f][n]
      /\ Len(compilers) \in DOMAIN compilers /\ Top = compilers[Len(compilers)]
  BY <1>0, <1>1, TopIs
<1>3. /\ DOMAIN compilers' = DOMAIN compilers
      /\ compilers'[Len(compilers)] = c
      /\ \A k \in DOMAIN compilers : k # Len(compilers) => compilers'[k] = compilers[k]
      /\ DOMAIN code' = DOMAIN code
      /\ \A fn \in DOMAIN code : fn # f => code'[fn] = code[fn]
      /\ Appended(code[f], list, code'[f])
  BY TopEffect
<1>4. /\ Len(code'[f]) = n + Len(list) /\ DOMAIN code'[f] = 1..(n + Len(list))
      /\ \A p \in 1..n : code'[f][p] = code[f][p]
      /\ \A p \in 1..Len(list) : code'[f][n + p] = list[p]
  BY <1>1, <1>3 DEF Appended
<1>5. Steady
  BY SteadyTop
<1>6. VariablesOK'
  BY <1>0, DeclaredOK
<1>7. Leaves(code[f][n], from)
  BY <1>2 DEF ReleaseInv
<1>8. Leaves(code[f][n], from)'
  <2>1. PICK s : s = code[f][n]
    OBVIOUS
  <2>2. Leaves(s, from)'
    BY <1>5, <1>7, <2>1, LeavesKept
  <2>3. code'[f][n] = s
    BY <1>2, <1>4, <2>1
  <2> QED BY <2>2, <2>3
<1>9. Leaves(Last(code[f]), to)'
  <2>1. PICK s : s = Last(code'[f])
    OBVIOUS
  <2>2. s = code'[f][n + Len(list)]
    BY <1>4, <2>1 DEF Last
  <2>3. CASE list = <<>>
    <3>1. s = code'[f][n] /\ to = from
      BY <1>0, <1>2, <2>2, <2>3 DEF Follows
    <3>2. Leaves(s, from)'
      BY <1>8, <3>1
    <3> QED BY <2>1, <3>1, <3>2
  <2>4. CASE list # <<>>
    <3>1. s = list[Len(list)]
      BY <1>0, <1>4, <2>2, <2>4
    <3>2. Leaves(s, to)'
      BY <2>4, <3>1 DEF Follows
    <3> QED BY <2>1, <3>2
  <2> QED BY <2>3, <2>4
<1>10. ASSUME NEW i \in DOMAIN compilers', NEW compiler, compiler = compilers'[i]
       PROVE  /\ OwnBlocks(compiler) /\ HiddenFrames(compiler)'
              /\ Leaves(Last(code[compiler.fn]), Scope(compiler))'
  <2>1. CASE i = Len(compilers)
    <3>1. compiler = c
      BY <1>3, <1>10, <2>1
    <3>2. Scope(c)' = to
      BY DEF Scope
    <3> QED BY <1>0, <1>9, <3>1, <3>2
  <2>2. CASE i # Len(compilers)
    <3>1. compiler = compilers[i] /\ i \in DOMAIN compilers
      BY <1>3, <1>10, <2>2
    <3>2. HiddenFrames(compiler)'
      BY <1>0, <3>1, HiddenAll
    <3>3. OwnBlocks(compiler)
      BY <3>1 DEF ReleaseInv
    <3>4. PICK s, next : s = Last(code[compiler.fn]) /\ next = Scope(compiler)
      OBVIOUS
    <3>5. Leaves(s, next)'
      <4>1. Leaves(s, next)
        BY <3>1, <3>4 DEF ReleaseInv
      <4> QED BY <1>5, <4>1, LeavesKept
    <3>6. compiler.fn \in DOMAIN code /\ compiler.fn # f
      BY <1>2, <2>2, <3>1 DEF CompileInv, OpenFunctions
    <3>7. Last(code'[compiler.fn]) = s
      BY <1>3, <3>4, <3>6
    <3>8. Scope(compiler)' = next
      BY <3>4 DEF Scope
    <3> QED BY <3>2, <3>3, <3>5, <3>7, <3>8
  <2> QED BY <2>1, <2>2
<1>11. ASSUME NEW fn \in DOMAIN code', NEW p \in DOMAIN code'[fn]
       PROVE  (fn \in DOMAIN code /\ p \in DOMAIN code[fn]) \/ ReleaseOK(fn, code[fn][p])'
  <2>1. CASE fn # f
    BY <1>3, <1>11, <2>1
  <2>2. CASE fn = f
    <3>1. p \in 1..n \/ \E k \in 1..Len(list) : p = n + k
      <4>1. p \in 1..(n + Len(list))
        BY <1>4, <1>11, <2>2
      <4>2. p > n => p - n \in 1..Len(list) /\ p = n + (p - n)
        BY <1>0, <1>2, <4>1
      <4> QED BY <1>2, <4>1, <4>2
    <3>2. ASSUME NEW k \in 1..Len(list), p = n + k PROVE ReleaseOK(fn, code[fn][p])'
      <4>1. code'[fn][p] = list[k]
        BY <1>4, <2>2, <3>2
      <4> QED BY <1>0, <2>2, <4>1
    <3> QED BY <1>2, <2>2, <3>1, <3>2
  <2> QED BY <2>1, <2>2
<1>12. ASSUME NEW fn \in DOMAIN code', NEW p \in DOMAIN code'[fn], p + 1 \in DOMAIN code'[fn]
       PROVE  \/ fn \in DOMAIN code /\ p \in DOMAIN code[fn] /\ p + 1 \in DOMAIN code[fn]
              \/ Leaves(code[fn][p], code[fn][p + 1].scope)'
  <2>1. CASE fn # f
    BY <1>3, <1>12, <2>1
  <2>2. CASE fn = f
    <3>1. p \in 1..(n + Len(list)) /\ p + 1 \in 1..(n + Len(list))
      BY <1>4, <1>12, <2>2
    <3>2. CASE p < n
      BY <1>2, <2>2, <3>1, <3>2
    <3>3. CASE p = n
      <4>1. 1 \in 1..Len(list) /\ list # <<>>
        BY <1>0, <1>2, <3>1, <3>3
      <4>2. code'[f][p + 1] = list[1] /\ list[1].scope = from
        BY <1>4, <3>3, <4>1 DEF Follows
      <4> QED BY <1>8, <2>2, <3>3, <4>2
    <3>4. CASE p > n
      <4>1. PICK k : k = p - n
        OBVIOUS
      <4>2. k \in 1..Len(list) /\ k + 1 \in 1..Len(list) /\ p = n + k /\ p + 1 = n + (k + 1)
        <5>1. PICK m : m = Len(list)
          OBVIOUS
        <5>2. m \in Nat /\ n \in Nat /\ p \in 1..(n + m) /\ p + 1 \in 1..(n + m) /\ p > n
          BY <1>0, <1>2, <3>1, <3>4, <5>1
        <5>3. k \in 1..m /\ k + 1 \in 1..m /\ p = n + k
          BY <4>1, <5>2
        <5>4. p + 1 = n + (k + 1)
          BY <5>2, <5>3
        <5> QED BY <5>1, <5>3, <5>4
      <4>3. code'[f][p] = list[k] /\ code'[f][p + 1] = list[k + 1]
        BY <1>4, <4>2
      <4>4. Leaves(list[k], list[k + 1].scope)'
        BY <1>0, <4>2 DEF Follows
      <4> QED BY <2>2, <4>3, <4>4
    <3> QED BY <1>2, <3>1, <3>2, <3>3, <3>4
  <2> QED BY <2>1, <2>2
<1>13. \A l \in DOMAIN labels' : EndsWhole(l)'
  BY TopEnd
<1>14. \A i \in DOMAIN compilers' :
          /\ OwnBlocks(compilers'[i]) /\ HiddenFrames(compilers[i])'
          /\ Leaves(Last(code[compilers[i].fn]), Scope(compilers[i]))'
  BY <1>10
<1> QED
  BY <1>5, <1>6, <1>11, <1>12, <1>13, <1>14, KeepRelease

(***************************************************************************)
(* What the operations on a compiler make of it.                           *)
(***************************************************************************)
LEMMA PushIs ==
    ASSUME NEW c, IsCompiler(c), NEW k
    PROVE  /\ PushFrame(c, k) =
                [fn |-> c.fn, frames |-> Append(c.frames, Frame(k)), loops |-> c.loops]
           /\ IsCompiler(PushFrame(c, k))
           /\ Len(PushFrame(c, k).frames) = Len(c.frames) + 1
           /\ \A j \in 1..Len(c.frames) : PushFrame(c, k).frames[j] = c.frames[j]
           /\ PushFrame(c, k).frames[Len(c.frames) + 1] = [container |-> k, locals |-> {}]
           /\ Scope(PushFrame(c, k)) = Scope(c) \cup {k}
<1>1. PushFrame(c, k) = [fn |-> c.fn, frames |-> Append(c.frames, Frame(k)), loops |-> c.loops]
  BY DEF PushFrame, IsCompiler
<1> DEFINE q == c.frames
           r == Append(q, Frame(k))
<1>2. IsSeq(q) /\ IsSeq(c.loops) /\ Len(q) \in Nat /\ DOMAIN q = 1..Len(q)
  BY SeqIs DEF IsCompiler
<1>3. /\ IsSeq(r) /\ Len(r) = Len(q) + 1 /\ DOMAIN r = 1..(Len(q) + 1)
      /\ \A i \in 1..Len(q) : r[i] = q[i]
      /\ r[Len(q) + 1] = Frame(k)
  BY <1>2, AppendIs
<1>4. \A i \in 1..(Len(q) + 1) : i \in 1..Len(q) \/ i = Len(q) + 1
  BY <1>2
<1>5. \A i \in DOMAIN q : q[i] = [container |-> q[i].container, locals |-> q[i].locals]
  BY DEF IsCompiler
<1> HIDE DEF q, r
<1>6. \A i \in DOMAIN r : r[i] = [container |-> r[i].container, locals |-> r[i].locals]
  BY <1>2, <1>3, <1>4, <1>5 DEF Frame
<1>7. PushFrame(c, k).frames = r /\ PushFrame(c, k).fn = c.fn /\ PushFrame(c, k).loops = c.loops
  BY <1>1 DEF r, q
<1>8. IsCompiler(PushFrame(c, k))
  BY <1>1, <1>2, <1>3, <1>6, <1>7 DEF IsCompiler
<1>9. Scope(PushFrame(c, k)) = Scope(c) \cup {k}
  <2>1. Scope(PushFrame(c, k)) = {r[i].container : i \in DOMAIN r}
    BY <1>7 DEF Scope
  <2>2. Scope(c) = {q[i].container : i \in DOMAIN q}
    BY DEF Scope, q
  <2>3. r[Len(q) + 1].container = k /\ Len(q) + 1 \in DOMAIN r /\ DOMAIN q \subseteq DOMAIN r
    BY <1>2, <1>3 DEF Frame
  <2> QED BY <1>2, <1>3, <1>4, <2>1, <2>2, <2>3
<1> QED
  BY <1>1, <1>3, <1>7, <1>8, <1>9 DEF r, q, Frame

Pushed(a, c, n, k) ==
    /\ IsCompiler(a) /\ a.fn = c.fn /\ a.loops = c.loops /\ Len(a.frames) = n + 1
    /\ \A j \in 1..n : a.frames[j] = c.frames[j]
    /\ a.frames[n + 1] = [container |-> k, locals |-> {}]
    /\ Scope(a) = Scope(c) \cup {k}

LEMMA PushedIs ==
    ASSUME NEW c, IsCompiler(c), NEW k, NEW n, n = Len(c.frames), NEW a, a = PushFrame(c, k)
    PROVE  Pushed(a, c, n, k)
<1>1. a = [fn |-> c.fn, frames |-> Append(c.frames, Frame(k)), loops |-> c.loops]
  BY PushIs
<1>2. a.fn = c.fn /\ a.loops = c.loops
  BY <1>1
<1>3. /\ IsCompiler(a) /\ Len(a.frames) = n + 1
      /\ \A j \in 1..n : a.frames[j] = c.frames[j]
      /\ a.frames[n + 1] = [container |-> k, locals |-> {}]
      /\ Scope(a) = Scope(c) \cup {k}
  BY PushIs
<1> QED
  BY <1>2, <1>3 DEF Pushed

LEMMA PopIs ==
    ASSUME NEW c, IsCompiler(c), c.frames # <<>>
    PROVE  /\ PopFrame(c) = [fn |-> c.fn, frames |-> Front(c.frames), loops |-> c.loops]
           /\ IsCompiler(PopFrame(c))
           /\ Len(PopFrame(c).frames) = Len(c.frames) - 1
           /\ \A j \in 1..(Len(c.frames) - 1) : PopFrame(c).frames[j] = c.frames[j]
           /\ Scope(PopFrame(c)) = ScopeUpTo(c, Len(c.frames) - 1)
           /\ Scope(PopFrame(c)) \subseteq Scope(c)
<1>1. PopFrame(c) = [fn |-> c.fn, frames |-> Front(c.frames), loops |-> c.loops]
  BY DEF PopFrame, IsCompiler
<1> DEFINE q == c.frames
           r == Front(q)
<1>2. IsSeq(q) /\ IsSeq(c.loops) /\ Len(q) \in Nat /\ DOMAIN q = 1..Len(q)
  BY SeqIs DEF IsCompiler
<1>3. /\ IsSeq(r) /\ Len(r) = Len(q) - 1 /\ DOMAIN r = 1..(Len(q) - 1)
      /\ \A i \in 1..(Len(q) - 1) : r[i] = q[i]
  BY <1>2, FrontIs
<1>4. \A i \in DOMAIN q : q[i] = [container |-> q[i].container, locals |-> q[i].locals]
  BY DEF IsCompiler
<1>5. PopFrame(c).frames = r /\ PopFrame(c).fn = c.fn /\ PopFrame(c).loops = c.loops
  BY <1>1
<1>6. DOMAIN r \subseteq DOMAIN q
  BY <1>2, <1>3
<1>7. Scope(PopFrame(c)) = {r[i].container : i \in DOMAIN r}
  BY <1>5 DEF Scope
<1>8. ScopeUpTo(c, Len(q) - 1) = {q[i].container : i \in 1..(Len(q) - 1)}
  BY DEF ScopeUpTo
<1>9. Scope(c) = {q[i].container : i \in DOMAIN q}
  BY DEF Scope
<1> HIDE DEF q, r
<1>10. \A i \in DOMAIN r : r[i] = [container |-> r[i].container, locals |-> r[i].locals]
  BY <1>3, <1>4, <1>6
<1>11. IsCompiler(PopFrame(c))
  BY <1>1, <1>2, <1>3, <1>5, <1>10 DEF IsCompiler, r, q
<1>12. Scope(PopFrame(c)) = ScopeUpTo(c, Len(q) - 1) /\ Scope(PopFrame(c)) \subseteq Scope(c)
  BY <1>3, <1>6, <1>7, <1>8, <1>9
<1> QED
  BY <1>1, <1>3, <1>5, <1>11, <1>12 DEF r, q

Declares(a, c, n, id) ==
    /\ IsCompiler(a) /\ a.fn = c.fn /\ a.loops = c.loops /\ Len(a.frames) = n
    /\ \A j \in 1..n : a.frames[j].container = c.frames[j].container
    /\ \A j \in 1..n : j # n => a.frames[j] = c.frames[j]
    /\ a.frames[n].locals = c.frames[n].locals \cup {id}
    /\ Scope(a) = Scope(c)

LEMMA AddLocalIs ==
    ASSUME NEW c, IsCompiler(c), c.frames # <<>>, NEW id,
           NEW n, n = Len(c.frames), NEW a, a = AddLocal(c, id)
    PROVE  Declares(a, c, n, id)
<1> DEFINE q == c.frames
           last == [container |-> q[n].container, locals |-> q[n].locals \cup {id}]
           r == [q EXCEPT ![n] = last]
<1>1. IsSeq(q) /\ IsSeq(c.loops) /\ n \in Nat /\ DOMAIN q = 1..n /\ n \in 1..n
  BY SeqIs DEF IsCompiler
<1>3. \A i \in DOMAIN q : q[i] = [container |-> q[i].container, locals |-> q[i].locals]
  BY DEF IsCompiler
<1>4. [q[n] EXCEPT !.locals = q[n].locals \cup {id}] = last
  <2>1. \A x, y, z, w : x = [container |-> y, locals |-> z] =>
           [x EXCEPT !.locals = w] = [container |-> y, locals |-> w]
    OBVIOUS
  <2>2. q[n] = [container |-> q[n].container, locals |-> q[n].locals]
    BY <1>1, <1>3
  <2>3. PICK x, y, z, w : x = q[n] /\ y = q[n].container /\ z = q[n].locals
                          /\ w = q[n].locals \cup {id}
    OBVIOUS
  <2>4. x = [container |-> y, locals |-> z]
    BY <2>2, <2>3
  <2>5. [x EXCEPT !.locals = w] = [container |-> y, locals |-> w]
    BY <2>1, <2>4
  <2> QED BY <2>3, <2>5
<1>2. a = [fn |-> c.fn, frames |-> r, loops |-> c.loops]
  <2>1. a = [c EXCEPT !.frames = [q EXCEPT ![n] = [q[n] EXCEPT !.locals = q[n].locals \cup {id}]]]
    BY DEF AddLocal
  <2>2. a = [c EXCEPT !.frames = r]
    BY <1>4, <2>1
  <2>3. c = [fn |-> c.fn, frames |-> c.frames, loops |-> c.loops]
    BY DEF IsCompiler
  <2> HIDE DEF r
  <2> QED BY <2>2, <2>3
<1>5. /\ DOMAIN r = 1..n /\ r = [i \in 1..n |-> r[i]]
      /\ \A j \in 1..n : j # n => r[j] = q[j]
      /\ r[n] = [container |-> q[n].container, locals |-> q[n].locals \cup {id}]
  BY <1>1
<1>6. IsSeq(r) /\ Len(r) = n
  BY <1>1, <1>5, FunctionIs
<1>7. a.frames = r /\ a.fn = c.fn /\ a.loops = c.loops
  BY <1>2
<1>8. Scope(a) = {r[i].container : i \in DOMAIN r} /\ Scope(c) = {q[i].container : i \in DOMAIN q}
  BY <1>7 DEF Scope
<1> HIDE DEF r
<1>9. \A j \in 1..n : r[j].container = q[j].container
  <2>1. \A x, y, z : x = [container |-> y, locals |-> z] => x.container = y
    OBVIOUS
  <2>2. r[n].container = q[n].container
    BY <1>5, <2>1
  <2>3. ASSUME NEW j \in 1..n, j # n PROVE r[j].container = q[j].container
    <3>1. r[j] = q[j]
      BY <1>5, <2>3
    <3> HIDE DEF q
    <3> QED BY <3>1, Zenon
  <2> QED BY <2>2, <2>3
<1>10. \A j \in 1..n : r[j] = [container |-> r[j].container, locals |-> r[j].locals]
  <2>1. \A x, y, z : x = [container |-> y, locals |-> z] =>
           x = [container |-> x.container, locals |-> x.locals]
    OBVIOUS
  <2>2. r[n] = [container |-> r[n].container, locals |-> r[n].locals]
    BY <1>5, <2>1
  <2>3. ASSUME NEW j \in 1..n, j # n
        PROVE  r[j] = [container |-> r[j].container, locals |-> r[j].locals]
    <3>1. r[j] = q[j] /\ q[j] = [container |-> q[j].container, locals |-> q[j].locals]
      BY <1>1, <1>3, <1>5, <2>3
    <3> HIDE DEF q
    <3> QED BY <3>1, Zenon
  <2> QED BY <2>2, <2>3
<1>11. IsCompiler(a)
  BY <1>1, <1>2, <1>5, <1>6, <1>7, <1>10 DEF IsCompiler
<1>12. Scope(a) = Scope(c)
  <2>1. {r[i].container : i \in 1..n} = {q[i].container : i \in 1..n}
    <3> HIDE DEF q
    <3> QED BY <1>9
  <2> QED BY <1>1, <1>5, <1>8, <2>1
<1>13. r[n].locals = q[n].locals \cup {id}
  BY <1>5
<1> QED
  BY <1>5, <1>6, <1>7, <1>9, <1>11, <1>12, <1>13 DEF Declares

LEMMA StartLoopIs ==
    ASSUME NEW c, IsCompiler(c), NEW scopes,
           NEW loop, loop = [id |-> Len(labels) + 1, contentFrameId |-> Len(c.frames),
                             depth |-> Len(c.frames) + scopes]
    PROVE  /\ IsCompiler(StartLoop(c, scopes))
           /\ StartLoop(c, scopes) =
                [fn |-> c.fn, frames |-> c.frames, loops |-> Append(c.loops, loop)]
           /\ Scope(StartLoop(c, scopes)) = Scope(c)
<1> DEFINE a == StartLoop(c, scopes)
<1>1. a = [fn |-> c.fn, frames |-> c.frames, loops |-> Append(c.loops, loop)]
  <2>1. a = [c EXCEPT !.loops = Append(c.loops, loop)]
    BY DEF StartLoop
  <2>2. c = [fn |-> c.fn, frames |-> c.frames, loops |-> c.loops]
    BY DEF IsCompiler
  <2> HIDE DEF a
  <2> QED BY <2>1, <2>2
<1> HIDE DEF a
<1>2. IsSeq(Append(c.loops, loop))
  BY AppendIs DEF IsCompiler
<1>3. a.fn = c.fn /\ a.frames = c.frames /\ a.loops = Append(c.loops, loop)
  BY <1>1
<1>4. IsCompiler(a) /\ Scope(a) = Scope(c)
  BY <1>1, <1>2, <1>3 DEF IsCompiler, Scope
<1> QED
  BY <1>1, <1>4 DEF a

(* A compiler with some of the innermost frames and loops gone.             *)
LEMMA CutOK ==
    ASSUME NEW d, IsCompiler(d), FramesOK(d)', LoopsOK(d)', NEW c, IsCompiler(c), c.fn = d.fn,
           Len(c.frames) <= Len(d.frames), Len(c.frames) >= 1, Len(c.loops) <= Len(d.loops),
           \A j \in 1..Len(c.frames) : c.frames[j] = d.frames[j],
           \A j \in 1..Len(c.loops) : c.loops[j] = d.loops[j] /\ d.loops[j].depth <= Len(c.frames)
    PROVE  FramesOK(c)' /\ LoopsOK(c)'
<1>1. /\ Len(c.frames) \in Nat /\ DOMAIN c.frames = 1..Len(c.frames) /\ c.frames # <<>>
      /\ Len(d.frames) \in Nat /\ DOMAIN d.frames = 1..Len(d.frames)
      /\ Len(c.loops) \in Nat /\ DOMAIN c.loops = 1..Len(c.loops)
      /\ Len(d.loops) \in Nat /\ DOMAIN d.loops = 1..Len(d.loops)
  BY SeqIs DEF IsCompiler
<1>2. DOMAIN c.frames \subseteq DOMAIN d.frames /\ DOMAIN c.loops \subseteq DOMAIN d.loops
  BY <1>1
<1>3. FramesOK(c)'
  BY <1>1, <1>2 DEF FramesOK
<1>4. ASSUME NEW k \in DOMAIN c.loops, NEW loop, loop = d.loops[k]
      PROVE  LoopOK(c, loop)' /\ c.loops[k] = loop
  <2>1. c.loops[k] = loop /\ loop.depth <= Len(c.frames) /\ LoopOK(d, loop)'
    BY <1>1, <1>2, <1>4 DEF LoopsOK
  <2>2. loop.contentFrameId \in Nat /\ loop.depth \in Nat /\ loop.contentFrameId < loop.depth
    BY <2>1 DEF LoopOK
  <2>3. \A j \in 1..loop.contentFrameId : j \in 1..Len(c.frames)
    BY <1>1, <2>1, <2>2
  <2>4. ScopeUpTo(c, loop.contentFrameId) = ScopeUpTo(d, loop.contentFrameId)
    BY <2>3 DEF ScopeUpTo
  <2> QED BY <2>1, <2>4 DEF LoopOK
<1>5. \A k \in DOMAIN c.loops : LoopOK(c, c.loops[k])'
  BY <1>4
<1>6. \A k \in DOMAIN c.loops : c.loops[k] = d.loops[k]
  BY <1>1
<1> QED
  BY <1>2, <1>3, <1>5, <1>6 DEF LoopsOK

(* A compiler with more frames, and perhaps one more loop.                  *)
LEMMA ExtendOK ==
    ASSUME NEW d, IsCompiler(d), FramesOK(d)', LoopsOK(d)', NEW c, IsCompiler(c), c.fn = d.fn,
           Len(d.frames) <= Len(c.frames),
           \A j \in 1..Len(d.frames) : c.frames[j] = d.frames[j],
           \A j \in 1..Len(c.frames) : j > Len(d.frames) => FrameOK(c.fn, c.frames[j])'
    PROVE  /\ FramesOK(c)'
           /\ \A k \in DOMAIN d.loops : LoopOK(c, d.loops[k])' /\ d.loops[k].depth <= Len(d.frames)
           /\ c.loops = d.loops => LoopsOK(c)'
<1>1. /\ Len(c.frames) \in Nat /\ DOMAIN c.frames = 1..Len(c.frames)
      /\ Len(d.frames) \in Nat /\ DOMAIN d.frames = 1..Len(d.frames)
      /\ (c.frames = <<>> <=> Len(c.frames) = 0) /\ (d.frames = <<>> <=> Len(d.frames) = 0)
  BY SeqIs DEF IsCompiler
<1>2. d.frames # <<>> /\ \A j \in 1..Len(d.frames) : FrameOK(c.fn, d.frames[j])'
  BY <1>1 DEF FramesOK
<1>3. \A j \in 1..Len(c.frames) : FrameOK(c.fn, c.frames[j])'
  <2>1. \A j \in 1..Len(c.frames) : j \in 1..Len(d.frames) \/ j > Len(d.frames)
    BY <1>1
  <2> QED BY <1>2, <2>1
<1>4. FramesOK(c)'
  BY <1>1, <1>2, <1>3 DEF FramesOK
<1>5. ASSUME NEW k \in DOMAIN d.loops, NEW loop, loop = d.loops[k]
      PROVE  LoopOK(c, loop)' /\ loop.depth <= Len(d.frames)
  <2>1. LoopOK(d, loop)'
    BY <1>5 DEF LoopsOK
  <2>2. /\ loop.contentFrameId \in Nat /\ loop.depth \in Nat /\ loop.contentFrameId < loop.depth
        /\ loop.depth <= Len(d.frames)
    BY <2>1 DEF LoopOK
  <2>3. \A j \in 1..loop.contentFrameId : j \in 1..Len(d.frames)
    BY <1>1, <2>2
  <2>4. ScopeUpTo(c, loop.contentFrameId) = ScopeUpTo(d, loop.contentFrameId)
    BY <2>3 DEF ScopeUpTo
  <2>5. loop.depth <= Len(c.frames)
    BY <1>1, <2>2
  <2> QED BY <2>1, <2>2, <2>4, <2>5 DEF LoopOK
<1>6. \A k \in DOMAIN d.loops : LoopOK(c, d.loops[k])' /\ d.loops[k].depth <= Len(d.frames)
  BY <1>5
<1>7. ASSUME c.loops = d.loops PROVE LoopsOK(c)'
  BY <1>6, <1>7 DEF LoopsOK
<1> QED
  BY <1>4, <1>6, <1>7

(***************************************************************************)
(* The steps of the compiler.                                              *)
(***************************************************************************)
LEMMA ExtendsSelf ==
    ASSUME NEW q, IsSeq(q)
    PROVE  Extends(q, q)
  BY DEF Extends

LEMMA ExtendsAppend ==
    ASSUME NEW q, IsSeq(q), NEW e
    PROVE  Extends(q, Append(q, e))
<1>1. /\ IsSeq(Append(q, e)) /\ Len(Append(q, e)) = Len(q) + 1 /\ Len(q) \in Nat
      /\ \A i \in 1..Len(q) : Append(q, e)[i] = q[i]
  BY AppendIs, SeqIs
<1>2. Len(q) <= Len(Append(q, e))
  BY <1>1
<1> QED
  BY <1>1, <1>2, ExtendsIs

LEMMA NothingElse ==
    ASSUME CompileInv, Extends(variables, variables'), Extends(containers, containers'),
           captured \subseteq captured', labels' = labels, upvalues' = upvalues
    PROVE  Beside
<1>1. IsSeq(labels) /\ IsSeq(upvalues) /\ \A l \in DOMAIN labels : IsLabel(labels[l])
  BY DEF CompileInv, Shapes, IsLabel
<1> QED
  BY <1>1 DEF Beside

(* Emitting nothing and keeping the compiler are such steps, too.           *)
LEMMA SameCode ==
    ASSUME CompileInv, compilers # <<>>
    PROVE  /\ code = [code EXCEPT ![Top.fn] = @ \o <<>>]
           /\ compilers = [compilers EXCEPT ![Len(compilers)] = Top]
<1>1. IsSeq(code) /\ IsSeq(compilers) /\ IsSeq(code[Top.fn])
  BY TopIs DEF CompileInv, Shapes
<1>2. PICK T : code[Top.fn] \in Seq(T)
  BY <1>1 DEF IsSeq
<1>3. code[Top.fn] \o <<>> = code[Top.fn]
  BY <1>2
<1>4. PICK U, V : code \in Seq(U) /\ compilers \in Seq(V)
  BY <1>1 DEF IsSeq
<1>5. code = [i \in DOMAIN code |-> code[i]] /\ compilers = [i \in DOMAIN compilers |-> compilers[i]]
  BY <1>4
<1>6. code = [code EXCEPT ![Top.fn] = code[Top.fn]]
  BY <1>5
<1>7. compilers = [compilers EXCEPT ![Len(compilers)] = compilers[Len(compilers)]]
  BY <1>5
<1> QED
  BY <1>3, <1>6, <1>7 DEF Top

LEMMA OpenLoopKept ==
    ASSUME CompileInv, NEW c, NEW list, TopStep(c, list), NEW l,
           \A k \in DOMAIN Top.loops : Top.loops[k].id = l =>
              \E j \in DOMAIN c.loops : c.loops[j].id = l
    PROVE  OpenLoop(l) => OpenLoop(l)'
<1> SUFFICES ASSUME OpenLoop(l) PROVE OpenLoop(l)'
  OBVIOUS
<1>1. PICK i \in DOMAIN compilers : \E k \in DOMAIN compilers[i].loops : compilers[i].loops[k].id = l
  BY DEF OpenLoop
<1>2. /\ DOMAIN compilers' = DOMAIN compilers
      /\ compilers'[Len(compilers)] = c
      /\ \A k \in DOMAIN compilers : k # Len(compilers) => compilers'[k] = compilers[k]
  BY TopEffect
<1>3. CASE i = Len(compilers)
  <2>1. Top = compilers[i]
    BY <1>3 DEF Top
  <2>2. \E j \in DOMAIN c.loops : c.loops[j].id = l
    BY <1>1, <2>1
  <2> QED BY <1>2, <1>3, <2>2 DEF OpenLoop
<1>4. CASE i # Len(compilers)
  BY <1>1, <1>2, <1>4 DEF OpenLoop
<1> QED
  BY <1>3, <1>4

(* The fields of the statements that are emitted.                           *)
LEMMA FieldsAre ==
    ASSUME NEW c, NEW k, NEW op, NEW l, NEW since, NEW decl, NEW name, NEW g
    PROVE  /\ Begin(c, k).op = "begin" /\ Begin(c, k).scope = Scope(c) /\ Begin(c, k).container = k
           /\ Cleanup(c).op = "relocate" /\ Cleanup(c).scope = Scope(c)
           /\ InLoop(op, c, l).op = op /\ InLoop(op, c, l).scope = Scope(c) /\ InLoop(op, c, l).loop = l
           /\ Exit(InLoop(op, c, l), c, since).op = op
           /\ Exit(InLoop(op, c, l), c, since).scope = Scope(c)
           /\ Exit(InLoop(op, c, l), c, since).loop = l
           /\ Exit(Instruction(op, c), c, since).op = op
           /\ Exit(Instruction(op, c), c, since).scope = Scope(c)
           /\ Use(decl, name).op = "use" /\ Use(decl, name).scope = Scope(Top)
           /\ Use(decl, name).decl = decl /\ Use(decl, name).means = Meaning(name)
           /\ FinishBody.op = "end" /\ FinishBody.scope = Scope(Top)
           /\ [Instruction("closure", c) EXCEPT !.fn = g].op = "closure"
           /\ [Instruction("closure", c) EXCEPT !.fn = g].scope = Scope(c)
           /\ [Instruction("closure", c) EXCEPT !.fn = g].fn = g
<1>1. /\ Begin(c, k).op = "begin" /\ Begin(c, k).scope = Scope(c) /\ Begin(c, k).container = k
      /\ Cleanup(c).op = "relocate" /\ Cleanup(c).scope = Scope(c)
  BY DEF Begin, Cleanup, Instruction, Statement
<1>2. /\ InLoop(op, c, l).op = op /\ InLoop(op, c, l).scope = Scope(c) /\ InLoop(op, c, l).loop = l
  BY DEF InLoop, Instruction, Statement
<1>3. /\ Exit(InLoop(op, c, l), c, since).op = op
      /\ Exit(InLoop(op, c, l), c, since).scope = Scope(c)
      /\ Exit(InLoop(op, c, l), c, since).loop = l
  BY DEF Exit, InLoop, Instruction, Statement
<1>4. /\ Exit(Instruction(op, c), c, since).op = op
      /\ Exit(Instruction(op, c), c, since).scope = Scope(c)
  BY DEF Exit, Instruction, Statement
<1>5. /\ Use(decl, name).op = "use" /\ Use(decl, name).scope = Scope(Top)
      /\ Use(decl, name).decl = decl /\ Use(decl, name).means = Meaning(name)
  BY DEF Use, Instruction, Statement
<1>6. FinishBody.op = "end" /\ FinishBody.scope = Scope(Top)
  BY DEF FinishBody, Instruction, Statement
<1>7. /\ [Instruction("closure", c) EXCEPT !.fn = g].op = "closure"
      /\ [Instruction("closure", c) EXCEPT !.fn = g].scope = Scope(c)
      /\ [Instruction("closure", c) EXCEPT !.fn = g].fn = g
  BY DEF Instruction, Statement
<1> QED
  BY <1>1, <1>2, <1>3, <1>4, <1>5, <1>6, <1>7

LEMMA PlainOK ==
    ASSUME NEW fn, NEW s, s.op \in {"relocate", "return", "end"}
    PROVE  StatementOK(fn, s)'
  BY DEF StatementOK, BeginOK, UseOK, ClosureOK, JumpOK, LoopOps

(* What they release.                                                       *)
LEMMA ExitDrops ==
    ASSUME NEW c, NEW op, NEW l, NEW since, NEW s,
           s = Exit(InLoop(op, c, l), c, since) \/ s = Exit(Instruction(op, c), c, since)
    PROVE  /\ s.drop = DiscardLocals(c, since)
           /\ s.uncaptured = FramesSince(c, since) \ DiscardLocals(c, since)
<1>1. {b \in FramesSince(c, since) : \A v \in captured : variables[v].container # b}
        = FramesSince(c, since) \ DiscardLocals(c, since)
  BY DEF DiscardLocals
<1>2. ASSUME NEW i, i = InLoop(op, c, l) \/ i = Instruction(op, c)
      PROVE  /\ Exit(i, c, since).drop = DiscardLocals(c, since)
             /\ Exit(i, c, since).uncaptured
                   = {b \in FramesSince(c, since) : \A v \in captured : variables[v].container # b}
  BY <1>2 DEF Exit, InLoop, Instruction, Statement
<1> QED
  BY <1>1, <1>2

LEMMA CleanupDrops ==
    ASSUME NEW c, NEW s, s = Cleanup(c)
    PROVE  s.op = "relocate" /\ s.scope = Scope(c) /\ s.drop = DiscardLocals(c, Len(c.frames))
  BY DEF Cleanup, Instruction, Statement

LEMMA BeginDrops ==
    ASSUME NEW c, NEW k, NEW s, s = Begin(c, k)
    PROVE  s.drop = {}
  BY DEF Begin, Instruction, Statement

LEMMA InLoopDrops ==
    ASSUME NEW c, NEW op, NEW l, NEW s, s = InLoop(op, c, l)
    PROVE  s.drop = {}
  BY DEF InLoop, Instruction, Statement

LEMMA UseDrops ==
    ASSUME NEW decl, NEW name, NEW s, s = Use(decl, name)
    PROVE  s.drop = {}
  BY DEF Use, Instruction, Statement

LEMMA EndDrops ==
    ASSUME NEW s, s = FinishBody
    PROVE  s.drop = DiscardLocals(Top, 1)
  BY DEF FinishBody, Instruction, Statement

LEMMA DiscardIs ==
    ASSUME NEW c, NEW since, NEW b
    PROVE  b \in DiscardLocals(c, since) <=>
              HasStorage(b) /\ \E i \in since..Len(c.frames) : c.frames[i].container = b
  BY DEF DiscardLocals, FramesSince, HasStorage

(* Blocks of frames that are open, or were until now, are the function's.   *)
LEMMA ScopeNow ==
    ASSUME NEW c, FramesOK(c)', NEW s, s.scope \subseteq Scope(c), NEW f, f = c.fn
    PROVE  ScopeIs(f, s)'
<1>1. \A b \in Scope(c) : b \in DOMAIN containers' /\ containers'[b] = c.fn
  BY DEF Scope, FramesOK, FrameOK
<1> QED
  BY <1>1 DEF ScopeIs

(* A statement that releases nothing.                                       *)
LEMMA SilentRelease ==
    ASSUME NEW f, NEW s, s.drop = {}, s.op \notin {"break", "continue", "return", "end"},
           s.op = "begin" => s.container \notin s.scope,
           s.op \in {"test", "jump"} => s.scope = StartScope(s.loop)',
           ScopeIs(f, s)'
    PROVE  ReleaseOK(f, s)'
  BY DEF ReleaseOK, DropIs, ExitIs, TurnIs, ReturnIs, EndIs, EntryIs

(* A step that emits one statement and changes nothing else.                *)
LEMMA EmitKeeps ==
    ASSUME CompileInv, compilers # <<>>, NEW f, f = Top.fn, NEW s, s.scope = Scope(Top),
           code' = [code EXCEPT ![Top.fn] = @ \o <<s>>], StatementOK(f, s)',
           compilers' = compilers, variables' = variables, containers' = containers,
           labels' = labels, captured \subseteq captured',
           Beside, UpvaluesOK', ParentsOK'
    PROVE  CompileInv'
<1>1. PICK c : c = Top
  OBVIOUS
<1>2. PICK list : list = <<s>>
  OBVIOUS
<1>3. IsSeq(list) /\ Len(list) = 1 /\ list[1] = s /\ DOMAIN list = 1..1 /\ list # <<>>
  <2>1. IsSeq(list) /\ Len(list) = 1 /\ list[1] = s
    BY <1>2, TuplesAre
  <2> QED BY <2>1, SeqIs
<1>4. compilers' = [compilers EXCEPT ![Len(compilers)] = c]
  BY <1>1, SameCode
<1>5. IsCompiler(c) /\ FramesOK(c) /\ LoopsOK(c) /\ LabelsOK
  BY <1>1, TopIs DEF CompileInv
<1>6. TopStep(c, list)
  BY <1>1, <1>2, <1>3, <1>4, <1>5 DEF TopStep
<1>7. FramesOK(c)' /\ LoopsOK(c)'
  BY <1>5, <1>6, TopGrows, CompilerKept
<1>8. FollowsOn(list, Scope(Top), Scope(c))
  BY <1>1, <1>3 DEF FollowsOn, After
<1>9. \A k \in DOMAIN list : StatementOK(f, list[k])'
  BY <1>3
<1>10. \A l \in DOMAIN labels' : l \in DOMAIN labels /\ labels'[l] = labels[l] /\ (OpenLoop(l) => OpenLoop(l)')
  BY DEF OpenLoop
<1> QED
  BY <1>6, <1>7, <1>8, <1>9, <1>10, TopKeeps

LEMMA EmitSame ==
    ASSUME CompileInv, compilers # <<>>, NEW f, f = Top.fn, NEW s, s.scope = Scope(Top),
           code' = [code EXCEPT ![Top.fn] = @ \o <<s>>],
           UNCHANGED <<compilers, variables, captured, upvalues, labels, containers>>
    PROVE  /\ Grows
           /\ StatementOK(f, s)' => CompileInv'
<1>1. IsSeq(variables) /\ IsSeq(containers)
  BY DEF CompileInv, Shapes
<1>2. Beside
  BY <1>1, ExtendsSelf, NothingElse
<1>3. PICK list : list = <<s>>
  OBVIOUS
<1>4. PICK c : c = Top
  OBVIOUS
<1>5. IsCompiler(c) /\ IsSeq(list)
  BY <1>3, <1>4, TopIs, TuplesAre
<1>6. TopStep(c, list)
  BY <1>3, <1>4, <1>5, SameCode DEF TopStep
<1>7. UpvaluesOK' /\ ParentsOK'
  BY <1>2, <1>6, TopUpvalues
<1> QED
  BY <1>2, <1>6, <1>7, TopGrows, EmitKeeps

(* What is left to show of the statement, if nothing that is closed is      *)
(* captured.                                                                *)
LEMMA EmitRelease ==
    ASSUME CompileInv, ReleaseInv, compilers # <<>>, NEW f, f = Top.fn, NEW s, s.scope = Scope(Top),
           code' = [code EXCEPT ![Top.fn] = @ \o <<s>>], s.op \notin {"begin", "relocate"},
           compilers' = compilers, variables' = variables, containers' = containers,
           labels' = labels, Grows, captured' \subseteq DOMAIN variables,
           \A k : Done(k) /\ HasStorage(k)' => HasStorage(k),
           ScopeIs(f, s)' => ReleaseOK(f, s)'
    PROVE  ReleaseInv'
<1>1. PICK d, n : d = Top /\ n = Len(compilers)
  OBVIOUS
<1>2. /\ IsCompiler(d) /\ FramesOK(d) /\ LoopsOK(d) /\ n \in DOMAIN compilers /\ d = compilers[n]
      /\ LabelsOK
  BY <1>1, TopIs DEF CompileInv
<1>3. PICK list : list = <<s>>
  OBVIOUS
<1>4. IsSeq(list) /\ Len(list) = 1 /\ list[1] = s /\ DOMAIN list = 1..1 /\ list # <<>>
  <2>1. IsSeq(list) /\ Len(list) = 1 /\ list[1] = s
    BY <1>3, TuplesAre
  <2> QED BY <2>1, SeqIs
<1>5. TopStep(d, list)
  <2>1. compilers = [compilers EXCEPT ![Len(compilers)] = Top]
    BY SameCode
  <2> QED BY <1>1, <1>2, <1>3, <1>4, <2>1 DEF TopStep
<1>6. PICK scope : scope = Scope(d)
  OBVIOUS
<1>7. Leaves(s, scope)'
  BY <1>1, <1>6 DEF Leaves, After
<1>8. Follows(list, scope, scope)'
  BY <1>1, <1>4, <1>6, <1>7 DEF Follows
<1>9. DeclaresInside
  BY DEF DeclaresInside
<1>10. OwnBlocks(d) /\ HiddenFrames(d)'
  BY <1>2, <1>9, HiddenAll DEF ReleaseInv
<1>11. FramesOK(d)'
  BY <1>2, CompilerKept
<1>12. ReleaseOK(f, s)'
  BY <1>1, <1>11, ScopeNow
<1>13. \A k \in DOMAIN list : ReleaseOK(f, list[k])'
  BY <1>4, <1>12
<1>14. \A l \in DOMAIN labels' : l \in DOMAIN labels /\ labels'[l] = labels[l] /\ (OpenLoop(l) => OpenLoop(l)')
  BY DEF OpenLoop
<1> QED
  BY <1>1, <1>5, <1>6, <1>8, <1>9, <1>10, <1>13, <1>14, TopRelease

LEMMA SameStorage ==
    ASSUME captured' = captured, variables' = variables, NEW c
    PROVE  HasStorage(c)' <=> HasStorage(c)
  BY DEF HasStorage

(* Everything that is open is left by a return, and by the end of a body.   *)
LEMMA WholeScope ==
    ASSUME NEW c, IsCompiler(c)
    PROVE  Scope(c) = FramesSince(c, 1)
<1>1. DOMAIN c.frames = 1..Len(c.frames)
  BY SeqIs DEF IsCompiler
<1> QED
  BY <1>1 DEF Scope, FramesSince

LEMMA ReturnStep ==
    ASSUME CompileInv, compilers # <<>>, ReturnStatement
    PROVE  CompileInv' /\ (ReleaseInv => ReleaseInv')
<1>1. PICK f : f = Top.fn
  OBVIOUS
<1>2. PICK s : s = Exit(Instruction("return", Top), Top, 1)
  OBVIOUS
<1>3. s.op = "return" /\ s.scope = Scope(Top)
  BY <1>2, FieldsAre
<1>4. StatementOK(f, s)'
  BY <1>3, PlainOK
<1>5. /\ code' = [code EXCEPT ![Top.fn] = @ \o <<s>>]
      /\ UNCHANGED <<compilers, variables, captured, upvalues, labels, containers>>
  BY <1>2 DEF ReturnStatement, EmitAll
<1>6. CompileInv' /\ Grows
  BY <1>1, <1>3, <1>4, <1>5, EmitSame
<1>7. ASSUME ReleaseInv PROVE ReleaseInv'
  <2>1. /\ s.drop = DiscardLocals(Top, 1)
        /\ s.uncaptured = FramesSince(Top, 1) \ DiscardLocals(Top, 1)
    <3>1. PICK c, op, since : c = Top /\ op = "return" /\ since = 1
      OBVIOUS
    <3>2. s = Exit(Instruction(op, c), c, since)
      BY <1>2, <3>1
    <3>3. s.drop = DiscardLocals(c, since) /\ s.uncaptured = FramesSince(c, since) \ DiscardLocals(c, since)
      BY <3>2, ExitDrops
    <3> QED BY <3>1, <3>3
  <2>2. Scope(Top) = FramesSince(Top, 1)
    BY TopIs, WholeScope
  <2>3. s.drop \subseteq s.scope /\ s.scope \subseteq s.drop \cup s.uncaptured
    BY <1>3, <2>1, <2>2 DEF DiscardLocals
  <2>6. \A b \in s.drop : HasStorage(b)'
    BY <1>5, <2>1, DiscardIs, SameStorage
  <2>4. ScopeIs(f, s)' => ReleaseOK(f, s)'
    BY <1>3, <2>3, <2>6 DEF ReleaseOK, DropIs, ExitIs, TurnIs, ReturnIs, EndIs, EntryIs
  <2>5. captured' \subseteq DOMAIN variables
    BY <1>5, <1>7 DEF ReleaseInv, VariablesOK
  <2> QED BY <1>1, <1>3, <1>5, <1>6, <1>7, <2>4, <2>5, SameStorage, EmitRelease
<1> QED
  BY <1>6, <1>7

(* The start of an open loop is in scope inside it.                         *)
LEMMA InsideLoop ==
    ASSUME NEW c, IsCompiler(c), NEW loop, LoopOK(c, loop)
    PROVE  StartScope(loop.id) \subseteq Scope(c)
<1>1. Len(c.frames) \in Nat /\ DOMAIN c.frames = 1..Len(c.frames)
  BY SeqIs DEF IsCompiler
<1>2. loop.contentFrameId \in Nat /\ loop.depth \in Nat /\ loop.contentFrameId < loop.depth
      /\ loop.depth <= Len(c.frames)
      /\ ScopeUpTo(c, loop.contentFrameId) = StartScope(loop.id)
  BY DEF LoopOK
<1>3. 1..loop.contentFrameId \subseteq DOMAIN c.frames
  BY <1>1, <1>2
<1> QED
  BY <1>2, <1>3 DEF Scope, ScopeUpTo

LEMMA LeaveStep ==
    ASSUME CompileInv, compilers # <<>>, LeaveLoop
    PROVE  /\ CompileInv'
           /\ ReleaseInv /\ Last(Top.loops).depth = Last(Top.loops).contentFrameId + 2 => ReleaseInv'
<1>1. PICK f : f = Top.fn
  OBVIOUS
<1>2. PICK loop : loop = Last(Top.loops)
  OBVIOUS
<1>3. PICK op : op = Head(tokens)[1]
  OBVIOUS
<1>4. PICK s : s = Exit(InLoop(op, Top, loop.id), Top, loop.contentFrameId)
  OBVIOUS
<1>5. op \in {"break", "continue"} /\ Top.loops # <<>>
      /\ code' = [code EXCEPT ![Top.fn] = @ \o <<s>>]
      /\ UNCHANGED <<compilers, variables, captured, upvalues, labels, containers>>
  BY <1>2, <1>3, <1>4 DEF LeaveLoop, Parses, EmitAll
<1>6. s.op = op /\ s.scope = Scope(Top) /\ s.loop = loop.id
  BY <1>4, FieldsAre
<1>7. Grows /\ (StatementOK(f, s)' => CompileInv')
  BY <1>1, <1>5, <1>6, EmitSame
<1>8. IsCompiler(Top) /\ LoopsOK(Top) /\ LabelsOK
  BY TopIs DEF CompileInv
<1>9. LoopOK(Top, loop)
  <2>1. IsSeq(Top.loops)
    BY <1>8 DEF IsCompiler
  <2>2. loop = Top.loops[Len(Top.loops)] /\ Len(Top.loops) \in DOMAIN Top.loops
    BY <1>2, <1>5, <2>1, FrontIs, SeqIs
  <2> QED BY <1>8, <2>2 DEF LoopsOK
<1>10. StartScope(loop.id) \subseteq Scope(Top) /\ loop.id \in DOMAIN labels /\ labels[loop.id].fn = f
  BY <1>1, <1>8, <1>9, InsideLoop DEF LoopOK
<1>11. StartScope(loop.id)' = StartScope(loop.id) /\ labels' = labels
  BY <1>5, <1>7, <1>8, <1>10, StartKept
<1>12. StatementOK(f, s)'
  BY <1>5, <1>6, <1>10, <1>11 DEF StatementOK, BeginOK, UseOK, ClosureOK, JumpOK
<1>13. ASSUME ReleaseInv, loop.depth = loop.contentFrameId + 2 PROVE ReleaseInv'
  <2>1. PICK d, m, n : d = Top /\ m = loop.contentFrameId /\ n = Len(d.frames)
    OBVIOUS
  <2>2. /\ s.drop = DiscardLocals(d, m) /\ s.uncaptured = FramesSince(d, m) \ DiscardLocals(d, m)
        /\ s.scope = Scope(d)
    <3>1. PICK l : l = loop.id
      OBVIOUS
    <3>2. s = Exit(InLoop(op, d, l), d, m)
      BY <1>4, <2>1, <3>1
    <3>3. s.drop = DiscardLocals(d, m) /\ s.uncaptured = FramesSince(d, m) \ DiscardLocals(d, m)
      BY <3>2, ExitDrops
    <3> QED BY <1>6, <2>1, <3>3
  <2>3. /\ n \in Nat /\ DOMAIN d.frames = 1..n /\ m \in Nat /\ 1 <= m /\ m < n
        /\ ScopeUpTo(d, m) = StartScope(loop.id)
    <3>1. n \in Nat /\ DOMAIN d.frames = 1..n
      BY <1>8, <2>1, SeqIs DEF IsCompiler
    <3>2. /\ m \in Nat /\ 1 <= m /\ loop.depth \in Nat /\ m < loop.depth /\ loop.depth <= n
          /\ ScopeUpTo(d, m) = StartScope(loop.id)
      BY <1>9, <2>1 DEF LoopOK
    <3> QED BY <3>1, <3>2
  <2>4. OwnBlocks(d) /\ HiddenFrames(d) /\ captured \subseteq DOMAIN variables
    <3>1. Len(compilers) \in DOMAIN compilers /\ d = compilers[Len(compilers)]
      BY <2>1, TopIs
    <3> QED BY <1>13, <3>1 DEF ReleaseInv, VariablesOK
  <2>5. ~HasStorage(d.frames[m].container)
    <3>1. IsSeq(d.loops) /\ d.loops # <<>>
      BY <1>5, <1>8, <2>1 DEF IsCompiler
    <3>2. Len(d.loops) \in DOMAIN d.loops /\ loop = d.loops[Len(d.loops)]
      BY <1>2, <2>1, <3>1, FrontIs, SeqIs
    <3>3. \A v \in DOMAIN variables : variables[v].container # d.frames[m].container
      BY <1>13, <2>1, <2>4, <3>2 DEF HiddenFrames
    <3> QED BY <2>4, <3>3 DEF HasStorage
  <2>6. s.drop \cap StartScope(loop.id) = {}
    <3> SUFFICES ASSUME NEW b \in DiscardLocals(d, m), b \in ScopeUpTo(d, m) PROVE FALSE
      BY <2>2, <2>3
    <3>1. PICK i \in m..n : d.frames[i].container = b
      BY <2>1, DiscardIs
    <3>2. PICK j \in 1..m : d.frames[j].container = b
      BY DEF ScopeUpTo
    <3>3. i \in 1..n /\ j \in 1..n
      BY <2>3
    <3>4. i = j
      BY <2>3, <2>4, <3>1, <3>2, <3>3 DEF OwnBlocks
    <3>5. i = m
      BY <2>3, <3>4
    <3>6. HasStorage(b)
      BY DiscardIs
    <3> QED BY <2>5, <3>1, <3>5, <3>6
  <2>7. s.scope \ StartScope(loop.id) \subseteq s.drop \cup s.uncaptured
    <3> SUFFICES ASSUME NEW b \in Scope(d), b \notin ScopeUpTo(d, m) PROVE b \in FramesSince(d, m)
      BY <2>2, <2>3
    <3>1. PICK i \in 1..n : d.frames[i].container = b
      BY <2>3 DEF Scope
    <3>2. i \notin 1..m
      BY <3>1 DEF ScopeUpTo
    <3>3. i \in m..n
      BY <2>3, <3>2
    <3> QED BY <2>1, <3>1, <3>3 DEF FramesSince
  <2>8. s.drop \subseteq s.scope /\ \A b \in s.drop : HasStorage(b)'
    <3>1. ASSUME NEW b \in s.drop PROVE b \in Scope(d) /\ HasStorage(b)
      <4>1. HasStorage(b) /\ \E i \in m..n : d.frames[i].container = b
        BY <2>1, <2>2, DiscardIs
      <4>2. m..n \subseteq 1..n
        BY <2>3
      <4> QED BY <2>3, <4>1, <4>2 DEF Scope
    <3> QED BY <1>5, <2>2, <3>1, SameStorage
  <2>9. ScopeIs(f, s)' => ReleaseOK(f, s)'
    BY <1>5, <1>6, <1>11, <2>6, <2>7, <2>8 DEF ReleaseOK, DropIs, ExitIs, TurnIs, ReturnIs, EndIs, EntryIs
  <2>10. captured' \subseteq DOMAIN variables
    BY <1>5, <2>4
  <2> QED BY <1>1, <1>5, <1>6, <1>7, <1>13, <2>9, <2>10, SameStorage, EmitRelease
<1> QED
  BY <1>2, <1>7, <1>12, <1>13

(* A declaration changes the innermost frame, and no scope.                 *)
LEMMA SameScopes ==
    ASSUME NEW d, LoopsOK(d)', NEW c, c.fn = d.fn, c.loops = d.loops,
           NEW n \in Nat, n = Len(d.frames), n = Len(c.frames),
           \A j \in 1..n : c.frames[j].container = d.frames[j].container
    PROVE  LoopsOK(c)'
<1>1. ASSUME NEW k \in DOMAIN d.loops, NEW loop, loop = d.loops[k]
      PROVE  LoopOK(c, loop)'
  <2>1. LoopOK(d, loop)'
    BY <1>1 DEF LoopsOK
  <2>2. loop.contentFrameId \in Nat /\ loop.depth \in Nat /\ loop.contentFrameId < loop.depth
        /\ loop.depth <= n
    BY <2>1 DEF LoopOK
  <2>3. \A j \in 1..loop.contentFrameId : j \in 1..n
    BY <2>2
  <2>4. ScopeUpTo(c, loop.contentFrameId) = ScopeUpTo(d, loop.contentFrameId)
    BY <2>3 DEF ScopeUpTo
  <2> QED BY <2>1, <2>4 DEF LoopOK
<1>2. \A k \in DOMAIN c.loops : LoopOK(c, c.loops[k])'
  BY <1>1
<1> QED
  BY <1>2 DEF LoopsOK

LEMMA DeclareStep ==
    ASSUME CompileInv, compilers # <<>>, DeclareVariable
    PROVE  CompileInv' /\ (ReleaseInv => ReleaseInv')
<1>a. PICK d, f : d = Top /\ f = Top.fn
  OBVIOUS
<1>b. PICK n, id : n = Len(d.frames) /\ id = Len(variables) + 1
  OBVIOUS
<1>c. PICK new : new = [name |-> Head(tokens)[2], container |-> d.frames[n].container]
  OBVIOUS
<1>0. IsCompiler(d) /\ FramesOK(d) /\ LoopsOK(d) /\ LabelsOK /\ IsSeq(variables) /\ IsSeq(containers)
  BY <1>a, TopIs DEF CompileInv, Shapes
<1>1. /\ IsSeq(d.frames) /\ d.frames # <<>> /\ n \in Nat /\ n >= 1 /\ DOMAIN d.frames = 1..n
      /\ n \in 1..n
  <2>1. IsSeq(d.frames) /\ d.frames # <<>>
    BY <1>0 DEF IsCompiler, FramesOK
  <2> QED BY <1>b, <2>1, SeqIs
<1>2. variables' = Append(variables, new)
  BY <1>a, <1>b, <1>c DEF DeclareVariable
<1>3. /\ Extends(variables, variables') /\ Len(variables') = id
      /\ id \in DOMAIN variables' /\ variables'[id] = new
  <2>1. /\ Len(variables') = Len(variables) + 1 /\ variables'[Len(variables) + 1] = new
        /\ DOMAIN variables' = 1..(Len(variables) + 1) /\ Len(variables) \in Nat
    BY <1>0, <1>2, AppendIs, SeqIs
  <2> QED BY <1>0, <1>2, <1>b, <2>1, ExtendsAppend
<1>4. PICK c : c = AddLocal(d, id)
  OBVIOUS
<1>5. /\ compilers' = [compilers EXCEPT ![Len(compilers)] = c]
      /\ UNCHANGED <<captured, upvalues, code, labels, containers>>
  BY <1>a, <1>3, <1>4 DEF DeclareVariable, SetTop
<1>6. /\ IsCompiler(c) /\ c.fn = d.fn /\ c.loops = d.loops /\ Len(c.frames) = n
      /\ \A j \in 1..n : c.frames[j].container = d.frames[j].container
      /\ \A j \in 1..n : j # n => c.frames[j] = d.frames[j]
      /\ c.frames[n].locals = d.frames[n].locals \cup {id}
      /\ Scope(c) = Scope(d)
  <2>1. Declares(c, d, n, id)
    BY <1>0, <1>1, <1>4, <1>b, AddLocalIs
  <2> QED BY <2>1 DEF Declares
<1>7. PICK list : list = <<>>
  OBVIOUS
<1>8. IsSeq(list) /\ DOMAIN list = {}
  <2>1. IsSeq(list) /\ Len(list) = 0
    BY <1>7, TuplesAre
  <2>2. DOMAIN list = 1..0
    BY <2>1, SeqIs
  <2> QED BY <2>1, <2>2
<1>9. TopStep(c, list)
  BY <1>a, <1>5, <1>6, <1>7, <1>8, SameCode DEF TopStep
<1>10. Beside
  BY <1>0, <1>3, <1>5, ExtendsSelf, NothingElse
<1>11. Grows /\ UpvaluesOK' /\ ParentsOK'
  BY <1>5, <1>9, <1>10, TopGrows, TopUpvalues
<1>12. FramesOK(d)' /\ LoopsOK(d)'
  BY <1>0, <1>11, CompilerKept
<1>13. LoopsOK(c)'
  BY <1>b, <1>1, <1>6, <1>12, SameScopes
<1>14. FramesOK(c)'
  <2>1. c.frames # <<>> /\ DOMAIN c.frames = 1..n
    BY <1>1, <1>6, SeqIs DEF IsCompiler
  <2>2. \A j \in 1..n : FrameOK(c.fn, d.frames[j])'
    BY <1>1, <1>6, <1>12 DEF FramesOK
  <2>3. ASSUME NEW j \in 1..n, j # n PROVE FrameOK(c.fn, c.frames[j])'
    BY <1>6, <2>2, <2>3
  <2>4. new.container = c.frames[n].container
    BY <1>c, <1>1, <1>6
  <2>5. FrameOK(c.fn, d.frames[n])' /\ c.frames[n].container = d.frames[n].container
    BY <1>1, <1>6, <2>2
  <2>6. FrameOK(c.fn, c.frames[n])'
    BY <1>3, <1>6, <2>4, <2>5 DEF FrameOK
  <2> QED BY <2>1, <2>3, <2>6 DEF FramesOK
<1>15. FollowsOn(list, Scope(Top), Scope(c))
  BY <1>a, <1>6, <1>7, <1>8 DEF FollowsOn
<1>16. \A l \in DOMAIN labels' : l \in DOMAIN labels /\ labels'[l] = labels[l] /\ (OpenLoop(l) => OpenLoop(l)')
  BY <1>a, <1>5, <1>6, <1>9, OpenLoopKept
<1>17. ASSUME ReleaseInv PROVE ReleaseInv'
  <2>1. d.frames[n].container \in DOMAIN containers /\ Last(d.frames) = d.frames[n]
    BY <1>b, <1>0, <1>1, LastFrame DEF FramesOK, FrameOK
  <2>2. DeclaresInside
    <3>1. \A v \in DOMAIN variables' : v \notin DOMAIN variables => v = id
      <4>1. DOMAIN variables' = 1..(Len(variables) + 1) /\ DOMAIN variables = 1..Len(variables)
            /\ Len(variables) \in Nat
        BY <1>0, <1>2, AppendIs, SeqIs
      <4> QED BY <1>b, <4>1
    <3>2. variables'[id].container = Last(Top.frames).container
      BY <1>a, <1>c, <1>3, <2>1
    <3>3. variables'[id].container \in DOMAIN containers'
      BY <1>a, <1>5, <2>1, <3>2
    <3> QED BY <3>1, <3>2, <3>3 DEF DeclaresInside
  <2>3. OwnBlocks(d) /\ HiddenFrames(d)' /\ VariablesOK
    <3>1. Len(compilers) \in DOMAIN compilers /\ d = compilers[Len(compilers)]
      BY <1>a, TopIs
    <3> QED BY <1>11, <1>17, <2>2, <3>1, HiddenAll DEF ReleaseInv
  <2>4. OwnBlocks(c)
    <3>1. DOMAIN c.frames = 1..n
      BY <1>6, SeqIs DEF IsCompiler
    <3> QED BY <1>1, <1>6, <2>3, <3>1 DEF OwnBlocks
  <2>5. HiddenFrames(c)'
    <3>1. \A k \in DOMAIN d.loops : d.loops[k].contentFrameId \in 1..n
      BY <1>0, <1>1, <1>b DEF LoopsOK, LoopOK
    <3>2. \A k \in DOMAIN c.loops : k \in DOMAIN d.loops /\ c.loops[k] = d.loops[k]
              /\ c.frames[c.loops[k].contentFrameId].container
                    = d.frames[c.loops[k].contentFrameId].container
      BY <1>6, <3>1
    <3> QED BY <2>3, <3>2, HiddenSame
  <2>6. PICK scope : scope = Scope(d)
    OBVIOUS
  <2>7. Follows(list, scope, scope)'
    BY <1>7, <1>8 DEF Follows
  <2>8. captured' \subseteq DOMAIN variables'
    BY <1>3, <1>5, <2>3 DEF Extends, VariablesOK
  <2>9. \A k : HasStorage(k)' => HasStorage(k)
    BY <1>5, <1>11, <2>3, SameCaptured
  <2> QED BY <1>a, <1>6, <1>8, <1>9, <1>11, <1>16, <1>17, <2>2, <2>4, <2>5, <2>6, <2>7, <2>8, <2>9, TopRelease
<1> QED
  BY <1>a, <1>8, <1>9, <1>10, <1>11, <1>13, <1>14, <1>15, <1>16, <1>17, TopKeeps

LEMMA BeginStatementOK ==
    ASSUME NEW f, NEW s, s.op = "begin", NEW k, s.container = k,
           k \in DOMAIN containers', containers'[k] = f
    PROVE  StatementOK(f, s)'
  BY DEF StatementOK, BeginOK, UseOK, ClosureOK, JumpOK, LoopOps

LEMMA LoopStatementOK ==
    ASSUME NEW f, NEW s, s.op \in LoopOps, NEW l, s.loop = l, l \in DOMAIN labels',
           labels'[l].fn = f, StartScope(l)' \subseteq s.scope
    PROVE  StatementOK(f, s)'
  BY DEF StatementOK, BeginOK, UseOK, ClosureOK, JumpOK, LoopOps

(* New frames are for new blocks.                                           *)
NewFrames(c, d, n, m, k) ==
    /\ n = Len(d.frames) /\ m \in Nat /\ k \in Nat /\ DOMAIN containers = 1..k
    /\ IsCompiler(c) /\ Len(c.frames) = n + m
    /\ \A j \in 1..n : c.frames[j] = d.frames[j]
    /\ \A j \in 1..m : c.frames[n + j].container = k + j

LEMMA OwnExtended ==
    ASSUME NEW d, IsCompiler(d), FramesOK(d), OwnBlocks(d),
           NEW c, NEW n, NEW m, NEW k, NewFrames(c, d, n, m, k)
    PROVE  OwnBlocks(c)
<1>0. /\ n = Len(d.frames) /\ m \in Nat /\ k \in Nat /\ DOMAIN containers = 1..k
      /\ IsCompiler(c) /\ Len(c.frames) = n + m
      /\ \A j \in 1..n : c.frames[j] = d.frames[j]
      /\ \A j \in 1..m : c.frames[n + j].container = k + j
  BY DEF NewFrames
<1>1. n \in Nat /\ DOMAIN d.frames = 1..n /\ DOMAIN c.frames = 1..(n + m)
  BY <1>0, SeqIs DEF IsCompiler
<1>2. ASSUME NEW i \in 1..(n + m)
      PROVE  \/ i \in 1..n /\ c.frames[i].container \in 1..k
             \/ \E j \in 1..m : i = n + j /\ c.frames[i].container = k + j
  <2>1. CASE i \in 1..n
    BY <1>0, <1>1, <2>1 DEF FramesOK, FrameOK
  <2>2. CASE i \notin 1..n
    <3>1. i - n \in 1..m /\ i = n + (i - n)
      BY <1>0, <1>1, <2>2
    <3> QED BY <1>0, <3>1
  <2> QED BY <2>1, <2>2
<1>3. ASSUME NEW i \in 1..(n + m), NEW j \in 1..(n + m), c.frames[i].container = c.frames[j].container
      PROVE  i = j
  <2>1. CASE i \in 1..n /\ j \in 1..n
    BY <1>0, <1>1, <1>3, <2>1 DEF OwnBlocks
  <2>2. ASSUME NEW a \in 1..m, i = n + a, c.frames[i].container = k + a PROVE i = j
    <3>1. c.frames[j].container = k + a /\ k + a \notin 1..k
      BY <1>0, <1>3, <2>2
    <3>2. PICK b \in 1..m : j = n + b /\ c.frames[j].container = k + b
      BY <1>2, <3>1
    <3>3. k + a = k + b
      BY <3>1, <3>2
    <3>4. a = b
      BY <1>0, <3>3
    <3> QED BY <2>2, <3>2, <3>4
  <2>3. ASSUME NEW a \in 1..m, j = n + a, c.frames[j].container = k + a PROVE i = j
    <3>1. c.frames[i].container = k + a /\ k + a \notin 1..k
      BY <1>0, <1>3, <2>3
    <3>2. PICK b \in 1..m : i = n + b /\ c.frames[i].container = k + b
      BY <1>2, <3>1
    <3>3. k + a = k + b
      BY <3>1, <3>2
    <3>4. a = b
      BY <1>0, <3>3
    <3> QED BY <2>3, <3>2, <3>4
  <2> QED BY <1>2, <2>1, <2>2, <2>3
<1> QED
  BY <1>1, <1>3 DEF OwnBlocks

LEMMA HiddenExtended ==
    ASSUME NEW d, LoopsOK(d), IsCompiler(d), HiddenFrames(d)', NEW c, NEW n, n = Len(d.frames),
           \A j \in 1..n : c.frames[j] = d.frames[j]
    PROVE  /\ \A i \in DOMAIN d.loops : d.loops[i].depth = d.loops[i].contentFrameId + 2 =>
                 \A v \in DOMAIN variables' :
                    variables'[v].container # c.frames[d.loops[i].contentFrameId].container
           /\ c.loops = d.loops => HiddenFrames(c)'
<1>1. n \in Nat
  BY SeqIs DEF IsCompiler
<1>2. \A i \in DOMAIN d.loops : d.loops[i].contentFrameId \in 1..n
  BY <1>1 DEF LoopsOK, LoopOK
<1> QED
  BY <1>2 DEF HiddenFrames

LEMMA HiddenAppended ==
    ASSUME NEW d, LoopsOK(d), IsCompiler(d), HiddenFrames(d)', NEW n, n = Len(d.frames),
           NEW c, \A j \in 1..n : c.frames[j] = d.frames[j],
           NEW loop, c.loops = Append(d.loops, loop),
           loop.depth = loop.contentFrameId + 2 =>
              \A v \in DOMAIN variables' :
                 variables'[v].container # c.frames[loop.contentFrameId].container
    PROVE  HiddenFrames(c)'
<1>1. IsSeq(d.loops) /\ Len(d.loops) \in Nat /\ DOMAIN d.loops = 1..Len(d.loops)
  BY SeqIs DEF IsCompiler
<1>2. /\ DOMAIN c.loops = 1..(Len(d.loops) + 1) /\ c.loops[Len(d.loops) + 1] = loop
      /\ \A i \in 1..Len(d.loops) : c.loops[i] = d.loops[i]
  BY <1>1, AppendIs
<1>3. \A i \in 1..(Len(d.loops) + 1) : i \in 1..Len(d.loops) \/ i = Len(d.loops) + 1
  BY <1>1
<1>4. \A i \in DOMAIN d.loops : d.loops[i].depth = d.loops[i].contentFrameId + 2 =>
         \A v \in DOMAIN variables' :
            variables'[v].container # c.frames[d.loops[i].contentFrameId].container
  <2>1. n \in Nat
    BY SeqIs DEF IsCompiler
  <2>2. \A i \in DOMAIN d.loops : d.loops[i].contentFrameId \in 1..n
    BY <2>1 DEF LoopsOK, LoopOK
  <2> QED BY <2>2 DEF HiddenFrames
<1>5. \A i \in DOMAIN c.loops : c.loops[i] = loop \/ \E j \in DOMAIN d.loops : c.loops[i] = d.loops[j]
  BY <1>1, <1>2, <1>3
<1> QED
  BY <1>4, <1>5 DEF HiddenFrames

LEMMA NextContainer ==
    ASSUME IsSeq(containers), NEW k, k = Len(containers) + 1
    PROVE  k - 1 \in Nat /\ DOMAIN containers = 1..(k - 1) /\ k \notin DOMAIN containers
           /\ k = (k - 1) + 1
<1>1. DOMAIN containers = 1..Len(containers) /\ Len(containers) \in Nat
  BY SeqIs
<1>2. k - 1 = Len(containers) /\ k = (k - 1) + 1 /\ k \notin 1..(k - 1)
  BY <1>1
<1> QED
  BY <1>1, <1>2

LEMMA BeginRelease ==
    ASSUME NEW e, NEW k, NEW s, s = Begin(e, k), k \notin Scope(e), FramesOK(e)', NEW f, f = e.fn
    PROVE  ReleaseOK(f, s)'
<1>1. s.op = "begin" /\ s.scope = Scope(e) /\ s.container = k
  BY DEF Begin, Instruction, Statement
<1>2. s.drop = {}
  BY BeginDrops
<1>3. ScopeIs(f, s)'
  BY <1>1, ScopeNow
<1> QED
  BY <1>1, <1>2, <1>3, SilentRelease

LEMMA OpenBlockStep ==
    ASSUME CompileInv, compilers # <<>>, OpenBlock
    PROVE  CompileInv' /\ (ReleaseInv => ReleaseInv')
<1>a. PICK d, f : d = Top /\ f = Top.fn
  OBVIOUS
<1>b. PICK n, k : n = Len(d.frames) /\ k = Len(containers) + 1
  OBVIOUS
<1>0. IsCompiler(d) /\ FramesOK(d) /\ LoopsOK(d) /\ LabelsOK /\ IsSeq(variables) /\ IsSeq(containers)
  BY <1>a, TopIs DEF CompileInv, Shapes
<1>1. n \in Nat
  BY <1>0, <1>b, SeqIs DEF IsCompiler
<1>2. /\ Extends(containers, containers') /\ Len(containers') = k
      /\ k \in DOMAIN containers' /\ containers'[k] = f
  <2>1. containers' = Append(containers, f)
    BY <1>a DEF OpenBlock
  <2>2. /\ Len(containers') = Len(containers) + 1 /\ containers'[Len(containers) + 1] = f
        /\ DOMAIN containers' = 1..(Len(containers) + 1) /\ Len(containers) \in Nat
    BY <1>0, <2>1, AppendIs, SeqIs
  <2> QED BY <1>0, <1>b, <2>1, <2>2, ExtendsAppend
<1>3. PICK c : c = PushFrame(d, k)
  OBVIOUS
<1>4. PICK s : s = Begin(d, k)
  OBVIOUS
<1>5. PICK list : list = <<s>>
  OBVIOUS
<1>6. /\ compilers' = [compilers EXCEPT ![Len(compilers)] = c]
      /\ code' = [code EXCEPT ![Top.fn] = @ \o list]
      /\ UNCHANGED <<variables, captured, upvalues, labels>>
  BY <1>a, <1>2, <1>3, <1>4, <1>5 DEF OpenBlock, SetTop, EmitAll
<1>7. /\ IsCompiler(c) /\ c.fn = d.fn /\ c.loops = d.loops /\ Len(c.frames) = n + 1
      /\ \A j \in 1..n : c.frames[j] = d.frames[j]
      /\ c.frames[n + 1] = [container |-> k, locals |-> {}]
      /\ Scope(c) = Scope(d) \cup {k}
  BY <1>0, <1>3, <1>b, PushIs
<1>8. IsSeq(list) /\ Len(list) = 1 /\ list[1] = s /\ DOMAIN list = 1..1 /\ list # <<>>
  <2>1. IsSeq(list) /\ Len(list) = 1 /\ list[1] = s
    BY <1>5, TuplesAre
  <2> QED BY <2>1, SeqIs
<1>9. s.op = "begin" /\ s.scope = Scope(d) /\ s.container = k
  BY <1>4, FieldsAre
<1>10. TopStep(c, list)
  BY <1>a, <1>6, <1>7, <1>8 DEF TopStep
<1>11. Beside
  BY <1>0, <1>2, <1>6, ExtendsSelf, NothingElse
<1>12. Grows /\ UpvaluesOK' /\ ParentsOK'
  BY <1>6, <1>10, <1>11, TopGrows, TopUpvalues
<1>13. FramesOK(d)' /\ LoopsOK(d)'
  BY <1>0, <1>12, CompilerKept
<1>14. FramesOK(c)' /\ LoopsOK(c)'
  <2>1. FrameOK(c.fn, c.frames[n + 1])'
    BY <1>a, <1>2, <1>7 DEF FrameOK
  <2>2. Len(d.frames) <= Len(c.frames) /\ \A j \in 1..Len(c.frames) : j > Len(d.frames) => j = n + 1
    BY <1>1, <1>7, <1>b
  <2>3. \A j \in 1..Len(c.frames) : j > Len(d.frames) => FrameOK(c.fn, c.frames[j])'
    BY <2>1, <2>2
  <2> QED BY <1>b, <1>0, <1>7, <1>13, <2>2, <2>3, ExtendOK
<1>15. FollowsOn(list, Scope(Top), Scope(c))
  BY <1>a, <1>7, <1>8, <1>9 DEF FollowsOn, After
<1>16. \A l \in DOMAIN labels' : l \in DOMAIN labels /\ labels'[l] = labels[l] /\ (OpenLoop(l) => OpenLoop(l)')
  BY <1>a, <1>6, <1>7, <1>10, OpenLoopKept
<1>17. \A j \in DOMAIN list : StatementOK(f, list[j])'
  <2>1. StatementOK(f, s)'
    BY <1>2, <1>9, BeginStatementOK
  <2> QED BY <1>8, <2>1
<1>18. ASSUME ReleaseInv PROVE ReleaseInv'
  <2>1. k - 1 \in Nat /\ DOMAIN containers = 1..(k - 1) /\ k \notin DOMAIN containers /\ k = (k - 1) + 1
    <3>1. DOMAIN containers = 1..Len(containers) /\ Len(containers) \in Nat
      BY <1>0, SeqIs
    <3>2. k - 1 = Len(containers) /\ k = (k - 1) + 1 /\ k \notin 1..(k - 1)
      BY <1>b, <3>1
    <3> QED BY <3>1, <3>2
  <2>2. DeclaresInside
    BY <1>6 DEF DeclaresInside
  <2>3. OwnBlocks(d) /\ HiddenFrames(d)' /\ VariablesOK
    <3>1. Len(compilers) \in DOMAIN compilers /\ d = compilers[Len(compilers)]
      BY <1>a, TopIs
    <3> QED BY <1>12, <1>18, <2>2, <3>1, HiddenAll DEF ReleaseInv
  <2>4. OwnBlocks(c)
    <3>1. PICK h, m : h = k - 1 /\ m = 1
      OBVIOUS
    <3>2. \A j \in 1..m : c.frames[n + j].container = h + j
      BY <1>7, <2>1, <3>1
    <3>3. h \in Nat /\ m \in Nat /\ DOMAIN containers = 1..h /\ Len(c.frames) = n + m
      BY <1>7, <2>1, <3>1
    <3>4. NewFrames(c, d, n, m, h)
      BY <1>b, <1>7, <3>2, <3>3 DEF NewFrames
    <3> QED BY <1>0, <2>3, <3>4, OwnExtended
  <2>5. HiddenFrames(c)'
    BY <1>b, <1>0, <1>7, <2>3, HiddenExtended
  <2>6. PICK from, to : from = Scope(d) /\ to = Scope(c)
    OBVIOUS
  <2>7. to = from \cup {k} /\ k \notin from
    BY <1>0, <1>7, <2>1, <2>6, ScopeOwn
  <2>8. Leaves(s, to)'
    BY <1>9, <2>6, <2>7 DEF Leaves, After
  <2>9. Follows(list, from, to)'
    BY <1>8, <1>9, <2>6, <2>8 DEF Follows
  <2>10. ReleaseOK(f, s)'
    BY <1>a, <1>4, <1>13, <2>6, <2>7, BeginRelease
  <2>11. captured' \subseteq DOMAIN variables'
    BY <1>6, <2>3 DEF VariablesOK
  <2>12. \A b : HasStorage(b)' => HasStorage(b)
    BY <1>6, <1>12, <2>3, SameCaptured
  <2>13. \A j \in DOMAIN list : ReleaseOK(f, list[j])'
    BY <1>8, <2>10
  <2>14. \A b \in to : b \in from \/ b \notin DOMAIN containers
    BY <2>1, <2>7
  <2> QED BY <1>a, <1>10, <1>12, <1>16, <1>18, <2>2, <2>4, <2>5, <2>6, <2>9, <2>11, <2>12, <2>13,
             <2>14, TopRelease
<1> QED
  BY <1>a, <1>10, <1>11, <1>12, <1>14, <1>15, <1>16, <1>17, <1>18, TopKeeps

(* The loops of a compiler nest.                                            *)
LEMMA LoopsNest ==
    ASSUME NEW c, IsCompiler(c), LoopsOK(c), c.loops # <<>>, NEW loop, loop = Last(c.loops)
    PROVE  /\ Len(c.loops) \in DOMAIN c.loops /\ loop = c.loops[Len(c.loops)] /\ LoopOK(c, loop)
           /\ \A k \in 1..(Len(c.loops) - 1) :
                /\ c.loops[k].depth \in Nat /\ c.loops[k].depth <= loop.contentFrameId
                /\ loop.depth = loop.contentFrameId + 2 => c.loops[k].depth < loop.contentFrameId
                /\ c.loops[k].id # loop.id
<1>1. /\ IsSeq(c.loops) /\ Len(c.loops) \in Nat /\ Len(c.loops) >= 1
      /\ DOMAIN c.loops = 1..Len(c.loops) /\ loop = c.loops[Len(c.loops)]
  BY SeqIs, FrontIs DEF IsCompiler
<1>2. \A k \in 1..(Len(c.loops) - 1) : k \in DOMAIN c.loops /\ k < Len(c.loops)
  BY <1>1
<1>3. Len(c.loops) \in DOMAIN c.loops
  BY <1>1
<1>4. \A k \in DOMAIN c.loops : LoopOK(c, c.loops[k]) /\ c.loops[k].depth \in Nat
  BY DEF LoopsOK, LoopOK
<1> QED
  BY <1>1, <1>2, <1>3, <1>4 DEF LoopsOK

(* A cleanup behind a block of the function's, when that block is closed    *)
(* with the frames further in: it releases what leaves the scope.           *)
LEMMA CutCleanup ==
    ASSUME CompileInv, ReleaseInv, NEW d, d = Top, NEW c, NEW list, TopStep(c, list), Grows,
           captured' = captured, variables' = variables, containers' = containers,
           NEW n, n = Len(d.frames), NEW m \in 1..n, NEW e, IsCompiler(e), Len(e.frames) = m,
           \A j \in 1..m : e.frames[j] = d.frames[j],
           NEW next, next = ScopeUpTo(d, m - 1), Scope(c) \subseteq next,
           NEW s, s = Cleanup(e), NEW f, f = d.fn
    PROVE  Leaves(s, next)' /\ ReleaseOK(f, s)' /\ s.scope = ScopeUpTo(d, m)
<1>1. s.op = "relocate" /\ s.scope = Scope(e) /\ s.drop = DiscardLocals(e, m)
  BY CleanupDrops
<1>2. compilers # <<>> /\ VariablesOK
  BY DEF TopStep, ReleaseInv
<1>3. /\ IsCompiler(d) /\ FramesOK(d) /\ OwnBlocks(d)
      /\ Len(compilers) \in DOMAIN compilers /\ d = compilers[Len(compilers)]
  BY <1>2, TopIs DEF ReleaseInv
<1>4. /\ n \in Nat /\ DOMAIN d.frames = 1..n /\ DOMAIN e.frames = 1..m /\ m \in Nat
      /\ m <= n
  BY <1>3, SeqIs DEF IsCompiler
<1>a. /\ \A j \in 1..m : j \in 1..n
      /\ \A j \in 1..m : j \in 1..(m - 1) \/ j = m
      /\ \A j \in 1..(m - 1) : j \in 1..m /\ j \in 1..n /\ j # m
  <2>1. \A j \in 1..m : j \in 1..n
    BY <1>4
  <2>2. \A j \in 1..m : j \in 1..(m - 1) \/ j = m
    BY <1>4
  <2>3. \A j \in 1..(m - 1) : j \in 1..m /\ j # m
    BY <1>4
  <2> QED BY <2>1, <2>2, <2>3
<1>5. PICK b : b = d.frames[m].container
  OBVIOUS
<1>6. s.scope = ScopeUpTo(d, m) /\ s.scope = next \cup {b}
  <2>1. Scope(e) = ScopeUpTo(d, m)
    <3>1. \A j \in 1..m : e.frames[j].container = d.frames[j].container
      OBVIOUS
    <3>2. Scope(e) = {e.frames[j].container : j \in 1..m}
      BY <1>4 DEF Scope
    <3> QED BY <3>1, <3>2 DEF ScopeUpTo
  <2>2. ScopeUpTo(d, m) = ScopeUpTo(d, m - 1) \cup {b}
    BY <1>4, <1>a, <1>5 DEF ScopeUpTo
  <2> QED BY <1>1, <2>1, <2>2
<1>7. b \notin next
  <2> SUFFICES ASSUME NEW j \in 1..(m - 1), d.frames[j].container = b PROVE FALSE
    BY DEF ScopeUpTo
  <2>1. j \in 1..n /\ m \in 1..n /\ j # m
    BY <1>4, <1>a
  <2> QED BY <1>3, <1>4, <1>a, <1>5, <2>1 DEF OwnBlocks
<1>8. \A k : k \in s.drop <=> HasStorage(b) /\ k = b
  <2>1. \A k : k \in s.drop <=> HasStorage(k) /\ \E i \in m..m : e.frames[i].container = k
    BY <1>1, DiscardIs
  <2>2. \A i : i \in m..m <=> i = m
    BY <1>4, <1>a
  <2>3. m \in 1..m /\ e.frames[m] = d.frames[m]
    BY <1>4, <1>a
  <2> QED BY <1>5, <2>1, <2>2, <2>3
<1>9. \A k : HasStorage(k)' <=> HasStorage(k)
  BY SameStorage
<1>10. b \in DOMAIN containers /\ containers[b] = f
  BY <1>3, <1>4, <1>a, <1>5 DEF FramesOK, FrameOK
<1>11. /\ DOMAIN compilers' = DOMAIN compilers /\ compilers'[Len(compilers)] = c
       /\ \A i \in DOMAIN compilers : i # Len(compilers) => compilers'[i] = compilers[i]
  BY TopEffect
<1>12. ASSUME NEW i \in DOMAIN compilers', NEW compiler, compiler = compilers'[i]
       PROVE  b \notin Scope(compiler)
  <2>1. CASE i = Len(compilers)
    BY <1>7, <1>11, <1>12, <2>1
  <2>2. CASE i # Len(compilers)
    <3>1. compiler = compilers[i] /\ i \in DOMAIN compilers
      BY <1>11, <1>12, <2>2
    <3>2. FramesOK(compiler) /\ compiler.fn # f
      BY <1>3, <2>2, <3>1 DEF CompileInv, OpenFunctions
    <3> QED BY <1>10, <3>2, ScopeOwn
  <2> QED BY <2>1, <2>2
<1>13. Done(b)'
  <2>1. \A i \in DOMAIN compilers' : Scope(compilers[i])' = Scope(compilers'[i])
    BY DEF Scope
  <2>2. b \in DOMAIN containers'
    BY <1>10
  <2> QED BY <1>12, <2>1, <2>2 DEF Done
<1>14. Leaves(s, next)'
  BY <1>1, <1>6, <1>7, <1>8, <1>9, <1>13 DEF Leaves
<1>15. ScopeIs(f, s)'
  <2>1. ASSUME NEW k \in s.scope PROVE k \in DOMAIN containers' /\ containers'[k] = f
    <3>1. PICK j \in 1..m : k = d.frames[j].container
      BY <1>6, <2>1 DEF ScopeUpTo
    <3> QED BY <1>3, <1>4, <1>a, <3>1 DEF FramesOK, FrameOK
  <2> QED BY <2>1 DEF ScopeIs
<1>16. ReleaseOK(f, s)'
  <2>1. DropIs(s)'
    BY <1>6, <1>8, <1>9 DEF DropIs
  <2> QED BY <1>1, <1>15, <2>1 DEF ReleaseOK, ExitIs, TurnIs, ReturnIs, EndIs, EntryIs
<1> QED
  BY <1>6, <1>14, <1>16

LEMMA CutRelease ==
    ASSUME NEW d, IsCompiler(d), LoopsOK(d), OwnBlocks(d), HiddenFrames(d)', NEW c, IsCompiler(c),
           NEW n, n = Len(d.frames), NEW m, m = Len(c.frames), m <= n,
           \A j \in 1..m : c.frames[j] = d.frames[j],
           \A j \in DOMAIN c.loops :
              j \in DOMAIN d.loops /\ c.loops[j] = d.loops[j] /\ d.loops[j].depth <= m
    PROVE  OwnBlocks(c) /\ HiddenFrames(c)'
<1>1. n \in Nat /\ m \in Nat /\ DOMAIN d.frames = 1..n /\ DOMAIN c.frames = 1..m
      /\ \A j \in 1..m : j \in 1..n
  <2>1. IsSeq(d.frames) /\ IsSeq(c.frames)
    BY DEF IsCompiler
  <2>2. n \in Nat /\ DOMAIN d.frames = 1..n
    BY <2>1, SeqIs
  <2>3. m \in Nat /\ DOMAIN c.frames = 1..m
    BY <2>1, SeqIs
  <2> QED BY <2>2, <2>3
<1>2. OwnBlocks(c)
  BY <1>1 DEF OwnBlocks
<1>3. \A j \in DOMAIN c.loops : d.loops[j].contentFrameId \in 1..m
  BY <1>1 DEF LoopsOK, LoopOK
<1>4. HiddenFrames(c)'
  <2>1. ASSUME NEW j \in DOMAIN c.loops
        PROVE  /\ j \in DOMAIN d.loops /\ c.loops[j] = d.loops[j]
               /\ c.frames[c.loops[j].contentFrameId].container
                     = d.frames[c.loops[j].contentFrameId].container
    <3>1. j \in DOMAIN d.loops /\ c.loops[j] = d.loops[j]
      OBVIOUS
    <3>2. d.loops[j].contentFrameId \in 1..m
      BY <1>3
    <3>3. c.frames[d.loops[j].contentFrameId] = d.frames[d.loops[j].contentFrameId]
      BY <3>2
    <3> QED BY <3>1, <3>3
  <2> QED BY <2>1, HiddenSame
<1> QED
  BY <1>2, <1>4

LEMMA CloseBlockStep ==
    ASSUME CompileInv, compilers # <<>>, CloseBlock
    PROVE  CompileInv' /\ (ReleaseInv => ReleaseInv')
<1>a. PICK d, f : d = Top /\ f = Top.fn
  OBVIOUS
<1>b. PICK n : n = Len(d.frames)
  OBVIOUS
<1>0. IsCompiler(d) /\ FramesOK(d) /\ LoopsOK(d) /\ LabelsOK /\ IsSeq(variables) /\ IsSeq(containers)
  BY <1>a, TopIs DEF CompileInv, Shapes
<1>1. n \in Nat /\ n >= 1 /\ IsSeq(d.frames) /\ d.frames # <<>>
  <2>1. IsSeq(d.frames) /\ d.frames # <<>>
    BY <1>0 DEF IsCompiler, FramesOK
  <2> QED BY <1>b, <2>1, SeqIs
<1>2. n >= 2 /\ \A k \in 1..Len(d.loops) : d.loops[k].depth <= n - 1
  <2>0. n # BodyDepth(d)
    BY <1>a, <1>b DEF CloseBlock, AtBodyEnd
  <2>1. CASE d.loops = <<>>
    BY <1>1, <2>0, <2>1 DEF BodyDepth
  <2>2. CASE d.loops # <<>>
    <3>1. PICK loop : loop = Last(d.loops)
      OBVIOUS
    <3>2. LoopOK(d, loop) /\ loop = d.loops[Len(d.loops)]
          /\ \A k \in 1..(Len(d.loops) - 1) : d.loops[k].depth \in Nat /\ d.loops[k].depth <= loop.contentFrameId
      BY <1>0, <2>2, <3>1, LoopsNest
    <3>3. loop.depth # n
      BY <2>0, <2>2, <3>1 DEF BodyDepth
    <3>4. loop.contentFrameId \in Nat /\ loop.depth \in Nat /\ 1 <= loop.contentFrameId
          /\ loop.contentFrameId < loop.depth /\ loop.depth <= n
      BY <1>b, <3>2 DEF LoopOK
    <3>5. loop.depth <= n - 1 /\ n >= 2
      BY <1>1, <3>3, <3>4
    <3>6. Len(d.loops) \in Nat
      BY <1>0, SeqIs DEF IsCompiler
    <3>7. \A k \in 1..Len(d.loops) : k \in 1..(Len(d.loops) - 1) \/ k = Len(d.loops)
      BY <3>6
    <3>8. \A k \in 1..(Len(d.loops) - 1) : d.loops[k].depth <= n - 1
      BY <1>1, <3>2, <3>4
    <3> QED BY <3>2, <3>5, <3>7, <3>8
  <2> QED BY <2>1, <2>2
<1>3. PICK c : c = PopFrame(d)
  OBVIOUS
<1>4. PICK s : s = Cleanup(d)
  OBVIOUS
<1>5. PICK list : list = <<s>>
  OBVIOUS
<1>6. /\ compilers' = [compilers EXCEPT ![Len(compilers)] = c]
      /\ code' = [code EXCEPT ![Top.fn] = @ \o list]
      /\ UNCHANGED <<variables, captured, upvalues, labels, containers>>
  BY <1>a, <1>3, <1>4, <1>5 DEF CloseBlock, SetTop, EmitAll
<1>7. /\ IsCompiler(c) /\ c.fn = d.fn /\ c.loops = d.loops /\ Len(c.frames) = n - 1
      /\ \A j \in 1..(n - 1) : c.frames[j] = d.frames[j]
      /\ Scope(c) \subseteq Scope(d)
  BY <1>0, <1>1, <1>3, <1>b, PopIs
<1>8. IsSeq(list) /\ Len(list) = 1 /\ list[1] = s /\ DOMAIN list = 1..1 /\ list # <<>>
  <2>1. IsSeq(list) /\ Len(list) = 1 /\ list[1] = s
    BY <1>5, TuplesAre
  <2> QED BY <2>1, SeqIs
<1>9. s.op = "relocate" /\ s.scope = Scope(d)
  BY <1>4, FieldsAre
<1>10. TopStep(c, list)
  BY <1>a, <1>6, <1>7, <1>8 DEF TopStep
<1>11. Beside
  BY <1>0, <1>6, ExtendsSelf, NothingElse
<1>12. Grows /\ UpvaluesOK' /\ ParentsOK'
  BY <1>6, <1>10, <1>11, TopGrows, TopUpvalues
<1>13. FramesOK(d)' /\ LoopsOK(d)'
  BY <1>0, <1>12, CompilerKept
<1>14. FramesOK(c)' /\ LoopsOK(c)'
  <2>1. Len(c.frames) <= Len(d.frames) /\ Len(c.frames) >= 1
    BY <1>1, <1>2, <1>7, <1>b
  <2>2. Len(c.loops) <= Len(d.loops)
    BY <1>0, <1>7, SeqIs DEF IsCompiler
  <2> QED BY <1>0, <1>2, <1>7, <1>13, <2>1, <2>2, CutOK
<1>15. FollowsOn(list, Scope(Top), Scope(c))
  BY <1>a, <1>7, <1>8, <1>9 DEF FollowsOn, After
<1>16. \A l \in DOMAIN labels' : l \in DOMAIN labels /\ labels'[l] = labels[l] /\ (OpenLoop(l) => OpenLoop(l)')
  BY <1>a, <1>6, <1>7, <1>10, OpenLoopKept
<1>17. \A j \in DOMAIN list : StatementOK(f, list[j])'
  BY <1>8, <1>9, PlainOK
<1>18. ASSUME ReleaseInv PROVE ReleaseInv'
  <2>1. OwnBlocks(d) /\ HiddenFrames(d)' /\ VariablesOK /\ DeclaresInside
    <3>1. Len(compilers) \in DOMAIN compilers /\ d = compilers[Len(compilers)]
      BY <1>a, TopIs
    <3>2. DeclaresInside
      BY <1>6 DEF DeclaresInside
    <3> QED BY <1>12, <1>18, <3>1, <3>2, HiddenAll DEF ReleaseInv
  <2>2. PICK from, to, m : from = Scope(d) /\ to = Scope(c) /\ m = n - 1
    OBVIOUS
  <2>3. to = ScopeUpTo(d, n - 1) /\ n \in 1..n
    BY <1>b, <1>0, <1>1, <1>3, <2>2, PopIs
  <2>4. Leaves(s, to)' /\ ReleaseOK(f, s)'
    <3>1. Len(d.frames) = n /\ \A j \in 1..n : d.frames[j] = d.frames[j]
      BY <1>b
    <3> QED BY <1>a, <1>b, <1>0, <1>4, <1>6, <1>10, <1>12, <1>18, <2>2, <2>3, <3>1, CutCleanup
  <2>5. OwnBlocks(c) /\ HiddenFrames(c)'
    <3>1. DOMAIN d.loops = 1..Len(d.loops)
      BY <1>0, SeqIs DEF IsCompiler
    <3>2. m = Len(c.frames) /\ m <= n /\ \A j \in 1..m : c.frames[j] = d.frames[j]
      BY <1>1, <1>7, <2>2
    <3>3. \A j \in DOMAIN c.loops :
              j \in DOMAIN d.loops /\ c.loops[j] = d.loops[j] /\ d.loops[j].depth <= m
      BY <1>2, <1>7, <2>2, <3>1
    <3> QED BY <1>b, <1>0, <1>7, <2>1, <3>2, <3>3, CutRelease
  <2>6. Follows(list, from, to)'
    BY <1>8, <1>9, <2>2, <2>4 DEF Follows
  <2>7. captured' \subseteq DOMAIN variables'
    BY <1>6, <2>1 DEF VariablesOK
  <2>8. \A b : HasStorage(b)' => HasStorage(b)
    BY <1>6, SameStorage
  <2>9. \A j \in DOMAIN list : ReleaseOK(f, list[j])'
    BY <1>8, <2>4
  <2>10. \A b \in to : b \in from \/ b \notin DOMAIN containers
    BY <1>7, <2>2
  <2> QED BY <1>a, <1>10, <1>12, <1>16, <1>18, <2>1, <2>2, <2>5, <2>6, <2>7, <2>8, <2>9, <2>10,
             TopRelease
<1> QED
  BY <1>a, <1>10, <1>11, <1>12, <1>14, <1>15, <1>16, <1>17, <1>18, TopKeeps

LEMMA NewLoopOK ==
    ASSUME NEW d, IsCompiler(d), LoopsOK(d), NEW c, NEW loop, c.loops = Append(d.loops, loop),
           NEW m \in Nat,
           \A k \in DOMAIN d.loops : LoopOK(c, d.loops[k])' /\ d.loops[k].depth \in Nat
                                     /\ d.loops[k].depth <= m /\ d.loops[k].id # loop.id,
           LoopOK(c, loop)', m <= loop.contentFrameId,
           loop.depth = loop.contentFrameId + 2 => m < loop.contentFrameId
    PROVE  LoopsOK(c)'
<1>1. IsSeq(d.loops) /\ Len(d.loops) \in Nat /\ DOMAIN d.loops = 1..Len(d.loops)
  BY SeqIs DEF IsCompiler
<1>2. /\ DOMAIN c.loops = 1..(Len(d.loops) + 1) /\ c.loops[Len(d.loops) + 1] = loop
      /\ \A k \in 1..Len(d.loops) : c.loops[k] = d.loops[k]
  BY <1>1, AppendIs
<1>3. \A k \in 1..(Len(d.loops) + 1) : k \in 1..Len(d.loops) \/ k = Len(d.loops) + 1
  BY <1>1
<1>4. \A k \in DOMAIN c.loops : LoopOK(c, c.loops[k])'
  BY <1>1, <1>2, <1>3
<1>5. loop.contentFrameId \in Nat
  BY DEF LoopOK
<1>6. ASSUME NEW j \in DOMAIN c.loops, NEW k \in DOMAIN c.loops, j < k
      PROVE  /\ c.loops[j].depth <= c.loops[k].contentFrameId
             /\ c.loops[k].depth = c.loops[k].contentFrameId + 2 =>
                   c.loops[j].depth < c.loops[k].contentFrameId
             /\ c.loops[j].id # c.loops[k].id
  <2>1. j \in 1..Len(d.loops) /\ c.loops[j] = d.loops[j]
    BY <1>1, <1>2, <1>6
  <2>2. CASE k = Len(d.loops) + 1
    <3>1. c.loops[k] = loop
      BY <1>2, <2>2
    <3>2. d.loops[j].depth \in Nat /\ d.loops[j].depth <= m /\ d.loops[j].id # loop.id
      BY <1>1, <2>1
    <3> QED BY <1>5, <2>1, <3>1, <3>2
  <2>3. CASE k \in 1..Len(d.loops)
    BY <1>1, <1>2, <1>6, <2>1, <2>3 DEF LoopsOK
  <2> QED BY <1>2, <1>3, <2>2, <2>3
<1> QED
  BY <1>4, <1>6 DEF LoopsOK

(* A step that gives out one more label.                                    *)
NewLabel(l, label) ==
    /\ l \in DOMAIN labels' /\ labels'[l] = label /\ l \notin DOMAIN labels
    /\ \A k \in DOMAIN labels : labels'[k] = labels[k]
    /\ \A k \in DOMAIN labels' : k \in DOMAIN labels \/ k = l

LEMMA LabelAdded ==
    ASSUME CompileInv, Extends(variables, variables'), Extends(containers, containers'),
           captured \subseteq captured', upvalues' = upvalues,
           NEW label, IsLabel(label), labels' = Append(labels, label), NEW l, l = Len(labels) + 1
    PROVE  Beside /\ NewLabel(l, label)
<1>1. /\ IsSeq(labels) /\ IsSeq(upvalues) /\ \A k \in DOMAIN labels : IsLabel(labels[k])
  BY DEF CompileInv, Shapes, IsLabel
<1>2. /\ IsSeq(labels') /\ DOMAIN labels' = 1..(Len(labels) + 1)
      /\ \A k \in 1..Len(labels) : labels'[k] = labels[k]
      /\ labels'[l] = label
      /\ Len(labels) \in Nat /\ DOMAIN labels = 1..Len(labels)
  BY <1>1, AppendIs, SeqIs
<1>3. /\ l \in DOMAIN labels' /\ l \notin DOMAIN labels /\ DOMAIN labels \subseteq DOMAIN labels'
      /\ \A k \in DOMAIN labels' : k \in DOMAIN labels \/ k = l
  BY <1>2
<1>4. \A k \in DOMAIN labels' : IsLabel(labels'[k])
  BY <1>1, <1>2, <1>3
<1> QED
  BY <1>1, <1>2, <1>3, <1>4 DEF Beside, NewLabel

(* The loops that were open, and the one a step opens, are open behind it.  *)
LEMMA LoopOpened ==
    ASSUME CompileInv, NEW c, NEW list, TopStep(c, list), Beside, NEW loop,
           c.loops = Append(Top.loops, loop), NEW label, NewLabel(loop.id, label),
           label.fn \in DOMAIN code', label.start \in DOMAIN code'[label.fn]
    PROVE  \A l \in DOMAIN labels' :
              \/ LabelOK(l)' /\ OpenLoop(l)'
              \/ l \in DOMAIN labels /\ labels'[l] = labels[l] /\ (OpenLoop(l) => OpenLoop(l)')
<1>1. compilers # <<>> /\ IsSeq(Top.loops) /\ Len(Top.loops) \in Nat /\ DOMAIN Top.loops = 1..Len(Top.loops)
  BY TopIs, SeqIs DEF TopStep, IsCompiler
<1>2. /\ DOMAIN c.loops = 1..(Len(Top.loops) + 1) /\ c.loops[Len(Top.loops) + 1] = loop
      /\ \A k \in 1..Len(Top.loops) : c.loops[k] = Top.loops[k]
  BY <1>1, AppendIs
<1>3. Len(Top.loops) + 1 \in DOMAIN c.loops /\ DOMAIN Top.loops \subseteq DOMAIN c.loops
  BY <1>1, <1>2
<1>4. ASSUME NEW l \in DOMAIN labels PROVE labels'[l] = labels[l] /\ (OpenLoop(l) => OpenLoop(l)')
  <2>1. \A k \in DOMAIN Top.loops : Top.loops[k].id = l => \E j \in DOMAIN c.loops : c.loops[j].id = l
    BY <1>1, <1>2, <1>3
  <2> QED BY <2>1, OpenLoopKept DEF NewLabel
<1>5. ASSUME NEW l, l = loop.id PROVE LabelOK(l)' /\ OpenLoop(l)'
  <2>1. Len(compilers) \in DOMAIN compilers' /\ compilers'[Len(compilers)] = c
    BY <1>1, TopIs, TopEffect
  <2>2. OpenLoop(l)'
    BY <1>2, <1>3, <1>5, <2>1 DEF OpenLoop
  <2>3. labels'[l] = label
    BY <1>5 DEF NewLabel
  <2> QED BY <2>2, <2>3 DEF LabelOK
<1> QED
  BY <1>4, <1>5 DEF NewLabel

(* What the step appended, by its place.                                    *)
LEMMA TopAppended ==
    ASSUME CompileInv, NEW c, NEW list, TopStep(c, list), NEW f, f = Top.fn,
           NEW k \in DOMAIN list, NEW p, p = Len(code[f]) + k
    PROVE  f \in DOMAIN code' /\ p \in DOMAIN code'[f] /\ code'[f][p] = list[k]
<1>1. f \in DOMAIN code' /\ Appended(code[f], list, code'[f])
  <2>1. compilers # <<>>
    BY DEF TopStep
  <2> QED BY <2>1, TopIs, TopEffect
<1>2. Len(code[f]) \in Nat /\ IsSeq(list) /\ Len(list) \in Nat /\ DOMAIN list = 1..Len(list)
  BY TopIs, SeqIs DEF TopStep
<1>3. k \in 1..Len(list) /\ p \in 1..(Len(code[f]) + Len(list))
  BY <1>2
<1> QED
  BY <1>1, <1>2, <1>3 DEF Appended

LEMMA PairIs ==
    ASSUME NEW s, NEW t, NEW list, list = <<s, t>>
    PROVE  /\ IsSeq(list) /\ Len(list) = 2 /\ list[1] = s /\ list[2] = t
           /\ DOMAIN list = {1, 2} /\ list # <<>>
<1>1. IsSeq(list) /\ Len(list) = 2 /\ list[1] = s /\ list[2] = t
  BY TuplesAre
<1>2. DOMAIN list = 1..2 /\ list # <<>>
  BY <1>1, SeqIs
<1> QED
  BY <1>1, <1>2

LEMMA WhileStep ==
    ASSUME CompileInv, compilers # <<>>, WhileStatement
    PROVE  CompileInv' /\ (ReleaseInv => ReleaseInv')
<1>a. PICK d, f : d = Top /\ f = Top.fn
  OBVIOUS
<1>b. PICK n, k, l : n = Len(d.frames) /\ k = Len(containers) + 1 /\ l = Len(labels) + 1
  OBVIOUS
<1>c. PICK loop, label : /\ loop = [id |-> l, contentFrameId |-> n, depth |-> n + 1]
                         /\ label = [fn |-> f, start |-> Len(code[f]) + 1, end |-> 0]
  OBVIOUS
<1>0. /\ IsCompiler(d) /\ FramesOK(d) /\ LoopsOK(d) /\ LabelsOK /\ IsSeq(variables) /\ IsSeq(containers)
      /\ IsSeq(d.frames) /\ d.frames # <<>>
  BY <1>a, TopIs DEF CompileInv, Shapes, IsCompiler, FramesOK
<1>1. n \in Nat /\ n >= 1 /\ DOMAIN d.frames = 1..n
  BY <1>0, <1>b, SeqIs
<1>2. /\ Extends(containers, containers') /\ k \in DOMAIN containers' /\ containers'[k] = f
  <2>1. containers' = Append(containers, f)
    BY <1>a DEF WhileStatement
  <2>2. /\ containers'[Len(containers) + 1] = f
        /\ DOMAIN containers' = 1..(Len(containers) + 1) /\ Len(containers) \in Nat
    BY <1>0, <2>1, AppendIs, SeqIs
  <2> QED BY <1>0, <1>b, <2>1, <2>2, ExtendsAppend
<1>3. PICK a, c : a = StartLoop(d, 1) /\ c = PushFrame(a, k)
  OBVIOUS
<1>4. PICK s, t : s = InLoop("test", d, l) /\ t = Begin(d, k)
  OBVIOUS
<1>5. PICK list : list = <<s, t>>
  OBVIOUS
<1>6. /\ compilers' = [compilers EXCEPT ![Len(compilers)] = c]
      /\ code' = [code EXCEPT ![Top.fn] = @ \o list]
      /\ labels' = Append(labels, label)
      /\ UNCHANGED <<variables, captured, upvalues>>
  BY <1>a, <1>b, <1>c, <1>3, <1>4, <1>5 DEF WhileStatement, SetTop, EmitAll
<1>7. IsCompiler(a) /\ a.fn = f /\ a.frames = d.frames /\ a.loops = Append(d.loops, loop)
  <2>1. IsCompiler(a) /\ a = [fn |-> d.fn, frames |-> d.frames, loops |-> Append(d.loops, loop)]
    BY <1>0, <1>3, <1>b, <1>c, StartLoopIs
  <2> QED BY <1>a, <2>1
<1>8. /\ IsCompiler(c) /\ c.fn = f /\ c.loops = Append(d.loops, loop) /\ Len(c.frames) = n + 1
      /\ \A j \in 1..n : c.frames[j] = d.frames[j]
      /\ c.frames[n + 1] = [container |-> k, locals |-> {}]
      /\ Scope(c) = Scope(d) \cup {k}
  <2>1. /\ IsCompiler(c) /\ c.fn = a.fn /\ c.loops = a.loops /\ Len(c.frames) = Len(a.frames) + 1
        /\ \A j \in 1..Len(a.frames) : c.frames[j] = a.frames[j]
        /\ c.frames[Len(a.frames) + 1] = [container |-> k, locals |-> {}]
        /\ Scope(c) = Scope(a) \cup {k}
    BY <1>3, <1>7, PushIs
  <2>2. Scope(a) = Scope(d)
    BY <1>7 DEF Scope
  <2> QED BY <1>b, <1>7, <2>1, <2>2
<1>9. /\ IsSeq(list) /\ Len(list) = 2 /\ list[1] = s /\ list[2] = t
      /\ DOMAIN list = {1, 2} /\ list # <<>>
  BY <1>5, PairIs
<1>10. /\ s.op = "test" /\ s.scope = Scope(d) /\ s.loop = l
       /\ t.op = "begin" /\ t.scope = Scope(d) /\ t.container = k
  BY <1>4, FieldsAre
<1>11. TopStep(c, list)
  BY <1>a, <1>6, <1>8, <1>9 DEF TopStep
<1>12. Beside /\ NewLabel(l, label)
  BY <1>0, <1>2, <1>6, <1>b, <1>c, ExtendsSelf, LabelAdded DEF IsLabel
<1>13. Grows /\ UpvaluesOK' /\ ParentsOK'
  BY <1>6, <1>11, <1>12, TopGrows, TopUpvalues
<1>14. FramesOK(d)' /\ LoopsOK(d)'
  BY <1>0, <1>13, CompilerKept
<1>15. /\ f \in DOMAIN code' /\ label.fn = f /\ label.start \in DOMAIN code'[f]
       /\ code'[f][label.start] = s /\ labels'[l] = label /\ l \in DOMAIN labels'
  <2>1. f \in DOMAIN code' /\ label.start \in DOMAIN code'[f] /\ code'[f][label.start] = list[1]
    BY <1>a, <1>c, <1>9, <1>11, TopAppended
  <2> QED BY <1>9, <1>12, <1>c, <2>1 DEF NewLabel
<1>16. StartScope(l)' = Scope(d)
  BY <1>10, <1>15 DEF StartScope
<1>17. /\ FramesOK(c)'
       /\ \A j \in DOMAIN d.loops : LoopOK(c, d.loops[j])' /\ d.loops[j].depth <= n
  <2>1. FrameOK(c.fn, c.frames[n + 1])'
    BY <1>2, <1>8 DEF FrameOK
  <2>a. PICK m : m = n + 1
    OBVIOUS
  <2>b. Len(d.frames) = n /\ Len(c.frames) = m
    BY <1>8, <1>b, <2>a
  <2>c. n <= m /\ \A j \in 1..m : j > n => j = m
    BY <1>1, <2>a
  <2>2. Len(d.frames) <= Len(c.frames) /\ \A j \in 1..Len(c.frames) : j > Len(d.frames) => j = m
    BY <2>b, <2>c
  <2>3. \A j \in 1..Len(c.frames) : j > Len(d.frames) => FrameOK(c.fn, c.frames[j])'
    BY <2>1, <2>2, <2>a
  <2> QED BY <1>a, <1>b, <1>0, <1>8, <1>14, <2>2, <2>3, ExtendOK
<1>18. LoopOK(c, loop)'
  <2>a. DOMAIN d.frames = 1..n /\ \A j \in 1..n : c.frames[j].container = d.frames[j].container
    BY <1>1, <1>8
  <2>1. ScopeUpTo(c, n) = Scope(d)
    BY <2>a DEF ScopeUpTo, Scope
  <2>2. loop.id = l /\ loop.contentFrameId = n /\ loop.depth = n + 1
    BY <1>c
  <2>3. n \in Nat /\ n + 1 \in Nat /\ 1 <= n /\ n < n + 1 /\ n + 1 <= n + 2 /\ n + 1 # n + 2
        /\ n + 1 <= Len(c.frames)
    BY <1>1, <1>8
  <2> QED BY <1>8, <1>15, <1>16, <2>1, <2>2, <2>3 DEF LoopOK
<1>19. LoopsOK(c)'
  <2>1. \A j \in DOMAIN d.loops : d.loops[j].depth \in Nat /\ d.loops[j].id \in DOMAIN labels
    BY <1>0 DEF LoopsOK, LoopOK
  <2>2. loop.id = l /\ loop.contentFrameId = n /\ loop.depth = n + 1 /\ l \notin DOMAIN labels
    BY <1>c, <1>12 DEF NewLabel
  <2>3. n <= loop.contentFrameId /\ loop.depth # loop.contentFrameId + 2
    BY <1>1, <2>2
  <2>4. \A j \in DOMAIN d.loops : LoopOK(c, d.loops[j])' /\ d.loops[j].depth \in Nat
                                  /\ d.loops[j].depth <= n /\ d.loops[j].id # loop.id
    BY <1>17, <2>1, <2>2
  <2> QED BY <1>0, <1>1, <1>8, <1>18, <2>3, <2>4, NewLoopOK
<1>20. FollowsOn(list, Scope(Top), Scope(c))
  BY <1>a, <1>8, <1>9, <1>10 DEF FollowsOn, After
<1>21. \A j \in DOMAIN labels' :
          \/ LabelOK(j)' /\ OpenLoop(j)'
          \/ j \in DOMAIN labels /\ labels'[j] = labels[j] /\ (OpenLoop(j) => OpenLoop(j)')
  <2>1. loop.id = l
    BY <1>c
  <2> QED BY <1>a, <1>8, <1>11, <1>12, <1>15, <2>1, LoopOpened
<1>22. \A j \in DOMAIN list : StatementOK(f, list[j])'
  <2>1. StatementOK(f, t)'
    BY <1>2, <1>10, BeginStatementOK
  <2>2. StatementOK(f, s)'
    BY <1>10, <1>15, <1>16, LoopStatementOK DEF LoopOps
  <2> QED BY <1>9, <2>1, <2>2
<1>23. ASSUME ReleaseInv PROVE ReleaseInv'
  <2>1. k - 1 \in Nat /\ DOMAIN containers = 1..(k - 1) /\ k \notin DOMAIN containers /\ k = (k - 1) + 1
    BY <1>0, <1>b, NextContainer
  <2>2. DeclaresInside
    BY <1>6 DEF DeclaresInside
  <2>3. OwnBlocks(d) /\ HiddenFrames(d)' /\ VariablesOK
    <3>1. Len(compilers) \in DOMAIN compilers /\ d = compilers[Len(compilers)]
      BY <1>a, TopIs
    <3> QED BY <1>13, <1>23, <2>2, <3>1, HiddenAll DEF ReleaseInv
  <2>4. OwnBlocks(c)
    <3>1. PICK h, m : h = k - 1 /\ m = 1
      OBVIOUS
    <3>2. \A j \in 1..m : c.frames[n + j].container = h + j
      BY <1>8, <2>1, <3>1
    <3>3. h \in Nat /\ m \in Nat /\ DOMAIN containers = 1..h /\ Len(c.frames) = n + m
      BY <1>8, <2>1, <3>1
    <3>4. NewFrames(c, d, n, m, h)
      BY <1>b, <1>8, <3>2, <3>3 DEF NewFrames
    <3> QED BY <1>0, <2>3, <3>4, OwnExtended
  <2>5. HiddenFrames(c)'
    <3>1. loop.depth # loop.contentFrameId + 2
      BY <1>1, <1>c
    <3>2. IsCompiler(d) /\ LoopsOK(d) /\ HiddenFrames(d)' /\ c.loops = Append(d.loops, loop)
      BY <1>0, <1>8, <2>3
    <3>3. \A j \in 1..Len(d.frames) : c.frames[j] = d.frames[j]
      BY <1>b, <1>8
    <3> QED BY <3>1, <3>2, <3>3, HiddenAppended
  <2>6. PICK from, to : from = Scope(d) /\ to = Scope(c)
    OBVIOUS
  <2>7. to = from \cup {k} /\ k \notin from
    BY <1>0, <1>8, <2>1, <2>6, ScopeOwn
  <2>8. Leaves(s, t.scope)' /\ Leaves(t, to)'
    BY <1>10, <2>6, <2>7 DEF Leaves, After
  <2>9. Follows(list, from, to)'
    BY <1>9, <1>10, <2>6, <2>8 DEF Follows
  <2>10. ReleaseOK(f, t)'
    BY <1>a, <1>4, <1>14, <2>6, <2>7, BeginRelease
  <2>11. ReleaseOK(f, s)'
    <3>1. s.drop = {}
      BY <1>4, InLoopDrops
    <3>2. ScopeIs(f, s)'
      BY <1>a, <1>10, <1>14, ScopeNow
    <3> QED BY <1>10, <1>16, <3>1, <3>2, SilentRelease
  <2>12. captured' \subseteq DOMAIN variables'
    BY <1>6, <2>3 DEF VariablesOK
  <2>13. \A b : HasStorage(b)' => HasStorage(b)
    BY <1>6, <1>13, <2>3, SameCaptured
  <2>14. \A j \in DOMAIN list : ReleaseOK(f, list[j])'
    BY <1>9, <2>10, <2>11
  <2>15. \A b \in to : b \in from \/ b \notin DOMAIN containers
    BY <2>1, <2>7
  <2>16. \A j \in DOMAIN labels' :
            \/ EndsWhole(j)'
            \/ j \in DOMAIN labels /\ labels'[j] = labels[j] /\ (OpenLoop(j) => OpenLoop(j)')
    BY <1>21 DEF EndsWhole
  <2> QED BY <1>a, <1>11, <1>13, <1>23, <2>2, <2>4, <2>5, <2>6, <2>9, <2>12, <2>13, <2>14, <2>15,
             <2>16, TopRelease
<1> QED
  BY <1>a, <1>11, <1>12, <1>13, <1>17, <1>19, <1>20, <1>21, <1>22, <1>23, TopKeeps

(* A step that ends the innermost loop.                                     *)
EndLabel(l, e) ==
    /\ l \in DOMAIN labels' /\ labels'[l].end = e /\ labels'[l].fn = labels[l].fn
    /\ DOMAIN labels' = DOMAIN labels
    /\ \A k \in DOMAIN labels : k # l => labels'[k] = labels[k]

LEMMA LabelEnded ==
    ASSUME CompileInv, UNCHANGED <<variables, captured, upvalues, containers>>,
           NEW l \in DOMAIN labels, NEW e, labels' = [labels EXCEPT ![l].end = e]
    PROVE  Beside /\ EndLabel(l, e)
<1>1. /\ IsSeq(labels) /\ IsSeq(upvalues) /\ IsSeq(variables) /\ IsSeq(containers)
      /\ \A k \in DOMAIN labels : IsLabel(labels[k])
  BY DEF CompileInv, Shapes, IsLabel
<1>2. PICK x, y, z : x = labels[l].fn /\ y = labels[l].start /\ z = labels[l].end
  OBVIOUS
<1>3. PICK label : label = labels[l]
  OBVIOUS
<1>4. label = [fn |-> x, start |-> y, end |-> z]
  BY <1>1, <1>2, <1>3 DEF IsLabel
<1>5. [label EXCEPT !.end = e] = [fn |-> x, start |-> y, end |-> e]
  BY <1>4
<1>6. labels' = [labels EXCEPT ![l] = [label EXCEPT !.end = e]]
  BY <1>3
<1>7. PICK new : new = [fn |-> x, start |-> y, end |-> e]
  OBVIOUS
<1>8. labels' = [labels EXCEPT ![l] = new]
  BY <1>5, <1>6, <1>7
<1>9. Len(labels) \in Nat /\ DOMAIN labels = 1..Len(labels)
  BY <1>1, SeqIs
<1>10. /\ DOMAIN labels' = DOMAIN labels /\ labels'[l] = new
       /\ \A k \in DOMAIN labels : k # l => labels'[k] = labels[k]
       /\ labels' = [k \in 1..Len(labels) |-> labels'[k]]
  BY <1>8, <1>9
<1>11. IsSeq(labels')
  BY <1>9, <1>10, FunctionIs
<1>12. IsLabel(new) /\ new.fn = x /\ new.start = y /\ new.end = e
  BY <1>7 DEF IsLabel
<1>13. \A k \in DOMAIN labels' : IsLabel(labels'[k])
  BY <1>1, <1>10, <1>12
<1>14. \A k \in DOMAIN labels : labels'[k].fn = labels[k].fn /\ labels'[k].start = labels[k].start
  BY <1>2, <1>10, <1>12
<1>15. Extends(variables, variables') /\ Extends(containers, containers')
  BY <1>1, ExtendsSelf
<1>16. Beside
  BY <1>1, <1>10, <1>11, <1>13, <1>14, <1>15 DEF Beside
<1>17. EndLabel(l, e)
  BY <1>2, <1>10, <1>12 DEF EndLabel
<1> QED
  BY <1>16, <1>17

LEMMA LoopEnded ==
    ASSUME CompileInv, NEW c, NEW list, TopStep(c, list), Top.loops # <<>>,
           c.loops = Front(Top.loops), NEW l, l = Last(Top.loops).id, NEW e, EndLabel(l, e),
           LabelOK(l)'
    PROVE  \A k \in DOMAIN labels' :
              \/ LabelOK(k)' /\ k = l
              \/ k \in DOMAIN labels /\ labels'[k] = labels[k] /\ (OpenLoop(k) => OpenLoop(k)')
<1>1. compilers # <<>> /\ IsSeq(Top.loops) /\ Len(Top.loops) \in Nat /\ DOMAIN Top.loops = 1..Len(Top.loops)
  BY TopIs, SeqIs DEF TopStep, IsCompiler
<1>2. /\ DOMAIN c.loops = 1..(Len(Top.loops) - 1) /\ Last(Top.loops) = Top.loops[Len(Top.loops)]
      /\ \A k \in 1..(Len(Top.loops) - 1) : c.loops[k] = Top.loops[k]
  BY <1>1, FrontIs
<1>3. \A k \in DOMAIN Top.loops : k \in DOMAIN c.loops \/ k = Len(Top.loops)
  BY <1>1, <1>2
<1>4. ASSUME NEW k \in DOMAIN labels, k # l PROVE labels'[k] = labels[k] /\ (OpenLoop(k) => OpenLoop(k)')
  <2>1. \A j \in DOMAIN Top.loops : Top.loops[j].id = k => \E i \in DOMAIN c.loops : c.loops[i].id = k
    BY <1>2, <1>3, <1>4
  <2> QED BY <1>4, <2>1, OpenLoopKept DEF EndLabel
<1> QED
  BY <1>4 DEF EndLabel

(* The scope around a loop, and its loops without the innermost.            *)
LEMMA PopLoopIs ==
    ASSUME NEW a, IsCompiler(a), a.loops # <<>>, NEW c, c = [a EXCEPT !.loops = Front(@)]
    PROVE  IsCompiler(c) /\ c.fn = a.fn /\ c.frames = a.frames /\ c.loops = Front(a.loops)
           /\ Scope(c) = Scope(a)
<1>1. a = [fn |-> a.fn, frames |-> a.frames, loops |-> a.loops] /\ IsSeq(a.loops) /\ IsSeq(a.frames)
  BY DEF IsCompiler
<1>2. PICK w : w = Front(a.loops)
  OBVIOUS
<1>3. c = [a EXCEPT !.loops = w]
  BY <1>2
<1>4. c = [fn |-> a.fn, frames |-> a.frames, loops |-> w]
  BY <1>1, <1>3
<1>5. c.fn = a.fn /\ c.frames = a.frames /\ c.loops = w
  BY <1>4
<1>6. IsSeq(w)
  BY <1>1, <1>2, FrontIs
<1>7. IsCompiler(c) /\ Scope(c) = Scope(a)
  BY <1>1, <1>4, <1>5, <1>6 DEF IsCompiler, Scope
<1> QED
  BY <1>2, <1>5, <1>7

LEMMA EndWhileStep ==
    ASSUME CompileInv, compilers # <<>>, EndWhile
    PROVE  CompileInv' /\ (ReleaseInv => ReleaseInv')
<1>a. PICK d, f : d = Top /\ f = Top.fn
  OBVIOUS
<1>b. PICK n, loop : n = Len(d.frames) /\ loop = Last(d.loops)
  OBVIOUS
<1>c. PICK l : l = loop.id
  OBVIOUS
<1>0. /\ IsCompiler(d) /\ FramesOK(d) /\ LoopsOK(d) /\ LabelsOK
      /\ IsSeq(d.frames) /\ d.frames # <<>> /\ f \in DOMAIN code
  BY <1>a, TopIs DEF CompileInv, Shapes, IsCompiler, FramesOK
<1>1. n \in Nat /\ n >= 1 /\ DOMAIN d.frames = 1..n
  BY <1>0, <1>b, SeqIs
<1>2. d.loops # <<>> /\ n = loop.depth /\ loop.depth = loop.contentFrameId + 1
  BY <1>a, <1>b DEF EndWhile, AtLoopEnd, AtBodyEnd, BodyDepth
<1>3. /\ LoopOK(d, loop)
      /\ \A k \in 1..(Len(d.loops) - 1) : d.loops[k].depth \in Nat /\ d.loops[k].depth <= loop.contentFrameId
  BY <1>0, <1>2, <1>b, LoopsNest
<1>4. /\ n - 1 = loop.contentFrameId /\ n - 1 >= 1 /\ l \in DOMAIN labels /\ labels[l].fn = f
      /\ ScopeUpTo(d, n - 1) = StartScope(l)
  <2>1. /\ loop.contentFrameId \in Nat /\ 1 <= loop.contentFrameId /\ l \in DOMAIN labels
        /\ labels[l].fn = f /\ ScopeUpTo(d, loop.contentFrameId) = StartScope(l)
    BY <1>a, <1>c, <1>3 DEF LoopOK
  <2>2. n - 1 = loop.contentFrameId
    BY <1>2, <2>1
  <2> QED BY <2>1, <2>2
<1>5. PICK a, c : a = PopFrame(d) /\ c = [a EXCEPT !.loops = Front(@)]
  OBVIOUS
<1>6. PICK s, t, e : s = Cleanup(d) /\ t = InLoop("jump", a, l) /\ e = Len(code[f]) + 2 + 1
  OBVIOUS
<1>7. PICK list : list = <<s, t>>
  OBVIOUS
<1>8. /\ IsCompiler(a) /\ a.fn = f /\ a.loops = d.loops /\ Len(a.frames) = n - 1
      /\ \A j \in 1..(n - 1) : a.frames[j] = d.frames[j]
      /\ Scope(a) = StartScope(l) /\ Scope(a) \subseteq Scope(d)
  BY <1>a, <1>b, <1>0, <1>4, <1>5, PopIs
<1>9. /\ compilers' = [compilers EXCEPT ![Len(compilers)] = c]
      /\ code' = [code EXCEPT ![Top.fn] = @ \o list]
      /\ labels' = [labels EXCEPT ![l].end = e]
      /\ UNCHANGED <<variables, captured, upvalues, containers>>
  BY <1>a, <1>b, <1>c, <1>5, <1>6, <1>7, <1>8 DEF EndWhile, EndLoop, SetTop, EmitAll
<1>10. /\ IsCompiler(c) /\ c.fn = f /\ c.frames = a.frames /\ c.loops = Front(d.loops)
       /\ Scope(c) = StartScope(l)
  BY <1>2, <1>5, <1>8, PopLoopIs
<1>11. /\ IsSeq(list) /\ Len(list) = 2 /\ list[1] = s /\ list[2] = t
       /\ DOMAIN list = {1, 2} /\ list # <<>>
  BY <1>7, PairIs
<1>12. /\ s.op = "relocate" /\ s.scope = Scope(d)
       /\ t.op = "jump" /\ t.scope = Scope(a) /\ t.loop = l
  BY <1>6, FieldsAre
<1>13. TopStep(c, list)
  BY <1>a, <1>9, <1>10, <1>11 DEF TopStep
<1>14. Beside /\ EndLabel(l, e)
  BY <1>4, <1>9, LabelEnded
<1>15. Grows /\ UpvaluesOK' /\ ParentsOK'
  BY <1>9, <1>13, <1>14, TopGrows, TopUpvalues
<1>16. FramesOK(d)' /\ LoopsOK(d)' /\ StartScope(l)' = StartScope(l)
  BY <1>0, <1>4, <1>15, CompilerKept, StartKept
<1>17. FramesOK(c)' /\ LoopsOK(c)'
  <2>1. Len(c.frames) <= Len(d.frames) /\ Len(c.frames) >= 1 /\ Len(c.frames) = n - 1
    BY <1>1, <1>4, <1>8, <1>10, <1>b
  <2>2. IsSeq(d.loops) /\ Len(d.loops) \in Nat
    BY <1>0, SeqIs DEF IsCompiler
  <2>3. /\ Len(c.loops) = Len(d.loops) - 1
        /\ \A j \in 1..(Len(d.loops) - 1) : c.loops[j] = d.loops[j]
    BY <1>2, <1>10, <2>2, FrontIs
  <2>4. Len(c.loops) <= Len(d.loops)
    BY <2>2, <2>3
  <2>5. \A j \in 1..Len(c.loops) : c.loops[j] = d.loops[j] /\ d.loops[j].depth <= Len(c.frames)
    BY <1>3, <1>4, <2>1, <2>3
  <2>6. c.fn = d.fn /\ \A j \in 1..Len(c.frames) : c.frames[j] = d.frames[j]
    BY <1>a, <1>8, <1>10
  <2> QED BY <1>0, <1>10, <1>16, <2>1, <2>4, <2>5, <2>6, CutOK
<1>18. LabelOK(l)'
  <2>1. labels'[l].end = e /\ labels'[l].fn = f
    BY <1>4, <1>14 DEF EndLabel
  <2>2. /\ labels[l].fn \in DOMAIN code' /\ labels'[l].start = labels[l].start
        /\ labels[l].start \in DOMAIN code'[labels[l].fn]
    BY <1>0, <1>4, <1>15, StartKept
  <2>3. Len(code'[f]) = Len(code[f]) + Len(list)
    BY <1>a, <1>13, TopEffect DEF Appended
  <2>4. Len(code[f]) \in Nat
    BY <1>a, TopIs
  <2>5. e = Len(code'[f]) + 1
    BY <1>6, <1>11, <2>3, <2>4
  <2>6. Len(compilers) \in DOMAIN compilers' /\ compilers'[Len(compilers)] = c
    BY <1>13, TopIs, TopEffect
  <2>7. EndOK(l)'
    BY <1>10, <1>16, <2>1, <2>5, <2>6 DEF EndOK
  <2> QED BY <1>4, <2>1, <2>2, <2>7 DEF LabelOK
<1>19. \A j \in DOMAIN labels' :
          \/ LabelOK(j)' /\ j = l
          \/ j \in DOMAIN labels /\ labels'[j] = labels[j] /\ (OpenLoop(j) => OpenLoop(j)')
  BY <1>a, <1>b, <1>c, <1>2, <1>10, <1>13, <1>14, <1>18, LoopEnded
<1>20. FollowsOn(list, Scope(Top), Scope(c))
  BY <1>a, <1>8, <1>10, <1>11, <1>12 DEF FollowsOn, After
<1>21. \A j \in DOMAIN list : StatementOK(f, list[j])'
  <2>1. StatementOK(f, s)'
    BY <1>12, PlainOK
  <2>2. l \in DOMAIN labels' /\ labels'[l].fn = f
    BY <1>4, <1>14 DEF EndLabel
  <2>3. StatementOK(f, t)'
    BY <1>8, <1>12, <1>16, <2>2, LoopStatementOK DEF LoopOps
  <2> QED BY <1>11, <2>1, <2>3
<1>22. ASSUME ReleaseInv PROVE ReleaseInv'
  <2>1. OwnBlocks(d) /\ HiddenFrames(d)' /\ VariablesOK /\ DeclaresInside
    <3>1. Len(compilers) \in DOMAIN compilers /\ d = compilers[Len(compilers)]
      BY <1>a, TopIs
    <3>2. DeclaresInside
      BY <1>9 DEF DeclaresInside
    <3> QED BY <1>15, <1>22, <3>1, <3>2, HiddenAll DEF ReleaseInv
  <2>2. PICK from, to, m : from = Scope(d) /\ to = Scope(c) /\ m = n - 1
    OBVIOUS
  <2>3. to = ScopeUpTo(d, n - 1) /\ n \in 1..n /\ to = Scope(a)
    BY <1>1, <1>4, <1>8, <1>10, <2>2
  <2>4. Leaves(s, to)' /\ ReleaseOK(f, s)'
    <3>1. Len(d.frames) = n /\ \A j \in 1..n : d.frames[j] = d.frames[j]
      BY <1>b
    <3>2. Scope(c) \subseteq to
      BY <2>2
    <3>3. PICK next : next = to
      OBVIOUS
    <3>4. next = ScopeUpTo(d, n - 1) /\ Scope(c) \subseteq next
      BY <2>3, <3>2, <3>3
    <3>5. s = Cleanup(d) /\ d = Top /\ f = d.fn /\ n = Len(d.frames) /\ n \in 1..n /\ IsCompiler(d)
      BY <1>a, <1>b, <1>0, <1>6, <2>3
    <3>6. captured' = captured /\ variables' = variables /\ containers' = containers
      BY <1>9
    <3>7. Leaves(s, next)' /\ ReleaseOK(f, s)'
      BY <1>13, <1>15, <1>22, <3>1, <3>4, <3>5, <3>6, CutCleanup
    <3> QED BY <3>3, <3>7
  <2>5. ReleaseOK(f, t)'
    <3>1. t.drop = {}
      BY <1>6, InLoopDrops
    <3>2. ScopeIs(f, t)'
      BY <1>a, <1>8, <1>12, <1>16, ScopeNow
    <3> QED BY <1>8, <1>12, <1>16, <3>1, <3>2, SilentRelease
  <2>6. OwnBlocks(c) /\ HiddenFrames(c)'
    <3>1. IsSeq(d.loops) /\ DOMAIN d.loops = 1..Len(d.loops) /\ Len(d.loops) \in Nat
      BY <1>0, SeqIs DEF IsCompiler
    <3>2. m = Len(c.frames) /\ m <= n /\ \A j \in 1..m : c.frames[j] = d.frames[j]
      BY <1>1, <1>8, <1>10, <2>2
    <3>3. /\ DOMAIN c.loops = 1..(Len(d.loops) - 1)
          /\ \A j \in 1..(Len(d.loops) - 1) : c.loops[j] = d.loops[j]
      BY <1>2, <1>10, <3>1, FrontIs
    <3>4. \A j \in 1..(Len(d.loops) - 1) : j \in 1..Len(d.loops)
      BY <3>1
    <3>5. \A j \in DOMAIN c.loops :
              j \in DOMAIN d.loops /\ c.loops[j] = d.loops[j] /\ d.loops[j].depth <= m
      BY <1>3, <1>4, <2>2, <3>1, <3>3, <3>4
    <3> QED BY <1>b, <1>0, <1>10, <2>1, <3>2, <3>5, CutRelease
  <2>7. Leaves(t, to)'
    BY <1>12, <2>3 DEF Leaves, After
  <2>8. Follows(list, from, to)'
    BY <1>11, <1>12, <2>2, <2>3, <2>4, <2>7 DEF Follows
  <2>9. captured' \subseteq DOMAIN variables'
    BY <1>9, <2>1 DEF VariablesOK
  <2>10. \A b : HasStorage(b)' => HasStorage(b)
    BY <1>9, SameStorage
  <2>11. \A j \in DOMAIN list : ReleaseOK(f, list[j])'
    BY <1>11, <2>4, <2>5
  <2>12. \A b \in to : b \in from \/ b \notin DOMAIN containers
    BY <1>8, <2>2, <2>3
  <2>13. EndsWhole(l)'
    <3>1. labels'[l].end = Len(code'[f]) + 1 /\ labels'[l].fn = f
      <4>1. Len(code'[f]) = Len(code[f]) + Len(list)
        BY <1>a, <1>13, TopEffect DEF Appended
      <4>2. Len(code[f]) \in Nat
        BY <1>a, TopIs
      <4>3. e = Len(code'[f]) + 1
        BY <1>6, <1>11, <4>1, <4>2
      <4> QED BY <1>4, <1>14, <4>3 DEF EndLabel
    <3>2. Len(compilers) \in DOMAIN compilers' /\ compilers'[Len(compilers)] = c
      BY <1>13, TopIs, TopEffect
    <3>3. StartScope(l)' \subseteq Scope(c)
      BY <1>10, <1>16
    <3>4. Scope(c)' = Scope(c)
      BY DEF Scope
    <3> QED BY <1>10, <3>1, <3>2, <3>3, <3>4 DEF EndsWhole
  <2>14. \A j \in DOMAIN labels' :
            \/ EndsWhole(j)'
            \/ j \in DOMAIN labels /\ labels'[j] = labels[j] /\ (OpenLoop(j) => OpenLoop(j)')
    BY <1>19, <2>13
  <2> QED BY <1>a, <1>13, <1>15, <1>22, <2>1, <2>2, <2>6, <2>8, <2>9, <2>10, <2>11, <2>12, <2>14,
             TopRelease
<1> QED
  BY <1>a, <1>13, <1>14, <1>15, <1>17, <1>19, <1>20, <1>21, <1>22, TopKeeps

LEMMA FourIs ==
    ASSUME NEW s1, NEW s2, NEW s3, NEW s4, NEW list, list = <<s1, s2, s3, s4>>
    PROVE  /\ IsSeq(list) /\ Len(list) = 4
           /\ list[1] = s1 /\ list[2] = s2 /\ list[3] = s3 /\ list[4] = s4
           /\ DOMAIN list = {1, 2, 3, 4} /\ list # <<>>
<1>1. IsSeq(list) /\ Len(list) = 4 /\ list[1] = s1 /\ list[2] = s2 /\ list[3] = s3 /\ list[4] = s4
  BY TuplesAre
<1>2. DOMAIN list = 1..4 /\ list # <<>>
  BY <1>1, SeqIs
<1> QED
  BY <1>1, <1>2

LEMMA ConcatAppended ==
    ASSUME NEW p, IsSeq(p), NEW q, IsSeq(q), NEW r, r = p \o q
    PROVE  IsSeq(r) /\ Appended(p, q, r)
  BY ConcatIs DEF Appended

LEMMA ThreeContainers ==
    ASSUME IsSeq(containers), NEW f, containers' = containers \o <<f, f, f>>, NEW k, k = Len(containers)
    PROVE  /\ Extends(containers, containers')
           /\ k + 1 \in DOMAIN containers' /\ containers'[k + 1] = f
           /\ k + 2 \in DOMAIN containers' /\ containers'[k + 2] = f
           /\ k + 3 \in DOMAIN containers' /\ containers'[k + 3] = f
<1>1. PICK t : t = <<f, f, f>>
  OBVIOUS
<1>2. IsSeq(t) /\ Len(t) = 3 /\ t[1] = f /\ t[2] = f /\ t[3] = f
  <2>1. t \in Seq({f})
    BY <1>1
  <2>2. IsSeq(t)
    BY <2>1 DEF IsSeq
  <2> QED BY <1>1, <2>2
<1>3. containers' = containers \o t /\ k \in Nat
  BY <1>1, SeqIs
<1>4. /\ IsSeq(containers') /\ Len(containers') = k + 3
      /\ DOMAIN containers' = 1..(k + 3)
      /\ \A i \in 1..k : containers'[i] = containers[i]
      /\ \A i \in 1..3 : containers'[k + i] = t[i]
  <2>1. IsSeq(containers') /\ Appended(containers, t, containers')
    BY <1>2, <1>3, ConcatAppended
  <2> QED BY <1>2, <2>1 DEF Appended
<1>5. k <= Len(containers') /\ k + 1 \in 1..(k + 3) /\ k + 2 \in 1..(k + 3) /\ k + 3 \in 1..(k + 3)
  BY <1>3, <1>4
<1>6. containers'[k + 1] = f /\ containers'[k + 2] = f /\ containers'[k + 3] = f
  BY <1>2, <1>4
<1> QED
  BY <1>4, <1>5, <1>6, ExtendsIs

(* The compiler inside a for loop.                                          *)
InFor(c, hidden, each, d, n, k, id, loop) ==
    /\ IsCompiler(c) /\ c.fn = d.fn /\ c.loops = Append(d.loops, loop) /\ Len(c.frames) = n + 3
    /\ \A j \in 1..n : c.frames[j] = d.frames[j]
    /\ c.frames[n + 1] = [container |-> k + 1, locals |-> {}]
    /\ c.frames[n + 2].container = k + 2 /\ c.frames[n + 2].locals = {id}
    /\ c.frames[n + 3] = [container |-> k + 3, locals |-> {}]
    /\ Scope(hidden) = Scope(d) \cup {k + 1}
    /\ Scope(each) = Scope(hidden) \cup {k + 2}
    /\ Scope(c) = Scope(each) \cup {k + 3}
    /\ ScopeUpTo(c, n + 1) = Scope(hidden)

LEMMA InForIs ==
    ASSUME NEW d, IsCompiler(d), NEW n, n = Len(d.frames), NEW k, NEW id,
           NEW hidden, hidden = PushFrame(d, k + 1), NEW a, a = StartLoop(hidden, 2),
           NEW each, each = PushFrame(a, k + 2), NEW b, b = AddLocal(each, id),
           NEW c, c = PushFrame(b, k + 3),
           NEW loop, loop = [id |-> Len(labels) + 1, contentFrameId |-> n + 1, depth |-> n + 3]
    PROVE  InFor(c, hidden, each, d, n, k, id, loop)
<1>0. n \in Nat /\ DOMAIN d.frames = 1..n
  BY SeqIs DEF IsCompiler
<1>1. /\ IsCompiler(hidden) /\ hidden.fn = d.fn /\ hidden.loops = d.loops /\ Len(hidden.frames) = n + 1
      /\ \A j \in 1..n : hidden.frames[j] = d.frames[j]
      /\ hidden.frames[n + 1] = [container |-> k + 1, locals |-> {}]
      /\ Scope(hidden) = Scope(d) \cup {k + 1}
  <2>1. PICK j : j = k + 1
    OBVIOUS
  <2>2. hidden = PushFrame(d, j)
    BY <2>1
  <2>3. Pushed(hidden, d, n, j)
    BY <2>2, PushedIs
  <2> QED BY <2>1, <2>3 DEF Pushed
<1>2. IsCompiler(a) /\ a.fn = d.fn /\ a.frames = hidden.frames /\ a.loops = Append(d.loops, loop)
  <2>1. loop = [id |-> Len(labels) + 1, contentFrameId |-> Len(hidden.frames),
                depth |-> Len(hidden.frames) + 2]
    BY <1>0, <1>1
  <2>2. PICK two : two = 2
    OBVIOUS
  <2>3. a = StartLoop(hidden, two)
    BY <2>2
  <2>4. loop = [id |-> Len(labels) + 1, contentFrameId |-> Len(hidden.frames),
                depth |-> Len(hidden.frames) + two]
    BY <2>1, <2>2
  <2>5. IsCompiler(hidden)
    BY <1>1
  <2>6. IsCompiler(a) /\ a = [fn |-> hidden.fn, frames |-> hidden.frames, loops |-> Append(hidden.loops, loop)]
    BY <2>3, <2>4, <2>5, StartLoopIs
  <2>7. a.fn = hidden.fn /\ a.frames = hidden.frames /\ a.loops = Append(hidden.loops, loop)
    BY <2>6
  <2>8. hidden.fn = d.fn /\ hidden.loops = d.loops
    BY <1>1
  <2> QED BY <2>6, <2>7, <2>8
<1>3. Scope(a) = Scope(hidden)
  BY <1>2 DEF Scope
<1>4. /\ IsCompiler(each) /\ each.fn = d.fn /\ each.loops = Append(d.loops, loop)
      /\ Len(each.frames) = n + 2
      /\ \A j \in 1..(n + 1) : each.frames[j] = hidden.frames[j]
      /\ each.frames[n + 2] = [container |-> k + 2, locals |-> {}]
      /\ Scope(each) = Scope(hidden) \cup {k + 2}
  <2>0. PICK j, l : j = k + 2 /\ l = n + 1
    OBVIOUS
  <2>1. Len(a.frames) = l /\ l + 1 = n + 2 /\ each = PushFrame(a, j)
    BY <1>0, <1>1, <1>2, <2>0
  <2>2. Pushed(each, a, l, j)
    BY <1>2, <2>1, PushedIs
  <2> QED BY <1>2, <1>3, <2>0, <2>1, <2>2 DEF Pushed
<1>5. each.frames # <<>>
  <2>1. Len(each.frames) # 0
    BY <1>0, <1>4
  <2> QED BY <1>4, <2>1, SeqIs DEF IsCompiler
<1>6. PICK m : m = n + 2
  OBVIOUS
<1>7. Declares(b, each, m, id)
  BY <1>4, <1>5, <1>6, AddLocalIs
<1>8. /\ IsCompiler(b) /\ b.fn = d.fn /\ b.loops = Append(d.loops, loop) /\ Len(b.frames) = m
      /\ \A j \in 1..m : j # m => b.frames[j] = each.frames[j]
      /\ b.frames[m].container = k + 2 /\ b.frames[m].locals = {id}
      /\ Scope(b) = Scope(each)
  <2>1. m \in 1..m
    BY <1>0, <1>6
  <2>2. /\ IsCompiler(b) /\ b.fn = each.fn /\ b.loops = each.loops /\ Len(b.frames) = m
        /\ \A j \in 1..m : j # m => b.frames[j] = each.frames[j]
        /\ b.frames[m].container = each.frames[m].container
        /\ b.frames[m].locals = each.frames[m].locals \cup {id}
        /\ Scope(b) = Scope(each)
    BY <1>7, <2>1 DEF Declares
  <2>3. each.frames[m].container = k + 2 /\ each.frames[m].locals = {}
    BY <1>4, <1>6
  <2> QED BY <1>4, <2>2, <2>3
<1>9. /\ IsCompiler(c) /\ c.fn = d.fn /\ c.loops = Append(d.loops, loop)
      /\ Len(c.frames) = m + 1
      /\ \A j \in 1..m : c.frames[j] = b.frames[j]
      /\ c.frames[m + 1] = [container |-> k + 3, locals |-> {}]
      /\ Scope(c) = Scope(each) \cup {k + 3}
  <2>1. PICK j : j = k + 3
    OBVIOUS
  <2>2. c = PushFrame(b, j)
    BY <2>1
  <2>3. Pushed(c, b, m, j)
    BY <1>8, <2>2, PushedIs
  <2> QED BY <1>8, <2>1, <2>3 DEF Pushed
<1>10. /\ m + 1 = n + 3 /\ m \in 1..m /\ n + 1 \in 1..(n + 1) /\ n + 1 \in 1..m /\ n + 1 # m
       /\ \A j \in 1..n : j \in 1..m /\ j # m /\ j \in 1..(n + 1)
       /\ \A j \in 1..(n + 1) : j \in 1..m /\ j # m /\ (j \in 1..n \/ j = n + 1)
  <2>0. n \in Nat /\ m = n + 2
    BY <1>0, <1>6, SeqIs DEF IsCompiler
  <2>1. m + 1 = n + 3 /\ m \in 1..m /\ n + 1 \in 1..(n + 1) /\ n + 1 \in 1..m /\ n + 1 # m
    BY <2>0
  <2>2. \A j \in 1..n : j \in 1..m /\ j # m /\ j \in 1..(n + 1)
    BY <2>0
  <2>3. \A j \in 1..(n + 1) : j \in 1..m /\ j # m /\ (j \in 1..n \/ j = n + 1)
    BY <2>0
  <2> QED BY <2>1, <2>2, <2>3
<1>11. \A j \in 1..(n + 1) : c.frames[j] = hidden.frames[j]
  <2>1. TAKE j \in 1..(n + 1)
  <2>2. j \in 1..m /\ j # m
    BY <1>10
  <2>3. c.frames[j] = b.frames[j]
    BY <1>9, <2>2
  <2>4. b.frames[j] = each.frames[j]
    BY <1>8, <2>2
  <2>5. each.frames[j] = hidden.frames[j]
    BY <1>4
  <2> QED BY <2>3, <2>4, <2>5
<1>12. c.frames[n + 1] = [container |-> k + 1, locals |-> {}] /\ \A j \in 1..n : c.frames[j] = d.frames[j]
  <2>1. c.frames[n + 1] = hidden.frames[n + 1]
    BY <1>10, <1>11
  <2>2. hidden.frames[n + 1] = [container |-> k + 1, locals |-> {}]
    BY <1>1
  <2>3. \A j \in 1..n : c.frames[j] = hidden.frames[j] /\ hidden.frames[j] = d.frames[j]
    BY <1>1, <1>10, <1>11
  <2> QED BY <2>1, <2>2, <2>3
<1>13. ScopeUpTo(c, n + 1) = Scope(hidden)
  <2>1. DOMAIN hidden.frames = 1..(n + 1)
    BY <1>1, SeqIs DEF IsCompiler
  <2> QED BY <1>11, <2>1 DEF ScopeUpTo, Scope
<1>14. c.frames[n + 2].container = k + 2 /\ c.frames[n + 2].locals = {id}
  <2>1. c.frames[m] = b.frames[m]
    BY <1>9, <1>10
  <2> QED BY <1>6, <1>8, <2>1
<1> QED
  BY <1>1, <1>4, <1>9, <1>10, <1>12, <1>13, <1>14 DEF InFor

LEMMA ForStep ==
    ASSUME CompileInv, compilers # <<>>, ForStatement
    PROVE  CompileInv' /\ (ReleaseInv => ReleaseInv')
<1>a. PICK d, f : d = Top /\ f = Top.fn
  OBVIOUS
<1>b. PICK n, k, l, id : /\ n = Len(d.frames) /\ k = Len(containers)
                         /\ l = Len(labels) + 1 /\ id = Len(variables) + 1
  OBVIOUS
<1>c. PICK loop, label, new :
          /\ loop = [id |-> l, contentFrameId |-> n + 1, depth |-> n + 3]
          /\ label = [fn |-> f, start |-> Len(code[f]) + 2, end |-> 0]
          /\ new = [name |-> Head(tokens)[2], container |-> k + 2]
  OBVIOUS
<1>0. /\ IsCompiler(d) /\ FramesOK(d) /\ LoopsOK(d) /\ LabelsOK /\ IsSeq(variables) /\ IsSeq(containers)
      /\ IsSeq(d.frames) /\ d.frames # <<>>
  BY <1>a, TopIs DEF CompileInv, Shapes, IsCompiler, FramesOK
<1>1. n \in Nat /\ n >= 1 /\ DOMAIN d.frames = 1..n
  BY <1>0, <1>b, SeqIs
<1>2. /\ Extends(containers, containers')
      /\ k + 1 \in DOMAIN containers' /\ containers'[k + 1] = f
      /\ k + 2 \in DOMAIN containers' /\ containers'[k + 2] = f
      /\ k + 3 \in DOMAIN containers' /\ containers'[k + 3] = f
  <2>1. containers' = containers \o <<f, f, f>>
    BY <1>a DEF ForStatement
  <2> QED BY <1>0, <1>b, <2>1, ThreeContainers
<1>3. /\ Extends(variables, variables') /\ Len(variables') = id
      /\ id \in DOMAIN variables' /\ variables'[id] = new
  <2>1. variables' = Append(variables, new)
    BY <1>b, <1>c DEF ForStatement
  <2>2. /\ Len(variables') = Len(variables) + 1 /\ variables'[Len(variables) + 1] = new
        /\ DOMAIN variables' = 1..(Len(variables) + 1) /\ Len(variables) \in Nat
    BY <1>0, <2>1, AppendIs, SeqIs
  <2> QED BY <1>0, <1>b, <2>1, <2>2, ExtendsAppend
<1>4. PICK hidden, a, each, b, c :
          /\ hidden = PushFrame(d, k + 1) /\ a = StartLoop(hidden, 2)
          /\ each = PushFrame(a, k + 2) /\ b = AddLocal(each, id) /\ c = PushFrame(b, k + 3)
  OBVIOUS
<1>5. PICK s1, s2, s3, s4 :
          /\ s1 = Begin(d, k + 1) /\ s2 = InLoop("test", hidden, l)
          /\ s3 = Begin(hidden, k + 2) /\ s4 = Begin(each, k + 3)
  OBVIOUS
<1>6. PICK list : list = <<s1, s2, s3, s4>>
  OBVIOUS
<1>7. /\ compilers' = [compilers EXCEPT ![Len(compilers)] = c]
      /\ code' = [code EXCEPT ![Top.fn] = @ \o list]
      /\ labels' = Append(labels, label)
      /\ UNCHANGED <<captured, upvalues>>
  BY <1>a, <1>b, <1>c, <1>3, <1>4, <1>5, <1>6 DEF ForStatement, SetTop, EmitAll
<1>8. InFor(c, hidden, each, d, n, k, id, loop)
  BY <1>b, <1>c, <1>0, <1>4, InForIs
<1>9. /\ IsCompiler(c) /\ c.fn = d.fn /\ c.fn = f /\ c.loops = Append(d.loops, loop) /\ Len(c.frames) = n + 3
      /\ \A j \in 1..n : c.frames[j] = d.frames[j]
  BY <1>a, <1>8 DEF InFor
<1>10. /\ Scope(hidden) = Scope(d) \cup {k + 1} /\ Scope(each) = Scope(hidden) \cup {k + 2}
       /\ Scope(c) = Scope(each) \cup {k + 3} /\ ScopeUpTo(c, n + 1) = Scope(hidden)
  BY <1>8 DEF InFor
<1>11. /\ IsSeq(list) /\ Len(list) = 4
       /\ list[1] = s1 /\ list[2] = s2 /\ list[3] = s3 /\ list[4] = s4
       /\ DOMAIN list = {1, 2, 3, 4} /\ list # <<>>
  BY <1>6, FourIs
<1>12. /\ s1.op = "begin" /\ s1.scope = Scope(d) /\ s1.container = k + 1
       /\ s2.op = "test" /\ s2.scope = Scope(hidden) /\ s2.loop = l
       /\ s3.op = "begin" /\ s3.scope = Scope(hidden) /\ s3.container = k + 2
       /\ s4.op = "begin" /\ s4.scope = Scope(each) /\ s4.container = k + 3
  BY <1>5 DEF Begin, InLoop, Instruction, Statement
<1>13. TopStep(c, list)
  BY <1>a, <1>7, <1>9, <1>11 DEF TopStep
<1>14. Beside /\ NewLabel(l, label)
  BY <1>0, <1>2, <1>3, <1>7, <1>b, <1>c, LabelAdded DEF IsLabel
<1>15. Grows /\ UpvaluesOK' /\ ParentsOK'
  BY <1>7, <1>13, <1>14, TopGrows, TopUpvalues
<1>16. FramesOK(d)' /\ LoopsOK(d)'
  BY <1>0, <1>15, CompilerKept
<1>17. /\ f \in DOMAIN code' /\ label.fn = f /\ label.start \in DOMAIN code'[f]
       /\ code'[f][label.start] = s2 /\ labels'[l] = label /\ l \in DOMAIN labels'
  <2>1. f \in DOMAIN code' /\ label.start \in DOMAIN code'[f] /\ code'[f][label.start] = list[2]
    BY <1>a, <1>c, <1>11, <1>13, TopAppended
  <2> QED BY <1>11, <1>14, <1>c, <2>1 DEF NewLabel
<1>18. StartScope(l)' = Scope(hidden)
  BY <1>12, <1>17 DEF StartScope
<1>19. /\ FramesOK(c)'
       /\ \A j \in DOMAIN d.loops : LoopOK(c, d.loops[j])' /\ d.loops[j].depth <= n
  <2>1. FrameOK(f, c.frames[n + 1])' /\ FrameOK(f, c.frames[n + 3])'
    BY <1>2, <1>8 DEF FrameOK, InFor
  <2>2. new.container = k + 2
    BY <1>c
  <2>3. FrameOK(f, c.frames[n + 2])'
    BY <1>2, <1>3, <1>8, <2>2 DEF FrameOK, InFor
  <2>4. /\ Len(d.frames) <= Len(c.frames)
        /\ \A j \in 1..Len(c.frames) : j > Len(d.frames) => j = n + 1 \/ j = n + 2 \/ j = n + 3
    <3>1. Len(d.frames) = n /\ Len(c.frames) = n + 3
      BY <1>9, <1>b
    <3>2. n \in Nat /\ \A j \in 1..(n + 3) : j > n => j = n + 1 \/ j = n + 2 \/ j = n + 3
      BY <1>1
    <3>3. n <= n + 3
      BY <3>2
    <3> QED BY <3>1, <3>2, <3>3
  <2>5. \A j \in 1..Len(c.frames) : j > Len(d.frames) => FrameOK(c.fn, c.frames[j])'
    BY <1>9, <2>1, <2>3, <2>4
  <2> QED BY <1>b, <1>0, <1>9, <1>16, <2>4, <2>5, ExtendOK
<1>20. LoopOK(c, loop)'
  <2>1. loop.id = l /\ loop.contentFrameId = n + 1 /\ loop.depth = n + 3
    BY <1>c
  <2>2. n + 1 \in Nat /\ n + 3 \in Nat /\ 1 <= n + 1 /\ n + 1 < n + 3 /\ n + 3 <= (n + 1) + 2
        /\ 2 <= n + 1 /\ n + 3 <= Len(c.frames)
    BY <1>1, <1>9
  <2> QED BY <1>9, <1>10, <1>17, <1>18, <2>1, <2>2 DEF LoopOK
<1>21. LoopsOK(c)'
  <2>1. \A j \in DOMAIN d.loops : d.loops[j].depth \in Nat /\ d.loops[j].id \in DOMAIN labels
    BY <1>0 DEF LoopsOK, LoopOK
  <2>2. loop.id = l /\ loop.contentFrameId = n + 1 /\ l \notin DOMAIN labels
    BY <1>c, <1>14 DEF NewLabel
  <2>3. n <= loop.contentFrameId /\ n < loop.contentFrameId
    BY <1>1, <2>2
  <2>4. \A j \in DOMAIN d.loops : LoopOK(c, d.loops[j])' /\ d.loops[j].depth \in Nat
                                  /\ d.loops[j].depth <= n /\ d.loops[j].id # loop.id
    BY <1>19, <2>1, <2>2
  <2> QED BY <1>0, <1>1, <1>9, <1>20, <2>3, <2>4, NewLoopOK
<1>22. FollowsOn(list, Scope(Top), Scope(c))
  <2>1. \A j \in DOMAIN list : j + 1 \in DOMAIN list => j = 1 \/ j = 2 \/ j = 3
    BY <1>11
  <2>2. /\ list[1].scope \subseteq Scope(Top) /\ Scope(c) \subseteq After(list[4])
        /\ list[1 + 1].scope \subseteq After(list[1])
        /\ list[2 + 1].scope \subseteq After(list[2])
        /\ list[3 + 1].scope \subseteq After(list[3])
    BY <1>a, <1>10, <1>11, <1>12 DEF After
  <2> QED BY <1>11, <2>1, <2>2 DEF FollowsOn
<1>23. \A j \in DOMAIN labels' :
          \/ LabelOK(j)' /\ OpenLoop(j)'
          \/ j \in DOMAIN labels /\ labels'[j] = labels[j] /\ (OpenLoop(j) => OpenLoop(j)')
  <2>1. loop.id = l
    BY <1>c
  <2> QED BY <1>a, <1>9, <1>13, <1>14, <1>17, <2>1, LoopOpened
<1>24. \A j \in DOMAIN list : StatementOK(f, list[j])'
  <2>1. StatementOK(f, s1)' /\ StatementOK(f, s3)' /\ StatementOK(f, s4)'
    BY <1>2, <1>12, BeginStatementOK
  <2>2. StatementOK(f, s2)'
    BY <1>12, <1>17, <1>18, LoopStatementOK DEF LoopOps
  <2> QED BY <1>11, <2>1, <2>2
<1>25. ASSUME ReleaseInv PROVE ReleaseInv'
  <2>1. k \in Nat /\ DOMAIN containers = 1..k
    BY <1>0, <1>b, SeqIs
  <2>2. /\ k + 1 \notin 1..k /\ k + 2 \notin 1..k /\ k + 3 \notin 1..k
        /\ k + 1 # k + 2 /\ k + 1 # k + 3 /\ k + 2 # k + 3
    BY <2>1
  <2>3. \A v \in DOMAIN variables' : v \notin DOMAIN variables => variables'[v].container = k + 2
    <3>1. /\ DOMAIN variables' = 1..(Len(variables) + 1) /\ Len(variables) \in Nat
          /\ DOMAIN variables = 1..Len(variables)
      <4>1. variables' = Append(variables, new)
        BY <1>b, <1>c DEF ForStatement
      <4> QED BY <1>0, <4>1, AppendIs, SeqIs
    <3>2. \A v \in DOMAIN variables' : v \notin DOMAIN variables => v = id
      BY <1>b, <3>1
    <3>3. new.container = k + 2
      BY <1>c
    <3> QED BY <1>3, <3>2, <3>3
  <2>4. DeclaresInside
    BY <1>2, <2>1, <2>2, <2>3 DEF DeclaresInside
  <2>5. OwnBlocks(d) /\ HiddenFrames(d)' /\ VariablesOK
    <3>1. Len(compilers) \in DOMAIN compilers /\ d = compilers[Len(compilers)]
      BY <1>a, TopIs
    <3> QED BY <1>15, <1>25, <2>4, <3>1, HiddenAll DEF ReleaseInv
  <2>6. OwnBlocks(c)
    <3>1. PICK m : m = 3
      OBVIOUS
    <3>2. c.frames[n + 1].container = k + 1 /\ c.frames[n + 2].container = k + 2
          /\ c.frames[n + 3].container = k + 3
      BY <1>8 DEF InFor
    <3>3. \A j \in 1..m : j = 1 \/ j = 2 \/ j = 3
      BY <3>1
    <3>4. \A j \in 1..m : c.frames[n + j].container = k + j
      BY <3>2, <3>3
    <3>5. NewFrames(c, d, n, m, k)
      BY <1>b, <1>9, <2>1, <3>1, <3>4 DEF NewFrames
    <3> QED BY <1>0, <2>5, <3>5, OwnExtended
  <2>7. HiddenFrames(c)'
    <3>1. loop.contentFrameId = n + 1 /\ c.frames[n + 1].container = k + 1
      BY <1>c, <1>8 DEF InFor
    <3>2. \A v \in DOMAIN variables' : variables'[v].container # k + 1
      <4>1. ASSUME NEW v \in DOMAIN variables PROVE variables'[v].container # k + 1
        <5>1. variables'[v].container \in 1..k
          BY <1>3, <2>1, <2>5 DEF VariablesOK, Extends
        <5> QED BY <2>2, <5>1
      <4> QED BY <2>2, <2>3, <4>1
    <3>3. \A v \in DOMAIN variables' :
              variables'[v].container # c.frames[loop.contentFrameId].container
      BY <3>1, <3>2
    <3> QED BY <1>b, <1>0, <1>9, <2>5, <3>3, HiddenAppended
  <2>8. PICK from, to : from = Scope(d) /\ to = Scope(c)
    OBVIOUS
  <2>9. \A b0 \in from : b0 \in 1..k
    BY <1>0, <2>1, <2>8, ScopeOwn
  <2>10. /\ s1.container \notin s1.scope /\ s3.container \notin s3.scope
         /\ s4.container \notin s4.scope
    BY <1>10, <1>12, <2>2, <2>8, <2>9
  <2>11. /\ Leaves(s1, s2.scope)' /\ Leaves(s2, s3.scope)' /\ Leaves(s3, s4.scope)'
         /\ Leaves(s4, to)'
    BY <1>10, <1>12, <2>8 DEF Leaves, After
  <2>12. Follows(list, from, to)'
    <3>1. \A j \in DOMAIN list : j + 1 \in DOMAIN list => j = 1 \/ j = 2 \/ j = 3
      BY <1>14, <1>11
    <3>2. list[1].scope = from
      BY <1>11, <1>12, <2>8
    <3>3. /\ Leaves(list[1], list[1 + 1].scope)' /\ Leaves(list[2], list[2 + 1].scope)'
          /\ Leaves(list[3], list[3 + 1].scope)' /\ Leaves(list[4], to)'
      BY <1>11, <2>11
    <3>4. \A j \in DOMAIN list : j + 1 \in DOMAIN list => Leaves(list[j], list[j + 1].scope)'
      BY <3>1, <3>3
    <3> QED BY <1>11, <3>2, <3>3, <3>4 DEF Follows
  <2>13. s1.drop = {} /\ s2.drop = {} /\ s3.drop = {} /\ s4.drop = {}
    BY <1>5 DEF Begin, InLoop, Instruction, Statement
  <2>14. ScopeIs(f, s1)' /\ ScopeIs(f, s2)' /\ ScopeIs(f, s3)' /\ ScopeIs(f, s4)'
    <3>1. /\ s1.scope \subseteq Scope(c) /\ s2.scope \subseteq Scope(c)
          /\ s3.scope \subseteq Scope(c) /\ s4.scope \subseteq Scope(c)
      BY <1>10, <1>12
    <3> QED BY <1>9, <1>19, <3>1, ScopeNow
  <2>15. ReleaseOK(f, s1)' /\ ReleaseOK(f, s2)' /\ ReleaseOK(f, s3)' /\ ReleaseOK(f, s4)'
    BY <1>12, <1>18, <2>10, <2>13, <2>14, SilentRelease
  <2>16. captured' \subseteq DOMAIN variables'
    BY <1>3, <1>7, <2>5 DEF VariablesOK, Extends
  <2>17. \A b0 : HasStorage(b0)' => HasStorage(b0)
    BY <1>7, <1>15, <2>5, SameCaptured
  <2>18. \A j \in DOMAIN list : ReleaseOK(f, list[j])'
    BY <1>11, <2>15
  <2>19. \A b0 \in to : b0 \in from \/ b0 \notin DOMAIN containers
    BY <1>10, <2>1, <2>2, <2>8
  <2>20. \A j \in DOMAIN labels' :
            \/ EndsWhole(j)'
            \/ j \in DOMAIN labels /\ labels'[j] = labels[j] /\ (OpenLoop(j) => OpenLoop(j)')
    BY <1>23 DEF EndsWhole
  <2> QED BY <1>a, <1>13, <1>15, <1>25, <2>4, <2>6, <2>7, <2>8, <2>12, <2>16, <2>17, <2>18, <2>19,
             <2>20, TopRelease
<1> QED
  BY <1>a, <1>13, <1>14, <1>15, <1>19, <1>21, <1>22, <1>23, <1>24, <1>25, TopKeeps

LEMMA EndForStep ==
    ASSUME CompileInv, compilers # <<>>, EndFor
    PROVE  CompileInv' /\ (ReleaseInv => ReleaseInv')
<1>a. PICK d, f : d = Top /\ f = Top.fn
  OBVIOUS
<1>b. PICK n, loop : n = Len(d.frames) /\ loop = Last(d.loops)
  OBVIOUS
<1>c. PICK l : l = loop.id
  OBVIOUS
<1>0. /\ IsCompiler(d) /\ FramesOK(d) /\ LoopsOK(d) /\ LabelsOK
      /\ IsSeq(d.frames) /\ d.frames # <<>> /\ f \in DOMAIN code
  BY <1>a, TopIs DEF CompileInv, Shapes, IsCompiler, FramesOK
<1>1. n \in Nat /\ n >= 1 /\ DOMAIN d.frames = 1..n
  BY <1>0, <1>b, SeqIs
<1>2. d.loops # <<>> /\ n = loop.depth /\ loop.depth = loop.contentFrameId + 2
  BY <1>a, <1>b DEF EndFor, AtLoopEnd, AtBodyEnd, BodyDepth
<1>3. /\ LoopOK(d, loop)
      /\ \A k \in 1..(Len(d.loops) - 1) :
            /\ d.loops[k].depth \in Nat
            /\ loop.depth = loop.contentFrameId + 2 => d.loops[k].depth < loop.contentFrameId
  BY <1>0, <1>2, <1>b, LoopsNest
<1>4. /\ n - 2 = loop.contentFrameId /\ n - 2 >= 2 /\ l \in DOMAIN labels /\ labels[l].fn = f
      /\ ScopeUpTo(d, n - 2) = StartScope(l)
  <2>1. /\ loop.contentFrameId \in Nat /\ 2 <= loop.contentFrameId /\ l \in DOMAIN labels
        /\ labels[l].fn = f /\ ScopeUpTo(d, loop.contentFrameId) = StartScope(l)
    BY <1>a, <1>c, <1>2, <1>3 DEF LoopOK
  <2>2. n - 2 = loop.contentFrameId
    BY <1>2, <2>1
  <2> QED BY <2>1, <2>2
<1>5. PICK each, hidden, a, c :
          /\ each = PopFrame(d) /\ hidden = PopFrame(each) /\ a = PopFrame(hidden)
          /\ c = [a EXCEPT !.loops = Front(@)]
  OBVIOUS
<1>6. PICK s1, s2, s3, s4, e :
          /\ s1 = Cleanup(d) /\ s2 = Cleanup(each) /\ s3 = InLoop("jump", hidden, l)
          /\ s4 = Cleanup(hidden) /\ e = Len(code[f]) + 4
  OBVIOUS
<1>7. PICK list : list = <<s1, s2, s3, s4>>
  OBVIOUS
<1>8. /\ IsCompiler(each) /\ each.fn = d.fn /\ each.loops = d.loops /\ Len(each.frames) = n - 1
      /\ \A j \in 1..(n - 1) : each.frames[j] = d.frames[j]
      /\ Scope(each) \subseteq Scope(d) /\ each.frames # <<>>
  <2>1. /\ IsCompiler(each) /\ each.fn = d.fn /\ each.loops = d.loops /\ Len(each.frames) = n - 1
        /\ \A j \in 1..(n - 1) : each.frames[j] = d.frames[j]
        /\ Scope(each) \subseteq Scope(d)
    BY <1>b, <1>0, <1>5, PopIs
  <2>2. Len(each.frames) # 0
    BY <1>1, <1>4, <2>1
  <2> QED BY <2>1, <2>2, SeqIs DEF IsCompiler
<1>9. /\ IsCompiler(hidden) /\ hidden.fn = d.fn /\ hidden.loops = d.loops /\ Len(hidden.frames) = n - 2
      /\ \A j \in 1..(n - 2) : hidden.frames[j] = d.frames[j]
      /\ Scope(hidden) \subseteq Scope(each) /\ hidden.frames # <<>>
  <2>1. PICK m : m = n - 1
    OBVIOUS
  <2>2. /\ IsCompiler(hidden) /\ hidden.fn = each.fn /\ hidden.loops = each.loops
        /\ Len(hidden.frames) = m - 1
        /\ \A j \in 1..(m - 1) : hidden.frames[j] = each.frames[j]
        /\ Scope(hidden) \subseteq Scope(each)
    BY <1>5, <1>8, <2>1, PopIs
  <2>3. m - 1 = n - 2 /\ n - 2 # 0 /\ \A j \in 1..(n - 2) : j \in 1..(n - 1)
    BY <1>1, <1>4, <2>1
  <2> QED BY <1>8, <2>2, <2>3, SeqIs DEF IsCompiler
<1>10. /\ IsCompiler(a) /\ a.fn = d.fn /\ a.loops = d.loops /\ Len(a.frames) = n - 3
       /\ \A j \in 1..(n - 3) : a.frames[j] = d.frames[j]
       /\ Scope(a) \subseteq Scope(hidden)
  <2>1. PICK m : m = n - 2
    OBVIOUS
  <2>2. /\ IsCompiler(a) /\ a.fn = hidden.fn /\ a.loops = hidden.loops
        /\ Len(a.frames) = m - 1
        /\ \A j \in 1..(m - 1) : a.frames[j] = hidden.frames[j]
        /\ Scope(a) \subseteq Scope(hidden)
    BY <1>5, <1>9, <2>1, PopIs
  <2>3. m - 1 = n - 3 /\ \A j \in 1..(n - 3) : j \in 1..(n - 2)
    BY <1>1, <2>1
  <2> QED BY <1>9, <2>2, <2>3
<1>11. Scope(hidden) = StartScope(l)
  <2>1. DOMAIN hidden.frames = 1..(n - 2)
    BY <1>9, SeqIs DEF IsCompiler
  <2>2. Scope(hidden) = ScopeUpTo(d, n - 2)
    BY <1>9, <2>1 DEF Scope, ScopeUpTo
  <2> QED BY <1>4, <2>2
<1>12. /\ compilers' = [compilers EXCEPT ![Len(compilers)] = c]
       /\ code' = [code EXCEPT ![Top.fn] = @ \o list]
       /\ labels' = [labels EXCEPT ![l].end = e]
       /\ UNCHANGED <<variables, captured, upvalues, containers>>
  BY <1>a, <1>b, <1>c, <1>5, <1>6, <1>7 DEF EndFor, SetTop, EmitAll
<1>13. /\ IsCompiler(c) /\ c.fn = d.fn /\ c.frames = a.frames /\ c.loops = Front(d.loops)
       /\ Scope(c) \subseteq Scope(hidden)
  <2>1. IsCompiler(c) /\ c.fn = a.fn /\ c.frames = a.frames /\ c.loops = Front(a.loops)
        /\ Scope(c) = Scope(a)
    BY <1>2, <1>5, <1>10, PopLoopIs
  <2> QED BY <1>10, <2>1
<1>14. /\ IsSeq(list) /\ Len(list) = 4
       /\ list[1] = s1 /\ list[2] = s2 /\ list[3] = s3 /\ list[4] = s4
       /\ DOMAIN list = {1, 2, 3, 4} /\ list # <<>>
  BY <1>7, FourIs
<1>15. /\ s1.op = "relocate" /\ s1.scope = Scope(d) /\ s2.op = "relocate" /\ s2.scope = Scope(each)
       /\ s3.op = "jump" /\ s3.scope = Scope(hidden) /\ s3.loop = l
       /\ s4.op = "relocate" /\ s4.scope = Scope(hidden)
  BY <1>6 DEF Cleanup, InLoop, Instruction, Statement
<1>16. TopStep(c, list)
  BY <1>a, <1>12, <1>13, <1>14 DEF TopStep
<1>17. Beside /\ EndLabel(l, e)
  BY <1>4, <1>12, LabelEnded
<1>18. Grows /\ UpvaluesOK' /\ ParentsOK'
  BY <1>12, <1>16, <1>17, TopGrows, TopUpvalues
<1>19. FramesOK(d)' /\ LoopsOK(d)' /\ StartScope(l)' = StartScope(l)
  BY <1>0, <1>4, <1>18, CompilerKept, StartKept
<1>20. FramesOK(c)' /\ LoopsOK(c)'
  <2>1. Len(c.frames) <= Len(d.frames) /\ Len(c.frames) >= 1 /\ Len(c.frames) = n - 3
    BY <1>1, <1>4, <1>10, <1>13, <1>b
  <2>2. IsSeq(d.loops) /\ Len(d.loops) \in Nat
    BY <1>0, SeqIs DEF IsCompiler
  <2>3. /\ Len(c.loops) = Len(d.loops) - 1
        /\ \A j \in 1..(Len(d.loops) - 1) : c.loops[j] = d.loops[j]
    BY <1>2, <1>13, <2>2, FrontIs
  <2>4. Len(c.loops) <= Len(d.loops)
    BY <2>2, <2>3
  <2>5. \A j \in 1..(Len(d.loops) - 1) : d.loops[j].depth <= n - 3
    BY <1>1, <1>2, <1>3, <1>4
  <2>6. \A j \in 1..Len(c.loops) : c.loops[j] = d.loops[j] /\ d.loops[j].depth <= Len(c.frames)
    BY <2>1, <2>3, <2>5
  <2>7. \A j \in 1..Len(c.frames) : c.frames[j] = d.frames[j]
    BY <1>10, <1>13
  <2> QED BY <1>0, <1>13, <1>19, <2>1, <2>4, <2>6, <2>7, CutOK
<1>21. LabelOK(l)'
  <2>1. labels'[l].end = e /\ labels'[l].fn = f
    BY <1>4, <1>17 DEF EndLabel
  <2>2. /\ labels[l].fn \in DOMAIN code' /\ labels'[l].start = labels[l].start
        /\ labels[l].start \in DOMAIN code'[labels[l].fn]
    BY <1>0, <1>4, <1>18, StartKept
  <2>3. e \in DOMAIN code'[f] /\ code'[f][e] = list[4]
    BY <1>a, <1>6, <1>14, <1>16, TopAppended
  <2>4. EndOK(l)'
    BY <1>11, <1>14, <1>15, <1>19, <2>1, <2>3 DEF EndOK
  <2> QED BY <1>4, <2>1, <2>2, <2>4 DEF LabelOK
<1>22. \A j \in DOMAIN labels' :
          \/ LabelOK(j)' /\ j = l
          \/ j \in DOMAIN labels /\ labels'[j] = labels[j] /\ (OpenLoop(j) => OpenLoop(j)')
  BY <1>a, <1>b, <1>c, <1>2, <1>13, <1>16, <1>17, <1>21, LoopEnded
<1>23. FollowsOn(list, Scope(Top), Scope(c))
  <2>1. \A j \in DOMAIN list : j + 1 \in DOMAIN list => j = 1 \/ j = 2 \/ j = 3
    BY <1>14
  <2>2. /\ list[1].scope \subseteq Scope(Top) /\ Scope(c) \subseteq After(list[4])
        /\ list[1 + 1].scope \subseteq After(list[1])
        /\ list[2 + 1].scope \subseteq After(list[2])
        /\ list[3 + 1].scope \subseteq After(list[3])
    BY <1>a, <1>8, <1>9, <1>13, <1>14, <1>15 DEF After
  <2> QED BY <1>14, <2>1, <2>2 DEF FollowsOn
<1>24. \A j \in DOMAIN list : StatementOK(f, list[j])'
  <2>1. StatementOK(f, s1)' /\ StatementOK(f, s2)' /\ StatementOK(f, s4)'
    BY <1>15, PlainOK
  <2>2. l \in DOMAIN labels' /\ labels'[l].fn = f
    BY <1>4, <1>17 DEF EndLabel
  <2>3. StatementOK(f, s3)'
    BY <1>11, <1>15, <1>19, <2>2, LoopStatementOK DEF LoopOps
  <2> QED BY <1>14, <2>1, <2>3
<1>25. ASSUME ReleaseInv PROVE ReleaseInv'
  <2>1. OwnBlocks(d) /\ HiddenFrames(d)' /\ VariablesOK /\ DeclaresInside
    <3>1. Len(compilers) \in DOMAIN compilers /\ d = compilers[Len(compilers)]
      BY <1>a, TopIs
    <3>2. DeclaresInside
      BY <1>12 DEF DeclaresInside
    <3> QED BY <1>18, <1>25, <3>1, <3>2, HiddenAll DEF ReleaseInv
  <2>2. PICK from, to, m, m1, m2 : /\ from = Scope(d) /\ to = Scope(c)
                                   /\ m = n - 3 /\ m1 = n - 1 /\ m2 = n - 2
    OBVIOUS
  <2>3. /\ n \in 1..n /\ m1 \in 1..n /\ m2 \in 1..n /\ m1 = n - 1 /\ m2 = m1 - 1 /\ m = m2 - 1
        /\ m \in Nat /\ m <= n
    BY <1>1, <1>4, <2>2
  <2>4. /\ Scope(each) = ScopeUpTo(d, m1) /\ Scope(hidden) = ScopeUpTo(d, m2) /\ to = ScopeUpTo(d, m)
    <3>1. DOMAIN each.frames = 1..m1 /\ DOMAIN hidden.frames = 1..m2 /\ DOMAIN c.frames = 1..m
      BY <1>8, <1>9, <1>10, <1>13, <2>2, SeqIs DEF IsCompiler
    <3>2. \A j \in 1..m1 : each.frames[j].container = d.frames[j].container
      BY <1>8, <2>2
    <3>3. \A j \in 1..m2 : hidden.frames[j].container = d.frames[j].container
      BY <1>9, <2>2
    <3>4. \A j \in 1..m : c.frames[j].container = d.frames[j].container
      BY <1>10, <1>13, <2>2
    <3>5. Scope(each) = ScopeUpTo(d, m1)
      BY <3>1, <3>2 DEF Scope, ScopeUpTo
    <3>6. Scope(hidden) = ScopeUpTo(d, m2)
      BY <3>1, <3>3 DEF Scope, ScopeUpTo
    <3>7. to = ScopeUpTo(d, m)
      BY <2>2, <3>1, <3>4 DEF Scope, ScopeUpTo
    <3> QED BY <3>5, <3>6, <3>7
  <2>5. Leaves(s1, s2.scope)' /\ ReleaseOK(f, s1)'
    <3>1. Len(d.frames) = n /\ \A j \in 1..n : d.frames[j] = d.frames[j]
      BY <1>b
    <3>2. s2.scope = ScopeUpTo(d, n - 1) /\ Scope(c) \subseteq s2.scope
      BY <1>9, <1>13, <1>15, <2>3, <2>4
    <3>3. PICK next : next = s2.scope
      OBVIOUS
    <3>4. next = ScopeUpTo(d, n - 1) /\ Scope(c) \subseteq next
      BY <3>2, <3>3
    <3>5. s1 = Cleanup(d) /\ d = Top /\ f = d.fn /\ n = Len(d.frames)
      BY <1>a, <1>b, <1>6
    <3>6. Leaves(s1, next)' /\ ReleaseOK(f, s1)'
      BY <1>0, <1>12, <1>16, <1>18, <1>25, <2>3, <3>1, <3>4, <3>5, CutCleanup
    <3> QED BY <3>3, <3>6
  <2>6. Leaves(s2, s3.scope)' /\ ReleaseOK(f, s2)'
    <3>1. Len(each.frames) = m1 /\ \A j \in 1..m1 : each.frames[j] = d.frames[j]
      BY <1>8, <2>2
    <3>2. s3.scope = ScopeUpTo(d, m1 - 1) /\ Scope(c) \subseteq s3.scope
      BY <1>13, <1>15, <2>3, <2>4
    <3>3. PICK next : next = s3.scope
      OBVIOUS
    <3>4. next = ScopeUpTo(d, m1 - 1) /\ Scope(c) \subseteq next
      BY <3>2, <3>3
    <3>5. s2 = Cleanup(each) /\ d = Top /\ f = d.fn /\ n = Len(d.frames)
      BY <1>a, <1>b, <1>6
    <3>7. m1 \in 1..n /\ IsCompiler(each)
      BY <1>8, <2>3
    <3>8. UNCHANGED <<captured, variables, containers>>
      BY <1>12
    <3>6. Leaves(s2, next)' /\ ReleaseOK(f, s2)'
      BY <1>16, <1>18, <1>25, <3>1, <3>4, <3>5, <3>7, <3>8, CutCleanup
    <3> QED BY <3>3, <3>6
  <2>7. Leaves(s4, to)' /\ ReleaseOK(f, s4)'
    <3>1. Len(hidden.frames) = m2 /\ \A j \in 1..m2 : hidden.frames[j] = d.frames[j]
      BY <1>9, <2>2
    <3>2. to = ScopeUpTo(d, m2 - 1) /\ Scope(c) \subseteq to
      BY <2>2, <2>3, <2>4
    <3>3. PICK next : next = to
      OBVIOUS
    <3>4. next = ScopeUpTo(d, m2 - 1) /\ Scope(c) \subseteq next
      BY <3>2, <3>3
    <3>5. s4 = Cleanup(hidden) /\ d = Top /\ f = d.fn /\ n = Len(d.frames)
      BY <1>a, <1>b, <1>6
    <3>7. m2 \in 1..n /\ IsCompiler(hidden)
      BY <1>9, <2>3
    <3>8. captured' = captured /\ variables' = variables /\ containers' = containers
      BY <1>12
    <3>6. Leaves(s4, next)' /\ ReleaseOK(f, s4)'
      BY <1>16, <1>18, <1>25, <3>1, <3>4, <3>5, <3>7, <3>8, CutCleanup
    <3> QED BY <3>3, <3>6
  <2>8. ReleaseOK(f, s3)'
    <3>1. s3.drop = {}
      BY <1>6, InLoopDrops
    <3>2. ScopeIs(f, s3)'
      <4>1. s3.scope \subseteq Scope(d) /\ d.fn = f
        BY <1>a, <1>8, <1>9, <1>15
      <4> QED BY <1>19, <4>1, ScopeNow
    <3> QED BY <1>11, <1>15, <1>19, <3>1, <3>2, SilentRelease
  <2>9. OwnBlocks(c) /\ HiddenFrames(c)'
    <3>1. IsSeq(d.loops) /\ DOMAIN d.loops = 1..Len(d.loops) /\ Len(d.loops) \in Nat
      BY <1>0, SeqIs DEF IsCompiler
    <3>2. m = Len(c.frames) /\ m <= n /\ \A j \in 1..m : c.frames[j] = d.frames[j]
      BY <1>10, <1>13, <2>2, <2>3
    <3>3. /\ DOMAIN c.loops = 1..(Len(d.loops) - 1)
          /\ \A j \in 1..(Len(d.loops) - 1) : c.loops[j] = d.loops[j]
      BY <1>2, <1>13, <3>1, FrontIs
    <3>4. \A j \in 1..(Len(d.loops) - 1) : j \in 1..Len(d.loops)
      BY <3>1
    <3>5. \A j \in 1..(Len(d.loops) - 1) : d.loops[j].depth <= m
      <4>1. \A j \in 1..(Len(d.loops) - 1) :
               d.loops[j].depth \in Nat /\ d.loops[j].depth < loop.contentFrameId
        BY <1>2, <1>3
      <4>2. \A x \in Nat : x < loop.contentFrameId => x <= m
        BY <1>1, <1>4, <2>2
      <4> QED BY <4>1, <4>2
    <3>6. \A j \in DOMAIN c.loops :
              j \in DOMAIN d.loops /\ c.loops[j] = d.loops[j] /\ d.loops[j].depth <= m
      BY <3>1, <3>3, <3>4, <3>5
    <3> QED BY <1>b, <1>0, <1>13, <2>1, <3>2, <3>6, CutRelease
  <2>10. Leaves(s3, s4.scope)'
    BY <1>15 DEF Leaves, After
  <2>11. Follows(list, from, to)'
    <3>1. \A j \in DOMAIN list : j + 1 \in DOMAIN list => j = 1 \/ j = 2 \/ j = 3
      BY <1>14
    <3>2. list[1].scope = from
      BY <1>14, <1>15, <2>2
    <3>3. /\ Leaves(list[1], list[1 + 1].scope)' /\ Leaves(list[2], list[2 + 1].scope)'
          /\ Leaves(list[3], list[3 + 1].scope)' /\ Leaves(list[4], to)'
      BY <1>14, <2>5, <2>6, <2>7, <2>10
    <3>4. \A j \in DOMAIN list : j + 1 \in DOMAIN list => Leaves(list[j], list[j + 1].scope)'
      BY <3>1, <3>3
    <3> QED BY <1>14, <3>2, <3>3, <3>4 DEF Follows
  <2>12. captured' \subseteq DOMAIN variables'
    BY <1>12, <2>1 DEF VariablesOK
  <2>13. \A b : HasStorage(b)' => HasStorage(b)
    BY <1>12, SameStorage
  <2>14. \A j \in DOMAIN list : ReleaseOK(f, list[j])'
    BY <1>14, <2>5, <2>6, <2>7, <2>8
  <2>15. \A b \in to : b \in from \/ b \notin DOMAIN containers
    BY <1>8, <1>9, <1>13, <2>2
  <2>16. EndsWhole(l)'
    <3>1. labels'[l].end = e /\ labels'[l].fn = f
      BY <1>4, <1>17 DEF EndLabel
    <3>2. e \in DOMAIN code'[f] /\ code'[f][e] = list[4]
      BY <1>a, <1>6, <1>14, <1>16, TopAppended
    <3>3. StartScope(l)' \subseteq list[4].scope
      BY <1>11, <1>14, <1>15, <1>19
    <3> QED BY <3>1, <3>2, <3>3 DEF EndsWhole
  <2>17. \A j \in DOMAIN labels' :
            \/ EndsWhole(j)'
            \/ j \in DOMAIN labels /\ labels'[j] = labels[j] /\ (OpenLoop(j) => OpenLoop(j)')
    BY <1>22, <2>16
  <2> QED BY <1>a, <1>16, <1>18, <1>25, <2>1, <2>2, <2>9, <2>11, <2>12, <2>13, <2>14, <2>15, <2>17,
             TopRelease
<1> QED
  BY <1>a, <1>16, <1>17, <1>18, <1>20, <1>22, <1>23, <1>24, <1>25, TopKeeps

(* The meaning of a name is what the innermost function that declares it    *)
(* looks up.                                                                *)
LEMMA MeaningIs ==
    ASSUME CompileInv, NEW name, NEW j \in DOMAIN compilers, Lookup(compilers[j], name) # 0,
           \A i \in DOMAIN compilers : i > j => Lookup(compilers[i], name) = 0
    PROVE  Meaning(name) = Lookup(compilers[j], name)
<1> DEFINE hits == {i \in DOMAIN compilers : Lookup(compilers[i], name) # 0}
<1>1. Len(compilers) \in Nat /\ DOMAIN compilers = 1..Len(compilers)
  BY SeqIs DEF CompileInv, Shapes
<1>2. hits \subseteq 1..Len(compilers) /\ j \in hits
  BY <1>1
<1>3. Max(hits) \in hits /\ \A k \in hits : k <= Max(hits)
  <2> HIDE DEF hits
  <2> QED BY <1>1, <1>2, GreatestIs
<1>4. ~(Max(hits) > j) /\ j <= Max(hits) /\ Max(hits) \in Nat /\ j \in Nat
  BY <1>1, <1>2, <1>3
<1>5. Max(hits) = j
  BY <1>4
<1> QED
  BY <1>5 DEF Meaning

(* What an open function looks up is a variable of a block of its own.      *)
LEMMA OwnVariable ==
    ASSUME CompileInv, NEW i \in DOMAIN compilers, NEW name, NEW v,
           v = Lookup(compilers[i], name), v # 0
    PROVE  /\ v \in DOMAIN variables /\ variables[v].name = name
           /\ variables[v].container \in DOMAIN containers
           /\ containers[variables[v].container] = compilers[i].fn
           /\ variables[v].container \in Scope(compilers[i])
           /\ \E k \in DOMAIN compilers[i].frames : v \in compilers[i].frames[k].locals
<1>1. PICK c : c = compilers[i]
  OBVIOUS
<1>2. IsSeq(c.frames) /\ IsSeq(variables) /\ FramesOK(c)
  BY <1>1 DEF CompileInv, Shapes, IsCompiler
<1>3. \A k \in DOMAIN c.frames : c.frames[k].locals \subseteq DOMAIN variables
  BY <1>2 DEF FramesOK, FrameOK
<1>4. /\ v \in DOMAIN variables /\ variables[v].name = name
      /\ \E k \in DOMAIN c.frames : v \in c.frames[k].locals
  BY <1>1, <1>2, <1>3, LookupIs
<1>5. PICK k \in DOMAIN c.frames : v \in c.frames[k].locals
  BY <1>4
<1>6. FrameOK(c.fn, c.frames[k])
  BY <1>2 DEF FramesOK
<1>7. variables[v].container = c.frames[k].container
  BY <1>5, <1>6 DEF FrameOK
<1> QED
  BY <1>1, <1>4, <1>6, <1>7 DEF FrameOK, Scope

LEMMA UseLocalStep ==
    ASSUME CompileInv, compilers # <<>>, UseLocal
    PROVE  CompileInv' /\ (ReleaseInv => ReleaseInv')
<1>a. PICK f, n, name : f = Top.fn /\ n = Len(compilers) /\ name = Head(tokens)[2]
  OBVIOUS
<1>1. n \in Nat /\ n \in DOMAIN compilers /\ DOMAIN compilers = 1..n /\ Top = compilers[n]
  BY <1>a, TopIs
<1>2. PICK v : v = Lookup(compilers[n], name)
  OBVIOUS
<1>3. PICK s : s = Use(Local(v), name)
  OBVIOUS
<1>4. /\ v # 0 /\ code' = [code EXCEPT ![Top.fn] = @ \o <<s>>]
      /\ UNCHANGED <<compilers, variables, captured, upvalues, labels, containers>>
  BY <1>a, <1>1, <1>2, <1>3 DEF UseLocal, EmitAll
<1>5. \A i \in DOMAIN compilers : ~(i > n)
  BY <1>1
<1>6. Meaning(name) = v
  BY <1>1, <1>2, <1>4, <1>5, MeaningIs
<1>7. v \in DOMAIN variables /\ variables[v].container \in Scope(Top)
  BY <1>1, <1>2, <1>4, OwnVariable
<1>8. s.op = "use" /\ s.scope = Scope(Top) /\ s.decl = Local(v) /\ s.means = v
  <2>1. PICK decl : decl = Local(v)
    OBVIOUS
  <2> QED BY <1>3, <1>6, <2>1, FieldsAre
<1>9. s.decl.target = v /\ s.decl.depth = 0
  BY <1>8 DEF Local
<1>10. StatementOK(f, s)'
  <2>1. UseOK(f, s)'
    BY <1>4, <1>7, <1>8, <1>9 DEF UseOK
  <2> QED BY <1>8, <2>1 DEF StatementOK, BeginOK, ClosureOK, JumpOK, LoopOps
<1>11. CompileInv' /\ Grows
  BY <1>a, <1>4, <1>8, <1>10, EmitSame
<1>12. ASSUME ReleaseInv PROVE ReleaseInv'
  <2>1. s.drop = {}
    <3>1. PICK decl : decl = Local(v)
      OBVIOUS
    <3> QED BY <1>3, <3>1, UseDrops
  <2>2. ScopeIs(f, s)' => ReleaseOK(f, s)'
    BY <1>8, <2>1, SilentRelease
  <2>3. captured' \subseteq DOMAIN variables
    BY <1>4, <1>12 DEF ReleaseInv, VariablesOK
  <2>4. \A k : HasStorage(k)' => HasStorage(k)
    BY <1>4, SameStorage
  <2> QED BY <1>a, <1>4, <1>8, <1>11, <1>12, <2>2, <2>3, <2>4, EmitRelease
<1> QED
  BY <1>11, <1>12

(* What findUpvalue finds.                                                  *)
Found(base, t, n, name) ==
    /\ base \in 2..n /\ base - 1 \in DOMAIN compilers
    /\ t = Lookup(compilers[base - 1], name) /\ t # 0 /\ Meaning(name) = t
    /\ FindUpvalue(name) = [i \in base..n |-> [depth |-> i - base + 1, target |-> t]]

LEMMA FindUpvalueIs ==
    ASSUME CompileInv, compilers # <<>>, NEW name, Lookup(Top, name) = 0, Bases(name) # {},
           NEW n, n = Len(compilers)
    PROVE  \E base, t : Found(base, t, n, name)
<1>1. n \in Nat /\ n \in DOMAIN compilers /\ DOMAIN compilers = 1..n /\ Top = compilers[n]
  BY TopIs
<1>2. PICK base : base = UpvalueBase(name)
  OBVIOUS
<1>3. base \in Bases(name) /\ \A k \in Bases(name) : k <= base
  <2>1. Bases(name) \subseteq 1..n
    BY <1>1 DEF Bases
  <2>2. Max(Bases(name)) \in Bases(name) /\ \A k \in Bases(name) : k <= Max(Bases(name))
    BY <1>1, <2>1, GreatestIs
  <2> QED BY <1>2, <2>2 DEF UpvalueBase
<1>4. base \in 2..n /\ (Cached(base, name) # {} \/ Lookup(compilers[base - 1], name) # 0)
  BY <1>3 DEF Bases
<1>5. base - 1 \in DOMAIN compilers /\ base \in DOMAIN compilers /\ base > 1 /\ base \in Nat
  BY <1>1, <1>4
<1>6. ASSUME NEW v \in Cached(base, name) PROVE v = Lookup(compilers[base - 1], name) /\ v # 0
  <2>1. v \in DOMAIN variables /\ variables[v].name = name
        /\ Upvalue(Local(v)) \in upvalues[compilers[base].fn]
    BY DEF Cached
  <2>2. PICK u : u = Upvalue(Local(v))
    OBVIOUS
  <2>3. u = [depth |-> 1, target |-> v]
    BY <2>2 DEF Upvalue, Local
  <2>4. ParentOK(compilers[base - 1], u)
    BY <1>5, <2>1, <2>2 DEF CompileInv, ParentsOK
  <2>5. Lookup(compilers[base - 1], name) = v
    BY <2>1, <2>3, <2>4 DEF ParentOK
  <2>6. v # 0
    <3>1. DOMAIN variables = 1..Len(variables) /\ Len(variables) \in Nat
      BY SeqIs DEF CompileInv, Shapes
    <3> QED BY <2>1, <3>1
  <2> QED BY <2>5, <2>6
<1>7. PICK t : t = Lookup(compilers[base - 1], name)
  OBVIOUS
<1>8. /\ (IF Cached(base, name) # {} THEN AnyOf(Cached(base, name))
          ELSE Lookup(compilers[base - 1], name)) = t
      /\ t # 0
  <2>1. CASE Cached(base, name) # {}
    <3>1. AnyOf(Cached(base, name)) \in Cached(base, name)
      BY <2>1, AnyOfIs
    <3> QED BY <1>6, <1>7, <2>1, <3>1
  <2>2. CASE Cached(base, name) = {}
    BY <1>4, <1>7, <2>2
  <2> QED BY <2>1, <2>2
<1>9. FindUpvalue(name) = [i \in base..n |-> [depth |-> i - base + 1, target |-> t]]
  BY <1>2, <1>8 DEF FindUpvalue
<1>10. ASSUME NEW i \in DOMAIN compilers, i > base - 1 PROVE Lookup(compilers[i], name) = 0
  <2>1. CASE i = n
    BY <1>1, <2>1
  <2>2. CASE i # n
    <3>1. i + 1 \in 2..n /\ ~(i + 1 <= base) /\ (i + 1) - 1 = i
      BY <1>1, <1>5, <1>10, <2>2
    <3>2. i + 1 \notin Bases(name)
      BY <1>3, <3>1
    <3> QED BY <3>1, <3>2 DEF Bases
  <2> QED BY <2>1, <2>2
<1>11. Meaning(name) = t
  BY <1>5, <1>7, <1>8, <1>10, MeaningIs
<1>12. Found(base, t, n, name)
  BY <1>4, <1>5, <1>7, <1>8, <1>9, <1>11 DEF Found
<1> QED
  BY <1>12

(* The upvalues a use adds: one for each function from the base inwards.    *)
Chain(fn, base, t, n) ==
    {[depth |-> i - base + 1, target |-> t] : i \in {i \in base..n : compilers[i].fn = fn}}

LEMMA ChainAdded ==
    ASSUME CompileInv, UseUpvalue, NEW name, name = Head(tokens)[2], NEW n, n = Len(compilers),
           NEW base, NEW t, Found(base, t, n, name), NEW u, u = [depth |-> n - base + 1, target |-> t]
    PROVE  /\ code' = [code EXCEPT ![Top.fn] = @ \o <<Use(u, name)>>]
           /\ upvalues' = [fn \in DOMAIN upvalues |-> upvalues[fn] \cup Chain(fn, base, t, n)]
           /\ captured' = captured \cup {t}
           /\ UNCHANGED <<compilers, variables, labels, containers>>
<1>1. PICK chain : chain = FindUpvalue(name)
  OBVIOUS
<1>2. chain = [i \in base..n |-> [depth |-> i - base + 1, target |-> t]] /\ base \in 2..n
  BY <1>1 DEF Found
<1>3. n \in base..n /\ DOMAIN chain = base..n
  BY <1>2
<1>4. chain[n] = u /\ u.target = t
  BY <1>2, <1>3
<1>5. code' = [code EXCEPT ![Top.fn] = @ \o <<Use(chain[n], name)>>]
      /\ captured' = captured \cup {chain[n].target}
      /\ UNCHANGED <<compilers, variables, labels, containers>>
  BY <1>1 DEF UseUpvalue, EmitAll
<1>6. upvalues' = [fn \in DOMAIN upvalues |->
          upvalues[fn] \cup {chain[i] : i \in {i \in DOMAIN chain : compilers[i].fn = fn}}]
  BY <1>1 DEF UseUpvalue
<1>7. \A fn : {chain[i] : i \in {i \in DOMAIN chain : compilers[i].fn = fn}} = Chain(fn, base, t, n)
  BY <1>2, <1>3 DEF Chain
<1> QED
  BY <1>4, <1>5, <1>6, <1>7

LEMMA UseUpvalueStep ==
    ASSUME CompileInv, compilers # <<>>, UseUpvalue
    PROVE  CompileInv' /\ (ReleaseInv => ReleaseInv')
<1>a. PICK f, n, name : f = Top.fn /\ n = Len(compilers) /\ name = Head(tokens)[2]
  OBVIOUS
<1>1. n \in Nat /\ n \in DOMAIN compilers /\ DOMAIN compilers = 1..n /\ Top = compilers[n]
  BY <1>a, TopIs
<1>2. PICK base, t : Found(base, t, n, name)
  <2>1. Lookup(Top, name) = 0 /\ Bases(name) # {}
    BY <1>a DEF UseUpvalue
  <2> QED BY <1>a, <2>1, FindUpvalueIs
<1>3. /\ base \in 2..n /\ base - 1 \in DOMAIN compilers
      /\ t = Lookup(compilers[base - 1], name) /\ t # 0 /\ Meaning(name) = t
  BY <1>2 DEF Found
<1>4. PICK last : last = [depth |-> n - base + 1, target |-> t]
  OBVIOUS
<1>5. PICK s : s = Use(last, name)
  OBVIOUS
<1>6. /\ code' = [code EXCEPT ![Top.fn] = @ \o <<s>>]
      /\ upvalues' = [fn \in DOMAIN upvalues |-> upvalues[fn] \cup Chain(fn, base, t, n)]
      /\ captured' = captured \cup {t}
      /\ compilers' = compilers /\ variables' = variables /\ labels' = labels /\ containers' = containers
  BY <1>a, <1>2, <1>4, <1>5, ChainAdded
<1>7. /\ IsSeq(variables) /\ IsSeq(containers) /\ IsSeq(labels) /\ IsSeq(upvalues)
      /\ DOMAIN upvalues = DOMAIN code /\ Len(upvalues) \in Nat /\ DOMAIN upvalues = 1..Len(upvalues)
      /\ \A l \in DOMAIN labels : IsLabel(labels[l])
  <2>1. /\ IsSeq(variables) /\ IsSeq(containers) /\ IsSeq(labels) /\ IsSeq(upvalues) /\ IsSeq(code)
        /\ Len(upvalues) = Len(code) /\ \A l \in DOMAIN labels : IsLabel(labels[l])
    BY DEF CompileInv, Shapes, IsLabel
  <2>2. DOMAIN upvalues = 1..Len(upvalues) /\ DOMAIN code = 1..Len(code) /\ Len(upvalues) \in Nat
    BY <2>1, SeqIs
  <2> QED BY <2>1, <2>2
<1>8. \A fn \in DOMAIN upvalues : upvalues'[fn] = upvalues[fn] \cup Chain(fn, base, t, n)
  BY <1>6
<1>9. IsSeq(upvalues') /\ Len(upvalues') = Len(upvalues) /\ DOMAIN upvalues' = DOMAIN upvalues
  <2>1. upvalues' = [fn \in 1..Len(upvalues) |-> upvalues'[fn]] /\ DOMAIN upvalues' = DOMAIN upvalues
    BY <1>6, <1>7
  <2> QED BY <1>7, <2>1, FunctionIs
<1>10. \A i \in base..n : i \in DOMAIN compilers /\ i # 1 /\ i # base - 1
  BY <1>1, <1>3
<1>11. ASSUME NEW fn, ~Open(fn) PROVE Chain(fn, base, t, n) = {}
  BY <1>10, <1>11 DEF Open, Chain
<1>12. Beside
  <2>1. Extends(variables, variables') /\ Extends(containers, containers')
    BY <1>6, <1>7, ExtendsSelf
  <2>2. \A fn \in DOMAIN code : upvalues[fn] \subseteq upvalues'[fn]
    BY <1>7, <1>8
  <2>3. \A fn \in DOMAIN code : ~Open(fn) => upvalues'[fn] = upvalues[fn]
    BY <1>7, <1>8, <1>11
  <2> QED BY <1>6, <1>7, <1>9, <2>1, <2>2, <2>3 DEF Beside
<1>13. s.op = "use" /\ s.scope = Scope(Top) /\ s.decl = last /\ s.means = t
  BY <1>3, <1>5, FieldsAre
<1>14. Grows
  <2>1. PICK list, c : list = <<s>> /\ c = Top
    OBVIOUS
  <2>2. IsCompiler(c) /\ IsSeq(list)
    BY <2>1, TopIs, TuplesAre
  <2>3. TopStep(c, list)
    BY <1>6, <2>1, <2>2, SameCode DEF TopStep
  <2> QED BY <1>12, <2>3, TopGrows
<1>15. /\ t \in DOMAIN variables /\ variables[t].name = name
       /\ variables[t].container \in DOMAIN containers
       /\ containers[variables[t].container] = compilers[base - 1].fn
       /\ \E k \in DOMAIN compilers[base - 1].frames : t \in compilers[base - 1].frames[k].locals
  BY <1>3, OwnVariable
<1>16. ASSUME NEW fn \in DOMAIN upvalues, NEW i \in base..n, compilers[i].fn = fn,
              NEW u, u = [depth |-> i - base + 1, target |-> t]
       PROVE  UpvalueOK(fn, u)'
  <2>1. u.depth = i - base + 1 /\ u.target = t /\ i - base + 1 \in Nat /\ i - base + 1 >= 1
    BY <1>3, <1>16
  <2>2. u = [depth |-> u.depth, target |-> u.target]
    BY <1>16
  <2>3. compilers[base - 1].fn # fn
    BY <1>3, <1>10, <1>16 DEF CompileInv, OpenFunctions
  <2> QED BY <1>6, <1>15, <2>1, <2>2, <2>3 DEF UpvalueOK
<1>17. UpvaluesOK'
  <2>1. ASSUME NEW fn \in DOMAIN upvalues', NEW u \in upvalues'[fn] PROVE UpvalueOK(fn, u)'
    <3>1. fn \in DOMAIN upvalues
      BY <1>9
    <3>2. CASE u \in upvalues[fn]
      BY <1>14, <3>1, <3>2, UpvalueKept DEF CompileInv, UpvaluesOK
    <3>3. CASE u \in Chain(fn, base, t, n)
      BY <1>16, <3>1, <3>3 DEF Chain
    <3> QED BY <1>8, <3>1, <3>2, <3>3
  <2>2. upvalues'[1] = {}
    <3>1. 1 \in DOMAIN upvalues /\ upvalues[1] = {}
      BY <1>7 DEF CompileInv, OpenFunctions, UpvaluesOK
    <3>2. Chain(1, base, t, n) = {}
      BY <1>10 DEF Chain, CompileInv, OpenFunctions
    <3> QED BY <1>8, <3>1, <3>2
  <2> QED BY <2>1, <2>2 DEF UpvaluesOK
<1>18. \A i \in base..n : [depth |-> i - base + 1, target |-> t] \in upvalues'[compilers[i].fn]
  <2>1. ASSUME NEW i \in base..n PROVE [depth |-> i - base + 1, target |-> t] \in upvalues'[compilers[i].fn]
    <3>1. [depth |-> i - base + 1, target |-> t] \in Chain(compilers[i].fn, base, t, n)
      BY DEF Chain
    <3>2. compilers[i].fn \in DOMAIN upvalues
      BY <1>7, <1>10 DEF CompileInv, OpenFunctions
    <3> QED BY <1>8, <3>1, <3>2
  <2> QED BY <2>1
<1>19. ASSUME NEW i \in DOMAIN compilers, i > 1, NEW u \in upvalues'[compilers[i].fn],
              NEW outer, outer = compilers[i - 1]
       PROVE  ParentOK(outer, u)'
  <2>1. i - 1 \in DOMAIN compilers /\ compilers[i].fn \in DOMAIN upvalues
    BY <1>1, <1>7, <1>19 DEF CompileInv, OpenFunctions
  <2>2. FramesOK(outer) /\ IsSeq(outer.frames) /\ outer.fn \in DOMAIN code
    BY <1>19, <2>1 DEF CompileInv, Shapes, IsCompiler, OpenFunctions
  <2>3. CASE u \in upvalues[compilers[i].fn]
    <3>1. ParentOK(outer, u) /\ UpvalueOK(compilers[i].fn, u)
      BY <1>19, <2>1, <2>3 DEF CompileInv, ParentsOK, UpvaluesOK
    <3> QED BY <1>14, <2>2, <3>1, ParentKept
  <2>4. CASE u \in Chain(compilers[i].fn, base, t, n)
    <3>1. PICK j \in base..n : compilers[j].fn = compilers[i].fn /\ u = [depth |-> j - base + 1, target |-> t]
      BY <2>4 DEF Chain
    <3>2. j = i
      BY <1>10, <3>1 DEF CompileInv, OpenFunctions
    <3>3. i \in base..n /\ u.depth = i - base + 1 /\ u.target = t
      BY <3>1, <3>2
    <3>4. CASE i = base
      <4>1. outer = compilers[base - 1] /\ ~(u.depth > 1)
        BY <1>3, <1>19, <3>3, <3>4
      <4>2. IsSeq(variables) /\ \A k \in DOMAIN outer.frames : outer.frames[k].locals \subseteq DOMAIN variables
        BY <1>7, <2>2 DEF FramesOK, FrameOK
      <4>3. Lookup(outer, name)' = Lookup(outer, name)
        <5>1. Extends(variables, variables')
          BY <1>6, <1>7, ExtendsSelf
        <5> QED BY <2>2, <4>2, <5>1, LookupKept
      <4>4. Lookup(outer, name) = t
        BY <1>3, <4>1
      <4> QED BY <1>6, <1>15, <3>3, <4>1, <4>3, <4>4 DEF ParentOK
    <3>5. CASE i # base
      <4>1. i - 1 \in base..n /\ u.depth - 1 = (i - 1) - base + 1 /\ u.depth # 1
        BY <1>1, <1>3, <3>3, <3>5
      <4>2. Parent(u) = [depth |-> (i - 1) - base + 1, target |-> t]
        <5>1. Parent(u) = [u EXCEPT !.depth = u.depth - 1]
          BY DEF Parent
        <5>2. PICK x : x = u.depth - 1
          OBVIOUS
        <5>3. [u EXCEPT !.depth = x] = [depth |-> x, target |-> t]
          BY <3>1
        <5> QED BY <4>1, <5>1, <5>2, <5>3
      <4>3. Parent(u) \in upvalues'[outer.fn]
        BY <1>18, <1>19, <4>1, <4>2
      <4> QED BY <4>1, <4>3 DEF ParentOK
    <3> QED BY <3>4, <3>5
  <2> QED BY <1>8, <2>1, <2>3, <2>4
<1>20. ParentsOK'
  BY <1>6, <1>19 DEF ParentsOK
<1>21. StatementOK(f, s)'
  <2>1. last.target = t /\ last.depth = n - base + 1 /\ n - base + 1 \in Nat /\ n - base + 1 > 0 /\ n \in base..n
    BY <1>1, <1>3, <1>4
  <2>2. last \in upvalues'[f]
    BY <1>a, <1>1, <1>4, <1>18, <2>1
  <2>3. last.depth # 0
    BY <2>1
  <2>4. UseOK(f, s)'
    BY <1>13, <2>1, <2>2, <2>3 DEF UseOK
  <2> QED BY <1>13, <2>4 DEF StatementOK, BeginOK, ClosureOK, JumpOK, LoopOps
<1>22. ASSUME ReleaseInv PROVE ReleaseInv'
  <2>1. s.drop = {}
    BY <1>5, UseDrops
  <2>2. ScopeIs(f, s)' => ReleaseOK(f, s)'
    BY <1>13, <2>1, SilentRelease
  <2>3. captured' \subseteq DOMAIN variables
    BY <1>6, <1>15, <1>22 DEF ReleaseInv, VariablesOK
  <2>4. ASSUME NEW k, Done(k), HasStorage(k)' PROVE HasStorage(k)
    <3>1. variables[t].container \in Scope(compilers[base - 1])
      BY <1>3, OwnVariable
    <3>2. k # variables[t].container
      BY <1>3, <2>4, <3>1 DEF Done
    <3>3. PICK v \in captured' : variables[v].container = k
      BY <1>6, <2>4 DEF HasStorage
    <3> QED BY <1>6, <3>2, <3>3 DEF HasStorage
  <2> QED BY <1>a, <1>6, <1>13, <1>14, <1>22, <2>2, <2>3, <2>4, EmitRelease
<1> QED
  BY <1>a, <1>6, <1>12, <1>13, <1>17, <1>20, <1>21, <1>22, EmitKeeps

(***************************************************************************)
(* A step that ends the innermost function, and may append a statement to  *)
(* others: to those of the compilers in A.                                 *)
(***************************************************************************)
PopStep(n, A, app) ==
    /\ compilers # <<>> /\ n = Len(compilers) /\ Top.loops = <<>> /\ compilers' = Front(compilers)
    /\ UNCHANGED <<variables, captured, upvalues, labels, containers>>
    /\ A \subseteq 1..n /\ n \in A
    /\ IsSeq(code') /\ DOMAIN code' = DOMAIN code
    /\ \A i \in A :
          /\ code'[compilers[i].fn] = Append(code[compilers[i].fn], app[i])
          /\ app[i].scope = Scope(compilers[i]) /\ app[i].op # "begin"
    /\ \A fn \in DOMAIN code : (\A i \in A : compilers[i].fn # fn) => code'[fn] = code[fn]
    /\ app[n].op = "end"

(* What the step makes of one function.                                     *)
Emitted(i, app) ==
    /\ i \in DOMAIN compilers /\ compilers[i].fn \in DOMAIN code
    /\ code'[compilers[i].fn] = Append(code[compilers[i].fn], app[i])
    /\ IsSeq(code'[compilers[i].fn])
    /\ Len(code'[compilers[i].fn]) = Len(code[compilers[i].fn]) + 1
    /\ DOMAIN code'[compilers[i].fn] = 1..(Len(code[compilers[i].fn]) + 1)
    /\ \A p \in 1..Len(code[compilers[i].fn]) : code'[compilers[i].fn][p] = code[compilers[i].fn][p]
    /\ code'[compilers[i].fn][Len(code[compilers[i].fn]) + 1] = app[i]
    /\ app[i].scope = Scope(compilers[i]) /\ app[i].op # "begin"

LEMMA PopEmits ==
    ASSUME CompileInv, NEW n, NEW A, NEW app, PopStep(n, A, app), NEW i \in A
    PROVE  Emitted(i, app)
<1>1. i \in DOMAIN compilers
  BY TopIs DEF PopStep
<1>2. compilers[i].fn \in DOMAIN code
  BY <1>1 DEF CompileInv, OpenFunctions
<1>3. PICK f : f = compilers[i].fn
  OBVIOUS
<1>4. IsSeq(code[f])
  BY <1>2, <1>3 DEF CompileInv, Shapes
<1>5. code'[f] = Append(code[f], app[i]) /\ app[i].scope = Scope(compilers[i]) /\ app[i].op # "begin"
  BY <1>3 DEF PopStep
<1>6. /\ IsSeq(code'[f]) /\ Len(code'[f]) = Len(code[f]) + 1
      /\ DOMAIN code'[f] = 1..(Len(code[f]) + 1)
      /\ \A p \in 1..Len(code[f]) : code'[f][p] = code[f][p]
      /\ code'[f][Len(code[f]) + 1] = app[i]
  BY <1>4, <1>5, AppendIs
<1> QED
  BY <1>1, <1>2, <1>3, <1>5, <1>6 DEF Emitted

LEMMA PopEffect ==
    ASSUME CompileInv, NEW n, NEW A, NEW app, PopStep(n, A, app)
    PROVE  /\ n \in Nat /\ n >= 1 /\ DOMAIN compilers = 1..n /\ Top = compilers[n]
           /\ IsSeq(compilers') /\ DOMAIN compilers' = 1..(n - 1)
           /\ \A i \in 1..(n - 1) : i \in DOMAIN compilers /\ i # n /\ compilers'[i] = compilers[i]
           /\ \A fn : Open(fn)' <=> Open(fn) /\ fn # compilers[n].fn
           /\ \A fn \in DOMAIN code : IsSeq(code'[fn]) /\ code'[fn] # <<>>
           /\ Grows
<1>1. n \in Nat /\ n >= 1 /\ DOMAIN compilers = 1..n /\ Top = compilers[n] /\ IsSeq(compilers)
  BY TopIs DEF PopStep, CompileInv, Shapes
<1>2. IsSeq(compilers') /\ DOMAIN compilers' = 1..(n - 1) /\ \A i \in 1..(n - 1) : compilers'[i] = compilers[i]
  BY <1>1, FrontIs DEF PopStep
<1>3. \A i \in 1..(n - 1) : i \in DOMAIN compilers /\ i # n
  BY <1>1
<1>4. \A i \in DOMAIN compilers : i \in 1..(n - 1) \/ i = n
  BY <1>1
<1>5. n \in DOMAIN compilers
  BY <1>1
<1>6. \A fn : Open(fn)' <=> Open(fn) /\ fn # compilers[n].fn
  BY <1>2, <1>3, <1>4, <1>5 DEF Open, CompileInv, OpenFunctions
<1>7. ASSUME NEW fn \in DOMAIN code
      PROVE  IsSeq(code'[fn]) /\ code'[fn] # <<>> /\ Extends(code[fn], code'[fn])
  <2>1. IsSeq(code[fn]) /\ code[fn] # <<>> /\ Len(code[fn]) \in Nat
    BY SeqIs DEF CompileInv, Shapes
  <2>2. CASE \A i \in A : compilers[i].fn # fn
    <3>1. code'[fn] = code[fn]
      BY <2>2 DEF PopStep
    <3> QED BY <2>1, <3>1, ExtendsSelf
  <2>3. ASSUME NEW i \in A, compilers[i].fn = fn
        PROVE  IsSeq(code'[fn]) /\ code'[fn] # <<>> /\ Extends(code[fn], code'[fn])
    <3>1. code'[fn] = Append(code[fn], app[i])
      BY <2>3 DEF PopStep
    <3>2. IsSeq(code'[fn]) /\ Len(code'[fn]) = Len(code[fn]) + 1
      BY <2>1, <3>1, AppendIs
    <3>3. code'[fn] # <<>>
      BY <2>1, <3>2, SeqIs
    <3> QED BY <2>1, <3>1, <3>2, <3>3, ExtendsAppend
  <2> QED BY <2>2, <2>3
<1>8. \A fn \in DOMAIN code : IsSeq(code'[fn]) /\ code'[fn] # <<>>
  BY <1>7
<1>9. Grows
  <2>1. /\ IsSeq(variables) /\ IsSeq(containers) /\ IsSeq(labels) /\ IsSeq(upvalues) /\ IsSeq(code)
        /\ Len(upvalues) = Len(code)
    BY DEF CompileInv, Shapes
  <2>2. /\ variables' = variables /\ containers' = containers /\ captured' = captured
        /\ labels' = labels /\ upvalues' = upvalues /\ IsSeq(code') /\ DOMAIN code' = DOMAIN code
    BY DEF PopStep
  <2>3. Extends(variables, variables') /\ Extends(containers, containers')
    BY <2>1, <2>2, ExtendsSelf
  <2>4. Len(code') = Len(code)
    <3>1. DOMAIN code = 1..Len(code) /\ DOMAIN code' = 1..Len(code') /\ Len(code) \in Nat /\ Len(code') \in Nat
      BY <2>1, <2>2, SeqIs
    <3>2. \A a, b \in Nat : 1..a = 1..b => a = b
      <4>1. ASSUME NEW a \in Nat, NEW b \in Nat, 1..a = 1..b, a < b PROVE FALSE
        <5>1. b \in 1..b /\ b \notin 1..a
          BY <4>1
        <5> QED BY <4>1, <5>1
      <4>2. ASSUME NEW a \in Nat, NEW b \in Nat, 1..a = 1..b, b < a PROVE FALSE
        <5>1. a \in 1..a /\ a \notin 1..b
          BY <4>2
        <5> QED BY <4>2, <5>1
      <4> QED BY <4>1, <4>2
    <3> QED BY <2>2, <3>1, <3>2
  <2>5. \A fn \in DOMAIN code : Extends(code[fn], code'[fn])
    BY <1>7
  <2> QED BY <1>6, <2>1, <2>2, <2>3, <2>4, <2>5 DEF Grows
<1> QED
  BY <1>1, <1>2, <1>3, <1>6, <1>8, <1>9

LEMMA PopShapes ==
    ASSUME CompileInv, NEW n, NEW A, NEW app, PopStep(n, A, app)
    PROVE  Shapes' /\ OpenFunctions'
<1>1. /\ n \in Nat /\ n >= 1 /\ DOMAIN compilers = 1..n
      /\ IsSeq(compilers') /\ DOMAIN compilers' = 1..(n - 1)
      /\ \A i \in 1..(n - 1) : i \in DOMAIN compilers /\ i # n /\ compilers'[i] = compilers[i]
      /\ \A fn \in DOMAIN code : IsSeq(code'[fn]) /\ code'[fn] # <<>>
  BY PopEffect
<1>2. Grows
  BY PopEffect
<1>3. /\ variables' = variables /\ containers' = containers
      /\ labels' = labels /\ upvalues' = upvalues /\ IsSeq(code') /\ DOMAIN code' = DOMAIN code
  BY DEF PopStep
<1>4. Len(upvalues') = Len(code')
  BY <1>2 DEF Grows
<1>5. Shapes'
  BY <1>1, <1>3, <1>4 DEF CompileInv, Shapes
<1>6. OpenFunctions'
  BY <1>1, <1>3 DEF CompileInv, OpenFunctions
<1> QED
  BY <1>5, <1>6

LEMMA PopFlow ==
    ASSUME CompileInv, NEW n, NEW A, NEW app, PopStep(n, A, app)
    PROVE  FlowOK'
<1>0. FlowOK
  BY DEF CompileInv
<1>1. /\ n \in Nat /\ n >= 1 /\ DOMAIN compilers = 1..n
      /\ DOMAIN compilers' = 1..(n - 1)
      /\ \A i \in 1..(n - 1) : i \in DOMAIN compilers /\ i # n /\ compilers'[i] = compilers[i]
      /\ \A fn : Open(fn)' <=> Open(fn) /\ fn # compilers[n].fn
  BY PopEffect
<1>2. DOMAIN code' = DOMAIN code /\ n \in A /\ A \subseteq 1..n
      /\ \A fn \in DOMAIN code : (\A i \in A : compilers[i].fn # fn) => code'[fn] = code[fn]
  BY DEF PopStep
<1>3. ASSUME NEW i \in A, NEW fn, fn = compilers[i].fn
      PROVE  /\ fn \in DOMAIN code /\ code'[fn][1].scope = {}
             /\ \A p \in DOMAIN code'[fn] : p + 1 \in DOMAIN code'[fn] =>
                   code'[fn][p + 1].scope \subseteq After(code'[fn][p])
             /\ Scope(compilers[i]) \subseteq After(Last(code'[fn]))
             /\ Last(code'[fn]) = app[i]
  <2>1. Emitted(i, app)
    BY PopEmits
  <2>2. PICK m : m = Len(code[fn])
    OBVIOUS
  <2>3. /\ i \in DOMAIN compilers /\ fn \in DOMAIN code /\ Len(code'[fn]) = m + 1
        /\ DOMAIN code'[fn] = 1..(m + 1)
        /\ \A p \in 1..m : code'[fn][p] = code[fn][p]
        /\ code'[fn][m + 1] = app[i]
        /\ app[i].scope = Scope(compilers[i]) /\ app[i].op # "begin"
    BY <1>3, <2>1, <2>2 DEF Emitted
  <2>4. m \in Nat /\ m >= 1 /\ DOMAIN code[fn] = 1..m
    <3>1. IsSeq(code[fn]) /\ code[fn] # <<>>
      BY <2>3 DEF CompileInv, Shapes
    <3> QED BY <2>2, <3>1, SeqIs
  <2>5. Last(code'[fn]) = app[i]
    BY <2>3 DEF Last
  <2>6. Scope(compilers[i]) \subseteq After(app[i])
    BY <2>3 DEF After
  <2>7. code'[fn][1].scope = {}
    BY <1>0, <2>3, <2>4 DEF FlowOK
  <2>8. Scope(compilers[i]) \subseteq After(code[fn][m])
    BY <1>0, <1>3, <2>2, <2>3 DEF FlowOK, Last
  <2>9. ASSUME NEW p \in 1..(m + 1), p + 1 \in 1..(m + 1)
        PROVE  code'[fn][p + 1].scope \subseteq After(code'[fn][p])
    <3>1. p \in 1..m /\ (p + 1 \in 1..m \/ p = m)
      BY <2>4, <2>9
    <3>2. CASE p = m
      BY <2>3, <2>8, <3>1, <3>2
    <3>3. CASE p + 1 \in 1..m
      BY <1>0, <2>3, <2>4, <3>1, <3>3 DEF FlowOK
    <3> QED BY <3>1, <3>2, <3>3
  <2> QED BY <2>3, <2>5, <2>6, <2>7, <2>9
<1>4. ASSUME NEW fn \in DOMAIN code
      PROVE  /\ code'[fn][1].scope = {}
             /\ \A p \in DOMAIN code'[fn] : p + 1 \in DOMAIN code'[fn] =>
                   code'[fn][p + 1].scope \subseteq After(code'[fn][p])
  <2>1. CASE \A i \in A : compilers[i].fn # fn
    BY <1>0, <1>2, <2>1 DEF FlowOK
  <2>2. CASE \E i \in A : compilers[i].fn = fn
    BY <1>3, <2>2
  <2> QED BY <2>1, <2>2
<1>5. ASSUME NEW i \in DOMAIN compilers' PROVE Scope(compilers'[i]) \subseteq After(Last(code'[compilers'[i].fn]))
  <2>1. i \in DOMAIN compilers /\ compilers'[i] = compilers[i]
    BY <1>1
  <2>2. CASE i \in A
    BY <1>3, <2>1, <2>2
  <2>3. CASE i \notin A
    <3>1. compilers[i].fn \in DOMAIN code /\ \A j \in A : compilers[j].fn # compilers[i].fn
      BY <1>1, <1>2, <2>1, <2>3 DEF CompileInv, OpenFunctions
    <3> QED BY <1>0, <1>2, <2>1, <3>1 DEF FlowOK
  <2> QED BY <2>2, <2>3
<1>6. ASSUME NEW fn \in DOMAIN code PROVE Open(fn)' \/ Last(code'[fn]).op = "end"
  <2>1. CASE fn = compilers[n].fn
    <3>1. Last(code'[fn]) = app[n]
      BY <1>2, <1>3, <2>1
    <3> QED BY <3>1 DEF PopStep
  <2>2. CASE Open(fn) /\ fn # compilers[n].fn
    BY <1>1, <2>2
  <2>3. CASE ~Open(fn)
    <3>1. \A i \in A : compilers[i].fn # fn
      BY <1>1, <1>2, <2>3 DEF Open
    <3> QED BY <1>0, <1>2, <2>3, <3>1 DEF FlowOK
  <2> QED BY <2>1, <2>2, <2>3
<1> QED
  BY <1>2, <1>4, <1>5, <1>6 DEF FlowOK

LEMMA PopLabels ==
    ASSUME CompileInv, NEW n, NEW A, NEW app, PopStep(n, A, app)
    PROVE  LabelsOK'
<1>0. LabelsOK /\ labels' = labels /\ Top.loops = <<>> /\ n \in A /\ A \subseteq 1..n
  BY DEF CompileInv, PopStep
<1>1. /\ n \in Nat /\ n >= 1 /\ DOMAIN compilers = 1..n /\ Top = compilers[n]
      /\ DOMAIN compilers' = 1..(n - 1)
      /\ \A i \in 1..(n - 1) : i \in DOMAIN compilers /\ i # n /\ compilers'[i] = compilers[i]
      /\ Grows
  BY PopEffect
<1>2. \A i \in DOMAIN compilers : i = n \/ i \in 1..(n - 1)
  BY <1>1
<1>3. ASSUME NEW l \in DOMAIN labels PROVE LabelOK(l)'
  <2>1. /\ labels[l].fn \in DOMAIN code' /\ labels[l].start \in DOMAIN code'[labels[l].fn]
        /\ StartScope(l)' = StartScope(l)
    BY <1>0, <1>1, StartKept
  <2>2. CASE OpenLoop(l)
    <3>1. PICK i \in DOMAIN compilers : \E k \in DOMAIN compilers[i].loops : compilers[i].loops[k].id = l
      BY <2>2 DEF OpenLoop
    <3>2. DOMAIN Top.loops = {}
      <4>1. DOMAIN Top.loops = 1..0
        BY <1>0, TuplesAre, SeqIs
      <4> QED BY <4>1
    <3>3. i # n
      BY <1>1, <3>1, <3>2
    <3>4. i \in DOMAIN compilers' /\ compilers'[i] = compilers[i]
      BY <1>1, <1>2, <3>3
    <3>5. OpenLoop(l)'
      BY <3>1, <3>4 DEF OpenLoop
    <3> QED BY <1>0, <2>1, <3>5 DEF LabelOK
  <2>3. CASE EndOK(l)
    <3>1. PICK g, e : g = labels[l].fn /\ e = labels[l].end
      OBVIOUS
    <3>2. g \in DOMAIN code
      BY <1>0, <3>1 DEF LabelsOK, LabelOK
    <3>4. ASSUME e = Len(code[g]) + 1, NEW i \in DOMAIN compilers, compilers[i].fn = g,
                 Scope(compilers[i]) \subseteq StartScope(l)
          PROVE  EndOK(l)'
      <4>1. CASE i \in A
        <5>1. Emitted(i, app)
          BY <4>1, PopEmits
        <5>2. DOMAIN code'[g] = 1..e /\ code'[g][e] = app[i] /\ app[i].scope = Scope(compilers[i])
          BY <3>4, <5>1 DEF Emitted
        <5>3. e \in 1..e
          <6>1. Len(code[g]) \in Nat
            BY <3>2, SeqIs DEF CompileInv, Shapes
          <6> QED BY <3>4, <6>1
        <5> QED BY <1>0, <2>1, <3>1, <3>4, <5>2, <5>3 DEF EndOK
      <4>2. CASE i \notin A
        <5>1. \A j \in A : compilers[j].fn # g
          BY <1>0, <1>1, <3>4, <4>2 DEF CompileInv, OpenFunctions
        <5>2. code'[g] = code[g]
          BY <3>2, <5>1 DEF PopStep
        <5>3. i \in DOMAIN compilers' /\ compilers'[i] = compilers[i]
          BY <1>0, <1>1, <1>2, <4>2
        <5> QED BY <1>0, <2>1, <3>1, <3>4, <5>2, <5>3 DEF EndOK
      <4> QED BY <4>1, <4>2
    <3>5. EndOK(l)'
      <4>1. \/ e \in DOMAIN code[g] /\ code[g][e].scope \subseteq StartScope(l)
            \/ /\ e = Len(code[g]) + 1
               /\ \E i \in DOMAIN compilers :
                     compilers[i].fn = g /\ Scope(compilers[i]) \subseteq StartScope(l)
        BY <2>3, <3>1 DEF EndOK
      <4>2. CASE e \in DOMAIN code[g] /\ code[g][e].scope \subseteq StartScope(l)
        <5>1. Extends(code[g], code'[g])
          BY <1>1, <3>2 DEF Grows
        <5>2. e \in DOMAIN code'[g] /\ code'[g][e] = code[g][e]
          BY <4>2, <5>1 DEF Extends
        <5> QED BY <1>0, <2>1, <3>1, <4>2, <5>2 DEF EndOK
      <4> QED BY <3>4, <4>1, <4>2
    <3> QED BY <1>0, <2>1, <3>5 DEF LabelOK
  <2> QED BY <1>0, <2>2, <2>3 DEF LabelsOK, LabelOK
<1> QED
  BY <1>0, <1>3 DEF LabelsOK

LEMMA PopKeeps ==
    ASSUME CompileInv, NEW n, NEW A, NEW app, PopStep(n, A, app),
           \A i \in A : \A fn : fn = compilers[i].fn => StatementOK(fn, app[i])'
    PROVE  CompileInv'
<1>1. /\ n \in Nat /\ n >= 1 /\ DOMAIN compilers = 1..n
      /\ DOMAIN compilers' = 1..(n - 1)
      /\ \A i \in 1..(n - 1) : i \in DOMAIN compilers /\ i # n /\ compilers'[i] = compilers[i]
      /\ Grows
  BY PopEffect
<1>2. Shapes' /\ OpenFunctions' /\ FlowOK' /\ LabelsOK'
  BY PopShapes, PopFlow, PopLabels
<1>3. /\ variables' = variables /\ containers' = containers /\ captured' = captured
      /\ upvalues' = upvalues /\ DOMAIN code' = DOMAIN code
      /\ \A fn \in DOMAIN code : (\A i \in A : compilers[i].fn # fn) => code'[fn] = code[fn]
  BY DEF PopStep
<1>4. ASSUME NEW i \in DOMAIN compilers', NEW c, c = compilers'[i]
      PROVE  FramesOK(c)' /\ LoopsOK(c)'
  <2>1. FramesOK(c) /\ LoopsOK(c) /\ LabelsOK
    BY <1>1, <1>4 DEF CompileInv
  <2> QED BY <1>1, <2>1, CompilerKept
<1>5. UpvaluesOK'
  BY <1>3 DEF CompileInv, UpvaluesOK, UpvalueOK
<1>6. ParentsOK'
  <2>1. ASSUME NEW i \in DOMAIN compilers', i > 1, NEW u \in upvalues[compilers'[i].fn],
               NEW outer, outer = compilers'[i - 1]
        PROVE  ParentOK(outer, u)'
    <3>1. /\ i \in DOMAIN compilers /\ compilers'[i] = compilers[i] /\ outer = compilers[i - 1]
          /\ i - 1 \in DOMAIN compilers
      BY <1>1, <2>1
    <3>2. ParentOK(outer, u)
      BY <2>1, <3>1 DEF CompileInv, ParentsOK
    <3>3. FramesOK(outer) /\ IsSeq(outer.frames) /\ outer.fn \in DOMAIN code
      BY <3>1 DEF CompileInv, Shapes, IsCompiler, OpenFunctions
    <3>4. compilers[i].fn \in DOMAIN upvalues
      <4>1. IsSeq(upvalues) /\ IsSeq(code) /\ Len(upvalues) = Len(code)
        BY DEF CompileInv, Shapes
      <4>2. DOMAIN upvalues = DOMAIN code
        BY <4>1, SeqIs
      <4> QED BY <3>1, <4>2 DEF CompileInv, OpenFunctions
    <3>5. UpvalueOK(compilers[i].fn, u)
      BY <2>1, <3>1, <3>4 DEF CompileInv, UpvaluesOK
    <3> QED BY <1>1, <3>2, <3>3, <3>5, ParentKept
  <2> QED BY <1>3, <2>1 DEF ParentsOK
<1>7. CodeOK'
  <2>1. ASSUME NEW fn \in DOMAIN code, NEW p \in DOMAIN code[fn], NEW s, s = code[fn][p]
        PROVE  StatementOK(fn, s)'
    <3>1. StatementOK(fn, s)
      BY <2>1 DEF CompileInv, CodeOK
    <3> QED BY <1>1, <3>1, StatementKept
  <2>2. ASSUME NEW fn \in DOMAIN code, NEW p \in DOMAIN code'[fn], NEW s, s = code'[fn][p]
        PROVE  StatementOK(fn, s)'
    <3>1. CASE \A i \in A : compilers[i].fn # fn
      BY <1>3, <2>1, <2>2, <3>1
    <3>2. ASSUME NEW i \in A, compilers[i].fn = fn PROVE StatementOK(fn, s)'
      <4>1. Emitted(i, app)
        BY PopEmits
      <4>2. PICK m : m = Len(code[fn])
        OBVIOUS
      <4>3. /\ DOMAIN code'[fn] = 1..(m + 1) /\ \A q \in 1..m : code'[fn][q] = code[fn][q]
            /\ code'[fn][m + 1] = app[i]
        BY <3>2, <4>1, <4>2 DEF Emitted
      <4>4. m \in Nat /\ DOMAIN code[fn] = 1..m
        BY <4>2, SeqIs DEF CompileInv, Shapes
      <4>5. p \in 1..m \/ p = m + 1
        BY <2>2, <4>3, <4>4
      <4>6. CASE p \in 1..m
        BY <2>1, <2>2, <4>3, <4>4, <4>6
      <4>7. CASE p = m + 1
        BY <2>2, <3>2, <4>3, <4>7
      <4> QED BY <4>5, <4>6, <4>7
    <3> QED BY <3>1, <3>2
  <2> QED BY <1>3, <2>2 DEF CodeOK
<1>8. \A i \in DOMAIN compilers' : FramesOK(compilers[i])' /\ LoopsOK(compilers[i])'
  BY <1>4
<1> QED
  BY <1>2, <1>5, <1>6, <1>7, <1>8 DEF CompileInv

(* What the end of a function and the statements beside it release.         *)
LEMMA EndRelease ==
    ASSUME CompileInv, ReleaseInv, NEW n, NEW A, NEW app, PopStep(n, A, app),
           NEW s, s = FinishBody, s.op = "end", NEW c, c = compilers[n], s.scope = Scope(c),
           NEW f, f = c.fn
    PROVE  ReleaseOK(f, s)'
<1>1. /\ n \in Nat /\ n >= 1 /\ DOMAIN compilers = 1..n /\ Top = compilers[n]
      /\ DOMAIN compilers' = 1..(n - 1)
      /\ \A i \in 1..(n - 1) : i \in DOMAIN compilers /\ i # n /\ compilers'[i] = compilers[i]
  BY PopEffect
<1>2. UNCHANGED <<variables, captured, containers>>
  BY DEF PopStep
<1>3. n \in DOMAIN compilers
  BY <1>1
<1>4. IsCompiler(c) /\ FramesOK(c)
  BY <1>3 DEF CompileInv, Shapes
<1>5. \A k \in s.scope : k \in DOMAIN containers /\ containers[k] = f
  BY <1>4, ScopeOwn
<1>6. ScopeIs(f, s)'
  BY <1>2, <1>5 DEF ScopeIs
<1>7. s.drop = DiscardLocals(c, 1)
  <2>1. s.drop = DiscardLocals(Top, 1)
    BY EndDrops
  <2> QED BY <1>1, <2>1
<1>8. \A k : k \in s.drop <=> HasStorage(k) /\ k \in s.scope
  <2>1. Scope(c) = FramesSince(c, 1)
    BY <1>4, WholeScope
  <2>2. \A k : k \in s.drop <=> HasStorage(k) /\ \E i \in 1..Len(c.frames) : c.frames[i].container = k
    BY <1>7, DiscardIs
  <2>3. \A k : k \in FramesSince(c, 1) <=> \E i \in 1..Len(c.frames) : c.frames[i].container = k
    BY DEF FramesSince
  <2> QED BY <2>1, <2>2, <2>3
<1>9. \A k : HasStorage(k)' <=> HasStorage(k)
  BY <1>2, SameStorage
<1>10. ASSUME NEW k \in s.scope PROVE Done(k)'
  <2>1. ASSUME NEW i \in DOMAIN compilers', NEW compiler, compiler = compilers'[i]
        PROVE  k \notin Scope(compiler)
    <3>1. i \in DOMAIN compilers /\ i # n /\ compiler = compilers[i]
      BY <1>1, <2>1
    <3>2. FramesOK(compiler) /\ compiler.fn # f
      BY <1>3, <3>1 DEF CompileInv, OpenFunctions
    <3> QED BY <1>5, <3>2, ScopeOwn
  <2>2. \A i \in DOMAIN compilers' : Scope(compilers[i])' = Scope(compilers'[i])
    BY DEF Scope
  <2>3. k \in DOMAIN containers'
    BY <1>2, <1>5
  <2> QED BY <2>1, <2>2, <2>3 DEF Done
<1>11. EndIs(s)' /\ DropIs(s)'
  BY <1>8, <1>9, <1>10 DEF EndIs, DropIs
<1> QED
  BY <1>6, <1>11 DEF ReleaseOK, ExitIs, TurnIs, ReturnIs, EntryIs

LEMMA PopEnds ==
    ASSUME CompileInv, ReleaseInv, NEW n, NEW A, NEW app, PopStep(n, A, app), NEW l \in DOMAIN labels
    PROVE  EndsWhole(l)'
<1>0. /\ LabelsOK /\ labels' = labels /\ Top.loops = <<>> /\ n \in A /\ A \subseteq 1..n
      /\ EndsWhole(l)
  BY DEF CompileInv, PopStep, ReleaseInv
<1>1. /\ n \in Nat /\ n >= 1 /\ DOMAIN compilers = 1..n /\ Top = compilers[n]
      /\ DOMAIN compilers' = 1..(n - 1)
      /\ \A i \in 1..(n - 1) : i \in DOMAIN compilers /\ i # n /\ compilers'[i] = compilers[i]
      /\ Grows
  BY PopEffect
<1>2. \A i \in DOMAIN compilers : i = n \/ i \in 1..(n - 1)
  BY <1>1
<1>3. StartScope(l)' = StartScope(l)
  BY <1>0, <1>1, StartKept DEF LabelsOK
<1>4. PICK g, e : g = labels[l].fn /\ e = labels[l].end
  OBVIOUS
<1>5. g \in DOMAIN code /\ Len(code[g]) \in Nat
  <2>1. g \in DOMAIN code
    BY <1>0, <1>4 DEF LabelsOK, LabelOK
  <2> QED BY <2>1, SeqIs DEF CompileInv, Shapes
<1>6. CASE OpenLoop(l)
  <2>1. PICK i \in DOMAIN compilers : \E k \in DOMAIN compilers[i].loops : compilers[i].loops[k].id = l
    BY <1>6 DEF OpenLoop
  <2>2. DOMAIN Top.loops = {}
    <3>1. DOMAIN Top.loops = 1..0
      BY <1>0, TuplesAre, SeqIs
    <3> QED BY <3>1
  <2>3. i # n
    BY <1>1, <2>1, <2>2
  <2>4. i \in DOMAIN compilers' /\ compilers'[i] = compilers[i]
    BY <1>1, <1>2, <2>3
  <2>5. OpenLoop(l)'
    BY <2>1, <2>4 DEF OpenLoop
  <2> QED BY <2>5 DEF EndsWhole
<1>7. CASE e \in DOMAIN code[g] /\ StartScope(l) \subseteq code[g][e].scope
  BY <1>0, <1>1, <1>4, <1>7, EndKept
<1>8. ASSUME e = Len(code[g]) + 1, NEW i \in DOMAIN compilers, compilers[i].fn = g,
             StartScope(l) \subseteq Scope(compilers[i])
      PROVE  EndsWhole(l)'
  <2>1. CASE i \in A
    <3>1. Emitted(i, app)
      BY <2>1, PopEmits
    <3>2. DOMAIN code'[g] = 1..e /\ code'[g][e] = app[i] /\ app[i].scope = Scope(compilers[i])
      BY <1>8, <3>1 DEF Emitted
    <3>3. e \in 1..e
      BY <1>5, <1>8
    <3> QED BY <1>0, <1>3, <1>4, <1>8, <3>2, <3>3 DEF EndsWhole
  <2>2. CASE i \notin A
    <3>1. \A j \in A : compilers[j].fn # g
      BY <1>0, <1>1, <1>8, <2>2 DEF CompileInv, OpenFunctions
    <3>2. code'[g] = code[g]
      BY <1>5, <3>1 DEF PopStep
    <3>3. i \in DOMAIN compilers' /\ compilers'[i] = compilers[i]
      BY <1>0, <1>1, <1>2, <2>2
    <3>4. Scope(compilers[i])' = Scope(compilers[i])
      BY <3>3 DEF Scope
    <3> QED BY <1>0, <1>3, <1>4, <1>8, <3>2, <3>3, <3>4 DEF EndsWhole
  <2> QED BY <2>1, <2>2
<1> QED
  BY <1>0, <1>4, <1>6, <1>7, <1>8 DEF EndsWhole

LEMMA PopRelease ==
    ASSUME CompileInv, ReleaseInv, NEW n, NEW A, NEW app, PopStep(n, A, app), app[n] = FinishBody,
           \A i \in A : app[i].op # "relocate",
           \A i \in A : i # n => app[i].op = "closure" /\ app[i].drop = {}
    PROVE  ReleaseInv'
<1>1. /\ n \in Nat /\ n >= 1 /\ DOMAIN compilers = 1..n /\ Top = compilers[n]
      /\ DOMAIN compilers' = 1..(n - 1)
      /\ \A i \in 1..(n - 1) : i \in DOMAIN compilers /\ i # n /\ compilers'[i] = compilers[i]
      /\ Grows
  BY PopEffect
<1>2. /\ UNCHANGED <<variables, captured, labels, containers>> /\ A \subseteq 1..n /\ n \in A
      /\ DOMAIN code' = DOMAIN code /\ app[n].op = "end"
      /\ \A fn \in DOMAIN code : (\A i \in A : compilers[i].fn # fn) => code'[fn] = code[fn]
  BY DEF PopStep
<1>3. VariablesOK /\ VariablesOK'
  BY <1>2 DEF ReleaseInv, VariablesOK
<1>4. Steady
  <2>1. ASSUME NEW k, Done(k) PROVE Done(k)'
    <3>1. \A i \in DOMAIN compilers' : k \notin Scope(compilers'[i])
      BY <1>1, <2>1 DEF Done
    <3>2. \A i \in DOMAIN compilers' : Scope(compilers[i])' = Scope(compilers'[i])
      BY DEF Scope
    <3> QED BY <1>2, <2>1, <3>1, <3>2 DEF Done
  <2> QED BY <1>2, <2>1, SameStorage DEF Steady
<1>5. ASSUME NEW i \in A, NEW c, c = compilers[i], NEW f, f = c.fn, NEW m, m = Len(code[f]), NEW s, s = app[i]
      PROVE  /\ i \in DOMAIN compilers /\ f \in DOMAIN code /\ m \in Nat /\ m >= 1 /\ DOMAIN code[f] = 1..m
             /\ DOMAIN code'[f] = 1..(m + 1) /\ \A p \in 1..m : code'[f][p] = code[f][p]
             /\ code'[f][m + 1] = s /\ Last(code'[f]) = s /\ s.scope = Scope(c) /\ s.op # "begin"
             /\ Leaves(code[f][m], Scope(c))
  <2>1. Emitted(i, app)
    BY PopEmits
  <2>2. /\ i \in DOMAIN compilers /\ f \in DOMAIN code /\ Len(code'[f]) = m + 1
        /\ DOMAIN code'[f] = 1..(m + 1)
        /\ \A p \in 1..m : code'[f][p] = code[f][p]
        /\ code'[f][m + 1] = s
        /\ s.scope = Scope(c) /\ s.op # "begin"
    BY <1>5, <2>1 DEF Emitted
  <2>3. m \in Nat /\ m >= 1 /\ DOMAIN code[f] = 1..m
    <3>1. IsSeq(code[f]) /\ code[f] # <<>>
      BY <2>2 DEF CompileInv, Shapes
    <3> QED BY <1>5, <3>1, SeqIs
  <2>4. Last(code'[f]) = s
    BY <2>2 DEF Last
  <2>5. Leaves(Last(code[f]), Scope(c))
    BY <1>5, <2>2 DEF ReleaseInv
  <2>6. Last(code[f]) = code[f][m]
    BY <1>5 DEF Last
  <2> QED BY <2>2, <2>3, <2>4, <2>5, <2>6
<1>6. ASSUME NEW i \in A, NEW c, c = compilers[i], NEW f, f = c.fn, NEW s, s = app[i]
      PROVE  ReleaseOK(f, s)'
  <2>1. i \in DOMAIN compilers /\ s.scope = Scope(c)
    <3>1. PICK m : m = Len(code[f])
      OBVIOUS
    <3> QED BY <1>5, <1>6, <3>1
  <2>2. CASE i = n
    BY <1>2, <1>6, <2>1, <2>2, EndRelease
  <2>3. CASE i # n
    <3>1. s.op = "closure" /\ s.drop = {}
      BY <1>6, <2>3
    <3>2. FramesOK(c)
      BY <1>6, <2>1 DEF CompileInv
    <3>3. ScopeIs(f, s)'
      BY <1>2, <1>6, <2>1, <3>2, ScopeOwn DEF ScopeIs
    <3> QED BY <3>1, <3>3, SilentRelease
  <2> QED BY <2>2, <2>3
<1>7. ASSUME NEW i \in DOMAIN compilers', NEW compiler, compiler = compilers'[i]
      PROVE  /\ OwnBlocks(compiler) /\ HiddenFrames(compiler)'
             /\ Leaves(Last(code[compiler.fn]), Scope(compiler))'
  <2>1. i \in DOMAIN compilers /\ compiler = compilers[i] /\ i \in 1..n
    BY <1>1, <1>7
  <2>2. OwnBlocks(compiler) /\ HiddenFrames(compiler)
    BY <2>1 DEF ReleaseInv
  <2>3. HiddenFrames(compiler)'
    BY <1>2, <2>2 DEF HiddenFrames
  <2>4. PICK f, s, next : f = compiler.fn /\ s = Last(code'[f]) /\ next = Scope(compiler)
    OBVIOUS
  <2>5. Leaves(s, next)'
    <3>1. CASE i \in A
      <4>1. PICK t : t = app[i]
        OBVIOUS
      <4>2. s = t /\ t.scope = next /\ t.op # "begin"
        <5>1. PICK m : m = Len(code[f])
          OBVIOUS
        <5>2. f = compilers[i].fn /\ next = Scope(compilers[i])
          BY <2>1, <2>4
        <5>3. Last(code'[f]) = t /\ t.scope = Scope(compilers[i]) /\ t.op # "begin"
          BY <1>5, <3>1, <4>1, <5>1, <5>2
        <5> QED BY <2>4, <5>2, <5>3
      <4>3. t.op # "relocate"
        BY <3>1, <4>1
      <4> QED BY <4>2, <4>3 DEF Leaves, After
    <3>2. CASE i \notin A
      <4>1. f \in DOMAIN code /\ \A j \in A : compilers[j].fn # f
        BY <1>1, <1>2, <2>1, <2>4, <3>2 DEF CompileInv, OpenFunctions
      <4>2. s = Last(code[f])
        BY <1>2, <2>4, <4>1
      <4>3. Leaves(s, next)
        BY <2>1, <2>4, <4>2 DEF ReleaseInv
      <4> QED BY <1>4, <4>3, LeavesKept
    <3> QED BY <3>1, <3>2
  <2>6. Scope(compiler)' = next
    BY <2>4 DEF Scope
  <2> QED BY <2>2, <2>3, <2>4, <2>5, <2>6
<1>8. ASSUME NEW fn \in DOMAIN code', NEW p \in DOMAIN code'[fn]
      PROVE  (fn \in DOMAIN code /\ p \in DOMAIN code[fn]) \/ ReleaseOK(fn, code[fn][p])'
  <2>1. CASE \A i \in A : compilers[i].fn # fn
    BY <1>2, <1>8, <2>1
  <2>2. ASSUME NEW i \in A, compilers[i].fn = fn
        PROVE  (fn \in DOMAIN code /\ p \in DOMAIN code[fn]) \/ ReleaseOK(fn, code[fn][p])'
    <3>1. PICK m, s : m = Len(code[fn]) /\ s = app[i]
      OBVIOUS
    <3>2. /\ m \in Nat /\ DOMAIN code[fn] = 1..m /\ DOMAIN code'[fn] = 1..(m + 1)
          /\ code'[fn][m + 1] = s
      BY <1>5, <2>2, <3>1
    <3>3. p \in 1..m \/ p = m + 1
      BY <1>8, <3>2
    <3>4. ReleaseOK(fn, s)'
      BY <1>6, <2>2, <3>1
    <3> QED BY <1>2, <1>8, <3>2, <3>3, <3>4
  <2> QED BY <2>1, <2>2
<1>9. ASSUME NEW fn \in DOMAIN code', NEW p \in DOMAIN code'[fn], p + 1 \in DOMAIN code'[fn]
      PROVE  \/ fn \in DOMAIN code /\ p \in DOMAIN code[fn] /\ p + 1 \in DOMAIN code[fn]
             \/ Leaves(code[fn][p], code[fn][p + 1].scope)'
  <2>1. CASE \A i \in A : compilers[i].fn # fn
    BY <1>2, <1>9, <2>1
  <2>2. ASSUME NEW i \in A, compilers[i].fn = fn, ~(p + 1 \in DOMAIN code[fn])
        PROVE  Leaves(code[fn][p], code[fn][p + 1].scope)'
    <3>1. PICK m, s, c, t : m = Len(code[fn]) /\ s = app[i] /\ c = compilers[i] /\ t = code[fn][m]
      OBVIOUS
    <3>2. /\ m \in Nat /\ m >= 1 /\ DOMAIN code[fn] = 1..m /\ DOMAIN code'[fn] = 1..(m + 1)
          /\ code'[fn][m + 1] = s /\ s.scope = Scope(c) /\ \A q \in 1..m : code'[fn][q] = code[fn][q]
          /\ Leaves(t, Scope(c))
      BY <1>5, <2>2, <3>1
    <3>3. p = m /\ m \in 1..m
      BY <1>9, <2>2, <3>2
    <3>4. PICK next : next = Scope(c)
      OBVIOUS
    <3>5. Leaves(t, next)'
      BY <1>4, <3>2, <3>4, LeavesKept
    <3>6. code'[fn][p] = t /\ code'[fn][p + 1].scope = next
      BY <3>1, <3>2, <3>3, <3>4
    <3> QED BY <3>5, <3>6
  <2>3. ASSUME NEW i \in A, compilers[i].fn = fn, p + 1 \in DOMAIN code[fn]
        PROVE  fn \in DOMAIN code /\ p \in DOMAIN code[fn]
    <3>1. PICK m : m = Len(code[fn])
      OBVIOUS
    <3>2. m \in Nat /\ DOMAIN code[fn] = 1..m /\ DOMAIN code'[fn] = 1..(m + 1)
      BY <1>5, <2>3, <3>1
    <3>3. p \in 1..m
      BY <1>9, <2>3, <3>2
    <3> QED BY <1>2, <3>2, <3>3
  <2> QED BY <2>1, <2>2, <2>3
<1>10. \A l \in DOMAIN labels' : EndsWhole(l)'
  BY <1>2, PopEnds
<1>11. \A i \in DOMAIN compilers' :
          /\ OwnBlocks(compilers'[i]) /\ HiddenFrames(compilers[i])'
          /\ Leaves(Last(code[compilers[i].fn]), Scope(compilers[i]))'
  BY <1>7
<1> QED
  BY <1>1, <1>3, <1>4, <1>8, <1>9, <1>10, <1>11, KeepRelease

LEMMA CloseFunctionStep ==
    ASSUME CompileInv, compilers # <<>>, CloseFunction
    PROVE  CompileInv' /\ (ReleaseInv => ReleaseInv')
<1>a. PICK n, d, p : n = Len(compilers) /\ d = Top /\ p = compilers[Len(compilers) - 1]
  OBVIOUS
<1>b. PICK end, closure : /\ end = FinishBody
                          /\ closure = [Instruction("closure", p) EXCEPT !.fn = d.fn]
  OBVIOUS
<1>1. /\ n \in Nat /\ n > 1 /\ DOMAIN compilers = 1..n /\ n \in DOMAIN compilers
      /\ n - 1 \in DOMAIN compilers /\ n # n - 1 /\ d = compilers[n] /\ p = compilers[n - 1]
  <2>1. n \in Nat /\ DOMAIN compilers = 1..n /\ n \in DOMAIN compilers /\ d = compilers[n]
    BY <1>a, TopIs
  <2>2. n > 1
    BY <1>a DEF CloseFunction
  <2> QED BY <1>a, <2>1, <2>2
<1>2. /\ Top.loops = <<>> /\ compilers' = Front(compilers)
      /\ UNCHANGED <<variables, captured, upvalues, labels, containers>>
      /\ code' = [code EXCEPT ![d.fn] = Append(code[d.fn], end), ![p.fn] = Append(@, closure)]
  BY <1>a, <1>b DEF CloseFunction
<1>3. d.fn # p.fn /\ d.fn \in DOMAIN code /\ p.fn \in DOMAIN code /\ d.fn # 1
  BY <1>1 DEF CompileInv, OpenFunctions
<1>4. PICK y, z : y = Append(code[d.fn], end) /\ z = Append(code[p.fn], closure)
  OBVIOUS
<1>5. IsSeq(code) /\ Len(code) \in Nat /\ DOMAIN code = 1..Len(code)
  BY SeqIs DEF CompileInv, Shapes
<1>6. code' = [code EXCEPT ![d.fn] = y, ![p.fn] = z]
  BY <1>2, <1>3, <1>4
<1>7. /\ code'[d.fn] = y /\ code'[p.fn] = z /\ DOMAIN code' = DOMAIN code
      /\ \A fn \in DOMAIN code : fn # d.fn /\ fn # p.fn => code'[fn] = code[fn]
      /\ code' = [i \in 1..Len(code) |-> code'[i]]
  BY <1>3, <1>5, <1>6
<1>8. IsSeq(code')
  BY <1>5, <1>7, FunctionIs
<1>9. PICK A, app : A = {n - 1, n} /\ app = [i \in {n - 1, n} |-> IF i = n THEN end ELSE closure]
  OBVIOUS
<1>10. app[n] = end /\ app[n - 1] = closure /\ A \subseteq 1..n /\ n \in A
       /\ \A i \in A : i = n \/ i = n - 1
  BY <1>1, <1>9
<1>11. /\ end.op = "end" /\ end.scope = Scope(d)
       /\ closure.op = "closure" /\ closure.scope = Scope(p) /\ closure.fn = d.fn
  BY <1>a, <1>b, FieldsAre
<1>12. PopStep(n, A, app)
  <2>1. \A i \in A :
          /\ code'[compilers[i].fn] = Append(code[compilers[i].fn], app[i])
          /\ app[i].scope = Scope(compilers[i]) /\ app[i].op # "begin"
    BY <1>1, <1>4, <1>7, <1>10, <1>11
  <2>2. \A fn \in DOMAIN code : (\A i \in A : compilers[i].fn # fn) => code'[fn] = code[fn]
    BY <1>1, <1>7, <1>9
  <2> QED BY <1>a, <1>2, <1>7, <1>8, <1>10, <1>11, <2>1, <2>2 DEF PopStep
<1>13. StatementOK(d.fn, end)'
  BY <1>11, PlainOK
<1>14. StatementOK(p.fn, closure)'
  <2>1. ~Open(d.fn)'
    BY <1>1, <1>12, PopEffect
  <2>2. ASSUME NEW u \in upvalues[d.fn]
        PROVE  /\ u.depth = 1 => variables[u.target].container \in Scope(p)
               /\ u.depth > 1 => Parent(u) \in upvalues[p.fn]
    <3>1. ParentOK(p, u)
      BY <1>1 DEF CompileInv, ParentsOK
    <3>2. FramesOK(p)
      BY <1>1 DEF CompileInv
    <3>3. ASSUME u.depth = 1 PROVE variables[u.target].container \in Scope(p)
      <4>1. PICK k \in DOMAIN p.frames : u.target \in p.frames[k].locals
        BY <3>1, <3>3 DEF ParentOK
      <4>2. variables[u.target].container = p.frames[k].container
        BY <3>2, <4>1 DEF FramesOK, FrameOK
      <4> QED BY <4>2 DEF Scope
    <3> QED BY <3>1, <3>3 DEF ParentOK
  <2>3. ClosureOK(p.fn, closure)'
    BY <1>2, <1>3, <1>7, <1>11, <2>1, <2>2 DEF ClosureOK
  <2> QED BY <1>11, <2>3 DEF StatementOK, BeginOK, UseOK, JumpOK, LoopOps
<1>15. \A i \in A : \A fn : fn = compilers[i].fn => StatementOK(fn, app[i])'
  <2>1. ASSUME NEW i \in A, NEW fn, fn = compilers[i].fn PROVE StatementOK(fn, app[i])'
    BY <1>1, <1>10, <1>13, <1>14, <2>1
  <2> QED BY <2>1
<1>16. CompileInv'
  BY <1>12, <1>15, PopKeeps
<1>17. ASSUME ReleaseInv PROVE ReleaseInv'
  <2>1. closure.drop = {}
    BY <1>b DEF Instruction, Statement
  <2>2. app[n] = FinishBody
    BY <1>b, <1>10
  <2>3. \A i \in A : app[i].op # "relocate"
    BY <1>10, <1>11
  <2>4. \A i \in A : i # n => app[i].op = "closure" /\ app[i].drop = {}
    BY <1>10, <1>11, <2>1
  <2> QED BY <1>12, <1>17, <2>2, <2>3, <2>4, PopRelease
<1> QED
  BY <1>16, <1>17

LEMMA EndOfSourceStep ==
    ASSUME CompileInv, compilers # <<>>, EndOfSource
    PROVE  CompileInv' /\ (ReleaseInv => ReleaseInv')
<1>a. PICK n, d, end : n = Len(compilers) /\ d = Top /\ end = FinishBody
  OBVIOUS
<1>1. n = 1 /\ DOMAIN compilers = 1..n /\ n \in DOMAIN compilers /\ d = compilers[n] /\ d.fn = 1
      /\ 1 \in DOMAIN code
  <2>1. n \in Nat /\ DOMAIN compilers = 1..n /\ n \in DOMAIN compilers /\ d = compilers[n]
    BY <1>a, TopIs
  <2>2. n = 1
    BY <1>a DEF EndOfSource
  <2> QED BY <2>1, <2>2 DEF CompileInv, OpenFunctions
<1>2. /\ Top.loops = <<>> /\ compilers' = <<>>
      /\ UNCHANGED <<variables, captured, upvalues, labels, containers>>
      /\ code' = [code EXCEPT ![1] = code[1] \o <<end>>]
  BY <1>a DEF EndOfSource, EmitAll
<1>3. compilers' = Front(compilers)
  <2>1. IsSeq(compilers)
    BY DEF CompileInv, Shapes
  <2>2. IsSeq(Front(compilers)) /\ Len(Front(compilers)) = n - 1
    BY <1>a, <2>1, FrontIs
  <2>3. n - 1 = 0
    BY <1>1
  <2> QED BY <1>2, <2>2, <2>3, SeqIs
<1>4. IsSeq(code) /\ Len(code) \in Nat /\ DOMAIN code = 1..Len(code) /\ IsSeq(code[1])
  BY <1>1, SeqIs DEF CompileInv, Shapes
<1>5. code[1] \o <<end>> = Append(code[1], end)
  <2>1. PICK T : code[1] \in Seq(T)
    BY <1>4 DEF IsSeq
  <2> QED BY <2>1
<1>6. PICK y : y = Append(code[1], end)
  OBVIOUS
<1>7. code' = [code EXCEPT ![1] = y]
  BY <1>2, <1>5, <1>6
<1>8. /\ code'[1] = y /\ DOMAIN code' = DOMAIN code
      /\ \A fn \in DOMAIN code : fn # 1 => code'[fn] = code[fn]
      /\ code' = [i \in 1..Len(code) |-> code'[i]]
  BY <1>1, <1>4, <1>7
<1>9. IsSeq(code')
  BY <1>4, <1>8, FunctionIs
<1>10. PICK A, app : A = {n} /\ app = [i \in {n} |-> end]
  OBVIOUS
<1>11. app[n] = end /\ A \subseteq 1..n /\ n \in A /\ \A i \in A : i = n
  BY <1>1, <1>10
<1>12. end.op = "end" /\ end.scope = Scope(d)
  BY <1>a, FieldsAre
<1>13. PopStep(n, A, app)
  <2>1. \A i \in A :
          /\ code'[compilers[i].fn] = Append(code[compilers[i].fn], app[i])
          /\ app[i].scope = Scope(compilers[i]) /\ app[i].op # "begin"
    BY <1>1, <1>6, <1>8, <1>11, <1>12
  <2>2. \A fn \in DOMAIN code : (\A i \in A : compilers[i].fn # fn) => code'[fn] = code[fn]
    BY <1>1, <1>8, <1>11
  <2> QED BY <1>a, <1>2, <1>3, <1>8, <1>9, <1>11, <1>12, <2>1, <2>2 DEF PopStep
<1>14. \A i \in A : \A fn : fn = compilers[i].fn => StatementOK(fn, app[i])'
  BY <1>11, <1>12, PlainOK
<1>15. CompileInv'
  BY <1>13, <1>14, PopKeeps
<1>16. ASSUME ReleaseInv PROVE ReleaseInv'
  <2>1. app[n] = FinishBody
    BY <1>a, <1>11
  <2>2. \A i \in A : app[i].op # "relocate"
    BY <1>11, <1>12
  <2>3. \A i \in A : i # n => app[i].op = "closure" /\ app[i].drop = {}
    BY <1>11
  <2> QED BY <1>13, <1>16, <2>1, <2>2, <2>3, PopRelease
<1> QED
  BY <1>15, <1>16

LEMMA OpenFunctionStep ==
    ASSUME CompileInv, compilers # <<>>, OpenFunction
    PROVE  CompileInv' /\ (ReleaseInv => ReleaseInv')
<1>a. PICK n, g, k : n = Len(compilers) /\ g = Len(code) + 1 /\ k = Len(containers) + 1
  OBVIOUS
<1>b. PICK new, entry : new = NewCompiler(g, k) /\ entry = <<Entry(k)>>
  OBVIOUS
<1>0. /\ IsSeq(compilers) /\ IsSeq(variables) /\ IsSeq(upvalues) /\ IsSeq(code)
      /\ IsSeq(labels) /\ IsSeq(containers) /\ Len(upvalues) = Len(code)
      /\ LabelsOK /\ FlowOK /\ OpenFunctions
  BY DEF CompileInv, Shapes
<1>1. /\ n \in Nat /\ n >= 1 /\ DOMAIN compilers = 1..n
      /\ DOMAIN code = 1..Len(code) /\ Len(code) \in Nat
      /\ DOMAIN upvalues = 1..Len(code) /\ 1 \in DOMAIN code /\ g \notin DOMAIN code /\ g # 1
      /\ Len(containers) \in Nat
  <2>1. n \in Nat /\ n >= 1 /\ DOMAIN compilers = 1..n
    BY <1>a, TopIs
  <2>2. /\ DOMAIN code = 1..Len(code) /\ Len(code) \in Nat /\ DOMAIN upvalues = 1..Len(upvalues)
        /\ Len(containers) \in Nat
    BY <1>0, SeqIs
  <2>3. 1 \in DOMAIN code
    BY <1>0 DEF OpenFunctions
  <2>4. g \notin 1..Len(code)
    BY <1>a, <2>2
  <2> QED BY <1>0, <2>1, <2>2, <2>3, <2>4
<1>2. containers' = Append(containers, g) /\ UNCHANGED <<variables, captured, labels>>
  BY <1>a DEF OpenFunction
<1>3. /\ Extends(containers, containers') /\ Len(containers') = k
      /\ k \in DOMAIN containers' /\ containers'[k] = g
  <2>1. /\ Len(containers') = Len(containers) + 1 /\ containers'[Len(containers) + 1] = g
        /\ DOMAIN containers' = 1..(Len(containers) + 1)
    BY <1>0, <1>2, AppendIs
  <2>2. k \in 1..k
    BY <1>a, <1>1
  <2> QED BY <1>0, <1>2, <1>a, <2>1, <2>2, ExtendsAppend
<1>4. /\ compilers' = Append(compilers, new) /\ code' = Append(code, entry)
      /\ upvalues' = Append(upvalues, {})
  BY <1>a, <1>b, <1>3 DEF OpenFunction
<1>5. /\ IsSeq(compilers') /\ Len(compilers') = n + 1 /\ DOMAIN compilers' = 1..(n + 1)
      /\ \A i \in 1..n : compilers'[i] = compilers[i]
      /\ compilers'[n + 1] = new
  BY <1>0, <1>4, <1>a, AppendIs
<1>6. /\ IsSeq(code') /\ Len(code') = Len(code) + 1 /\ DOMAIN code' = 1..(Len(code) + 1)
      /\ \A i \in 1..Len(code) : code'[i] = code[i]
      /\ code'[g] = entry
  BY <1>0, <1>4, <1>a, AppendIs
<1>7. /\ IsSeq(upvalues') /\ Len(upvalues') = Len(code')
      /\ \A i \in 1..Len(code) : upvalues'[i] = upvalues[i]
      /\ upvalues'[g] = {} /\ DOMAIN upvalues' = DOMAIN code'
  <2>1. /\ IsSeq(upvalues') /\ Len(upvalues') = Len(upvalues) + 1
        /\ DOMAIN upvalues' = 1..(Len(upvalues) + 1)
        /\ \A i \in 1..Len(upvalues) : upvalues'[i] = upvalues[i]
        /\ upvalues'[Len(upvalues) + 1] = {}
    BY <1>0, <1>4, AppendIs
  <2> QED BY <1>0, <1>6, <1>a, <2>1
<1>8. /\ \A i \in 1..(n + 1) : i \in 1..n \/ i = n + 1
      /\ \A i \in 1..n : i \in 1..(n + 1) /\ i # n + 1
      /\ \A fn \in DOMAIN code' : fn \in DOMAIN code \/ fn = g
      /\ DOMAIN code \subseteq DOMAIN code' /\ g \in DOMAIN code'
  BY <1>1, <1>6, <1>a
<1>9. new.fn = g /\ new.frames = <<Frame(k)>> /\ new.loops = <<>>
  BY <1>b DEF NewCompiler
<1>10. IsCompiler(new) /\ DOMAIN new.frames = {1} /\ new.frames # <<>> /\ DOMAIN new.loops = {}
       /\ new.frames[1] = Frame(k) /\ Scope(new) = {k}
  <2>1. IsSeq(new.frames) /\ Len(new.frames) = 1 /\ new.frames[1] = Frame(k)
        /\ IsSeq(new.loops) /\ Len(new.loops) = 0
    <3>1. PICK frame : frame = Frame(k)
      OBVIOUS
    <3>2. IsSeq(<<frame>>) /\ Len(<<frame>>) = 1 /\ <<frame>>[1] = frame
      BY TuplesAre
    <3>3. IsSeq(<<>>) /\ Len(<<>>) = 0
      BY TuplesAre
    <3> QED BY <1>9, <3>1, <3>2, <3>3
  <2>2. DOMAIN new.frames = 1..1 /\ new.frames # <<>> /\ DOMAIN new.loops = 1..0
    BY <2>1, SeqIs
  <2>3. DOMAIN new.frames = {1} /\ DOMAIN new.loops = {}
    BY <2>2
  <2>4. new.frames[1] = [container |-> new.frames[1].container, locals |-> new.frames[1].locals]
    BY <2>1 DEF Frame
  <2>5. new = [fn |-> new.fn, frames |-> new.frames, loops |-> new.loops]
    BY <1>b DEF NewCompiler
  <2>6. IsCompiler(new)
    BY <2>1, <2>3, <2>4, <2>5 DEF IsCompiler
  <2>7. new.frames[1].container = k
    BY <2>1 DEF Frame
  <2>8. Scope(new) = {k}
    BY <2>3, <2>7 DEF Scope
  <2> QED BY <2>1, <2>2, <2>3, <2>6, <2>8
<1>11. \A fn \in DOMAIN code : Open(fn)' <=> Open(fn)
  BY <1>1, <1>5, <1>8, <1>9 DEF Open
<1>12. Grows
  <2>1. Extends(variables, variables')
    BY <1>0, <1>2, ExtendsSelf
  <2>2. \A fn \in DOMAIN code : IsSeq(code[fn])
    BY DEF CompileInv, Shapes
  <2>3. \A fn \in DOMAIN code : Extends(code[fn], code'[fn])
    BY <1>1, <1>6, <2>2, ExtendsSelf
  <2> QED BY <1>0, <1>1, <1>2, <1>3, <1>6, <1>7, <1>8, <1>11, <2>1, <2>3 DEF Grows
<1>13. Entry(k).op = "begin" /\ Entry(k).scope = {} /\ Entry(k).container = k
  BY DEF Entry, Statement
<1>14. IsSeq(entry) /\ Len(entry) = 1 /\ entry[1] = Entry(k) /\ DOMAIN entry = {1} /\ entry # <<>>
  <2>1. IsSeq(entry) /\ Len(entry) = 1 /\ entry[1] = Entry(k)
    BY <1>b, TuplesAre
  <2>2. DOMAIN entry = 1..1 /\ entry # <<>>
    BY <2>1, SeqIs
  <2> QED BY <2>1, <2>2
<1>15. Shapes'
  <2>1. \A fn \in DOMAIN code' : IsSeq(code'[fn]) /\ code'[fn] # <<>>
    BY <1>1, <1>6, <1>8, <1>14 DEF CompileInv, Shapes
  <2>2. \A i \in DOMAIN compilers' : IsCompiler(compilers'[i])
    BY <1>1, <1>5, <1>8, <1>10 DEF CompileInv, Shapes
  <2>3. IsSeq(containers') /\ IsSeq(variables') /\ labels' = labels
    BY <1>0, <1>2, <1>3 DEF Extends
  <2> QED BY <1>5, <1>6, <1>7, <2>1, <2>2, <2>3 DEF CompileInv, Shapes
<1>16. OpenFunctions'
  <2>1. \A i \in 1..n : compilers'[i].fn \in DOMAIN code
    BY <1>0, <1>1, <1>5 DEF OpenFunctions
  <2>2. compilers'[n + 1].fn = g /\ n + 1 # 1
    BY <1>1, <1>5, <1>9
  <2>3. \A i \in DOMAIN compilers' : compilers'[i].fn \in DOMAIN code'
    BY <1>5, <1>8, <2>1, <2>2
  <2>4. \A i \in DOMAIN compilers' : \A j \in DOMAIN compilers' :
            compilers'[i].fn = compilers'[j].fn => i = j
    <3>1. ASSUME NEW i \in DOMAIN compilers', NEW j \in DOMAIN compilers',
                 compilers'[i].fn = compilers'[j].fn
          PROVE  i = j
      <4>1. CASE i \in 1..n /\ j \in 1..n
        BY <1>0, <1>1, <1>5, <3>1, <4>1 DEF OpenFunctions
      <4>2. CASE i = n + 1 \/ j = n + 1
        BY <1>1, <1>5, <1>8, <2>1, <2>2, <3>1, <4>2
      <4> QED BY <1>5, <1>8, <4>1, <4>2
    <3> QED BY <3>1
  <2>5. 1 \in DOMAIN code'
    BY <1>1, <1>8
  <2>6. \A i \in DOMAIN compilers' : compilers'[i].fn = 1 <=> i = 1
    <3>1. \A i \in 1..n : compilers'[i].fn = 1 <=> i = 1
      BY <1>0, <1>1, <1>5 DEF OpenFunctions
    <3> QED BY <1>1, <1>5, <1>8, <2>2, <3>1
  <2> QED BY <2>3, <2>4, <2>5, <2>6 DEF OpenFunctions
<1>17. ASSUME NEW i \in DOMAIN compilers', NEW c, c = compilers'[i]
       PROVE  FramesOK(c)' /\ LoopsOK(c)'
  <2>1. CASE i \in 1..n
    <3>1. c = compilers[i] /\ i \in DOMAIN compilers
      BY <1>1, <1>5, <1>17, <2>1
    <3>2. FramesOK(c) /\ LoopsOK(c)
      BY <3>1 DEF CompileInv
    <3> QED BY <1>0, <1>12, <3>2, CompilerKept
  <2>2. CASE i = n + 1
    <3>1. c = new
      BY <1>5, <1>17, <2>2
    <3>2. LoopsOK(c)'
      BY <1>10, <3>1 DEF LoopsOK
    <3>3. Frame(k).container = k /\ Frame(k).locals = {}
      BY DEF Frame
    <3>4. FrameOK(g, Frame(k))'
      <4>1. PICK frame : frame = Frame(k)
        OBVIOUS
      <4>2. FrameOK(g, frame)'
        BY <1>3, <3>3, <4>1 DEF FrameOK
      <4> QED BY <4>1, <4>2
    <3>5. FramesOK(c)'
      BY <1>9, <1>10, <3>1, <3>4 DEF FramesOK
    <3> QED BY <3>2, <3>5
  <2> QED BY <1>5, <1>8, <2>1, <2>2
<1>18. LabelsOK'
  <2>1. ASSUME NEW l \in DOMAIN labels PROVE LabelOK(l)'
    <3>1. LabelOK(l) /\ labels' = labels
      BY <1>0, <1>2 DEF LabelsOK
    <3>2. labels[l].fn \in DOMAIN code /\ code'[labels[l].fn] = code[labels[l].fn]
      BY <1>1, <1>6, <3>1 DEF LabelOK
    <3>3. StartScope(l)' = StartScope(l)
      BY <3>1, <3>2 DEF StartScope
    <3>4. OpenLoop(l) => OpenLoop(l)'
      BY <1>1, <1>5, <1>8 DEF OpenLoop
    <3>5. EndOK(l) => EndOK(l)'
      <4>1. PICK a, f, e : a = StartScope(l) /\ f = labels[l].fn /\ e = labels[l].end
        OBVIOUS
      <4>2. labels'[l].fn = f /\ labels'[l].end = e /\ StartScope(l)' = a /\ code'[f] = code[f]
        BY <3>1, <3>2, <3>3, <4>1
      <4>3. (\E i \in DOMAIN compilers : compilers[i].fn = f /\ Scope(compilers[i]) \subseteq a)
            => \E i \in DOMAIN compilers' : compilers'[i].fn = f /\ Scope(compilers'[i]) \subseteq a
        BY <1>1, <1>5, <1>8
      <4> QED BY <4>1, <4>2, <4>3 DEF EndOK
    <3> QED BY <1>8, <3>1, <3>2, <3>4, <3>5 DEF LabelOK
  <2> QED BY <1>2, <2>1 DEF LabelsOK
<1>19. FlowOK'
  <2>1. \A fn \in DOMAIN code : code'[fn] = code[fn]
    BY <1>1, <1>6
  <2>2. \A fn \in DOMAIN code' : code'[fn][1].scope = {}
    BY <1>0, <1>6, <1>8, <1>13, <1>14, <2>1 DEF FlowOK
  <2>3. \A fn \in DOMAIN code' : \A p \in DOMAIN code'[fn] : p + 1 \in DOMAIN code'[fn] =>
            code'[fn][p + 1].scope \subseteq After(code'[fn][p])
    <3>1. \A p \in {1} : p + 1 \notin {1}
      OBVIOUS
    <3> QED BY <1>0, <1>6, <1>8, <1>14, <2>1, <3>1 DEF FlowOK
  <2>4. Scope(new) \subseteq After(Last(code'[g]))
    BY <1>6, <1>10, <1>13, <1>14 DEF After, Last
  <2>5. ASSUME NEW i \in DOMAIN compilers' PROVE Scope(compilers'[i]) \subseteq After(Last(code'[compilers'[i].fn]))
    <3>1. CASE i = n + 1
      BY <1>5, <1>9, <2>4, <3>1
    <3>2. CASE i \in 1..n
      BY <1>0, <1>1, <1>5, <2>1, <3>2 DEF FlowOK, OpenFunctions
    <3> QED BY <1>5, <1>8, <3>1, <3>2
  <2>6. Open(g)'
    BY <1>1, <1>5, <1>9 DEF Open
  <2>7. \A fn \in DOMAIN code' : Open(fn)' \/ Last(code'[fn]).op = "end"
    BY <1>0, <1>8, <1>11, <2>1, <2>6 DEF FlowOK
  <2> QED BY <2>2, <2>3, <2>5, <2>7 DEF FlowOK
<1>20. UpvaluesOK'
  <2>1. ASSUME NEW fn \in DOMAIN upvalues', NEW u \in upvalues'[fn] PROVE UpvalueOK(fn, u)'
    <3>1. fn \in DOMAIN code /\ u \in upvalues[fn] /\ fn \in DOMAIN upvalues
      BY <1>1, <1>7, <1>8, <2>1
    <3>2. UpvalueOK(fn, u)
      BY <3>1 DEF CompileInv, UpvaluesOK
    <3> QED BY <1>12, <3>2, UpvalueKept
  <2>2. upvalues'[1] = {}
    BY <1>1, <1>7 DEF CompileInv, UpvaluesOK
  <2> QED BY <2>1, <2>2 DEF UpvaluesOK
<1>21. ParentsOK'
  <2>1. ASSUME NEW i \in DOMAIN compilers', i > 1, NEW u \in upvalues'[compilers'[i].fn],
               NEW outer, outer = compilers'[i - 1]
        PROVE  ParentOK(outer, u)'
    <3>1. i # n + 1
      BY <1>5, <1>7, <1>9, <2>1
    <3>2. /\ i \in DOMAIN compilers /\ compilers'[i] = compilers[i]
          /\ i - 1 \in DOMAIN compilers /\ outer = compilers[i - 1]
      <4>1. i \in 1..n /\ i - 1 \in 1..n
        BY <1>1, <1>5, <2>1, <3>1
      <4> QED BY <1>1, <1>5, <2>1, <4>1
    <3>3. compilers[i].fn \in DOMAIN code /\ upvalues'[compilers[i].fn] = upvalues[compilers[i].fn]
      BY <1>0, <1>1, <1>7, <3>2 DEF OpenFunctions
    <3>4. ParentOK(outer, u) /\ UpvalueOK(compilers[i].fn, u)
      BY <1>1, <2>1, <3>2, <3>3 DEF CompileInv, ParentsOK, UpvaluesOK
    <3>5. FramesOK(outer) /\ IsSeq(outer.frames) /\ outer.fn \in DOMAIN code
      BY <3>2 DEF CompileInv, Shapes, IsCompiler, OpenFunctions
    <3> QED BY <1>12, <3>4, <3>5, ParentKept
  <2> QED BY <2>1 DEF ParentsOK
<1>22. CodeOK'
  <2>1. ASSUME NEW fn \in DOMAIN code', NEW p \in DOMAIN code'[fn], NEW s, s = code'[fn][p]
        PROVE  StatementOK(fn, s)'
    <3>1. CASE fn \in DOMAIN code
      <4>1. StatementOK(fn, s)
        BY <1>1, <1>6, <2>1, <3>1 DEF CompileInv, CodeOK
      <4> QED BY <1>12, <3>1, <4>1, StatementKept
    <3>2. CASE fn = g
      <4>1. s.op = "begin" /\ s.container = k
        BY <1>6, <1>13, <1>14, <2>1, <3>2
      <4> QED BY <1>3, <3>2, <4>1, BeginStatementOK
    <3> QED BY <1>8, <3>1, <3>2
  <2> QED BY <2>1 DEF CodeOK
<1>23. \A i \in DOMAIN compilers' : FramesOK(compilers[i])' /\ LoopsOK(compilers[i])'
  BY <1>17
<1>24. CompileInv'
  BY <1>15, <1>16, <1>18, <1>19, <1>20, <1>21, <1>22, <1>23 DEF CompileInv
<1>25. ASSUME ReleaseInv PROVE ReleaseInv'
  <2>1. VariablesOK /\ VariablesOK'
    BY <1>2, <1>3, <1>25 DEF ReleaseInv, VariablesOK, Extends
  <2>2. k \notin DOMAIN containers
    <3>1. PICK m : m = Len(containers)
      OBVIOUS
    <3>2. DOMAIN containers = 1..m /\ m \in Nat /\ k = m + 1
      BY <1>0, <1>a, <3>1, SeqIs
    <3> QED BY <3>2
  <2>3. Steady
    <3>1. ASSUME NEW c, Done(c) PROVE Done(c)'
      <4>1. c \in DOMAIN containers /\ c \in DOMAIN containers' /\ c # k
        BY <1>3, <2>2, <3>1 DEF Done, Extends
      <4>2. \A i \in DOMAIN compilers' : c \notin Scope(compilers'[i])
        BY <1>1, <1>5, <1>8, <1>10, <3>1, <4>1 DEF Done
      <4>3. \A i \in DOMAIN compilers' : Scope(compilers[i])' = Scope(compilers'[i])
        BY DEF Scope
      <4> QED BY <4>1, <4>2, <4>3 DEF Done
    <3> QED BY <1>2, <3>1, SameStorage DEF Steady
  <2>4. ASSUME NEW i \in DOMAIN compilers', NEW compiler, compiler = compilers'[i]
        PROVE  /\ OwnBlocks(compiler) /\ HiddenFrames(compiler)'
               /\ Leaves(Last(code[compiler.fn]), Scope(compiler))'
    <3>1. PICK s, next : s = Last(code'[compiler.fn]) /\ next = Scope(compiler)
      OBVIOUS
    <3>2. Scope(compiler)' = next
      BY <3>1 DEF Scope
    <3>3. CASE i = n + 1
      <4>1. compiler = new
        BY <1>5, <2>4, <3>3
      <4>2. OwnBlocks(new)
        BY <1>10 DEF OwnBlocks
      <4>3. HiddenFrames(new)'
        BY <1>10 DEF HiddenFrames
      <4>4. s.op = "begin" /\ s.scope = {} /\ s.container = k /\ next = {k}
        BY <1>6, <1>9, <1>10, <1>13, <1>14, <3>1, <4>1 DEF Last
      <4>5. Leaves(s, next)'
        BY <4>4 DEF Leaves, After
      <4> QED BY <3>1, <3>2, <4>1, <4>2, <4>3, <4>5
    <3>4. CASE i \in 1..n
      <4>1. compiler = compilers[i] /\ i \in DOMAIN compilers
        BY <1>1, <1>5, <2>4, <3>4
      <4>2. OwnBlocks(compiler) /\ HiddenFrames(compiler)
        BY <1>25, <4>1 DEF ReleaseInv
      <4>3. HiddenFrames(compiler)'
        BY <1>2, <4>2 DEF HiddenFrames
      <4>4. compiler.fn \in DOMAIN code /\ code'[compiler.fn] = code[compiler.fn]
        BY <1>0, <1>1, <1>6, <4>1 DEF OpenFunctions
      <4>5. Leaves(s, next)
        BY <1>25, <3>1, <4>1, <4>4 DEF ReleaseInv
      <4>6. Leaves(s, next)'
        BY <2>3, <4>5, LeavesKept
      <4> QED BY <3>1, <3>2, <4>2, <4>3, <4>6
    <3> QED BY <1>5, <1>8, <3>3, <3>4
  <2>5. ASSUME NEW fn \in DOMAIN code', NEW p \in DOMAIN code'[fn]
        PROVE  (fn \in DOMAIN code /\ p \in DOMAIN code[fn]) \/ ReleaseOK(fn, code[fn][p])'
    <3>1. CASE fn \in DOMAIN code
      BY <1>1, <1>6, <2>5, <3>1
    <3>2. CASE fn = g
      <4>1. PICK s : s = code'[fn][p]
        OBVIOUS
      <4>2. s = Entry(k)
        BY <1>6, <1>14, <2>5, <3>2, <4>1
      <4>3. s.op = "begin" /\ s.scope = {} /\ s.drop = {} /\ s.container = k
        BY <4>2 DEF Entry, Statement
      <4>4. ReleaseOK(fn, s)'
        BY <4>3 DEF ReleaseOK, ScopeIs, DropIs, ExitIs, TurnIs, ReturnIs, EndIs, EntryIs
      <4> QED BY <4>1, <4>4
    <3> QED BY <1>8, <3>1, <3>2
  <2>6. ASSUME NEW fn \in DOMAIN code', NEW p \in DOMAIN code'[fn], p + 1 \in DOMAIN code'[fn]
        PROVE  \/ fn \in DOMAIN code /\ p \in DOMAIN code[fn] /\ p + 1 \in DOMAIN code[fn]
               \/ Leaves(code[fn][p], code[fn][p + 1].scope)'
    <3>1. CASE fn \in DOMAIN code
      BY <1>1, <1>6, <2>6, <3>1
    <3>2. CASE fn = g
      <4>1. p = 1 /\ p + 1 = 1
        BY <1>6, <1>14, <2>6, <3>2
      <4> QED BY <4>1
    <3> QED BY <1>8, <3>1, <3>2
  <2>7. ASSUME NEW l \in DOMAIN labels' PROVE EndsWhole(l)'
    <3>1. l \in DOMAIN labels /\ LabelOK(l) /\ labels' = labels /\ EndsWhole(l)
      BY <1>0, <1>2, <1>25, <2>7 DEF LabelsOK, ReleaseInv
    <3>2. labels[l].fn \in DOMAIN code /\ code'[labels[l].fn] = code[labels[l].fn]
      BY <1>1, <1>6, <3>1 DEF LabelOK
    <3>3. PICK a, f, e : a = StartScope(l) /\ f = labels[l].fn /\ e = labels[l].end
      OBVIOUS
    <3>4. labels'[l].fn = f /\ labels'[l].end = e /\ StartScope(l)' = a /\ code'[f] = code[f]
      BY <3>1, <3>2, <3>3 DEF StartScope
    <3>5. OpenLoop(l) => OpenLoop(l)'
      BY <1>1, <1>5, <1>8 DEF OpenLoop
    <3>6. (\E i \in DOMAIN compilers : compilers[i].fn = f /\ a \subseteq Scope(compilers[i]))
          => \E i \in DOMAIN compilers' : compilers'[i].fn = f /\ a \subseteq Scope(compilers'[i])
      BY <1>1, <1>5, <1>8
    <3>7. \A i \in DOMAIN compilers' : Scope(compilers[i])' = Scope(compilers'[i])
      BY DEF Scope
    <3> QED BY <3>1, <3>3, <3>4, <3>5, <3>6, <3>7 DEF EndsWhole
  <2>8. \A i \in DOMAIN compilers' :
          /\ OwnBlocks(compilers'[i]) /\ HiddenFrames(compilers[i])'
          /\ Leaves(Last(code[compilers[i].fn]), Scope(compilers[i]))'
    BY <2>4
  <2> QED
    BY <1>12, <1>25, <2>1, <2>3, <2>5, <2>6, <2>7, <2>8, KeepRelease
<1> QED
  BY <1>24, <1>25

LEMMA CompileInit ==
    ASSUME ClosuresInit
    PROVE  CompileInv /\ ReleaseInv /\ compilers # <<>>
<1>a. PICK new, entry : new = NewCompiler(1, 1) /\ entry = <<Entry(1)>>
  OBVIOUS
<1>b. PICK frame, begin, none : frame = Frame(1) /\ begin = Entry(1) /\ none = {}
  OBVIOUS
<1>0. /\ compilers = <<new>> /\ variables = <<>> /\ captured = {} /\ upvalues = <<none>>
      /\ code = <<entry>> /\ labels = <<>> /\ containers = <<1>> /\ entry = <<begin>>
      /\ new.fn = 1 /\ new.frames = <<frame>> /\ new.loops = <<>>
      /\ new = [fn |-> new.fn, frames |-> new.frames, loops |-> new.loops]
      /\ frame = [container |-> frame.container, locals |-> frame.locals]
      /\ frame.container = 1 /\ frame.locals = {}
      /\ begin.op = "begin" /\ begin.scope = {} /\ begin.container = 1
  <2>1. /\ compilers = <<new>> /\ variables = <<>> /\ captured = {} /\ upvalues = <<none>>
        /\ code = <<entry>> /\ labels = <<>> /\ containers = <<1>> /\ entry = <<begin>>
    BY <1>a, <1>b DEF ClosuresInit
  <2>2. /\ new.fn = 1 /\ new.frames = <<frame>> /\ new.loops = <<>>
        /\ new = [fn |-> new.fn, frames |-> new.frames, loops |-> new.loops]
    BY <1>a, <1>b DEF NewCompiler
  <2>3. /\ frame = [container |-> frame.container, locals |-> frame.locals]
        /\ frame.container = 1 /\ frame.locals = {}
    BY <1>b DEF Frame
  <2>4. begin.op = "begin" /\ begin.scope = {} /\ begin.container = 1
    BY <1>b DEF Entry, Statement
  <2> QED BY <2>1, <2>2, <2>3, <2>4
<1>1. ASSUME NEW x, NEW q, q = <<x>>
      PROVE  IsSeq(q) /\ Len(q) = 1 /\ DOMAIN q = {1} /\ q[1] = x /\ q # <<>>
  <2>1. IsSeq(q) /\ Len(q) = 1 /\ q[1] = x
    BY <1>1, TuplesAre
  <2>2. DOMAIN q = 1..1 /\ q # <<>>
    BY <2>1, SeqIs
  <2> QED BY <2>1, <2>2
<1>2. ASSUME NEW q, q = <<>> PROVE IsSeq(q) /\ Len(q) = 0 /\ DOMAIN q = {}
  <2>1. IsSeq(q) /\ Len(q) = 0
    BY <1>2, TuplesAre
  <2>2. DOMAIN q = 1..0
    BY <2>1, SeqIs
  <2> QED BY <2>1, <2>2
<1>3. /\ IsSeq(compilers) /\ DOMAIN compilers = {1} /\ compilers[1] = new /\ compilers # <<>>
      /\ IsSeq(upvalues) /\ Len(upvalues) = 1 /\ DOMAIN upvalues = {1} /\ upvalues[1] = {}
      /\ IsSeq(code) /\ Len(code) = 1 /\ DOMAIN code = {1} /\ code[1] = entry
      /\ IsSeq(containers) /\ DOMAIN containers = {1} /\ containers[1] = 1
  BY <1>0, <1>1, <1>b
<1>4. /\ IsSeq(variables) /\ IsSeq(labels) /\ DOMAIN labels = {}
      /\ IsSeq(new.loops) /\ DOMAIN new.loops = {}
  BY <1>0, <1>2
<1>5. /\ IsSeq(entry) /\ Len(entry) = 1 /\ DOMAIN entry = {1} /\ entry[1] = begin /\ entry # <<>>
      /\ IsSeq(new.frames) /\ DOMAIN new.frames = {1} /\ new.frames[1] = frame /\ new.frames # <<>>
  BY <1>0, <1>1
<1>6. IsCompiler(new) /\ Scope(new) = {1}
  BY <1>0, <1>4, <1>5 DEF IsCompiler, Scope
<1>7. Shapes
  BY <1>3, <1>4, <1>5, <1>6 DEF Shapes
<1>8. OpenFunctions
  BY <1>0, <1>3 DEF OpenFunctions
<1>9. FramesOK(new) /\ LoopsOK(new)
  BY <1>0, <1>3, <1>4, <1>5 DEF FramesOK, FrameOK, LoopsOK
<1>10. LabelsOK
  BY <1>4 DEF LabelsOK
<1>11. FlowOK
  <2>1. \A p \in {1} : p + 1 \notin {1}
    OBVIOUS
  <2>2. Last(entry) = begin
    BY <1>5 DEF Last
  <2>3. Open(1)
    BY <1>0, <1>3 DEF Open
  <2> QED BY <1>0, <1>3, <1>5, <1>6, <2>1, <2>2, <2>3 DEF FlowOK, After
<1>12. UpvaluesOK /\ ParentsOK
  <2>1. UpvaluesOK
    BY <1>3 DEF UpvaluesOK
  <2>2. ~(1 > 1)
    OBVIOUS
  <2> QED BY <1>3, <2>1, <2>2 DEF ParentsOK
<1>13. CodeOK
  BY <1>0, <1>3, <1>5 DEF CodeOK, StatementOK, BeginOK, UseOK, ClosureOK, JumpOK, LoopOps
<1>14. CompileInv
  BY <1>3, <1>7, <1>8, <1>9, <1>10, <1>11, <1>12, <1>13 DEF CompileInv
<1>15. VariablesOK
  BY <1>0, <1>2 DEF VariablesOK
<1>16. OwnBlocks(new) /\ HiddenFrames(new)
  BY <1>4, <1>5 DEF OwnBlocks, HiddenFrames
<1>17. ReleaseOK(1, begin)
  <2>1. begin.drop = {}
    BY <1>b DEF Entry, Statement
  <2> QED BY <1>0, <2>1 DEF ReleaseOK, ScopeIs, DropIs, ExitIs, TurnIs, ReturnIs, EndIs, EntryIs
<1>18. Leaves(begin, {1})
  BY <1>0 DEF Leaves, After
<1>19. Last(entry) = begin
  BY <1>5 DEF Last
<1>20. \A p \in {1} : p + 1 \notin {1}
  OBVIOUS
<1>21. ReleaseInv
  <2>1. \A i \in DOMAIN compilers : OwnBlocks(compilers[i]) /\ HiddenFrames(compilers[i])
    BY <1>3, <1>16
  <2>2. \A fn \in DOMAIN code : \A p \in DOMAIN code[fn] : ReleaseOK(fn, code[fn][p])
    BY <1>3, <1>5, <1>17
  <2>3. \A fn \in DOMAIN code : \A p \in DOMAIN code[fn] : p + 1 \notin DOMAIN code[fn]
    BY <1>3, <1>5, <1>20
  <2>4. \A i \in DOMAIN compilers : Leaves(Last(code[compilers[i].fn]), Scope(compilers[i]))
    <3>1. Leaves(Last(code[new.fn]), Scope(new))
      BY <1>0, <1>3, <1>6, <1>18, <1>19
    <3> QED BY <1>3, <3>1
  <2>5. \A l \in DOMAIN labels : EndsWhole(l)
    BY <1>4
  <2>6. \A fn \in DOMAIN code : \A p \in DOMAIN code[fn] : p + 1 \in DOMAIN code[fn] =>
            Leaves(code[fn][p], code[fn][p + 1].scope)
    BY <2>3
  <2> QED BY <1>15, <2>1, <2>2, <2>4, <2>5, <2>6 DEF ReleaseInv
<1> QED
  BY <1>3, <1>14, <1>21

(* As long as there are tokens there is a function they belong to.          *)
StillParsing == compilers = <<>> => tokens = <<>>

LEMMA TopStays ==
    ASSUME CompileInv, compilers # <<>>, NEW c, SetTop(c)
    PROVE  compilers' # <<>>
<1>1. Len(compilers) \in DOMAIN compilers
  BY TopIs
<1>2. DOMAIN compilers' = DOMAIN compilers
  BY DEF SetTop
<1>3. DOMAIN <<>> = {}
  OBVIOUS
<1> QED
  BY <1>1, <1>2, <1>3

LEMMA CompileStep ==
    ASSUME CompileInv, StillParsing, Compile
    PROVE  CompileInv' /\ StillParsing' /\ (ReleaseInv /\ LeavesForLoop => ReleaseInv')
<1>1. ASSUME DeclareVariable \/ OpenBlock \/ CloseBlock \/ WhileStatement \/ EndWhile
             \/ ForStatement \/ EndFor \/ LeaveLoop \/ ReturnStatement \/ OpenFunction
             \/ CloseFunction \/ UseLocal \/ UseUpvalue
      PROVE  compilers # <<>>
  BY <1>1 DEF StillParsing, DeclareVariable, OpenBlock, CloseBlock, WhileStatement, EndWhile,
              ForStatement, EndFor, LeaveLoop, ReturnStatement, OpenFunction, CloseFunction,
              UseLocal, UseUpvalue, Parses
<1>2. CASE DeclareVariable
  BY <1>1, <1>2, DeclareStep, TopStays DEF DeclareVariable, StillParsing
<1>3. CASE OpenBlock
  BY <1>1, <1>3, OpenBlockStep, TopStays DEF OpenBlock, StillParsing
<1>4. CASE CloseBlock
  BY <1>1, <1>4, CloseBlockStep, TopStays DEF CloseBlock, StillParsing
<1>5. CASE WhileStatement
  BY <1>1, <1>5, WhileStep, TopStays DEF WhileStatement, StillParsing
<1>6. CASE EndWhile
  BY <1>1, <1>6, EndWhileStep, TopStays DEF EndWhile, EndLoop, StillParsing
<1>7. CASE ForStatement
  BY <1>1, <1>7, ForStep, TopStays DEF ForStatement, StillParsing
<1>8. CASE EndFor
  BY <1>1, <1>8, EndForStep, TopStays DEF EndFor, StillParsing
<1>9. CASE LeaveLoop
  <2>1. CompileInv' /\ (ReleaseInv /\ LeavesForLoop => ReleaseInv')
    BY <1>1, <1>9, LeaveStep DEF LeavesForLoop
  <2> QED BY <1>1, <1>9, <2>1 DEF LeaveLoop, StillParsing
<1>10. CASE ReturnStatement
  BY <1>1, <1>10, ReturnStep DEF ReturnStatement, StillParsing
<1>11. CASE OpenFunction
  <2>1. compilers' # <<>>
    <3>1. IsSeq(compilers) /\ Len(compilers) \in Nat
      BY SeqIs DEF CompileInv, Shapes
    <3>2. PICK new : compilers' = Append(compilers, new)
      BY <1>11 DEF OpenFunction
    <3>3. IsSeq(compilers') /\ Len(compilers') # 0
      BY <3>1, <3>2, AppendIs
    <3> QED BY <3>3, SeqIs
  <2> QED BY <1>1, <1>11, <2>1, OpenFunctionStep DEF StillParsing
<1>12. CASE CloseFunction
  <2>1. compilers' # <<>>
    <3>1. IsSeq(compilers) /\ Len(compilers) \in Nat /\ Len(compilers) > 1
      BY <1>12, SeqIs DEF CompileInv, Shapes, CloseFunction
    <3>2. compilers' = Front(compilers) /\ compilers # <<>>
      BY <1>1, <1>12 DEF CloseFunction
    <3>3. IsSeq(compilers') /\ Len(compilers') # 0
      BY <3>1, <3>2, FrontIs
    <3> QED BY <3>3, SeqIs
  <2> QED BY <1>1, <1>12, <2>1, CloseFunctionStep DEF StillParsing
<1>13. CASE UseLocal
  BY <1>1, <1>13, UseLocalStep DEF UseLocal, StillParsing
<1>14. CASE UseUpvalue
  BY <1>1, <1>14, UseUpvalueStep DEF UseUpvalue, StillParsing
<1>15. CASE EndOfSource
  <2>1. Len(compilers) = 1 /\ tokens' = tokens /\ tokens = <<>>
    BY <1>15 DEF EndOfSource
  <2>2. compilers # <<>>
    BY <2>1, TuplesAre
  <2> QED BY <1>15, <2>1, <2>2, EndOfSourceStep DEF StillParsing
<1> QED
  BY <1>2, <1>3, <1>4, <1>5, <1>6, <1>7, <1>8, <1>9, <1>10, <1>11, <1>12, <1>13, <1>14, <1>15 DEF Compile

(* A running program changes nothing of what was compiled.                  *)
LEMMA RunCompiles ==
    ASSUME Run
    PROVE  compileVars' = compileVars
<1>1. CASE BeginUpvalues
  BY <1>1 DEF BeginUpvalues
<1>2. CASE RelocateUpvalues
  BY <1>2 DEF RelocateUpvalues
<1>3. CASE UseVariable
  BY <1>3 DEF UseVariable
<1>4. CASE CreateClosure
  BY <1>4 DEF CreateClosure
<1>5. CASE TestCondition
  BY <1>5 DEF TestCondition
<1>6. CASE JumpToStart
  BY <1>6 DEF JumpToStart
<1>7. CASE BreakOrContinue
  BY <1>7 DEF BreakOrContinue
<1>8. CASE ReturnOrEnd
  BY <1>8 DEF ReturnOrEnd
<1>9. CASE \E c \in DOMAIN closures : Call(c) \/ Collect(c)
  BY <1>9 DEF Call, Collect
<1> QED
  BY <1>1, <1>2, <1>3, <1>4, <1>5, <1>6, <1>7, <1>8, <1>9 DEF Run

LEMMA SameCompiled ==
    ASSUME CompileInv, StillParsing, compileVars' = compileVars
    PROVE  CompileInv' /\ StillParsing' /\ (ReleaseInv => ReleaseInv')
<1>1. /\ tokens' = tokens /\ compilers' = compilers /\ variables' = variables
      /\ captured' = captured /\ upvalues' = upvalues /\ code' = code /\ labels' = labels
      /\ containers' = containers
  BY DEF compileVars
<1>2. StillParsing'
  BY <1>1 DEF StillParsing
<1>3. Shapes' /\ OpenFunctions'
  BY <1>1 DEF CompileInv, Shapes, OpenFunctions, IsSeq, IsCompiler
<1>a. \A l : StartScope(l)' = StartScope(l)
  BY <1>1 DEF StartScope
<1>b. \A c : Scope(c)' = Scope(c)
  BY DEF Scope
<1>c. \A fn : Open(fn)' <=> Open(fn)
  BY <1>1 DEF Open
<1>4. \A i \in DOMAIN compilers' : FramesOK(compilers[i])' /\ LoopsOK(compilers[i])'
  <2>1. \A c : FramesOK(c)' <=> FramesOK(c)
    BY <1>1 DEF FramesOK, FrameOK
  <2>2. \A c : LoopsOK(c)' <=> LoopsOK(c)
    <3>1. \A c, loop : LoopOK(c, loop)' <=> LoopOK(c, loop)
      <4>1. \A c, n : ScopeUpTo(c, n)' = ScopeUpTo(c, n)
        BY DEF ScopeUpTo
      <4> QED BY <1>1, <1>a, <4>1 DEF LoopOK
    <3> QED BY <1>1, <3>1 DEF LoopsOK
  <2>3. \A i \in DOMAIN compilers : FramesOK(compilers[i]) /\ LoopsOK(compilers[i])
    BY DEF CompileInv
  <2> SUFFICES ASSUME NEW i \in DOMAIN compilers'
               PROVE  FramesOK(compilers[i])' /\ LoopsOK(compilers[i])'
    OBVIOUS
  <2>5. PICK c : c = compilers[i]
    OBVIOUS
  <2>6. c = compilers'[i] /\ FramesOK(c) /\ LoopsOK(c)
    BY <1>1, <2>3, <2>5
  <2>7. FramesOK(c)' /\ LoopsOK(c)'
    BY <2>1, <2>2, <2>6
  <2> QED BY <2>6, <2>7
<1>5. LabelsOK' /\ FlowOK'
  <2>1. LabelsOK'
    <3>1. \A l : OpenLoop(l)' <=> OpenLoop(l)
      BY <1>1 DEF OpenLoop
    <3>2. \A l : EndOK(l)' <=> EndOK(l)
      BY <1>1, <1>a, <1>b DEF EndOK
    <3>3. \A l : LabelOK(l)' <=> LabelOK(l)
      BY <1>1, <3>1, <3>2 DEF LabelOK
    <3> QED BY <1>1, <3>3 DEF LabelsOK, CompileInv
  <2>2. FlowOK'
    BY <1>1, <1>b, <1>c DEF FlowOK, After, CompileInv
  <2> QED BY <2>1, <2>2
<1>6. UpvaluesOK' /\ ParentsOK'
  <2>1. UpvaluesOK'
    BY <1>1 DEF UpvaluesOK, UpvalueOK, CompileInv
  <2>2. \A c, n : Lookup(c, n)' = Lookup(c, n)
    BY <1>1 DEF Lookup, FramesWith, Named
  <2>3. ParentsOK'
    BY <1>1, <2>2 DEF ParentsOK, ParentOK, CompileInv
  <2> QED BY <2>1, <2>3
<1>7. CodeOK'
  <2>1. \A fn, s : StatementOK(fn, s)' <=> StatementOK(fn, s)
    BY <1>1, <1>a, <1>c DEF StatementOK, BeginOK, UseOK, ClosureOK, JumpOK
  <2> SUFFICES ASSUME NEW fn \in DOMAIN code', NEW p \in DOMAIN code'[fn]
               PROVE  StatementOK(fn, code[fn][p])'
    BY DEF CodeOK
  <2>3. PICK s : s = code[fn][p]
    OBVIOUS
  <2>4. s = code'[fn][p] /\ StatementOK(fn, s)
    BY <1>1, <2>3 DEF CompileInv, CodeOK
  <2>5. StatementOK(fn, s)'
    BY <2>1, <2>4
  <2> QED BY <2>4, <2>5
<1>8. ASSUME ReleaseInv PROVE ReleaseInv'
  <2>1. VariablesOK' /\ \A c : HasStorage(c)' <=> HasStorage(c)
    BY <1>1, <1>8 DEF ReleaseInv, VariablesOK, HasStorage
  <2>2. \A c : Done(c)' <=> Done(c)
    BY <1>1, <1>b DEF Done
  <2>3. \A s, next : Leaves(s, next)' <=> Leaves(s, next)
    BY <2>1, <2>2 DEF Leaves, After
  <2>4. \A fn, s : ReleaseOK(fn, s)' <=> ReleaseOK(fn, s)
    BY <1>1, <1>a, <2>1, <2>2 DEF ReleaseOK, ScopeIs, DropIs, ExitIs, TurnIs, ReturnIs, EndIs, EntryIs
  <2>5. \A l : EndsWhole(l)' <=> EndsWhole(l)
    <3>1. \A l : OpenLoop(l)' <=> OpenLoop(l)
      BY <1>1 DEF OpenLoop
    <3> QED BY <1>1, <1>a, <1>b, <3>1 DEF EndsWhole
  <2>6. \A c : HiddenFrames(c)' <=> HiddenFrames(c)
    BY <1>1 DEF HiddenFrames
  <2>7. ASSUME NEW i \in DOMAIN compilers'
        PROVE  /\ OwnBlocks(compilers'[i]) /\ HiddenFrames(compilers[i])'
               /\ Leaves(Last(code[compilers[i].fn]), Scope(compilers[i]))'
    <3>1. PICK c, s, next : c = compilers[i] /\ s = Last(code[c.fn]) /\ next = Scope(c)
      OBVIOUS
    <3>2. i \in DOMAIN compilers /\ c = compilers'[i] /\ s = Last(code'[c.fn]) /\ Scope(c)' = next
      BY <1>1, <1>b, <2>7, <3>1
    <3>3. OwnBlocks(c) /\ HiddenFrames(c) /\ Leaves(s, next)
      BY <1>8, <3>1, <3>2 DEF ReleaseInv
    <3>4. HiddenFrames(c)' /\ Leaves(s, next)'
      BY <2>3, <2>6, <3>3
    <3> QED BY <3>2, <3>3, <3>4
  <2>8. ASSUME NEW fn \in DOMAIN code', NEW p \in DOMAIN code'[fn]
        PROVE  ReleaseOK(fn, code[fn][p])'
    <3>1. PICK s : s = code[fn][p]
      OBVIOUS
    <3>2. s = code'[fn][p] /\ ReleaseOK(fn, s)
      BY <1>1, <1>8, <2>8, <3>1 DEF ReleaseInv
    <3>3. ReleaseOK(fn, s)'
      BY <2>4, <3>2
    <3> QED BY <3>2, <3>3
  <2>9. ASSUME NEW fn \in DOMAIN code', NEW p \in DOMAIN code'[fn], p + 1 \in DOMAIN code'[fn]
        PROVE  Leaves(code[fn][p], code[fn][p + 1].scope)'
    <3>1. PICK s, next : s = code[fn][p] /\ next = code[fn][p + 1].scope
      OBVIOUS
    <3>2. s = code'[fn][p] /\ next = code'[fn][p + 1].scope /\ Leaves(s, next)
      BY <1>1, <1>8, <2>9, <3>1 DEF ReleaseInv
    <3>3. Leaves(s, next)'
      BY <2>3, <3>2
    <3> QED BY <3>2, <3>3
  <2>10. \A l \in DOMAIN labels' : EndsWhole(l)'
    BY <1>1, <1>8, <2>5 DEF ReleaseInv
  <2>11. \A i \in DOMAIN compilers' :
           /\ OwnBlocks(compilers'[i]) /\ HiddenFrames(compilers[i])'
           /\ Leaves(Last(code[compilers[i].fn]), Scope(compilers[i]))'
    BY <2>7
  <2> QED BY <2>1, <2>8, <2>9, <2>10, <2>11 DEF ReleaseInv, OwnBlocks
<1> QED
  BY <1>2, <1>3, <1>4, <1>5, <1>6, <1>7, <1>8 DEF CompileInv

(* What resolution promises follows from what the statements say.           *)
LEMMA ResolvesLexicallyHolds ==
    ASSUME CompileInv
    PROVE  ResolvesLexically
<1> SUFFICES ASSUME NEW fn \in DOMAIN code, NEW i \in DOMAIN code[fn],
                    NEW s, s = code[fn][i]
             PROVE  /\ s.op = "use" =>
                          /\ GetFinalTarget(s.decl) = s.means
                          /\ IsUpvalue(s.decl) => s.decl \in upvalues[fn]
                    /\ s.op = "closure" =>
                          \A u \in upvalues[s.fn] :
                              IsUpvalue(Parent(u)) => Parent(u) \in upvalues[fn]
  BY DEF ResolvesLexically
<1>1. StatementOK(fn, s)
  BY DEF CompileInv, CodeOK
<1>2. s.op = "use" =>
        /\ GetFinalTarget(s.decl) = s.means
        /\ IsUpvalue(s.decl) => s.decl \in upvalues[fn]
  BY <1>1 DEF StatementOK, UseOK, GetFinalTarget, IsUpvalue
<1>3. ASSUME s.op = "closure", NEW u \in upvalues[s.fn], IsUpvalue(Parent(u))
      PROVE  Parent(u) \in upvalues[fn]
  <2>1. s.fn \in DOMAIN upvalues
    BY <1>1, <1>3, SeqIs DEF StatementOK, ClosureOK, CompileInv, Shapes
  <2>2. UpvalueOK(s.fn, u)
    BY <2>1 DEF CompileInv, UpvaluesOK
  <2>3. u = [depth |-> u.depth, target |-> u.target] /\ u.depth \in Nat /\ u.depth >= 1
    BY <2>2 DEF UpvalueOK
  <2>4. PICK n, t : u = [depth |-> n, target |-> t] /\ n = u.depth
    BY <2>3
  <2>5. Parent(u).depth = n - 1
    BY <2>4 DEF Parent
  <2>6. u.depth > 1
    BY <2>3, <2>4, <2>5, <1>3 DEF IsUpvalue
  <2> QED BY <1>1, <1>3, <2>6 DEF StatementOK, ClosureOK
<1> QED
  BY <1>2, <1>3

(***************************************************************************)
(* The invariant of the running program.                                   *)
(***************************************************************************)
(* A block that was allocated by a certain entry.                           *)
StorageFor(s, entry) == s \in DOMAIN storages /\ storages[s].entry = entry

IsActivation(a) == DOMAIN a = {"fn", "pc", "closure", "packs", "env"}
IsClosure(k) == DOMAIN k = {"fn", "alive", "env", "vars", "blocks"}
IsStorage(s) == DOMAIN s = {"count", "clobbered", "entry"}

(* An activation has the storage of what is in scope, each block of the     *)
(* entry its environment says, and around it the environment of its closure.*)
CreatedBy(a) ==
    /\ a.closure = 0 => a.fn = 1
    /\ a.closure # 0 =>
          /\ a.closure \in DOMAIN closures /\ closures[a.closure].fn = a.fn
          /\ \A c \in DOMAIN closures[a.closure].env : containers[c] # a.fn =>
                c \in DOMAIN a.env /\ a.env[c] = closures[a.closure].env[c]

PacksOK(a) ==
    \A c \in DOMAIN a.packs :
        HasStorage(c) /\ c \in DOMAIN a.env /\ StorageFor(a.packs[c], a.env[c])

HasScope(a) ==
    /\ a.fn \in DOMAIN code /\ a.pc \in DOMAIN code[a.fn]
    /\ \A c \in code[a.fn][a.pc].scope : HasStorage(c) => c \in DOMAIN a.packs

ActivationOK(a) == CreatedBy(a) /\ PacksOK(a) /\ HasScope(a)

(* A pointer to a variable, in the block of the entry the environment says. *)
PointsTo(pointer, target, env) ==
    /\ variables[target].container \in DOMAIN env
    /\ pointer[2] = target
    /\ StorageFor(pointer[1], env[variables[target].container])

FunctionObjectOK(k) ==
    /\ k.fn \in DOMAIN code /\ k.fn # 1
    /\ \A u \in upvalues[k.fn] : PointsTo(k.vars[u], u.target, k.env)

StackOK ==
    IsSeq(stack) /\ \A i \in DOMAIN stack : IsActivation(stack[i]) /\ ActivationOK(stack[i])
BlocksOK == IsSeq(storages) /\ \A s \in DOMAIN storages : IsStorage(storages[s])
ObjectsOK ==
    IsSeq(closures) /\ \A k \in DOMAIN closures : IsClosure(closures[k]) /\ FunctionObjectOK(closures[k])
NotYetRunning == compilers # <<>> => stack = <<>> /\ closures = <<>>

RunInv == StackOK /\ BlocksOK /\ ObjectsOK /\ NotYetRunning

(* What a step of a running program leaves as it was.                       *)
BlocksGrow ==
    /\ DOMAIN storages \subseteq DOMAIN storages'
    /\ \A s \in DOMAIN storages : storages'[s].entry = storages[s].entry
ObjectsGrow ==
    /\ DOMAIN closures \subseteq DOMAIN closures'
    /\ \A k \in DOMAIN closures :
          /\ closures'[k].fn = closures[k].fn /\ closures'[k].env = closures[k].env
          /\ closures'[k].vars = closures[k].vars
RunGrows == compileVars' = compileVars /\ BlocksGrow /\ ObjectsGrow

LEMMA CompiledKept ==
    ASSUME compileVars' = compileVars
    PROVE  /\ compilers' = compilers /\ variables' = variables
           /\ captured' = captured /\ upvalues' = upvalues /\ code' = code /\ labels' = labels
           /\ containers' = containers
           /\ \A c : HasStorage(c)' <=> HasStorage(c)
<1>1. /\ compilers' = compilers /\ variables' = variables
      /\ captured' = captured /\ upvalues' = upvalues /\ code' = code /\ labels' = labels
      /\ containers' = containers
  BY DEF compileVars
<1> QED BY <1>1 DEF HasStorage

LEMMA ActivationKept ==
    ASSUME RunGrows, NEW a, ActivationOK(a)
    PROVE  ActivationOK(a)'
<1>1. /\ captured' = captured /\ upvalues' = upvalues /\ code' = code
      /\ containers' = containers /\ \A c : HasStorage(c)' <=> HasStorage(c)
  BY CompiledKept DEF RunGrows
<1>2. CreatedBy(a)'
  BY <1>1 DEF ActivationOK, CreatedBy, RunGrows, ObjectsGrow
<1>3. \A s, e : StorageFor(s, e) => StorageFor(s, e)'
  BY DEF RunGrows, BlocksGrow, StorageFor
<1>4. PacksOK(a)'
  BY <1>1, <1>3 DEF ActivationOK, PacksOK
<1>5. HasScope(a)'
  BY <1>1 DEF ActivationOK, HasScope
<1> QED
  BY <1>2, <1>4, <1>5 DEF ActivationOK

LEMMA FunctionObjectKept ==
    ASSUME RunGrows, NEW k, FunctionObjectOK(k),
           NEW l, l.fn = k.fn, l.env = k.env, l.vars = k.vars
    PROVE  FunctionObjectOK(l)'
<1>1. code' = code /\ upvalues' = upvalues /\ variables' = variables
  BY CompiledKept DEF RunGrows
<1>2. \A s, e : StorageFor(s, e) => StorageFor(s, e)'
  BY DEF RunGrows, BlocksGrow, StorageFor
<1>3. \A p, t, env : PointsTo(p, t, env) => PointsTo(p, t, env)'
  BY <1>1, <1>2 DEF PointsTo
<1> QED
  BY <1>1, <1>3 DEF FunctionObjectOK

(* Unref changes counts only.                                               *)
LEMMA UnrefIs ==
    ASSUME BlocksOK, NEW ids, UnrefAll(ids)
    PROVE  BlocksGrow /\ BlocksOK'
<1>0. PICK n \in Nat : n = Len(storages) /\ DOMAIN storages = 1..n
  BY SeqIs DEF BlocksOK
<1>1. ASSUME NEW s \in DOMAIN storages
      PROVE  storages'[s].entry = storages[s].entry /\ IsStorage(storages'[s])
  <2>1. PICK r : r = storages[s] /\ DOMAIN r = {"count", "clobbered", "entry"}
    BY DEF BlocksOK, IsStorage
  <2>2. CASE s \notin ids
    BY <2>1, <2>2 DEF UnrefAll, IsStorage
  <2>3. CASE s \in ids
    <3>1. storages'[s] = [r EXCEPT !.count = @ - 1, !.clobbered = @ \/ r.count = 1]
      BY <2>1, <2>3, Zenon DEF UnrefAll
    <3> QED BY <2>1, <3>1 DEF IsStorage
  <2> QED BY <2>2, <2>3
<1>2. DOMAIN storages' = DOMAIN storages
  BY DEF UnrefAll
<1>3. IsSeq(storages')
  <2>1. storages' = [s \in 1..n |-> storages'[s]]
    BY <1>0 DEF UnrefAll
  <2> QED BY <2>1, FunctionIs
<1> QED
  BY <1>1, <1>2, <1>3 DEF BlocksGrow, BlocksOK

(* The running activation goes on as another.                               *)
LEMMA RunningStep ==
    ASSUME RunInv, RunGrows, stack # <<>>, compilers = <<>>,
           NEW b, IsActivation(b), ActivationOK(b)',
           stack' = [stack EXCEPT ![Len(stack)] = b]
    PROVE  StackOK'
<1>0. PICK n \in Nat : n = Len(stack) /\ DOMAIN stack = 1..n
  BY SeqIs DEF RunInv, StackOK
<1>1. stack' = [i \in 1..n |-> stack'[i]] /\ DOMAIN stack' = 1..n
  BY <1>0
<1>2. IsSeq(stack')
  BY <1>1, FunctionIs
<1>3. ASSUME NEW i \in 1..n PROVE IsActivation(stack'[i]) /\ ActivationOK(stack[i])'
  <2>1. CASE i = n
    <3>1. stack'[i] = b
      BY <1>0, <2>1
    <3> QED BY <3>1
  <2>2. CASE i # n
    <3>1. PICK a : a = stack[i]
      OBVIOUS
    <3>2. stack'[i] = a /\ IsActivation(a) /\ ActivationOK(a)
      BY <1>0, <2>2, <3>1 DEF RunInv, StackOK
    <3>3. ActivationOK(a)'
      BY <3>2, ActivationKept
    <3> QED BY <3>2, <3>3
  <2> QED BY <2>1, <2>2
<1> QED
  BY <1>1, <1>2, <1>3 DEF StackOK

LEMMA RunningIs ==
    ASSUME RunInv, stack # <<>>
    PROVE  Len(stack) \in DOMAIN stack /\ IsActivation(Running) /\ ActivationOK(Running)
<1>1. Len(stack) \in DOMAIN stack
  BY SeqIs DEF RunInv, StackOK
<1> QED BY <1>1 DEF RunInv, StackOK, Running

(* ... at another statement where no more is in scope.                      *)
LEMMA GotoStep ==
    ASSUME RunInv, RunGrows, stack # <<>>, compilers = <<>>,
           NEW pc, pc \in DOMAIN code[Running.fn],
           \A c \in code[Running.fn][pc].scope : HasStorage(c) => c \in DOMAIN Running.packs,
           Goto(pc)
    PROVE  StackOK'
<1>1. PICK a : a = Running
  OBVIOUS
<1>2. IsActivation(a) /\ ActivationOK(a) /\ Len(stack) \in DOMAIN stack
  BY <1>1, RunningIs
<1>3. PICK b : b = [a EXCEPT !.pc = pc]
  OBVIOUS
<1>4. stack' = [stack EXCEPT ![Len(stack)] = b]
  BY <1>1, <1>3 DEF Goto, Running
<1>5. IsActivation(b)
  BY <1>2, <1>3 DEF IsActivation
<1>6. b.fn = a.fn /\ b.pc = pc /\ b.closure = a.closure /\ b.packs = a.packs /\ b.env = a.env
  BY <1>2, <1>3 DEF IsActivation
<1>7. ActivationOK(b)
  BY <1>1, <1>2, <1>6 DEF ActivationOK, CreatedBy, PacksOK, HasScope
<1>8. ActivationOK(b)'
  BY <1>7, ActivationKept
<1> QED
  BY <1>4, <1>5, <1>8, RunningStep

(***************************************************************************)
(* The flow of control.                                                    *)
(***************************************************************************)
LEMMA NextStatement ==
    ASSUME CompileInv, compilers = <<>>, NEW fn \in DOMAIN code, NEW p \in DOMAIN code[fn],
           code[fn][p].op # "end", NEW n, n = p + 1
    PROVE  n \in DOMAIN code[fn] /\ code[fn][n].scope \subseteq After(code[fn][p])
<1>1. IsSeq(code[fn]) /\ code[fn] # <<>>
  BY DEF CompileInv, Shapes
<1>2. PICK m \in Nat : m = Len(code[fn]) /\ DOMAIN code[fn] = 1..m
  BY <1>1, SeqIs
<1>3. p # m
  <2>1. ~Open(fn)
    BY TuplesAre DEF Open
  <2>2. Last(code[fn]).op = "end"
    BY <2>1 DEF CompileInv, FlowOK
  <2>3. Last(code[fn]) = code[fn][m]
    BY <1>2 DEF Last
  <2> QED BY <2>2, <2>3
<1>4. n \in DOMAIN code[fn]
  BY <1>2, <1>3
<1> QED
  BY <1>4 DEF CompileInv, FlowOK

LEMMA LoopTargets ==
    ASSUME CompileInv, compilers = <<>>, NEW fn \in DOMAIN code, NEW p \in DOMAIN code[fn],
           code[fn][p].op \in LoopOps, NEW l, l = code[fn][p].loop,
           NEW pc, pc = labels[l].start \/ pc = labels[l].end
    PROVE  pc \in DOMAIN code[fn] /\ code[fn][pc].scope \subseteq code[fn][p].scope
<1>1. JumpOK(fn, code[fn][p])
  BY DEF CompileInv, CodeOK, StatementOK
<1>2. l \in DOMAIN labels /\ labels[l].fn = fn /\ StartScope(l) \subseteq code[fn][p].scope
  BY <1>1 DEF JumpOK
<1>3. LabelOK(l)
  BY <1>2 DEF CompileInv, LabelsOK
<1>4. DOMAIN compilers = {}
  OBVIOUS
<1>5. CASE pc = labels[l].start
  BY <1>2, <1>3, <1>5 DEF LabelOK, StartScope
<1>6. CASE pc = labels[l].end
  <2>1. EndOK(l)
    BY <1>3, <1>4 DEF LabelOK, OpenLoop
  <2>2. /\ labels[l].end \in DOMAIN code[labels[l].fn]
        /\ code[labels[l].fn][labels[l].end].scope \subseteq StartScope(l)
    BY <1>4, <2>1 DEF EndOK
  <2> QED BY <1>2, <1>6, <2>2
<1> QED
  BY <1>5, <1>6

LEMMA AdvanceStep ==
    ASSUME CompileInv, RunInv, RunGrows, stack # <<>>, compilers = <<>>,
           Current.op # "end", Current.op # "begin", Advance
    PROVE  StackOK'
<1>1. PICK a, n : a = Running /\ n = a.pc + 1
  OBVIOUS
<1>2. ActivationOK(a)
  BY <1>1, RunningIs
<1>3. /\ a.fn \in DOMAIN code /\ a.pc \in DOMAIN code[a.fn] /\ Current = code[a.fn][a.pc]
      /\ \A c \in code[a.fn][a.pc].scope : HasStorage(c) => c \in DOMAIN a.packs
  BY <1>1, <1>2 DEF ActivationOK, HasScope, Current
<1>4. n \in DOMAIN code[a.fn] /\ code[a.fn][n].scope \subseteq After(code[a.fn][a.pc])
  BY <1>1, <1>3, NextStatement
<1>5. code[a.fn][n].scope \subseteq code[a.fn][a.pc].scope
  BY <1>3, <1>4 DEF After
<1>6. Goto(n)
  BY <1>1 DEF Advance
<1> QED
  BY <1>1, <1>3, <1>4, <1>5, <1>6, GotoStep

LEMMA JumpStep ==
    ASSUME CompileInv, RunInv, RunGrows, stack # <<>>, compilers = <<>>,
           Current.op \in LoopOps, NEW pc, Goto(pc),
           pc = labels[Current.loop].start \/ pc = labels[Current.loop].end
    PROVE  StackOK'
<1>1. PICK a, l : a = Running /\ l = Current.loop
  OBVIOUS
<1>2. ActivationOK(a)
  BY <1>1, RunningIs
<1>3. /\ a.fn \in DOMAIN code /\ a.pc \in DOMAIN code[a.fn] /\ Current = code[a.fn][a.pc]
      /\ \A c \in code[a.fn][a.pc].scope : HasStorage(c) => c \in DOMAIN a.packs
  BY <1>1, <1>2 DEF ActivationOK, HasScope, Current
<1>4. pc \in DOMAIN code[a.fn] /\ code[a.fn][pc].scope \subseteq code[a.fn][a.pc].scope
  BY <1>1, <1>3, LoopTargets
<1> QED
  BY <1>1, <1>3, <1>4, GotoStep

LEMMA ObjectsKept ==
    ASSUME ObjectsOK, RunGrows, closures' = closures
    PROVE  ObjectsOK'
<1>1. IsSeq(closures')
  BY DEF ObjectsOK
<1>2. ASSUME NEW k \in DOMAIN closures'
      PROVE  IsClosure(closures'[k]) /\ FunctionObjectOK(closures[k])'
  <2>1. PICK o : o = closures[k]
    OBVIOUS
  <2>2. o = closures'[k] /\ IsClosure(o) /\ FunctionObjectOK(o)
    BY <1>2, <2>1 DEF ObjectsOK
  <2>3. FunctionObjectOK(o)'
    BY <2>2, FunctionObjectKept
  <2> QED BY <2>2, <2>3
<1> QED
  BY <1>1, <1>2 DEF ObjectsOK

LEMMA HasStorageIs ==
    ASSUME NEW v, v \in captured
    PROVE  HasStorage(variables[v].container)
BY DEF HasStorage

(* Through the function's own blocks, or through its closure's pointers.    *)
LEMMA PointerIs ==
    ASSUME CompileInv, RunInv, stack # <<>>, NEW a, a = Running, NEW d,
           d.depth \in Nat, d.target \in captured,
           d.depth = 0 => variables[d.target].container \in code[a.fn][a.pc].scope,
           d.depth > 0 => d \in upvalues[a.fn],
           NEW p, p = Pointer(a, d)
    PROVE  PointsTo(p, d.target, a.env)
<1>1. ActivationOK(a)
  BY RunningIs
<1>2. PICK c : c = variables[d.target].container
  OBVIOUS
<1>3. HasStorage(c)
  BY <1>2, HasStorageIs
<1>4. CASE d.depth = 0
  <2>1. p = <<a.packs[c], d.target>>
    BY <1>2, <1>4 DEF Pointer, IsUpvalue
  <2>2. c \in DOMAIN a.packs
    BY <1>1, <1>2, <1>3, <1>4 DEF ActivationOK, HasScope
  <2>3. c \in DOMAIN a.env /\ StorageFor(a.packs[c], a.env[c])
    BY <1>1, <2>2 DEF ActivationOK, PacksOK
  <2> QED BY <1>2, <2>1, <2>3 DEF PointsTo
<1>5. CASE d.depth > 0
  <2>0. a.fn \in DOMAIN upvalues
    BY <1>1, SeqIs DEF ActivationOK, HasScope, CompileInv, Shapes
  <2>1. d \in upvalues[a.fn] /\ a.fn # 1 /\ containers[c] # a.fn
    BY <1>2, <1>5, <2>0 DEF CompileInv, UpvaluesOK, UpvalueOK
  <2>2. PICK k : k = closures[a.closure]
    OBVIOUS
  <2>3. a.closure \in DOMAIN closures /\ k.fn = a.fn
    BY <1>1, <2>1, <2>2 DEF ActivationOK, CreatedBy
  <2>4. FunctionObjectOK(k)
    BY <2>2, <2>3 DEF RunInv, ObjectsOK
  <2>5. p = k.vars[d]
    BY <1>5, <2>2 DEF Pointer, IsUpvalue
  <2>6. PointsTo(p, d.target, k.env)
    BY <2>1, <2>3, <2>4, <2>5 DEF FunctionObjectOK
  <2>7. c \in DOMAIN k.env /\ p[2] = d.target /\ StorageFor(p[1], k.env[c])
    BY <1>2, <2>6 DEF PointsTo
  <2>8. a.closure # 0
    BY <1>1, <2>1 DEF ActivationOK, CreatedBy
  <2>9. c \in DOMAIN a.env /\ a.env[c] = k.env[c]
    BY <1>1, <2>1, <2>2, <2>7, <2>8 DEF ActivationOK, CreatedBy
  <2> QED BY <1>2, <2>7, <2>9 DEF PointsTo
<1> QED
  BY <1>4, <1>5

LEMMA BeginBlockStep ==
    ASSUME CompileInv, RunInv, BeginUpvalues
    PROVE  RunInv'
<1>0. PICK a, s, c : a = Running /\ s = Current /\ c = s.container
  OBVIOUS
<1>1. compilers = <<>> /\ stack # <<>> /\ s.op = "begin"
  BY <1>0 DEF BeginUpvalues, Runs
<1>2. Len(stack) \in DOMAIN stack /\ IsActivation(a) /\ ActivationOK(a)
  BY <1>0, <1>1, RunningIs
<1>3. /\ a.fn \in DOMAIN code /\ a.pc \in DOMAIN code[a.fn] /\ s = code[a.fn][a.pc]
      /\ \A b \in s.scope : HasStorage(b) => b \in DOMAIN a.packs
  BY <1>0, <1>2 DEF ActivationOK, HasScope, Current
<1>4. PICK n : n = a.pc + 1
  OBVIOUS
<1>5. n \in DOMAIN code[a.fn] /\ code[a.fn][n].scope \subseteq s.scope \cup {c}
  <2>1. n \in DOMAIN code[a.fn] /\ code[a.fn][n].scope \subseteq After(code[a.fn][a.pc])
    BY <1>1, <1>3, <1>4, NextStatement
  <2> QED BY <1>0, <1>1, <1>3, <2>1 DEF After
<1>6. containers[c] = a.fn
  BY <1>0, <1>1, <1>3 DEF CompileInv, CodeOK, StatementOK, BeginOK
<1>7. /\ compileVars' = compileVars /\ closures' = closures
      /\ AllocatesStorage(c) <=> HasStorage(c)
  BY DEF BeginUpvalues, AllocatesStorage
<1>8. PICK new, e : new = [count |-> 1, clobbered |-> FALSE, entry |-> e] /\ e = entries + 1
  OBVIOUS
<1>9. /\ entries' = e
      /\ storages' = IF HasStorage(c) THEN Append(storages, new) ELSE storages
      /\ stack' = [stack EXCEPT ![Len(stack)] =
            [a EXCEPT !.pc = @ + 1,
                      !.packs = IF HasStorage(c) THEN With(@, c, Len(storages')) ELSE @,
                      !.env = With(@, c, e)]]
  BY <1>0, <1>7, <1>8 DEF BeginUpvalues, Running
<1>10. IsSeq(storages) /\ \A i \in DOMAIN storages : IsStorage(storages[i])
  BY DEF RunInv, BlocksOK
<1>11. IsStorage(new) /\ new.entry = e
  BY <1>8 DEF IsStorage
<1>12. PICK m \in Nat : m = Len(storages) /\ DOMAIN storages = 1..m
  BY <1>10, SeqIs
<1>12a. PICK t : t = Len(storages')
  OBVIOUS
<1>13. BlocksGrow /\ BlocksOK' /\ (HasStorage(c) => StorageFor(t, e)')
  <2>1. CASE HasStorage(c)
    <3>1. /\ IsSeq(storages') /\ Len(storages') = m + 1 /\ DOMAIN storages' = 1..(m + 1)
          /\ \A i \in 1..m : storages'[i] = storages[i]
          /\ storages'[m + 1] = new
      BY <1>9, <1>10, <1>12, <2>1, AppendIs
    <3>2. \A i \in 1..(m + 1) : i \in 1..m \/ i = m + 1
      OBVIOUS
    <3>3. m + 1 \in 1..(m + 1)
      OBVIOUS
    <3>4. BlocksGrow
      BY <1>12, <3>1 DEF BlocksGrow
    <3>5. BlocksOK'
      BY <1>10, <1>11, <1>12, <3>1, <3>2 DEF BlocksOK
    <3>6. StorageFor(t, e)'
      BY <1>11, <1>12a, <3>1, <3>3 DEF StorageFor
    <3> QED BY <3>4, <3>5, <3>6
  <2>2. CASE ~HasStorage(c)
    BY <1>9, <1>10, <2>2 DEF BlocksGrow, BlocksOK
  <2> QED BY <2>1, <2>2
<1>14. RunGrows
  BY <1>7, <1>13 DEF RunGrows, ObjectsGrow
<1>15. ActivationOK(a)'
  BY <1>2, <1>14, ActivationKept
<1>16. PICK b : b = [a EXCEPT !.pc = @ + 1,
                              !.packs = IF HasStorage(c) THEN With(@, c, t) ELSE @,
                              !.env = With(@, c, e)]
  OBVIOUS
<1>17. /\ IsActivation(b)
       /\ b.fn = a.fn /\ b.pc = n /\ b.closure = a.closure /\ b.env = With(a.env, c, e)
       /\ b.packs = IF HasStorage(c) THEN With(a.packs, c, t) ELSE a.packs
  BY <1>2, <1>4, <1>16 DEF IsActivation
<1>18. /\ DOMAIN b.env = DOMAIN a.env \cup {c} /\ b.env[c] = e
       /\ \A x \in DOMAIN a.env : x # c => b.env[x] = a.env[x]
  <2>1. PICK f, h : f = a.env /\ h = With(f, c, e)
    OBVIOUS
  <2>2. /\ DOMAIN h = DOMAIN f \cup {c} /\ h[c] = e
        /\ \A x \in DOMAIN f : x # c => h[x] = f[x]
    BY <2>1 DEF With
  <2>3. b.env = h
    BY <1>17, <2>1
  <2> QED BY <2>1, <2>2, <2>3
<1>19. /\ DOMAIN b.packs = IF HasStorage(c) THEN DOMAIN a.packs \cup {c} ELSE DOMAIN a.packs
       /\ HasStorage(c) => b.packs[c] = t
       /\ \A x \in DOMAIN a.packs : x # c => b.packs[x] = a.packs[x]
  <2>1. CASE HasStorage(c)
    <3>1. PICK f, h : f = a.packs /\ h = With(f, c, t)
      OBVIOUS
    <3>2. /\ DOMAIN h = DOMAIN f \cup {c} /\ h[c] = t
          /\ \A x \in DOMAIN f : x # c => h[x] = f[x]
      BY <3>1 DEF With
    <3>3. b.packs = h
      BY <1>17, <2>1, <3>1
    <3> QED BY <2>1, <3>1, <3>2, <3>3
  <2>2. CASE ~HasStorage(c)
    BY <1>17, <2>2
  <2> QED BY <2>1, <2>2
<1>20. /\ code' = code /\ containers' = containers
       /\ \A x : HasStorage(x)' <=> HasStorage(x)
  BY <1>7, CompiledKept
<1>21. CreatedBy(b)'
  <2>1. CreatedBy(a)'
    BY <1>15 DEF ActivationOK
  <2> QED BY <1>6, <1>17, <1>18, <1>20, <2>1 DEF CreatedBy
<1>22. PacksOK(b)'
  <2>1. PacksOK(a)'
    BY <1>15 DEF ActivationOK
  <2>2. ~HasStorage(c) => c \notin DOMAIN a.packs
    BY <1>2 DEF ActivationOK, PacksOK
  <2> SUFFICES ASSUME NEW x \in DOMAIN b.packs
               PROVE  HasStorage(x)' /\ x \in DOMAIN b.env /\ StorageFor(b.packs[x], b.env[x])'
    BY DEF PacksOK
  <2>3. CASE x = c
    <3>1. HasStorage(c)
      BY <1>19, <2>2, <2>3
    <3>2. b.packs[x] = t /\ b.env[x] = e /\ x \in DOMAIN b.env
      BY <1>18, <1>19, <2>3, <3>1
    <3> QED BY <1>13, <1>20, <2>3, <3>1, <3>2
  <2>4. CASE x # c
    <3>1. x \in DOMAIN a.packs /\ b.packs[x] = a.packs[x]
      BY <1>19, <2>4
    <3>2. HasStorage(x)' /\ x \in DOMAIN a.env /\ StorageFor(a.packs[x], a.env[x])'
      BY <2>1, <3>1 DEF PacksOK
    <3> QED BY <1>18, <2>4, <3>1, <3>2
  <2> QED BY <2>3, <2>4
<1>23. HasScope(b)'
  BY <1>3, <1>5, <1>17, <1>19, <1>20 DEF HasScope
<1>24. stack' = [stack EXCEPT ![Len(stack)] = b]
  BY <1>9, <1>12a, <1>16
<1>25. StackOK'
  BY <1>1, <1>14, <1>17, <1>21, <1>22, <1>23, <1>24, RunningStep DEF ActivationOK
<1>26. ObjectsOK' /\ NotYetRunning'
  BY <1>1, <1>7, <1>14, ObjectsKept, CompiledKept DEF RunInv, NotYetRunning
<1> QED
  BY <1>13, <1>25, <1>26 DEF RunInv

LEMMA ParentIs ==
    ASSUME NEW fn, NEW u, UpvalueOK(fn, u), NEW d, d = Parent(u)
    PROVE  d.depth = u.depth - 1 /\ d.depth \in Nat /\ d.target = u.target /\ u.depth \in Nat
<1>1. u = [depth |-> u.depth, target |-> u.target] /\ u.depth \in Nat /\ u.depth >= 1
  BY DEF UpvalueOK
<1>2. PICK n, t : u = [depth |-> n, target |-> t] /\ n = u.depth
  BY <1>1
<1>3. d.depth = n - 1 /\ d.target = t
  BY <1>2 DEF Parent
<1> QED
  BY <1>1, <1>2, <1>3

LEMMA CreateClosureStep ==
    ASSUME CompileInv, RunInv, CreateClosure
    PROVE  RunInv'
<1>0. PICK a, s, fn : a = Running /\ s = Current /\ fn = s.fn
  OBVIOUS
<1>1. compilers = <<>> /\ stack # <<>> /\ s.op = "closure" /\ compileVars' = compileVars
  BY <1>0 DEF CreateClosure, Runs
<1>2. IsActivation(a) /\ ActivationOK(a)
  BY <1>0, <1>1, RunningIs
<1>3. a.fn \in DOMAIN code /\ a.pc \in DOMAIN code[a.fn] /\ s = code[a.fn][a.pc]
  BY <1>0, <1>2 DEF ActivationOK, HasScope, Current
<1>4. ClosureOK(a.fn, s)
  BY <1>3 DEF CompileInv, CodeOK, StatementOK
<1>5. PICK counted, pack : /\ counted = {StorageAddress(a, c) : c \in RefBlocks(a, fn)}
                           /\ pack = [c \in StorageContainers(fn) |-> StorageAddress(a, c)]
  OBVIOUS
<1>6. PICK vars : vars = [u \in upvalues[fn] |-> Pointer(a, Parent(u))]
  OBVIOUS
<1>7. PICK new : new = [fn |-> fn, alive |-> TRUE, env |-> a.env, vars |-> vars, blocks |-> pack]
  OBVIOUS
<1>8. /\ closures' = Append(closures, new) /\ Advance
      /\ storages' = [i \in DOMAIN storages |->
             IF i \in counted THEN [storages[i] EXCEPT !.count = @ + 1] ELSE storages[i]]
  BY <1>0, <1>5, <1>6, <1>7 DEF CreateClosure
<1>9. PICK m, n \in Nat : /\ m = Len(storages) /\ DOMAIN storages = 1..m
                          /\ n = Len(closures) /\ DOMAIN closures = 1..n
  BY SeqIs DEF RunInv, BlocksOK, ObjectsOK
<1>10. BlocksGrow /\ BlocksOK'
  <2>1. storages' = [i \in 1..m |-> storages'[i]] /\ DOMAIN storages' = 1..m
    BY <1>8, <1>9
  <2>2. IsSeq(storages')
    BY <2>1, FunctionIs
  <2>3. ASSUME NEW i \in 1..m
        PROVE  IsStorage(storages'[i]) /\ storages'[i].entry = storages[i].entry
    <3>1. PICK r : r = storages[i] /\ DOMAIN r = {"count", "clobbered", "entry"}
      BY <1>9 DEF RunInv, BlocksOK, IsStorage
    <3>2. storages'[i] = IF i \in counted THEN [r EXCEPT !.count = @ + 1] ELSE r
      BY <1>8, <1>9, <3>1
    <3> QED BY <3>1, <3>2 DEF IsStorage
  <2> QED BY <1>9, <2>1, <2>2, <2>3 DEF BlocksGrow, BlocksOK
<1>11. /\ IsSeq(closures') /\ DOMAIN closures' = 1..(n + 1) /\ closures'[n + 1] = new
       /\ \A k \in 1..n : closures'[k] = closures[k]
  <2>1. IsSeq(closures)
    BY DEF RunInv, ObjectsOK
  <2> QED BY <1>8, <1>9, <2>1, AppendIs
<1>12. RunGrows
  <2>1. ObjectsGrow
    BY <1>9, <1>11 DEF ObjectsGrow
  <2> QED BY <1>1, <1>10, <2>1 DEF RunGrows
<1>13. StackOK'
  BY <1>0, <1>1, <1>8, <1>12, AdvanceStep
<1>14. FunctionObjectOK(new)
  <2>1. new.fn = fn /\ new.env = a.env /\ new.vars = vars
    BY <1>7
  <2>2. fn \in DOMAIN code /\ fn # 1 /\ fn \in DOMAIN upvalues
    BY <1>0, <1>1, <1>4, SeqIs DEF ClosureOK, CompileInv, Shapes
  <2>3. ASSUME NEW u \in upvalues[fn]
        PROVE  PointsTo(vars[u], u.target, a.env)
    <3>1. PICK d, p : d = Parent(u) /\ p = Pointer(a, d)
      OBVIOUS
    <3>2. UpvalueOK(fn, u)
      BY <2>2 DEF CompileInv, UpvaluesOK
    <3>3. d.depth = u.depth - 1 /\ d.depth \in Nat /\ d.target = u.target /\ u.depth \in Nat
      BY <3>1, <3>2, ParentIs
    <3>4. d.target \in captured
      BY <3>2, <3>3 DEF UpvalueOK
    <3>5. d.depth = 0 => variables[d.target].container \in s.scope
      BY <1>0, <1>1, <1>4, <3>3 DEF ClosureOK
    <3>6. d.depth > 0 => d \in upvalues[a.fn]
      BY <1>0, <1>1, <1>4, <3>1, <3>3 DEF ClosureOK
    <3>7. PointsTo(p, d.target, a.env)
      BY <1>0, <1>1, <1>3, <3>1, <3>3, <3>4, <3>5, <3>6, PointerIs
    <3>8. vars[u] = p
      BY <1>6, <3>1
    <3> QED BY <3>3, <3>7, <3>8
  <2> QED BY <2>1, <2>2, <2>3 DEF FunctionObjectOK
<1>15. ObjectsOK'
  <2>1. IsClosure(new)
    BY <1>7 DEF IsClosure
  <2>2. ASSUME NEW k \in 1..(n + 1), NEW o, o = closures'[k]
        PROVE  IsClosure(o) /\ FunctionObjectOK(o)'
    <3>1. IsClosure(o) /\ FunctionObjectOK(o)
      <4>1. CASE k = n + 1
        BY <1>11, <1>14, <2>1, <2>2, <4>1
      <4>2. CASE k # n + 1
        BY <1>9, <1>11, <2>2, <4>2 DEF RunInv, ObjectsOK
      <4> QED BY <4>1, <4>2
    <3>2. FunctionObjectOK(o)'
      BY <1>12, <3>1, FunctionObjectKept
    <3> QED BY <3>1, <3>2
  <2>3. ASSUME NEW k \in DOMAIN closures'
        PROVE  IsClosure(closures'[k]) /\ FunctionObjectOK(closures[k])'
    <3>1. PICK o : o = closures'[k]
      OBVIOUS
    <3>2. IsClosure(o) /\ FunctionObjectOK(o)'
      BY <1>11, <2>2, <2>3, <3>1
    <3> QED BY <3>1, <3>2
  <2> QED BY <1>11, <2>3 DEF ObjectsOK
<1>16. NotYetRunning'
  BY <1>1, CompiledKept DEF NotYetRunning
<1> QED
  BY <1>10, <1>13, <1>15, <1>16 DEF RunInv

(* A closure runs in the environment it was created in.                     *)
LEMMA CallStep ==
    ASSUME CompileInv, RunInv, NEW c \in DOMAIN closures, Call(c)
    PROVE  RunInv'
<1>1. /\ compilers = <<>> /\ compileVars' = compileVars /\ storages' = storages
      /\ closures' = closures
  BY DEF Call
<1>2. RunGrows
  BY <1>1 DEF RunGrows, BlocksGrow, ObjectsGrow
<1>3. PICK k : k = closures[c] /\ FunctionObjectOK(k)
  BY DEF RunInv, ObjectsOK
<1>4. PICK b, none : b = [fn |-> k.fn, pc |-> 1, closure |-> c, packs |-> none, env |-> k.env]
                     /\ none = <<>>
  OBVIOUS
<1>5. stack' = Append(stack, b)
  BY <1>3, <1>4 DEF Call
<1>6. /\ IsActivation(b) /\ b.fn = k.fn /\ b.pc = 1 /\ b.closure = c /\ b.packs = none
      /\ b.env = k.env
  BY <1>4 DEF IsActivation
<1>7. k.fn \in DOMAIN code /\ k.fn # 1 /\ 1 \in DOMAIN code[k.fn] /\ code[k.fn][1].scope = {}
  BY <1>3, SeqIs DEF FunctionObjectOK, CompileInv, Shapes, FlowOK
<1>8. CreatedBy(b)
  <2>1. c # 0
    BY SeqIs DEF RunInv, ObjectsOK
  <2> QED BY <1>3, <1>6, <1>7, <2>1 DEF CreatedBy
<1>9. PacksOK(b) /\ HasScope(b)
  <2>1. DOMAIN none = {}
    BY <1>4
  <2> QED BY <1>6, <1>7, <2>1 DEF PacksOK, HasScope
<1>10. ActivationOK(b)
  BY <1>8, <1>9 DEF ActivationOK
<1>11. StackOK'
  <2>1. PICK n \in Nat : n = Len(stack) /\ DOMAIN stack = 1..n
    BY SeqIs DEF RunInv, StackOK
  <2>2. /\ IsSeq(stack') /\ DOMAIN stack' = 1..(n + 1) /\ stack'[n + 1] = b
        /\ \A i \in 1..n : stack'[i] = stack[i]
    <3>1. IsSeq(stack)
      BY DEF RunInv, StackOK
    <3> QED BY <1>5, <2>1, <3>1, AppendIs
  <2>3. ASSUME NEW i \in 1..(n + 1), NEW a, a = stack'[i]
        PROVE  IsActivation(a) /\ ActivationOK(a)'
    <3>1. IsActivation(a) /\ ActivationOK(a)
      <4>1. CASE i = n + 1
        BY <1>6, <1>10, <2>2, <2>3, <4>1
      <4>2. CASE i # n + 1
        BY <2>1, <2>2, <2>3, <4>2 DEF RunInv, StackOK
      <4> QED BY <4>1, <4>2
    <3> QED BY <1>2, <3>1, ActivationKept
  <2>4. ASSUME NEW i \in DOMAIN stack'
        PROVE  IsActivation(stack'[i]) /\ ActivationOK(stack[i])'
    <3>1. PICK a : a = stack'[i]
      OBVIOUS
    <3>2. IsActivation(a) /\ ActivationOK(a)'
      BY <2>2, <2>3, <2>4, <3>1
    <3> QED BY <3>1, <3>2
  <2> QED BY <2>2, <2>4 DEF StackOK
<1>12. ObjectsOK' /\ BlocksOK' /\ NotYetRunning'
  BY <1>1, <1>2, ObjectsKept, CompiledKept DEF RunInv, BlocksOK, NotYetRunning
<1> QED
  BY <1>11, <1>12 DEF RunInv

LEMMA CollectStep ==
    ASSUME CompileInv, RunInv, NEW c \in DOMAIN closures, Collect(c)
    PROVE  RunInv'
<1>1. /\ compileVars' = compileVars /\ stack' = stack
      /\ closures' = [closures EXCEPT ![c].alive = FALSE]
  BY DEF Collect
<1>2. BlocksGrow /\ BlocksOK'
  BY UnrefIs DEF Collect, RunInv
<1>3. PICK n \in Nat : n = Len(closures) /\ DOMAIN closures = 1..n
  BY SeqIs DEF RunInv, ObjectsOK
<1>4. ASSUME NEW k \in 1..n
      PROVE  /\ IsClosure(closures'[k])
             /\ closures'[k].fn = closures[k].fn /\ closures'[k].env = closures[k].env
             /\ closures'[k].vars = closures[k].vars
  <2>1. PICK o : o = closures[k] /\ IsClosure(o)
    BY <1>3 DEF RunInv, ObjectsOK
  <2>2. closures'[k] = IF k = c THEN [o EXCEPT !.alive = FALSE] ELSE o
    BY <1>1, <1>3, <2>1
  <2> QED BY <2>1, <2>2 DEF IsClosure
<1>5. closures' = [k \in 1..n |-> closures'[k]] /\ DOMAIN closures' = 1..n
  BY <1>1, <1>3
<1>6. RunGrows
  BY <1>1, <1>2, <1>3, <1>4, <1>5 DEF RunGrows, ObjectsGrow
<1>7. StackOK'
  <2>1. ASSUME NEW i \in DOMAIN stack'
        PROVE  IsActivation(stack'[i]) /\ ActivationOK(stack[i])'
    <3>1. PICK a : a = stack[i]
      OBVIOUS
    <3>2. a = stack'[i] /\ IsActivation(a) /\ ActivationOK(a)
      BY <1>1, <2>1, <3>1 DEF RunInv, StackOK
    <3>3. ActivationOK(a)'
      BY <1>6, <3>2, ActivationKept
    <3> QED BY <3>2, <3>3
  <2> QED BY <1>1, <2>1 DEF RunInv, StackOK
<1>8. ObjectsOK'
  <2>1. IsSeq(closures')
    BY <1>5, FunctionIs
  <2>2. ASSUME NEW k \in DOMAIN closures'
        PROVE  FunctionObjectOK(closures[k])'
    <3>1. PICK o, l : o = closures[k] /\ l = closures'[k]
      OBVIOUS
    <3>2. FunctionObjectOK(o) /\ l.fn = o.fn /\ l.env = o.env /\ l.vars = o.vars
      BY <1>3, <1>4, <1>5, <2>2, <3>1 DEF RunInv, ObjectsOK
    <3>3. FunctionObjectOK(l)'
      BY <1>6, <3>2, FunctionObjectKept
    <3> QED BY <3>1, <3>3
  <2> QED BY <1>4, <1>5, <2>1, <2>2 DEF ObjectsOK
<1>9. NotYetRunning'
  <2>1. compilers # <<>> => closures = <<>>
    BY DEF RunInv, NotYetRunning
  <2>2. compilers = <<>>
    BY <2>1
  <2> QED BY <1>1, <2>2, CompiledKept DEF NotYetRunning
<1> QED
  BY <1>2, <1>7, <1>8, <1>9 DEF RunInv

(* The steps that change no closure: what is left is the stack.             *)
LEMMA StepOf ==
    ASSUME CompileInv, RunInv, compilers = <<>>, compileVars' = compileVars, closures' = closures,
           UNCHANGED storages \/ \E ids : UnrefAll(ids)
    PROVE  RunGrows /\ (StackOK' => RunInv')
<1>1. BlocksGrow /\ BlocksOK'
  <2>1. CASE UNCHANGED storages
    BY <2>1 DEF RunInv, BlocksOK, BlocksGrow
  <2>2. CASE \E ids : UnrefAll(ids)
    BY <2>2, UnrefIs DEF RunInv
  <2> QED BY <2>1, <2>2
<1>2. RunGrows
  BY <1>1 DEF RunGrows, ObjectsGrow
<1>3. ObjectsOK' /\ NotYetRunning'
  BY <1>2, ObjectsKept, CompiledKept DEF RunInv, NotYetRunning
<1> QED
  BY <1>1, <1>2, <1>3 DEF RunInv

LEMMA PopActivation ==
    ASSUME RunInv, RunGrows, stack # <<>>, stack' = Front(stack)
    PROVE  StackOK'
<1>1. /\ IsSeq(stack') /\ DOMAIN stack' = 1..(Len(stack) - 1)
      /\ \A i \in 1..(Len(stack) - 1) : stack'[i] = stack[i]
      /\ Len(stack) \in Nat /\ DOMAIN stack = 1..Len(stack)
  <2>1. IsSeq(stack)
    BY DEF RunInv, StackOK
  <2> QED BY <2>1, FrontIs, SeqIs
<1>2. ASSUME NEW i \in DOMAIN stack'
      PROVE  IsActivation(stack'[i]) /\ ActivationOK(stack[i])'
  <2>1. PICK a : a = stack[i]
    OBVIOUS
  <2>2. a = stack'[i] /\ IsActivation(a) /\ ActivationOK(a)
    BY <1>1, <1>2, <2>1 DEF RunInv, StackOK
  <2>3. ActivationOK(a)'
    BY <2>2, ActivationKept
  <2> QED BY <2>2, <2>3
<1> QED
  BY <1>1, <1>2 DEF StackOK

LEMMA RunStep ==
    ASSUME CompileInv, RunInv, Run
    PROVE  RunInv'
<1>0. LoopOps = {"test", "jump", "break", "continue"}
  BY DEF LoopOps
<1>1. CASE BeginUpvalues
  BY <1>1, BeginBlockStep
<1>2. CASE RelocateUpvalues
  <2>1. /\ compilers = <<>> /\ stack # <<>> /\ Current.op = "relocate"
        /\ compileVars' = compileVars /\ closures' = closures /\ \E ids : UnrefAll(ids)
        /\ Advance
    BY <1>2 DEF RelocateUpvalues, Runs
  <2>2. RunGrows /\ (StackOK' => RunInv')
    BY <2>1, StepOf
  <2> QED BY <2>1, <2>2, AdvanceStep
<1>3. CASE UseVariable
  <2>1. /\ compilers = <<>> /\ stack # <<>> /\ Current.op = "use"
        /\ compileVars' = compileVars /\ closures' = closures /\ UNCHANGED storages /\ Advance
    BY <1>3 DEF UseVariable, Runs
  <2>2. RunGrows /\ (StackOK' => RunInv')
    BY <2>1, StepOf
  <2> QED BY <2>1, <2>2, AdvanceStep
<1>4. CASE CreateClosure
  BY <1>4, CreateClosureStep
<1>5. CASE TestCondition
  <2>1. /\ compilers = <<>> /\ stack # <<>> /\ Current.op = "test"
        /\ compileVars' = compileVars /\ closures' = closures /\ UNCHANGED storages
        /\ Advance \/ Goto(labels[Current.loop].end)
    BY <1>5 DEF TestCondition, Runs
  <2>2. RunGrows /\ (StackOK' => RunInv')
    BY <2>1, StepOf
  <2>3. CASE Advance
    BY <2>1, <2>2, <2>3, AdvanceStep
  <2>4. CASE Goto(labels[Current.loop].end)
    BY <1>0, <2>1, <2>2, <2>4, JumpStep
  <2> QED BY <2>1, <2>3, <2>4
<1>6. CASE JumpToStart
  <2>1. /\ compilers = <<>> /\ stack # <<>> /\ Current.op = "jump"
        /\ compileVars' = compileVars /\ closures' = closures /\ UNCHANGED storages
        /\ Goto(labels[Current.loop].start)
    BY <1>6 DEF JumpToStart, Runs
  <2>2. RunGrows /\ (StackOK' => RunInv')
    BY <2>1, StepOf
  <2> QED BY <1>0, <2>1, <2>2, JumpStep
<1>7. CASE BreakOrContinue
  <2>1. /\ compilers = <<>> /\ stack # <<>>
        /\ Current.op = "break" \/ Current.op = "continue"
        /\ compileVars' = compileVars /\ closures' = closures
        /\ UNCHANGED storages \/ \E ids : UnrefAll(ids)
    BY <1>7 DEF BreakOrContinue, Runs
  <2>2. RunGrows /\ (StackOK' => RunInv')
    BY <2>1, StepOf
  <2>3. CASE Advance
    BY <2>1, <2>2, <2>3, AdvanceStep
  <2>4. CASE Goto(labels[Current.loop].end)
    BY <1>0, <2>1, <2>2, <2>4, JumpStep
  <2>5. CASE Goto(labels[Current.loop].start)
    BY <1>0, <2>1, <2>2, <2>5, JumpStep
  <2>6. Advance \/ Goto(labels[Current.loop].end) \/ Goto(labels[Current.loop].start)
    BY <1>7 DEF BreakOrContinue
  <2> QED BY <2>3, <2>4, <2>5, <2>6
<1>8. CASE ReturnOrEnd
  <2>1. /\ compilers = <<>> /\ stack # <<>>
        /\ compileVars' = compileVars /\ closures' = closures
        /\ UNCHANGED storages \/ \E ids : UnrefAll(ids)
    BY <1>8 DEF ReturnOrEnd, Runs
  <2>2. RunGrows /\ (StackOK' => RunInv')
    BY <2>1, StepOf
  <2>3. CASE Current.op = "return" /\ Advance
    BY <2>1, <2>2, <2>3, AdvanceStep
  <2>4. CASE stack' = Front(stack)
    BY <2>1, <2>2, <2>4, PopActivation
  <2> QED BY <1>8, <2>3, <2>4 DEF ReturnOrEnd
<1>9. CASE \E c \in DOMAIN closures : Call(c) \/ Collect(c)
  BY <1>9, CallStep, CollectStep
<1> QED
  BY <1>1, <1>2, <1>3, <1>4, <1>5, <1>6, <1>7, <1>8, <1>9 DEF Run

LEMMA EmptyIs == IsSeq(<<>>) /\ DOMAIN <<>> = {}
<1>1. PICK q : q = <<>>
  OBVIOUS
<1>2. IsSeq(q) /\ Len(q) = 0
  BY <1>1, TuplesAre
<1>3. DOMAIN q = {}
  BY <1>1
<1> QED
  BY <1>1, <1>2, <1>3

(* The parser runs nothing; then the outermost function is called.          *)
LEMMA FirstActivation ==
    ASSUME CompileInv', RunInv, compilers # <<>>, Compile
    PROVE  RunInv'
<1>1. stack = <<>> /\ closures = <<>> /\ storages' = storages /\ closures' = closures
  <2>1. stack = <<>> /\ closures = <<>>
    BY DEF RunInv, NotYetRunning
  <2>2. storages' = storages /\ closures' = closures
    BY DEF Compile, DeclareVariable, OpenBlock, CloseBlock, WhileStatement, EndWhile,
           ForStatement, EndFor, LeaveLoop, ReturnStatement, OpenFunction, CloseFunction,
           UseLocal, UseUpvalue, EndOfSource, Parses, runVars
  <2> QED BY <2>1, <2>2
<1>2. BlocksOK'
  BY <1>1 DEF RunInv, BlocksOK
<1>3. ObjectsOK'
  <2>1. IsSeq(closures') /\ DOMAIN closures' = {}
    BY <1>1, EmptyIs
  <2> QED BY <2>1 DEF ObjectsOK
<1>4. CASE stack' = stack
  <2>1. IsSeq(stack') /\ DOMAIN stack' = {}
    BY <1>1, <1>4, EmptyIs
  <2> QED BY <1>1, <1>2, <1>3, <1>4, <2>1 DEF RunInv, StackOK, NotYetRunning
<1>5. CASE EndOfSource
  <2>1. PICK b, none : b = [fn |-> 1, pc |-> 1, closure |-> 0, packs |-> none, env |-> none]
                       /\ none = <<>>
    OBVIOUS
  <2>2. stack' = <<b>> /\ compilers' = <<>>
    BY <1>5, <2>1 DEF EndOfSource
  <2>3. IsSeq(stack') /\ DOMAIN stack' = {1} /\ stack'[1] = b
    <3>1. IsSeq(stack') /\ Len(stack') = 1 /\ stack'[1] = b
      BY <2>2, TuplesAre
    <3> QED BY <3>1, SeqIs
  <2>4. IsActivation(b) /\ b.fn = 1 /\ b.pc = 1 /\ b.closure = 0 /\ b.packs = none /\ DOMAIN none = {}
    BY <2>1 DEF IsActivation
  <2>5. 1 \in DOMAIN code' /\ 1 \in DOMAIN code'[1] /\ code'[1][1].scope = {}
    BY SeqIs DEF CompileInv, OpenFunctions, Shapes, FlowOK
  <2>6. ActivationOK(b)'
    BY <2>4, <2>5 DEF ActivationOK, CreatedBy, PacksOK, HasScope
  <2>7. ActivationOK(stack[1])'
    BY <2>3, <2>6
  <2>8. StackOK'
    BY <2>3, <2>4, <2>7 DEF StackOK
  <2> QED BY <1>2, <1>3, <2>2, <2>8 DEF RunInv, NotYetRunning
<1> QED
  BY <1>4, <1>5
     DEF Compile, DeclareVariable, OpenBlock, CloseBlock, WhileStatement, EndWhile,
         ForStatement, EndFor, LeaveLoop, ReturnStatement, OpenFunction, CloseFunction,
         UseLocal, UseUpvalue, Parses, runVars

LEMMA SameRun ==
    ASSUME RunInv, closureVars' = closureVars
    PROVE  RunInv'
<1>1. /\ compileVars' = compileVars /\ stack' = stack /\ storages' = storages
      /\ closures' = closures
  BY DEF closureVars, runVars
<1>2. RunGrows
  BY <1>1 DEF RunGrows, BlocksGrow, ObjectsGrow
<1>3. ASSUME NEW i \in DOMAIN stack'
      PROVE  IsActivation(stack'[i]) /\ ActivationOK(stack[i])'
  <2>1. PICK a : a = stack[i]
    OBVIOUS
  <2>2. a = stack'[i] /\ IsActivation(a) /\ ActivationOK(a)
    BY <1>1, <1>3, <2>1 DEF RunInv, StackOK
  <2>3. ActivationOK(a)'
    BY <1>2, <2>2, ActivationKept
  <2> QED BY <2>2, <2>3
<1>4. StackOK'
  BY <1>1, <1>3 DEF RunInv, StackOK
<1> QED
  BY <1>1, <1>2, <1>4, ObjectsKept, CompiledKept DEF RunInv, BlocksOK, NotYetRunning

LEMMA RunInit ==
    ASSUME ClosuresInit
    PROVE  RunInv
<1>1. stack = <<>> /\ storages = <<>> /\ closures = <<>>
  BY DEF ClosuresInit
<1> QED
  BY <1>1, EmptyIs DEF RunInv, StackOK, BlocksOK, ObjectsOK, NotYetRunning

LEMMA CompilesOpen ==
    ASSUME StillParsing, Compile
    PROVE  compilers # <<>>
<1>1. CASE EndOfSource
  <2>1. PICK n : n = Len(compilers) /\ n = 1
    BY <1>1, Zenon DEF EndOfSource
  <2>2. Len(<<>>) # n
    BY <2>1, TuplesAre
  <2> QED BY <2>1, <2>2, Zenon
<1>2. CASE tokens # <<>>
  BY <1>2 DEF StillParsing
<1> QED
  BY <1>1, <1>2 DEF Compile, DeclareVariable, OpenBlock, CloseBlock,
     WhileStatement, EndWhile, ForStatement, EndFor, LeaveLoop, ReturnStatement,
     OpenFunction, CloseFunction, UseLocal, UseUpvalue, Parses

LEMMA ClosuresStep ==
    ASSUME CompileInv, StillParsing, RunInv, [ClosuresNext]_closureVars
    PROVE  CompileInv' /\ StillParsing' /\ RunInv'
<1>1. CASE Compile
  <2>1. CompileInv' /\ StillParsing'
    BY <1>1, CompileStep
  <2>2. compilers # <<>>
    BY <1>1, CompilesOpen
  <2> QED BY <1>1, <2>1, <2>2, FirstActivation
<1>2. CASE Run
  BY <1>2, RunCompiles, SameCompiled, RunStep
<1>3. CASE UNCHANGED closureVars
  <2>1. compileVars' = compileVars
    BY <1>3 DEF closureVars
  <2> QED BY <1>3, <2>1, SameCompiled, SameRun
<1> QED
  BY <1>1, <1>2, <1>3 DEF ClosuresNext

THEOREM Closes == ClosuresSpec => [](CompileInv /\ StillParsing /\ RunInv)
<1>1. ClosuresInit => CompileInv /\ StillParsing /\ RunInv
  BY CompileInit, RunInit DEF StillParsing
<1>2. CompileInv /\ StillParsing /\ RunInv /\ [ClosuresNext]_closureVars
        => (CompileInv /\ StillParsing /\ RunInv)'
  BY ClosuresStep
<1> QED
  BY <1>1, <1>2, PTL DEF ClosuresSpec

LEMMA OwnEnvironment ==
    ASSUME CompileInv, RunInv
    PROVE  PointsIntoOwnEnvironment
<1> SUFFICES ASSUME compilers = <<>>, stack # <<>>, Current.op = "use",
                    Current.means \in captured,
                    NEW a, a = Running, NEW d, d = Current.decl, NEW p, p = Pointer(a, d)
             PROVE  /\ p[2] = Current.means
                    /\ storages[p[1]].entry = a.env[variables[Current.means].container]
  BY DEF PointsIntoOwnEnvironment
<1>1. ActivationOK(a)
  BY RunningIs
<1>2. PICK s : s = Current
  OBVIOUS
<1>3. a.fn \in DOMAIN code /\ a.pc \in DOMAIN code[a.fn] /\ s = code[a.fn][a.pc]
  BY <1>1, <1>2 DEF ActivationOK, HasScope, Current
<1>4. UseOK(a.fn, s)
  BY <1>3 DEF CompileInv, CodeOK, StatementOK
<1>5. /\ d.target = s.means /\ d.depth \in Nat
      /\ d.depth = 0 => variables[d.target].container \in s.scope
      /\ d.depth > 0 => d \in upvalues[a.fn]
  BY <1>2, <1>4 DEF UseOK
<1>6. PointsTo(p, d.target, a.env)
  BY <1>2, <1>3, <1>5, PointerIs
<1> QED
  BY <1>2, <1>5, <1>6 DEF PointsTo, StorageFor

(* A running function finds the variables of the very entry of the block    *)
(* its closure was created in, for every source, in whatever order closures *)
(* are created, called and collected (PointsIntoOwnEnvironment).            *)
THEOREM FindsOwnEnvironment == ClosuresSpec => []PointsIntoOwnEnvironment
BY Closes, OwnEnvironment, PTL

(* Names are resolved lexically, for every source, whatever it nests,       *)
(* shadows and captures (ResolvesLexically).                                *)
THEOREM LexicallyResolved == ClosuresSpec => []ResolvesLexically
BY Closes, ResolvesLexicallyHolds, PTL

(***************************************************************************)
(* The reference counts.                                                   *)
(***************************************************************************)
(* Who uses a block: the activations that have it in scope, and the         *)
(* closures over it that are alive.                                         *)
InUse(a, s) == \E c \in code[a.fn][a.pc].scope : HasStorage(c) /\ a.packs[c] = s
Holds(k, s) == k.alive /\ \E c \in DOMAIN k.blocks : k.blocks[c] = s
Using(s) == {i \in DOMAIN stack : InUse(stack[i], s)}
Holders(s) == {k \in DOMAIN closures : Holds(closures[k], s)}

(* A block with users is intact, and there is a reference for each of them; *)
(* if no exit is compiled too early, there is no other reference.           *)
Counted(n, clobbered, users, holders) ==
    /\ n \in Nat /\ IsFiniteSet(users) /\ IsFiniteSet(holders)
    /\ Cardinality(users) + Cardinality(holders) <= n
    /\ clobbered => users = {} /\ holders = {}
    /\ ~HasEarlyExit => n = Cardinality(users) + Cardinality(holders)

CountOK(s) == Counted(storages[s].count, storages[s].clobbered, Using(s), Holders(s))

(* An activation has a block for each container, and its closure is alive.  *)
PacksApart(a) ==
    /\ \A c, d \in DOMAIN a.packs : a.packs[c] = a.packs[d] => c = d
    /\ a.closure # 0 => closures[a.closure].alive

BlocksIn(k) ==
    /\ DOMAIN k.blocks = StorageContainers(k.fn)
    /\ \A c \in DOMAIN k.blocks : k.blocks[c] \in DOMAIN storages

CountInv ==
    /\ compilers # <<>> => storages = <<>>
    /\ \A s \in DOMAIN storages : CountOK(s)
    /\ \A i \in DOMAIN stack : PacksApart(stack[i])
    /\ \A k \in DOMAIN closures : BlocksIn(closures[k])

(* Users that go without releasing the block...                             *)
LEMMA FewerUsers ==
    ASSUME NEW n, NEW b, NEW A, NEW H, Counted(n, b, A, H),
           NEW B, B \subseteq A, ~HasEarlyExit => B = A
    PROVE  Counted(n, b, B, H)
<1>1. IsFiniteSet(B) /\ Cardinality(B) <= Cardinality(A)
  BY FS_Subset DEF Counted
<1>2. Cardinality(A) \in Nat /\ Cardinality(B) \in Nat /\ Cardinality(H) \in Nat
  BY <1>1, FS_CardinalityType DEF Counted
<1>3. b => B = {} /\ H = {}
  BY DEF Counted
<1>4. n \in Nat /\ Cardinality(B) + Cardinality(H) <= n
  BY <1>1, <1>2 DEF Counted
<1>5. ~HasEarlyExit => n = Cardinality(B) + Cardinality(H)
  BY DEF Counted
<1> QED
  BY <1>1, <1>3, <1>4, <1>5 DEF Counted

(* ... one that releases it ...                                             *)
LEMMA OneLess ==
    ASSUME NEW n, NEW b, NEW A, NEW H, Counted(n, b, A, H),
           NEW x, x \in A, NEW B, B = A \ {x}, NEW d, d => b \/ n = 1
    PROVE  Counted(n - 1, d, B, H)
<1>1. IsFiniteSet(B) /\ Cardinality(B) = Cardinality(A) - 1
  BY FS_RemoveElement DEF Counted
<1>2. Cardinality(A) \in Nat /\ Cardinality(B) \in Nat /\ Cardinality(H) \in Nat
  BY <1>1, FS_CardinalityType DEF Counted
<1>3. n - 1 \in Nat /\ Cardinality(B) + Cardinality(H) <= n - 1
  BY <1>1, <1>2 DEF Counted
<1>4. d => B = {} /\ H = {}
  <2>1. ~b
    BY DEF Counted
  <2>2. ASSUME n = 1 PROVE Cardinality(B) = 0 /\ Cardinality(H) = 0
    BY <1>2, <1>3, <2>2
  <2>3. IsFiniteSet(H)
    BY DEF Counted
  <2>4. ASSUME n = 1 PROVE B = {} /\ H = {}
    BY <1>1, <2>2, <2>3, <2>4, FS_EmptySet
  <2> QED BY <2>1, <2>4
<1>5. ~HasEarlyExit => n - 1 = Cardinality(B) + Cardinality(H)
  BY <1>1, <1>2 DEF Counted
<1> QED
  BY <1>1, <1>3, <1>4, <1>5 DEF Counted

(* ... and one more.                                                        *)
LEMMA OneMore ==
    ASSUME NEW n, NEW b, NEW A, NEW H, Counted(n, b, A, H), A # {} \/ H # {},
           NEW x, x \notin H, NEW G, G = H \cup {x}
    PROVE  Counted(n + 1, b, A, G)
<1>1. IsFiniteSet(G) /\ Cardinality(G) = Cardinality(H) + 1
  BY FS_AddElement DEF Counted
<1>2. Cardinality(A) \in Nat /\ Cardinality(G) \in Nat /\ Cardinality(H) \in Nat
  BY <1>1, FS_CardinalityType DEF Counted
<1>3. n + 1 \in Nat /\ Cardinality(A) + Cardinality(G) <= n + 1
  BY <1>1, <1>2 DEF Counted
<1>4. ~b
  BY DEF Counted
<1>5. ~HasEarlyExit => n + 1 = Cardinality(A) + Cardinality(G)
  BY <1>1, <1>2 DEF Counted
<1> QED
  BY <1>1, <1>3, <1>4, <1>5 DEF Counted

(* Activations and closures count alike.                                   *)
LEMMA CountedBoth ==
    ASSUME NEW n, NEW b, NEW A, NEW H, Counted(n, b, A, H)
    PROVE  Counted(n, b, H, A)
<1>1. Cardinality(A) \in Nat /\ Cardinality(H) \in Nat
  BY FS_CardinalityType DEF Counted
<1>2. Cardinality(A) + Cardinality(H) = Cardinality(H) + Cardinality(A)
  BY <1>1
<1> QED
  BY <1>2 DEF Counted

LEMMA CountedFirst ==
    ASSUME NEW x, NEW A, A = {x}
    PROVE  Counted(1, FALSE, A, {})
<1>1. IsFiniteSet(A) /\ Cardinality(A) = 1
  BY FS_Singleton
<1>2. IsFiniteSet({}) /\ Cardinality({}) = 0
  BY FS_EmptySet
<1> QED
  BY <1>1, <1>2 DEF Counted
(* Unref, on the blocks it names and the others.                            *)
LEMMA UnrefCounts ==
    ASSUME BlocksOK, NEW ids, UnrefAll(ids)
    PROVE  /\ DOMAIN storages' = DOMAIN storages
           /\ \A s \in DOMAIN storages : s \notin ids => storages'[s] = storages[s]
           /\ \A s \in DOMAIN storages : s \in ids =>
                 /\ storages'[s].count = storages[s].count - 1
                 /\ storages'[s].clobbered => storages[s].clobbered \/ storages[s].count = 1
<1>1. DOMAIN storages' = DOMAIN storages
  BY DEF UnrefAll
<1>2. ASSUME NEW s \in DOMAIN storages, s \notin ids
      PROVE  storages'[s] = storages[s]
  BY <1>2 DEF UnrefAll
<1>3. ASSUME NEW s \in DOMAIN storages, s \in ids
      PROVE  /\ storages'[s].count = storages[s].count - 1
             /\ storages'[s].clobbered => storages[s].clobbered \/ storages[s].count = 1
  <2>1. PICK r : r = storages[s] /\ DOMAIN r = {"count", "clobbered", "entry"}
    BY <1>3 DEF BlocksOK, IsStorage
  <2>2. PICK n, b, m : n = r.count /\ b = (r.clobbered \/ r.count = 1) /\ m = n - 1
    OBVIOUS
  <2>3. storages'[s] = [r EXCEPT !.count = @ - 1, !.clobbered = @ \/ r.count = 1]
    BY <1>3, <2>1, Zenon DEF UnrefAll
  <2>4. storages'[s].count = m
    BY <2>1, <2>2, <2>3
  <2>5. storages'[s].clobbered => r.clobbered \/ r.count = 1
    BY <2>1, <2>3, Zenon
  <2> QED BY <2>1, <2>2, <2>4, <2>5
<1> QED
  BY <1>1, <1>2, <1>3

LEMMA UnrefNone ==
    ASSUME BlocksOK, storages' = storages, NEW a
    PROVE  UnrefAll(StoragesOf(a, {}))
<1>1. StoragesOf(a, {}) = {}
  BY DEF StoragesOf
<1>2. PICK n \in Nat : storages = [s \in 1..n |-> storages[s]]
  <2>1. IsSeq(storages)
    BY DEF BlocksOK
  <2> QED BY <2>1 DEF IsSeq
<1>3. storages = [s \in DOMAIN storages |-> storages[s]]
  BY <1>2
<1>4. \A s \in DOMAIN storages : s \notin StoragesOf(a, {})
  BY <1>1
<1> QED
  BY <1>3, <1>4 DEF UnrefAll

(* What a step of a running program says of the blocks in use is said with  *)
(* the code as it is.                                                       *)
LEMMA UsesKept ==
    ASSUME compileVars' = compileVars
    PROVE  /\ \A a, s : InUse(a, s)' <=> InUse(a, s)
           /\ \A n, b, A, H : Counted(n, b, A, H)' <=> Counted(n, b, A, H)
           /\ \A fn : StorageContainers(fn)' = StorageContainers(fn)
<1>1. /\ code' = code /\ captured' = captured /\ variables' = variables /\ upvalues' = upvalues
      /\ \A c : HasStorage(c)' <=> HasStorage(c)
  BY CompiledKept
<1>2. \A a, s : InUse(a, s)' <=> InUse(a, s)
  BY <1>1 DEF InUse
<1>3. HasEarlyExit' <=> HasEarlyExit
  BY <1>1 DEF HasEarlyExit
<1>4. \A n, b, A, H : Counted(n, b, A, H)' <=> Counted(n, b, A, H)
  BY <1>3 DEF Counted
<1>5. \A fn : StorageContainers(fn)' = StorageContainers(fn)
  BY <1>1 DEF StorageContainers, GetFinalTarget
<1> QED
  BY <1>2, <1>4, <1>5

(* A block in use is one that was allocated.                                *)
LEMMA InUseIs ==
    ASSUME NEW a, ActivationOK(a), NEW s, InUse(a, s)
    PROVE  s \in DOMAIN storages
<1>1. PICK c \in code[a.fn][a.pc].scope : HasStorage(c) /\ a.packs[c] = s
  BY DEF InUse
<1> QED
  BY <1>1 DEF ActivationOK, HasScope, PacksOK, StorageFor

(* What is shown of a step for one block.                                   *)
LEMMA CountStep ==
    ASSUME compileVars' = compileVars, NEW s, NEW n, NEW b, NEW A, NEW H,
           storages'[s].count = n, storages'[s].clobbered => b,
           A = Using(s)', H = Holders(s)', Counted(n, b, A, H)
    PROVE  CountOK(s)'
<1>1. PICK d : d = storages'[s].clobbered
  OBVIOUS
<1>2. Counted(n, d, A, H)
  BY <1>1 DEF Counted
<1>3. Counted(n, d, A, H)'
  BY <1>2, UsesKept
<1> QED
  BY <1>1, <1>3 DEF CountOK

(* The running activation goes on where next is in scope, or is left.       *)
GoesOn(n, a, next) ==
    /\ DOMAIN stack' \subseteq DOMAIN stack
    /\ \A i \in DOMAIN stack : i # n => i \in DOMAIN stack' /\ stack'[i] = stack[i]
    /\ n \in DOMAIN stack' => \E pc :
          /\ stack'[n].fn = a.fn /\ stack'[n].packs = a.packs /\ stack'[n].closure = a.closure
          /\ stack'[n].pc = pc /\ code[a.fn][pc].scope = next
    /\ n \notin DOMAIN stack' => next = {}

(* D is released: nothing of what stays in scope, and all of the rest.      *)
Releases(scope, D, next) ==
    /\ D \subseteq scope /\ next \subseteq scope /\ D \cap next = {}
    /\ \A c \in D : HasStorage(c)
    /\ ~HasEarlyExit => \A c \in scope : HasStorage(c) => c \in D \/ c \in next

LEMMA PacksAfter ==
    ASSUME CountInv, NEW n \in DOMAIN stack, NEW a, a = stack[n],
           \A k \in DOMAIN closures : closures[k].alive => closures'[k].alive,
           StackOK,
           NEW next, GoesOn(n, a, next), NEW i \in DOMAIN stack'
    PROVE  PacksApart(stack[i])'
<1>1. i \in DOMAIN stack
  BY DEF GoesOn
<1>2. stack'[i].packs = stack[i].packs /\ stack'[i].closure = stack[i].closure
  BY <1>1 DEF GoesOn
<1>3. PacksApart(stack[i]) /\ CreatedBy(stack[i])
  BY <1>1 DEF CountInv, StackOK, ActivationOK
<1> QED
  BY <1>2, <1>3 DEF PacksApart, CreatedBy

LEMMA UsingAfter ==
    ASSUME RunInv, stack # <<>>, compileVars' = compileVars,
           NEW n, n = Len(stack), NEW a, a = Running,
           NEW scope, scope = code[a.fn][a.pc].scope, NEW next, next \subseteq scope,
           GoesOn(n, a, next), NEW s, NEW A, A = Using(s), NEW B, B = Using(s)'
    PROVE  /\ B \subseteq A /\ A \subseteq B \cup {n}
           /\ n \in A <=> \E c \in scope : HasStorage(c) /\ a.packs[c] = s
           /\ n \in B <=> \E c \in next : HasStorage(c) /\ a.packs[c] = s
<1>1. n \in DOMAIN stack /\ a = stack[n]
  BY RunningIs DEF Running
<1>2. \A x : InUse(x, s)' <=> InUse(x, s)
  BY UsesKept
<1>3. n \in A <=> InUse(a, s)
  BY <1>1 DEF Using
<1>4. \A i : i \in B <=> i \in DOMAIN stack' /\ InUse(stack'[i], s)
  <2>1. \A i : InUse(stack[i], s)' <=> InUse(stack'[i], s)
    <3>1. TAKE i
    <3>2. PICK x : x = stack'[i]
      OBVIOUS
    <3>3. InUse(x, s)' <=> InUse(x, s)
      BY <1>2
    <3> QED BY <3>2, <3>3
  <2> QED BY <2>1 DEF Using
<1>5. \A i : i # n => (i \in B <=> i \in A)
  BY <1>1, <1>4 DEF Using, GoesOn
<1>6. n \in B <=> \E c \in next : HasStorage(c) /\ a.packs[c] = s
  <2>1. CASE n \in DOMAIN stack'
    BY <1>4, <2>1 DEF InUse, GoesOn
  <2>2. CASE n \notin DOMAIN stack'
    BY <1>4, <2>2 DEF GoesOn
  <2> QED BY <2>1, <2>2
<1>7. n \in A <=> \E c \in scope : HasStorage(c) /\ a.packs[c] = s
  BY <1>3 DEF InUse
<1>8. n \in B => n \in A
  BY <1>6, <1>7
<1> QED
  BY <1>5, <1>6, <1>7, <1>8

LEMMA LeaveBlocks ==
    ASSUME RunInv, CountInv, compilers = <<>>, stack # <<>>, compileVars' = compileVars,
           closures' = closures, NEW n, n = Len(stack), NEW a, a = Running,
           NEW scope, scope = code[a.fn][a.pc].scope, NEW D, NEW next, Releases(scope, D, next),
           UnrefAll(StoragesOf(a, D)), GoesOn(n, a, next)
    PROVE  CountInv'
<1>1. /\ n \in DOMAIN stack /\ a = stack[n] /\ ActivationOK(a) /\ BlocksOK
      /\ PacksApart(a)
  BY RunningIs DEF Running, RunInv, CountInv
<1>2. PICK ids : ids = StoragesOf(a, D)
  OBVIOUS
<1>3. /\ DOMAIN storages' = DOMAIN storages
      /\ \A s \in DOMAIN storages : s \notin ids => storages'[s] = storages[s]
      /\ \A s \in DOMAIN storages : s \in ids =>
            /\ storages'[s].count = storages[s].count - 1
            /\ storages'[s].clobbered => storages[s].clobbered \/ storages[s].count = 1
  BY <1>1, <1>2, UnrefCounts
<1>4. \A fn : StorageContainers(fn)' = StorageContainers(fn)
  BY UsesKept
<1>5. \A c \in scope : HasStorage(c) => c \in DOMAIN a.packs
  BY <1>1 DEF ActivationOK, HasScope
<1>6. ASSUME NEW s, NEW A, A = Using(s), NEW B, B = Using(s)'
      PROVE  /\ B \subseteq A /\ A \subseteq B \cup {n}
             /\ n \in A <=> \E c \in scope : HasStorage(c) /\ a.packs[c] = s
             /\ n \in B <=> \E c \in next : HasStorage(c) /\ a.packs[c] = s
  <2>1. next \subseteq scope
    BY DEF Releases
  <2> QED BY <1>6, <2>1, UsingAfter
<1>7. ASSUME NEW s \in DOMAIN storages PROVE CountOK(s)'
  <2>1. PICK A, B, H, r, q : /\ A = Using(s) /\ B = Using(s)' /\ H = Holders(s)
                             /\ r = storages[s] /\ q = storages'[s]
    OBVIOUS
  <2>2. H = Holders(s)'
    BY <2>1 DEF Holders, Holds
  <2>3. Counted(r.count, r.clobbered, A, H)
    BY <2>1 DEF CountInv, CountOK
  <2>4. /\ B \subseteq A /\ A \subseteq B \cup {n}
        /\ n \in A <=> \E c \in scope : HasStorage(c) /\ a.packs[c] = s
        /\ n \in B <=> \E c \in next : HasStorage(c) /\ a.packs[c] = s
    BY <1>6, <2>1
  <2>5. CASE s \in ids
    <3>1. PICK c \in D : a.packs[c] = s
      BY <1>2, <2>5 DEF StoragesOf
    <3>2. c \in scope /\ HasStorage(c) /\ c \notin next /\ c \in DOMAIN a.packs
      BY <1>5 DEF Releases
    <3>3. n \in A
      BY <2>4, <3>1, <3>2
    <3>4. \A d \in next : HasStorage(d) => a.packs[d] # s
      BY <1>1, <1>5, <3>1, <3>2 DEF PacksApart, Releases
    <3>5. B = A \ {n}
      BY <2>4, <3>4
    <3>6. PICK d : d = (r.clobbered \/ r.count = 1)
      OBVIOUS
    <3>7. Counted(r.count - 1, d, B, H)
      BY <2>3, <3>3, <3>5, <3>6, OneLess
    <3>8. q.count = r.count - 1 /\ (q.clobbered => d)
      BY <1>3, <2>1, <2>5, <3>6
    <3> QED BY <2>1, <2>2, <3>7, <3>8, CountStep
  <2>6. CASE s \notin ids
    <3>1. ~HasEarlyExit => B = A
      <4>1. ASSUME ~HasEarlyExit, n \in A PROVE n \in B
        <5>1. PICK c \in scope : HasStorage(c) /\ a.packs[c] = s
          BY <2>4, <4>1
        <5>2. c \notin D
          BY <1>2, <2>6, <5>1 DEF StoragesOf
        <5>3. c \in next
          BY <4>1, <5>1, <5>2 DEF Releases
        <5> QED BY <2>4, <5>1, <5>3
      <4> QED BY <2>4, <4>1
    <3>2. Counted(r.count, r.clobbered, B, H)
      BY <2>3, <2>4, <3>1, FewerUsers
    <3>3. q = r
      BY <1>3, <2>1, <2>6
    <3>4. q.count = r.count /\ (q.clobbered => r.clobbered)
      BY <3>3
    <3> QED BY <2>1, <2>2, <3>2, <3>4, CountStep
  <2> QED BY <2>5, <2>6
<1>8. ASSUME NEW i \in DOMAIN stack' PROVE PacksApart(stack[i])'
  <2>1. \A k \in DOMAIN closures : closures[k].alive => closures'[k].alive
    OBVIOUS
  <2>2. StackOK
    BY DEF RunInv
  <2> QED BY <1>1, <1>8, <2>1, <2>2, PacksAfter
<1>9. ASSUME NEW k \in DOMAIN closures' PROVE BlocksIn(closures[k])'
  <2>1. PICK o : o = closures[k]
    OBVIOUS
  <2>2. o = closures'[k] /\ BlocksIn(o)
    BY <1>9, <2>1 DEF CountInv
  <2>3. BlocksIn(o)'
    BY <1>3, <1>4, <2>2 DEF BlocksIn
  <2> QED BY <2>2, <2>3
<1> QED
  BY <1>3, <1>7, <1>8, <1>9, CompiledKept DEF CountInv

(* Goto and Advance, as a step to where next is in scope.                   *)
LEMMA GotoGoesOn ==
    ASSUME RunInv, stack # <<>>, NEW n, n = Len(stack), NEW a, a = Running,
           NEW pc, Goto(pc), NEW next, next = code[a.fn][pc].scope
    PROVE  GoesOn(n, a, next)
<1>1. n \in DOMAIN stack /\ IsActivation(a) /\ a = stack[n]
  BY RunningIs DEF Running
<1>2. PICK b : b = [a EXCEPT !.pc = pc]
  OBVIOUS
<1>3. stack' = [stack EXCEPT ![n] = b]
  BY <1>1, <1>2 DEF Goto
<1>4. b.fn = a.fn /\ b.pc = pc /\ b.closure = a.closure /\ b.packs = a.packs
  BY <1>1, <1>2 DEF IsActivation
<1>5. /\ DOMAIN stack' = DOMAIN stack /\ stack'[n] = b
      /\ \A i \in DOMAIN stack : i # n => stack'[i] = stack[i]
  BY <1>1, <1>3
<1> QED
  BY <1>1, <1>4, <1>5 DEF GoesOn

LEMMA PopGoesOn ==
    ASSUME RunInv, stack # <<>>, NEW n, n = Len(stack), NEW a, stack' = Front(stack)
    PROVE  GoesOn(n, a, {})
<1>1. /\ DOMAIN stack' = 1..(n - 1) /\ \A i \in 1..(n - 1) : stack'[i] = stack[i]
      /\ n \in Nat /\ DOMAIN stack = 1..n
  <2>1. IsSeq(stack)
    BY DEF RunInv, StackOK
  <2> QED BY <2>1, FrontIs, SeqIs
<1>2. /\ 1..(n - 1) \subseteq 1..n /\ n \notin 1..(n - 1)
      /\ \A i \in 1..n : i # n => i \in 1..(n - 1)
  BY <1>1
<1> QED
  BY <1>1, <1>2 DEF GoesOn

(* Where a loop ends as much is in scope as where it starts.                *)
LEMMA LoopScopes ==
    ASSUME CompileInv, ReleaseInv, compilers = <<>>, NEW l \in DOMAIN labels,
           NEW fn, fn = labels[l].fn
    PROVE  /\ code[fn][labels[l].start].scope = StartScope(l)
           /\ code[fn][labels[l].end].scope = StartScope(l)
<1>1. DOMAIN compilers = {}
  OBVIOUS
<1>2. LabelOK(l) /\ EndsWhole(l)
  BY DEF CompileInv, LabelsOK, ReleaseInv
<1>3. ~OpenLoop(l)
  BY <1>1 DEF OpenLoop
<1>4. code[fn][labels[l].end].scope \subseteq StartScope(l)
  BY <1>1, <1>2, <1>3 DEF LabelOK, EndOK
<1>5. StartScope(l) \subseteq code[fn][labels[l].end].scope
  BY <1>1, <1>2, <1>3 DEF EndsWhole
<1> QED
  BY <1>4, <1>5 DEF StartScope

(* The statement of the running activation.                                 *)
LEMMA CurrentIs ==
    ASSUME CompileInv, ReleaseInv, RunInv, stack # <<>>, NEW a, a = Running, NEW s, s = Current
    PROVE  /\ a.fn \in DOMAIN code /\ a.pc \in DOMAIN code[a.fn] /\ s = code[a.fn][a.pc]
           /\ StatementOK(a.fn, s) /\ ReleaseOK(a.fn, s)
<1>1. ActivationOK(a)
  BY RunningIs
<1>2. a.fn \in DOMAIN code /\ a.pc \in DOMAIN code[a.fn] /\ s = code[a.fn][a.pc]
  BY <1>1 DEF ActivationOK, HasScope, Current
<1> QED
  BY <1>2 DEF CompileInv, CodeOK, ReleaseInv

(* Behind a statement that is no cleanup as much is in scope as before.     *)
LEMMA AdvanceCounts ==
    ASSUME CompileInv, ReleaseInv, RunInv, CountInv, compilers = <<>>, stack # <<>>,
           compileVars' = compileVars, closures' = closures, storages' = storages,
           Current.op \notin {"begin", "relocate", "end"}, Advance
    PROVE  CountInv'
<1>1. PICK n, a, s, pc : n = Len(stack) /\ a = Running /\ s = Current /\ pc = a.pc + 1
  OBVIOUS
<1>2. /\ a.fn \in DOMAIN code /\ a.pc \in DOMAIN code[a.fn] /\ s = code[a.fn][a.pc]
  BY <1>1, CurrentIs
<1>3. PICK next : next = code[a.fn][pc].scope
  OBVIOUS
<1>4. pc \in DOMAIN code[a.fn] /\ next \subseteq After(s)
  BY <1>1, <1>2, <1>3, NextStatement
<1>5. After(s) \subseteq next
  BY <1>1, <1>2, <1>3, <1>4 DEF ReleaseInv, Leaves
<1>6. next = s.scope
  BY <1>1, <1>4, <1>5 DEF After
<1>7. Goto(pc)
  BY <1>1 DEF Advance
<1>8. GoesOn(n, a, next)
  BY <1>1, <1>3, <1>7, GotoGoesOn
<1>9. PICK scope, D : scope = s.scope /\ D = {}
  OBVIOUS
<1>10. Releases(scope, D, next)
  BY <1>6, <1>9 DEF Releases
<1>11. UnrefAll(StoragesOf(a, D))
  BY <1>9, UnrefNone DEF RunInv
<1>12. scope = code[a.fn][a.pc].scope
  BY <1>2, <1>9
<1> QED
  BY <1>1, <1>8, <1>10, <1>11, <1>12, LeaveBlocks

LEMMA RelocateCounts ==
    ASSUME CompileInv, ReleaseInv, RunInv, CountInv, RelocateUpvalues
    PROVE  CountInv'
<1>0. /\ compilers = <<>> /\ stack # <<>> /\ Current.op = "relocate" /\ Advance
      /\ compileVars' = compileVars /\ closures' = closures
      /\ UnrefAll(StoragesOf(Running, Current.drop))
  BY DEF RelocateUpvalues, Runs
<1>1. PICK n, a, s, pc : n = Len(stack) /\ a = Running /\ s = Current /\ pc = a.pc + 1
  OBVIOUS
<1>2. /\ a.fn \in DOMAIN code /\ a.pc \in DOMAIN code[a.fn] /\ s = code[a.fn][a.pc]
      /\ ReleaseOK(a.fn, s)
  BY <1>0, <1>1, CurrentIs
<1>3. PICK next : next = code[a.fn][pc].scope
  OBVIOUS
<1>4. pc \in DOMAIN code[a.fn] /\ next \subseteq After(s)
  BY <1>0, <1>1, <1>2, <1>3, NextStatement
<1>5. Leaves(s, next)
  BY <1>1, <1>2, <1>3, <1>4 DEF ReleaseInv
<1>6. next \subseteq s.scope
  BY <1>0, <1>1, <1>4 DEF After
<1>7. Goto(pc)
  BY <1>0, <1>1 DEF Advance
<1>8. GoesOn(n, a, next)
  BY <1>0, <1>1, <1>3, <1>7, GotoGoesOn
<1>9. PICK scope, D : scope = s.scope /\ D = s.drop
  OBVIOUS
<1>10. Releases(scope, D, next)
  BY <1>0, <1>1, <1>2, <1>5, <1>6, <1>9 DEF Releases, Leaves, ReleaseOK, DropIs
<1>11. UnrefAll(StoragesOf(a, D))
  BY <1>0, <1>1, <1>9
<1>12. scope = code[a.fn][a.pc].scope
  BY <1>2, <1>9
<1> QED
  BY <1>0, <1>1, <1>8, <1>10, <1>11, <1>12, LeaveBlocks

(* From the test or the end of a loop's body to where the loop starts or    *)
(* ends.                                                                    *)
LEMMA TurnCounts ==
    ASSUME CompileInv, ReleaseInv, RunInv, CountInv, compilers = <<>>, stack # <<>>,
           compileVars' = compileVars, closures' = closures, storages' = storages,
           Current.op \in {"test", "jump"}, NEW pc, Goto(pc),
           pc = labels[Current.loop].start \/ pc = labels[Current.loop].end
    PROVE  CountInv'
<1>1. PICK n, a, s, l : n = Len(stack) /\ a = Running /\ s = Current /\ l = s.loop
  OBVIOUS
<1>2. /\ a.fn \in DOMAIN code /\ a.pc \in DOMAIN code[a.fn] /\ s = code[a.fn][a.pc]
      /\ StatementOK(a.fn, s) /\ ReleaseOK(a.fn, s)
  BY <1>1, CurrentIs
<1>3. PICK next : next = code[a.fn][pc].scope
  OBVIOUS
<1>4. l \in DOMAIN labels /\ labels[l].fn = a.fn
  BY <1>1, <1>2 DEF StatementOK, JumpOK, LoopOps
<1>5. next = StartScope(l)
  BY <1>1, <1>3, <1>4, LoopScopes
<1>6. next = s.scope
  BY <1>1, <1>2, <1>5 DEF ReleaseOK, TurnIs
<1>7. GoesOn(n, a, next)
  BY <1>1, <1>3, GotoGoesOn
<1>8. PICK scope, D : scope = s.scope /\ D = {}
  OBVIOUS
<1>9. Releases(scope, D, next)
  BY <1>6, <1>8 DEF Releases
<1>10. UnrefAll(StoragesOf(a, D))
  BY <1>8, UnrefNone DEF RunInv
<1>11. scope = code[a.fn][a.pc].scope
  BY <1>2, <1>8
<1> QED
  BY <1>1, <1>7, <1>9, <1>10, <1>11, LeaveBlocks

(* break and continue leave the blocks of the loop.                         *)
LEMMA ExitCounts ==
    ASSUME CompileInv, ReleaseInv, RunInv, CountInv, compilers = <<>>, stack # <<>>,
           compileVars' = compileVars, closures' = closures,
           UnrefAll(StoragesOf(Running, Current.drop)),
           Current.op \in {"break", "continue"}, NEW pc, Goto(pc),
           pc = labels[Current.loop].start \/ pc = labels[Current.loop].end
    PROVE  CountInv'
<1>1. PICK n, a, s, l : n = Len(stack) /\ a = Running /\ s = Current /\ l = s.loop
  OBVIOUS
<1>2. /\ a.fn \in DOMAIN code /\ a.pc \in DOMAIN code[a.fn] /\ s = code[a.fn][a.pc]
      /\ StatementOK(a.fn, s) /\ ReleaseOK(a.fn, s)
  BY <1>1, CurrentIs
<1>3. PICK next : next = code[a.fn][pc].scope
  OBVIOUS
<1>4. l \in DOMAIN labels /\ labels[l].fn = a.fn /\ StartScope(l) \subseteq s.scope
  BY <1>1, <1>2 DEF StatementOK, JumpOK, LoopOps
<1>5. next = StartScope(l)
  BY <1>1, <1>3, <1>4, LoopScopes
<1>6. GoesOn(n, a, next)
  BY <1>1, <1>3, GotoGoesOn
<1>7. PICK scope, D : scope = s.scope /\ D = s.drop
  OBVIOUS
<1>8. D \cap next = {} /\ scope \ next \subseteq D \cup s.uncaptured
  BY <1>1, <1>2, <1>5, <1>7 DEF ReleaseOK, ExitIs
<1>9. ~HasEarlyExit => \A c \in s.uncaptured : ~HasStorage(c)
  BY <1>2 DEF HasEarlyExit
<1>10. D \subseteq scope /\ \A c \in D : HasStorage(c)
  BY <1>2, <1>7 DEF ReleaseOK, DropIs
<1>11. Releases(scope, D, next)
  BY <1>4, <1>5, <1>7, <1>8, <1>9, <1>10 DEF Releases
<1>12. UnrefAll(StoragesOf(a, D))
  BY <1>1, <1>7
<1>13. scope = code[a.fn][a.pc].scope
  BY <1>2, <1>7
<1> QED
  BY <1>1, <1>6, <1>11, <1>12, <1>13, LeaveBlocks

(* A return, and the end of a function, leave all of them.                  *)
LEMMA ReturnCounts ==
    ASSUME CompileInv, ReleaseInv, RunInv, CountInv, compilers = <<>>, stack # <<>>,
           compileVars' = compileVars, closures' = closures,
           UnrefAll(StoragesOf(Running, Current.drop)),
           Current.op \in {"return", "end"}, stack' = Front(stack)
    PROVE  CountInv'
<1>1. PICK n, a, s : n = Len(stack) /\ a = Running /\ s = Current
  OBVIOUS
<1>2. /\ a.fn \in DOMAIN code /\ a.pc \in DOMAIN code[a.fn] /\ s = code[a.fn][a.pc]
      /\ ReleaseOK(a.fn, s)
  BY <1>1, CurrentIs
<1>3. PICK scope, D, next : scope = s.scope /\ D = s.drop /\ next = {}
  OBVIOUS
<1>4. GoesOn(n, a, next)
  BY <1>1, <1>3, PopGoesOn
<1>5. ~HasEarlyExit => \A c \in s.uncaptured : ~HasStorage(c)
  BY <1>2 DEF HasEarlyExit
<1>6. D \subseteq scope /\ \A c \in D : HasStorage(c)
  BY <1>2, <1>3 DEF ReleaseOK, DropIs
<1>7. ~HasEarlyExit => \A c \in scope : HasStorage(c) => c \in D
  <2>1. CASE s.op = "return"
    BY <1>2, <1>3, <1>5, <2>1 DEF ReleaseOK, ReturnIs
  <2>2. CASE s.op = "end"
    BY <1>2, <1>3, <2>2 DEF ReleaseOK, EndIs
  <2> QED BY <1>1, <2>1, <2>2
<1>8. Releases(scope, D, next)
  BY <1>3, <1>6, <1>7 DEF Releases
<1>9. UnrefAll(StoragesOf(a, D))
  BY <1>1, <1>3
<1>10. scope = code[a.fn][a.pc].scope
  BY <1>2, <1>3
<1> QED
  BY <1>1, <1>4, <1>8, <1>9, <1>10, LeaveBlocks

(* A block that is entered has the activation as its only user.             *)
LEMMA BeginCounts ==
    ASSUME CompileInv, ReleaseInv, RunInv, CountInv, BeginUpvalues
    PROVE  CountInv'
<1>0. PICK a, s, k, n, pc : /\ a = Running /\ s = Current /\ k = s.container
                            /\ n = Len(stack) /\ pc = a.pc + 1
  OBVIOUS
<1>1. /\ compilers = <<>> /\ stack # <<>> /\ s.op = "begin"
      /\ compileVars' = compileVars /\ closures' = closures
      /\ AllocatesStorage(k) <=> HasStorage(k)
  BY <1>0 DEF BeginUpvalues, Runs, AllocatesStorage
<1>2. /\ n \in DOMAIN stack /\ a = stack[n] /\ IsActivation(a) /\ ActivationOK(a)
      /\ PacksApart(a) /\ BlocksOK
  BY <1>0, <1>1, RunningIs DEF Running, RunInv, CountInv
<1>3. /\ a.fn \in DOMAIN code /\ a.pc \in DOMAIN code[a.fn] /\ s = code[a.fn][a.pc]
      /\ ReleaseOK(a.fn, s)
  BY <1>0, <1>1, CurrentIs
<1>4. PICK next : next = code[a.fn][pc].scope
  OBVIOUS
<1>5. pc \in DOMAIN code[a.fn] /\ next \subseteq After(s)
  BY <1>0, <1>1, <1>3, <1>4, NextStatement
<1>6. After(s) \subseteq next
  BY <1>0, <1>1, <1>3, <1>4, <1>5 DEF ReleaseInv, Leaves
<1>7. next = s.scope \cup {k} /\ k \notin s.scope
  BY <1>0, <1>1, <1>3, <1>5, <1>6 DEF After, ReleaseOK, EntryIs
<1>8. PICK m \in Nat : m = Len(storages) /\ DOMAIN storages = 1..m
  BY <1>2, SeqIs DEF BlocksOK
<1>9. PICK t, e : t = Len(storages') /\ e = entries + 1
  OBVIOUS
<1>10. PICK new : new = [count |-> 1, clobbered |-> FALSE, entry |-> e]
  OBVIOUS
<1>11. /\ entries' = e
       /\ storages' = IF HasStorage(k) THEN Append(storages, new) ELSE storages
       /\ stack' = [stack EXCEPT ![n] =
            [a EXCEPT !.pc = @ + 1,
                      !.packs = IF HasStorage(k) THEN With(@, k, Len(storages')) ELSE @,
                      !.env = With(@, k, e)]]
  BY <1>0, <1>1, <1>9, <1>10 DEF BeginUpvalues, Running
<1>12. PICK b : b = [a EXCEPT !.pc = @ + 1,
                              !.packs = IF HasStorage(k) THEN With(@, k, t) ELSE @,
                              !.env = With(@, k, e)]
  OBVIOUS
<1>13. /\ b.fn = a.fn /\ b.pc = pc /\ b.closure = a.closure
       /\ b.packs = IF HasStorage(k) THEN With(a.packs, k, t) ELSE a.packs
  BY <1>0, <1>2, <1>12 DEF IsActivation
<1>14. /\ stack' = [stack EXCEPT ![n] = b] /\ DOMAIN stack' = DOMAIN stack /\ stack'[n] = b
       /\ \A i \in DOMAIN stack : i # n => stack'[i] = stack[i]
  BY <1>2, <1>9, <1>11, <1>12
<1>15. /\ DOMAIN b.packs = IF HasStorage(k) THEN DOMAIN a.packs \cup {k} ELSE DOMAIN a.packs
       /\ HasStorage(k) => b.packs[k] = t
       /\ \A x \in DOMAIN a.packs : x # k => b.packs[x] = a.packs[x]
  <2>1. CASE HasStorage(k)
    <3>1. PICK f, h : f = a.packs /\ h = With(f, k, t)
      OBVIOUS
    <3>2. /\ DOMAIN h = DOMAIN f \cup {k} /\ h[k] = t
          /\ \A x \in DOMAIN f : x # k => h[x] = f[x]
      BY <3>1 DEF With
    <3>3. b.packs = h
      BY <1>13, <2>1, <3>1
    <3> QED BY <2>1, <3>1, <3>2, <3>3
  <2>2. CASE ~HasStorage(k)
    BY <1>13, <2>2
  <2> QED BY <2>1, <2>2
<1>16. /\ \A i \in DOMAIN storages : i \in DOMAIN storages' /\ storages'[i] = storages[i]
       /\ \A i \in DOMAIN storages' : i \in DOMAIN storages \/ (HasStorage(k) /\ i = t)
       /\ HasStorage(k) => t \notin DOMAIN storages /\ storages'[t] = new
  <2>1. CASE HasStorage(k)
    <3>1. IsSeq(storages) /\ storages' = Append(storages, new)
      BY <1>2, <1>11, <2>1 DEF BlocksOK
    <3>2. /\ Len(storages') = m + 1 /\ DOMAIN storages' = 1..(m + 1)
          /\ \A i \in 1..m : storages'[i] = storages[i]
          /\ storages'[m + 1] = new
      BY <1>8, <3>1, AppendIs
    <3>3. /\ \A i \in 1..(m + 1) : i \in 1..m \/ i = m + 1
          /\ \A i \in 1..m : i \in 1..(m + 1)
          /\ m + 1 \notin 1..m
      OBVIOUS
    <3> QED BY <1>8, <1>9, <2>1, <3>2, <3>3
  <2>2. CASE ~HasStorage(k)
    BY <1>11, <2>2
  <2> QED BY <2>1, <2>2
<1>17. \A c \in s.scope : HasStorage(c) => c \in DOMAIN a.packs
  BY <1>2, <1>3 DEF ActivationOK, HasScope
<1>18. \A c \in DOMAIN a.packs : a.packs[c] \in DOMAIN storages
  BY <1>2 DEF ActivationOK, PacksOK, StorageFor
<1>19. /\ \A x, y : InUse(x, y)' <=> InUse(x, y)
       /\ \A fn : StorageContainers(fn)' = StorageContainers(fn)
  BY <1>1, UsesKept
<1>20. ASSUME NEW y PROVE \A i : i \in Using(y)' <=> i \in DOMAIN stack' /\ InUse(stack'[i], y)
  <2>1. ASSUME NEW i PROVE InUse(stack[i], y)' <=> InUse(stack'[i], y)
    <3>1. PICK x : x = stack'[i]
      OBVIOUS
    <3>2. InUse(x, y)' <=> InUse(x, y)
      BY <1>19
    <3> QED BY <3>1, <3>2
  <2> QED BY <2>1 DEF Using
<1>21. ASSUME NEW y
       PROVE  /\ InUse(b, y) <=> \E c \in next : HasStorage(c) /\ b.packs[c] = y
              /\ InUse(a, y) <=> \E c \in s.scope : HasStorage(c) /\ a.packs[c] = y
  BY <1>3, <1>4, <1>13 DEF InUse
<1>22. ASSUME NEW y \in DOMAIN storages PROVE CountOK(y)'
  <2>1. PICK r, A, H : r = storages[y] /\ A = Using(y) /\ H = Holders(y)
    OBVIOUS
  <2>2. InUse(b, y) <=> InUse(a, y)
    <3>1. HasStorage(k) => b.packs[k] # y
      BY <1>15, <1>16, <1>22
    <3>2. \A c \in s.scope : HasStorage(c) => b.packs[c] = a.packs[c]
      BY <1>7, <1>15, <1>17
    <3> QED BY <1>7, <1>21, <3>1, <3>2
  <2>3. A = Using(y)'
    BY <1>2, <1>14, <1>20, <2>1, <2>2 DEF Using
  <2>4. H = Holders(y)'
    BY <1>1, <2>1 DEF Holders, Holds
  <2>5. Counted(r.count, r.clobbered, A, H)
    BY <1>22, <2>1 DEF CountInv, CountOK
  <2>6. storages'[y].count = r.count /\ (storages'[y].clobbered => r.clobbered)
    BY <1>16, <1>22, <2>1
  <2> QED BY <1>1, <2>3, <2>4, <2>5, <2>6, CountStep
<1>23. ASSUME HasStorage(k) PROVE CountOK(t)'
  <2>1. PICK A, H : A = Using(t)' /\ H = Holders(t)'
    OBVIOUS
  <2>2. InUse(b, t)
    BY <1>7, <1>15, <1>21, <1>23
  <2>3. \A i \in DOMAIN stack : ~InUse(stack[i], t)
    BY <1>16, <1>23, InUseIs DEF RunInv, StackOK
  <2>4. A = {n}
    BY <1>2, <1>14, <1>20, <2>1, <2>2, <2>3
  <2>5. H = {}
    BY <1>1, <1>16, <1>23, <2>1 DEF Holders, Holds, CountInv, BlocksIn
  <2>6. Counted(1, FALSE, A, H)
    BY <2>4, <2>5, CountedFirst
  <2>7. storages'[t].count = 1 /\ (storages'[t].clobbered => FALSE)
    BY <1>10, <1>16, <1>23
  <2> QED BY <1>1, <2>1, <2>6, <2>7, CountStep
<1>24. ASSUME NEW y \in DOMAIN storages' PROVE CountOK(y)'
  BY <1>16, <1>22, <1>23, <1>24
<1>25. ASSUME NEW i \in DOMAIN stack' PROVE PacksApart(stack[i])'
  <2>1. CASE i = n
    <3>1. \A c, d \in DOMAIN b.packs : b.packs[c] = b.packs[d] => c = d
      <4>1. CASE HasStorage(k)
        <5>1. \A c \in DOMAIN b.packs : c # k => c \in DOMAIN a.packs /\ b.packs[c] = a.packs[c]
          BY <1>15, <4>1
        <5>2. \A c \in DOMAIN b.packs : c # k => b.packs[c] # b.packs[k]
          BY <1>15, <1>16, <1>18, <4>1, <5>1
        <5> QED BY <1>2, <5>1, <5>2 DEF PacksApart
      <4>2. CASE ~HasStorage(k)
        BY <1>2, <1>13, <4>2 DEF PacksApart
      <4> QED BY <4>1, <4>2
    <3>2. a.closure # 0 => closures'[a.closure].alive
      BY <1>1, <1>2 DEF PacksApart
    <3> QED BY <1>13, <1>14, <2>1, <3>1, <3>2 DEF PacksApart
  <2>2. CASE i # n
    BY <1>1, <1>14, <1>25, <2>2 DEF CountInv, PacksApart
  <2> QED BY <2>1, <2>2
<1>26. ASSUME NEW i \in DOMAIN closures' PROVE BlocksIn(closures[i])'
  <2>1. PICK o : o = closures[i]
    OBVIOUS
  <2>2. o = closures'[i] /\ BlocksIn(o)
    BY <1>1, <1>26, <2>1 DEF CountInv
  <2>3. BlocksIn(o)'
    BY <1>16, <1>19, <2>2 DEF BlocksIn
  <2> QED BY <2>2, <2>3
<1> QED
  BY <1>1, <1>24, <1>25, <1>26, CompiledKept DEF CountInv

(* The blocks of a new closure are in scope where it is created, or belong  *)
(* to the closure that is running.                                          *)
LEMMA ClosureBlocks ==
    ASSUME CompileInv, ReleaseInv, RunInv, CountInv, compilers = <<>>, stack # <<>>,
           Current.op = "closure", NEW a, a = Running, NEW fn, fn = Current.fn,
           NEW c \in StorageContainers(fn), NEW s, s = StorageAddress(a, c)
    PROVE  s \in DOMAIN storages /\ (Using(s) # {} \/ Holders(s) # {})
<1>0. PICK n, st : n = Len(stack) /\ st = Current
  OBVIOUS
<1>1. /\ n \in DOMAIN stack /\ a = stack[n] /\ ActivationOK(a) /\ PacksApart(a)
  BY <1>0, RunningIs DEF Running, CountInv
<1>2. /\ a.fn \in DOMAIN code /\ a.pc \in DOMAIN code[a.fn] /\ st = code[a.fn][a.pc]
      /\ StatementOK(a.fn, st) /\ ReleaseOK(a.fn, st)
  BY <1>0, CurrentIs
<1>3. PICK u \in upvalues[fn] : c = variables[u.target].container
  BY DEF StorageContainers, GetFinalTarget
<1>4. fn \in DOMAIN code /\ ClosureOK(a.fn, st) /\ st.op = "closure" /\ st.fn = fn
  BY <1>0, <1>2 DEF StatementOK, ClosureOK
<1>5. fn \in DOMAIN upvalues /\ a.fn \in DOMAIN upvalues
  BY <1>2, <1>4, SeqIs DEF CompileInv, Shapes
<1>6. UpvalueOK(fn, u)
  BY <1>5 DEF CompileInv, UpvaluesOK
<1>7. PICK d : d = Parent(u)
  OBVIOUS
<1>8. d.depth = u.depth - 1 /\ d.depth \in Nat /\ d.target = u.target /\ u.depth \in Nat
  BY <1>6, <1>7, ParentIs
<1>9. HasStorage(c)
  BY <1>3, <1>6, HasStorageIs DEF UpvalueOK
<1>10. CASE u.depth = 1
  <2>1. c \in st.scope
    BY <1>3, <1>4, <1>10 DEF ClosureOK
  <2>2. containers[c] = a.fn
    BY <1>2, <2>1 DEF ReleaseOK, ScopeIs
  <2>3. s = a.packs[c]
    BY <2>2 DEF StorageAddress
  <2>4. InUse(a, s)
    BY <1>2, <1>9, <2>1, <2>3 DEF InUse
  <2> QED BY <1>1, <2>4, InUseIs DEF Using
<1>11. CASE u.depth # 1
  <2>1. d \in upvalues[a.fn]
    <3>1. u.depth > 1
      BY <1>8, <1>11
    <3> QED BY <1>4, <1>7, <3>1 DEF ClosureOK
  <2>2. UpvalueOK(a.fn, d)
    BY <1>5, <2>1 DEF CompileInv, UpvaluesOK
  <2>3. containers[c] # a.fn /\ c \in StorageContainers(a.fn)
    BY <1>3, <1>8, <2>1, <2>2 DEF UpvalueOK, StorageContainers, GetFinalTarget
  <2>4. a.fn # 1
    BY <2>1 DEF CompileInv, UpvaluesOK
  <2>5. PICK k : k = closures[a.closure]
    OBVIOUS
  <2>6. a.closure \in DOMAIN closures /\ k.fn = a.fn /\ k.alive
    BY <1>1, <2>4, <2>5 DEF ActivationOK, CreatedBy, PacksApart
  <2>7. s = k.blocks[c]
    BY <2>3, <2>5 DEF StorageAddress
  <2>8. c \in DOMAIN k.blocks /\ s \in DOMAIN storages
    BY <2>3, <2>5, <2>6, <2>7 DEF CountInv, BlocksIn
  <2>9. a.closure \in Holders(s)
    BY <2>5, <2>6, <2>7, <2>8 DEF Holders, Holds
  <2> QED BY <2>8, <2>9
<1> QED
  BY <1>10, <1>11

(* A closure is one more user of each of its blocks.                        *)
LEMMA CreateCounts ==
    ASSUME CompileInv, ReleaseInv, RunInv, CountInv, CreateClosure
    PROVE  CountInv'
<1>0. PICK a, s, fn, n, pc : /\ a = Running /\ s = Current /\ fn = s.fn
                             /\ n = Len(stack) /\ pc = a.pc + 1
  OBVIOUS
<1>1. compilers = <<>> /\ stack # <<>> /\ s.op = "closure" /\ compileVars' = compileVars /\ Advance
  BY <1>0 DEF CreateClosure, Runs
<1>2. /\ n \in DOMAIN stack /\ a = stack[n]
      /\ a.fn \in DOMAIN code /\ a.pc \in DOMAIN code[a.fn] /\ s = code[a.fn][a.pc]
  BY <1>0, <1>1, RunningIs, CurrentIs DEF Running
<1>3. PICK next : next = code[a.fn][pc].scope
  OBVIOUS
<1>4. pc \in DOMAIN code[a.fn] /\ next \subseteq After(s)
  BY <1>0, <1>1, <1>2, <1>3, NextStatement
<1>5. After(s) \subseteq next
  BY <1>0, <1>1, <1>2, <1>3, <1>4 DEF ReleaseInv, Leaves
<1>6. next = s.scope /\ next = code[a.fn][a.pc].scope
  BY <1>1, <1>2, <1>4, <1>5 DEF After
<1>7. GoesOn(n, a, next)
  <2>1. Goto(pc)
    BY <1>0, <1>1 DEF Advance
  <2> QED BY <1>0, <1>1, <1>3, <2>1, GotoGoesOn
<1>8. PICK counted, pack : /\ counted = {StorageAddress(a, c) : c \in RefBlocks(a, fn)}
                           /\ pack = [c \in StorageContainers(fn) |-> StorageAddress(a, c)]
  OBVIOUS
<1>9. PICK vars : vars = [u \in upvalues[fn] |-> Pointer(a, Parent(u))]
  OBVIOUS
<1>10. PICK new : new = [fn |-> fn, alive |-> TRUE, env |-> a.env, vars |-> vars, blocks |-> pack]
  OBVIOUS
<1>11. /\ closures' = Append(closures, new)
       /\ storages' = [i \in DOMAIN storages |->
             IF i \in counted THEN [storages[i] EXCEPT !.count = @ + 1] ELSE storages[i]]
  BY <1>0, <1>8, <1>9, <1>10 DEF CreateClosure
<1>12. PICK m \in Nat : m = Len(closures) /\ DOMAIN closures = 1..m
  BY SeqIs DEF RunInv, ObjectsOK
<1>13. PICK k : k = m + 1
  OBVIOUS
<1>14. /\ \A i \in DOMAIN closures : i \in DOMAIN closures' /\ closures'[i] = closures[i] /\ i # k
       /\ \A i \in DOMAIN closures' : i \in DOMAIN closures \/ i = k
       /\ k \in DOMAIN closures' /\ closures'[k] = new
  <2>1. /\ IsSeq(closures') /\ DOMAIN closures' = 1..(m + 1) /\ closures'[m + 1] = new
        /\ \A i \in 1..m : closures'[i] = closures[i]
    BY <1>11, <1>12, AppendIs DEF RunInv, ObjectsOK
  <2>2. /\ \A i \in 1..m : i \in 1..(m + 1) /\ i # m + 1
        /\ \A i \in 1..(m + 1) : i \in 1..m \/ i = m + 1
        /\ m + 1 \in 1..(m + 1)
    OBVIOUS
  <2> QED BY <1>12, <1>13, <2>1, <2>2
<1>15. new.fn = fn /\ new.alive /\ new.blocks = pack
  BY <1>10
<1>16. /\ DOMAIN pack = StorageContainers(fn)
       /\ \A c \in DOMAIN pack : pack[c] = StorageAddress(a, c)
       /\ \A y : y \in counted <=> \E c \in DOMAIN pack : pack[c] = y
  BY <1>8 DEF RefBlocks
<1>17. ASSUME NEW c \in DOMAIN pack, NEW y, y = pack[c]
       PROVE  y \in DOMAIN storages /\ (Using(y) # {} \/ Holders(y) # {})
  BY <1>0, <1>1, <1>16, <1>17, ClosureBlocks
<1>18. \A fnn : StorageContainers(fnn)' = StorageContainers(fnn)
  BY <1>1, UsesKept
<1>19. ASSUME NEW y \in DOMAIN storages PROVE CountOK(y)'
  <2>1. PICK r, A, B, H, G : /\ r = storages[y] /\ A = Using(y) /\ B = Using(y)'
                             /\ H = Holders(y) /\ G = Holders(y)'
    OBVIOUS
  <2>2. A = B
    <3>1. PICK scope : scope = code[a.fn][a.pc].scope
      OBVIOUS
    <3>2. next \subseteq scope /\ next = scope
      BY <1>6, <3>1
    <3>3. /\ B \subseteq A /\ A \subseteq B \cup {n}
          /\ n \in A <=> \E c \in scope : HasStorage(c) /\ a.packs[c] = y
          /\ n \in B <=> \E c \in next : HasStorage(c) /\ a.packs[c] = y
      BY <1>0, <1>1, <1>7, <2>1, <3>1, <3>2, UsingAfter
    <3> QED BY <3>2, <3>3
  <2>3. Counted(r.count, r.clobbered, A, H)
    BY <1>19, <2>1 DEF CountInv, CountOK
  <2>4. DOMAIN r = {"count", "clobbered", "entry"}
    BY <1>19, <2>1 DEF RunInv, BlocksOK, IsStorage
  <2>5. \A i : Holds(closures[i], y)' <=> Holds(closures'[i], y)
    BY DEF Holds
  <2>6. \A i : i \in G <=> i \in DOMAIN closures' /\ Holds(closures'[i], y)
    BY <2>1, <2>5 DEF Holders
  <2>7. \A i : i \in H <=> i \in DOMAIN closures /\ Holds(closures[i], y)
    BY <2>1 DEF Holders
  <2>8. Holds(new, y) <=> y \in counted
    BY <1>15, <1>16 DEF Holds
  <2>9. CASE y \in counted
    <3>1. G = H \cup {k} /\ k \notin H
      BY <1>14, <2>6, <2>7, <2>8, <2>9
    <3>2. A # {} \/ H # {}
      BY <1>16, <1>17, <2>1, <2>9
    <3>3. Counted(r.count + 1, r.clobbered, A, G)
      BY <2>3, <3>1, <3>2, OneMore
    <3>4. storages'[y] = [r EXCEPT !.count = @ + 1]
      BY <1>11, <1>19, <2>1, <2>9
    <3>5. storages'[y].count = r.count + 1
      BY <2>4, <3>4
    <3>6. storages'[y].clobbered => r.clobbered
      BY <2>4, <3>4, Zenon
    <3> QED BY <1>1, <2>1, <2>2, <3>3, <3>5, <3>6, CountStep
  <2>10. CASE y \notin counted
    <3>1. G = H
      BY <1>14, <2>6, <2>7, <2>8, <2>10
    <3>2. storages'[y] = r
      BY <1>11, <1>19, <2>1, <2>10
    <3>3. storages'[y].count = r.count /\ (storages'[y].clobbered => r.clobbered)
      BY <3>2
    <3> QED BY <1>1, <2>1, <2>2, <2>3, <3>1, <3>3, CountStep
  <2> QED BY <2>9, <2>10
<1>20. DOMAIN storages' = DOMAIN storages
  BY <1>11
<1>21. ASSUME NEW i \in DOMAIN stack' PROVE PacksApart(stack[i])'
  <2>1. \A x \in DOMAIN closures : closures[x].alive => closures'[x].alive
    BY <1>14
  <2>2. StackOK
    BY DEF RunInv
  <2> QED BY <1>2, <1>7, <1>21, <2>1, <2>2, PacksAfter
<1>22. ASSUME NEW i \in DOMAIN closures' PROVE BlocksIn(closures[i])'
  <2>1. PICK o : o = closures'[i]
    OBVIOUS
  <2>2. DOMAIN o.blocks = StorageContainers(o.fn) /\ \A c \in DOMAIN o.blocks : o.blocks[c] \in DOMAIN storages
    <3>1. CASE i = k
      BY <1>14, <1>15, <1>16, <1>17, <2>1, <3>1
    <3>2. CASE i \in DOMAIN closures
      BY <1>14, <2>1, <3>2 DEF CountInv, BlocksIn
    <3> QED BY <1>14, <1>22, <3>1, <3>2
  <2> QED BY <1>18, <1>20, <2>1, <2>2 DEF BlocksIn
<1> QED
  BY <1>1, <1>19, <1>20, <1>21, <1>22, CompiledKept DEF CountInv

(* What is called has nothing in scope yet.                                 *)
LEMMA CallCounts ==
    ASSUME CompileInv, RunInv, CountInv, NEW c \in DOMAIN closures, Call(c)
    PROVE  CountInv'
<1>1. /\ compilers = <<>> /\ compileVars' = compileVars /\ storages' = storages
      /\ closures' = closures /\ closures[c].alive
  BY DEF Call
<1>2. PICK k : k = closures[c] /\ FunctionObjectOK(k)
  BY DEF RunInv, ObjectsOK
<1>3. PICK b, none : b = [fn |-> k.fn, pc |-> 1, closure |-> c, packs |-> none, env |-> k.env]
                     /\ none = <<>>
  OBVIOUS
<1>4. stack' = Append(stack, b)
  BY <1>2, <1>3 DEF Call
<1>5. b.fn = k.fn /\ b.pc = 1 /\ b.closure = c /\ b.packs = none /\ DOMAIN none = {}
  BY <1>3
<1>6. code[b.fn][b.pc].scope = {}
  BY <1>2, <1>5 DEF FunctionObjectOK, CompileInv, FlowOK
<1>7. PICK n \in Nat : n = Len(stack) /\ DOMAIN stack = 1..n
  BY SeqIs DEF RunInv, StackOK
<1>8. /\ DOMAIN stack' = 1..(n + 1) /\ stack'[n + 1] = b
      /\ \A i \in 1..n : stack'[i] = stack[i]
  BY <1>4, <1>7, AppendIs DEF RunInv, StackOK
<1>9. /\ \A i \in 1..(n + 1) : i \in 1..n \/ i = n + 1
      /\ \A i \in 1..n : i \in 1..(n + 1)
  OBVIOUS
<1>10. ASSUME NEW y \in DOMAIN storages PROVE CountOK(y)'
  <2>1. PICK r, A, H : r = storages[y] /\ A = Using(y) /\ H = Holders(y)
    OBVIOUS
  <2>2. A = Using(y)'
    <3>1. ASSUME NEW i PROVE InUse(stack[i], y)' <=> InUse(stack'[i], y)
      <4>1. PICK x : x = stack'[i]
        OBVIOUS
      <4>2. InUse(x, y)' <=> InUse(x, y)
        BY <1>1, UsesKept
      <4> QED BY <4>1, <4>2
    <3>2. ~InUse(b, y)
      BY <1>6 DEF InUse
    <3>3. \A i : i \in Using(y)' <=> i \in DOMAIN stack' /\ InUse(stack'[i], y)
      BY <3>1 DEF Using
    <3> QED BY <1>7, <1>8, <1>9, <2>1, <3>2, <3>3 DEF Using
  <2>3. H = Holders(y)'
    BY <1>1, <2>1 DEF Holders, Holds
  <2>4. Counted(r.count, r.clobbered, A, H)
    BY <1>10, <2>1 DEF CountInv, CountOK
  <2>5. storages'[y].count = r.count /\ (storages'[y].clobbered => r.clobbered)
    BY <1>1, <2>1
  <2> QED BY <1>1, <2>2, <2>3, <2>4, <2>5, CountStep
<1>11. ASSUME NEW i \in DOMAIN stack' PROVE PacksApart(stack[i])'
  <2>1. CASE i = n + 1
    <3>1. DOMAIN stack'[i].packs = {} /\ stack'[i].closure = c
      BY <1>5, <1>8, <2>1
    <3> QED BY <1>1, <3>1 DEF PacksApart
  <2>2. CASE i \in 1..n
    <3>1. PICK x : x = stack[i]
      OBVIOUS
    <3>2. x = stack'[i] /\ PacksApart(x)
      BY <1>7, <1>8, <2>2, <3>1 DEF CountInv
    <3>3. PacksApart(x)'
      BY <1>1, <3>2 DEF PacksApart
    <3> QED BY <3>2, <3>3
  <2> QED BY <1>8, <1>9, <1>11, <2>1, <2>2
<1>12. ASSUME NEW i \in DOMAIN closures' PROVE BlocksIn(closures[i])'
  <2>1. PICK o : o = closures[i]
    OBVIOUS
  <2>2. o = closures'[i] /\ BlocksIn(o)
    BY <1>1, <1>12, <2>1 DEF CountInv
  <2>3. BlocksIn(o)'
    BY <1>1, <2>2, UsesKept DEF BlocksIn
  <2> QED BY <2>2, <2>3
<1> QED
  BY <1>1, <1>10, <1>11, <1>12, CompiledKept DEF CountInv

(* A closure that is collected is no user of its blocks any more.           *)
LEMMA CollectCounts ==
    ASSUME CompileInv, RunInv, CountInv, NEW c \in DOMAIN closures, Collect(c)
    PROVE  CountInv'
<1>1. PICK k, ids : k = closures[c] /\ ids = {closures[c].blocks[b] : b \in DOMAIN closures[c].blocks}
  OBVIOUS
<1>2. /\ compileVars' = compileVars /\ stack' = stack /\ k.alive
      /\ closures' = [closures EXCEPT ![c].alive = FALSE]
      /\ \A i \in DOMAIN stack : stack[i].closure # c
      /\ UnrefAll(ids)
  BY <1>1 DEF Collect
<1>3. compilers = <<>>
  BY DEF RunInv, NotYetRunning
<1>4. /\ DOMAIN storages' = DOMAIN storages
      /\ \A s \in DOMAIN storages : s \notin ids => storages'[s] = storages[s]
      /\ \A s \in DOMAIN storages : s \in ids =>
            /\ storages'[s].count = storages[s].count - 1
            /\ storages'[s].clobbered => storages[s].clobbered \/ storages[s].count = 1
  BY <1>2, UnrefCounts DEF RunInv
<1>5. IsClosure(k)
  BY <1>1 DEF RunInv, ObjectsOK
<1>6. PICK o : o = [k EXCEPT !.alive = FALSE]
  OBVIOUS
<1>7. o.fn = k.fn /\ o.blocks = k.blocks /\ ~o.alive
  BY <1>5, <1>6 DEF IsClosure
<1>8. /\ DOMAIN closures' = DOMAIN closures /\ closures'[c] = o
      /\ \A i \in DOMAIN closures : i # c => closures'[i] = closures[i]
  BY <1>1, <1>2, <1>6
<1>9. ASSUME NEW y \in DOMAIN storages PROVE CountOK(y)'
  <2>1. PICK r, A, H, G : r = storages[y] /\ A = Using(y) /\ H = Holders(y) /\ G = Holders(y)'
    OBVIOUS
  <2>2. A = Using(y)'
    <3>1. ASSUME NEW i PROVE InUse(stack[i], y)' <=> InUse(stack[i], y)
      <4>1. PICK x : x = stack[i]
        OBVIOUS
      <4>2. InUse(x, y)' <=> InUse(x, y)
        BY <1>2, UsesKept
      <4>3. x = stack'[i]
        BY <1>2, <4>1
      <4> QED BY <4>1, <4>2, <4>3
    <3> QED BY <1>2, <2>1, <3>1 DEF Using
  <2>3. Counted(r.count, r.clobbered, A, H)
    BY <1>9, <2>1 DEF CountInv, CountOK
  <2>4. \A i : Holds(closures[i], y)' <=> Holds(closures'[i], y)
    BY DEF Holds
  <2>5. \A i : i \in G <=> i \in DOMAIN closures' /\ Holds(closures'[i], y)
    BY <2>1, <2>4 DEF Holders
  <2>6. \A i : i \in H <=> i \in DOMAIN closures /\ Holds(closures[i], y)
    BY <2>1 DEF Holders
  <2>7. ~Holds(o, y) /\ (Holds(k, y) <=> y \in ids)
    BY <1>1, <1>2, <1>7 DEF Holds
  <2>8. CASE y \in ids
    <3>1. c \in H /\ G = H \ {c}
      BY <1>1, <1>8, <2>5, <2>6, <2>7, <2>8
    <3>2. PICK d : d = (r.clobbered \/ r.count = 1)
      OBVIOUS
    <3>3. Counted(r.count, r.clobbered, H, A)
      BY <2>3, CountedBoth
    <3>4. Counted(r.count - 1, d, G, A)
      BY <3>1, <3>2, <3>3, OneLess
    <3>5. Counted(r.count - 1, d, A, G)
      BY <3>4, CountedBoth
    <3>6. storages'[y].count = r.count - 1 /\ (storages'[y].clobbered => d)
      BY <1>4, <1>9, <2>1, <2>8, <3>2
    <3> QED BY <1>2, <2>1, <2>2, <3>5, <3>6, CountStep
  <2>9. CASE y \notin ids
    <3>1. G = H
      BY <1>1, <1>8, <2>5, <2>6, <2>7, <2>9
    <3>2. storages'[y].count = r.count /\ (storages'[y].clobbered => r.clobbered)
      BY <1>4, <1>9, <2>1, <2>9
    <3> QED BY <1>2, <2>1, <2>2, <2>3, <3>1, <3>2, CountStep
  <2> QED BY <2>8, <2>9
<1>10. ASSUME NEW i \in DOMAIN stack' PROVE PacksApart(stack[i])'
  <2>1. PICK x : x = stack[i]
    OBVIOUS
  <2>2. x = stack'[i] /\ PacksApart(x) /\ CreatedBy(x) /\ x.closure # c
    BY <1>2, <1>10, <2>1 DEF CountInv, RunInv, StackOK, ActivationOK
  <2>3. x.closure # 0 => closures'[x.closure].alive
    BY <1>8, <2>2 DEF PacksApart, CreatedBy
  <2>4. PacksApart(x)'
    BY <2>2, <2>3 DEF PacksApart
  <2> QED BY <2>2, <2>4
<1>11. ASSUME NEW i \in DOMAIN closures' PROVE BlocksIn(closures[i])'
  <2>1. PICK x, z : x = closures[i] /\ z = closures'[i]
    OBVIOUS
  <2>2. BlocksIn(x) /\ z.fn = x.fn /\ z.blocks = x.blocks
    BY <1>1, <1>7, <1>8, <1>11, <2>1 DEF CountInv
  <2>3. BlocksIn(z)'
    BY <1>2, <1>4, <2>2, UsesKept DEF BlocksIn
  <2> QED BY <2>1, <2>3
<1> QED
  BY <1>2, <1>3, <1>4, <1>9, <1>10, <1>11, CompiledKept DEF CountInv

LEMMA RunCounts ==
    ASSUME CompileInv, ReleaseInv, RunInv, CountInv, Run
    PROVE  CountInv'
<1>1. CASE BeginUpvalues
  BY <1>1, BeginCounts
<1>2. CASE RelocateUpvalues
  BY <1>2, RelocateCounts
<1>3. CASE UseVariable
  BY <1>3, AdvanceCounts DEF UseVariable, Runs
<1>4. CASE CreateClosure
  BY <1>4, CreateCounts
<1>5. CASE TestCondition
  <2>1. /\ compilers = <<>> /\ stack # <<>> /\ Current.op = "test"
        /\ compileVars' = compileVars /\ closures' = closures /\ storages' = storages
        /\ Advance \/ Goto(labels[Current.loop].end)
    BY <1>5 DEF TestCondition, Runs
  <2> QED BY <2>1, AdvanceCounts, TurnCounts
<1>6. CASE JumpToStart
  BY <1>6, TurnCounts DEF JumpToStart, Runs
<1>7. CASE BreakOrContinue
  <2>1. /\ compilers = <<>> /\ stack # <<>> /\ Current.op \in {"break", "continue"}
        /\ compileVars' = compileVars /\ closures' = closures
        /\ \/ Advance /\ storages' = storages
           \/ /\ UnrefAll(StoragesOf(Running, Current.drop))
              /\ Goto(IF Current.op = "break" THEN labels[Current.loop].end
                      ELSE labels[Current.loop].start)
    BY <1>7 DEF BreakOrContinue, Runs
  <2>2. CASE Advance /\ storages' = storages
    BY <2>1, <2>2, AdvanceCounts
  <2>3. ASSUME UnrefAll(StoragesOf(Running, Current.drop)), NEW pc, Goto(pc),
               pc = labels[Current.loop].start \/ pc = labels[Current.loop].end
        PROVE  CountInv'
    BY <2>1, <2>3, ExitCounts
  <2>4. Goto(IF Current.op = "break" THEN labels[Current.loop].end ELSE labels[Current.loop].start)
        => Goto(labels[Current.loop].end) \/ Goto(labels[Current.loop].start)
    OBVIOUS
  <2> QED BY <2>1, <2>2, <2>3, <2>4
<1>8. CASE ReturnOrEnd
  <2>1. /\ compilers = <<>> /\ stack # <<>> /\ Current.op \in {"return", "end"}
        /\ compileVars' = compileVars /\ closures' = closures
        /\ \/ Current.op = "return" /\ Advance /\ storages' = storages
           \/ UnrefAll(StoragesOf(Running, Current.drop)) /\ stack' = Front(stack)
    BY <1>8 DEF ReturnOrEnd, Runs
  <2>2. CASE Current.op = "return" /\ Advance /\ storages' = storages
    BY <2>1, <2>2, AdvanceCounts
  <2>3. CASE UnrefAll(StoragesOf(Running, Current.drop)) /\ stack' = Front(stack)
    BY <2>1, <2>3, ReturnCounts
  <2> QED BY <2>1, <2>2, <2>3
<1>9. CASE \E c \in DOMAIN closures : Call(c) \/ Collect(c)
  BY <1>9, CallCounts, CollectCounts
<1> QED
  BY <1>1, <1>2, <1>3, <1>4, <1>5, <1>6, <1>7, <1>8, <1>9 DEF Run

(* The parser allocates nothing.                                            *)
LEMMA CompileCounts ==
    ASSUME RunInv, CountInv, compilers # <<>>, Compile
    PROVE  CountInv'
<1>1. stack = <<>> /\ closures = <<>> /\ storages = <<>>
  BY DEF RunInv, NotYetRunning, CountInv
<1>2. storages' = storages /\ closures' = closures /\ (stack' = stack \/ EndOfSource)
  BY DEF Compile, DeclareVariable, OpenBlock, CloseBlock, WhileStatement, EndWhile,
         ForStatement, EndFor, LeaveLoop, ReturnStatement, OpenFunction, CloseFunction,
         UseLocal, UseUpvalue, EndOfSource, Parses, runVars
<1>3. storages' = <<>> /\ DOMAIN storages' = {} /\ DOMAIN closures' = {}
  BY <1>1, <1>2, EmptyIs
<1>4. ASSUME NEW i \in DOMAIN stack' PROVE PacksApart(stack[i])'
  <2>1. CASE stack' = stack
    BY <1>1, <1>4, <2>1, EmptyIs
  <2>2. CASE EndOfSource
    <3>1. PICK b, none : b = [fn |-> 1, pc |-> 1, closure |-> 0, packs |-> none, env |-> none]
                         /\ none = <<>>
      OBVIOUS
    <3>2. stack' = <<b>>
      BY <2>2, <3>1 DEF EndOfSource
    <3>3. DOMAIN stack' = {1} /\ stack'[1] = b
      <4>1. IsSeq(stack') /\ Len(stack') = 1 /\ stack'[1] = b
        BY <3>2, TuplesAre
      <4> QED BY <4>1, SeqIs
    <3>4. b.closure = 0 /\ DOMAIN b.packs = {}
      BY <3>1
    <3> QED BY <1>4, <3>3, <3>4 DEF PacksApart
  <2> QED BY <1>2, <2>1, <2>2
<1> QED
  BY <1>3, <1>4 DEF CountInv

LEMMA SameCounts ==
    ASSUME RunInv, CountInv, closureVars' = closureVars
    PROVE  CountInv'
<1>1. /\ compileVars' = compileVars /\ stack' = stack /\ storages' = storages
      /\ closures' = closures
  BY DEF closureVars, runVars
<1>2. /\ \A x, y : InUse(x, y)' <=> InUse(x, y)
      /\ \A fn : StorageContainers(fn)' = StorageContainers(fn)
  BY <1>1, UsesKept
<1>3. ASSUME NEW y \in DOMAIN storages' PROVE CountOK(y)'
  <2>1. PICK r, A, H : r = storages[y] /\ A = Using(y) /\ H = Holders(y)
    OBVIOUS
  <2>2. A = Using(y)'
    <3>1. ASSUME NEW i PROVE InUse(stack[i], y)' <=> InUse(stack[i], y)
      <4>1. PICK x : x = stack[i]
        OBVIOUS
      <4>2. x = stack'[i] /\ (InUse(x, y)' <=> InUse(x, y))
        BY <1>1, <1>2, <4>1
      <4> QED BY <4>1, <4>2
    <3> QED BY <1>1, <2>1, <3>1 DEF Using
  <2>3. H = Holders(y)'
    BY <1>1, <2>1 DEF Holders, Holds
  <2>4. Counted(r.count, r.clobbered, A, H)
    BY <1>1, <1>3, <2>1 DEF CountInv, CountOK
  <2>5. storages'[y].count = r.count /\ (storages'[y].clobbered => r.clobbered)
    BY <1>1, <2>1
  <2> QED BY <1>1, <2>2, <2>3, <2>4, <2>5, CountStep
<1>4. ASSUME NEW i \in DOMAIN stack' PROVE PacksApart(stack[i])'
  <2>1. PICK x : x = stack[i]
    OBVIOUS
  <2>2. x = stack'[i] /\ PacksApart(x)
    BY <1>1, <1>4, <2>1 DEF CountInv
  <2>3. PacksApart(x)'
    BY <1>1, <2>2 DEF PacksApart
  <2> QED BY <2>2, <2>3
<1>5. ASSUME NEW i \in DOMAIN closures' PROVE BlocksIn(closures[i])'
  <2>1. PICK x : x = closures[i]
    OBVIOUS
  <2>2. x = closures'[i] /\ BlocksIn(x)
    BY <1>1, <1>5, <2>1 DEF CountInv
  <2>3. BlocksIn(x)'
    BY <1>1, <1>2, <2>2 DEF BlocksIn
  <2> QED BY <2>2, <2>3
<1> QED
  BY <1>1, <1>3, <1>4, <1>5, CompiledKept DEF CountInv

LEMMA StorageStep ==
    ASSUME CompileInv, StillParsing, RunInv, ReleaseInv, CountInv,
           [ClosuresNext]_closureVars, [LeavesForLoop]_closureVars
    PROVE  ReleaseInv' /\ CountInv'
<1>1. CASE Compile /\ LeavesForLoop
  <2>1. ReleaseInv'
    BY <1>1, CompileStep
  <2>2. compilers # <<>>
    BY <1>1, CompilesOpen
  <2> QED BY <1>1, <2>1, <2>2, CompileCounts
<1>2. CASE Run
  <2>1. compileVars' = compileVars
    BY <1>2, RunCompiles
  <2> QED BY <1>2, <2>1, SameCompiled, RunCounts
<1>3. CASE UNCHANGED closureVars
  <2>1. compileVars' = compileVars
    BY <1>3 DEF closureVars
  <2> QED BY <1>3, <2>1, SameCompiled, SameCounts
<1> QED
  BY <1>1, <1>2, <1>3 DEF ClosuresNext

LEMMA StorageInit ==
    ASSUME ClosuresInit
    PROVE  CountInv
<1>1. stack = <<>> /\ storages = <<>> /\ closures = <<>>
  BY DEF ClosuresInit
<1> QED
  BY <1>1, EmptyIs DEF CountInv

(* In every program whose breaks and continues leave for loops, a cleanup   *)
(* releases what it closes and nothing that stays open, and there is a      *)
(* reference to each block of captured variables for each of its users,     *)
(* whatever order blocks are left, closures created, called and collected.  *)
THEOREM Counts ==
    ClosuresSpec /\ [][LeavesForLoop]_closureVars => [](ReleaseInv /\ CountInv)
<1>1. ClosuresInit => ReleaseInv /\ CountInv
  BY CompileInit, StorageInit
<1>2. CompileInv /\ StillParsing /\ RunInv /\ ReleaseInv /\ CountInv
        /\ [ClosuresNext]_closureVars /\ [LeavesForLoop]_closureVars
        => ReleaseInv' /\ CountInv'
  BY StorageStep
<1> QED
  BY <1>1, <1>2, Closes, PTL DEF ClosuresSpec

LEMMA InUseOpen ==
    ASSUME NEW a, NEW s, s \in OpenBlocks(a)
    PROVE  InUse(a, s)
BY DEF OpenBlocks, StoragesOf, InUse

LEMMA OutlivesUsers ==
    ASSUME RunInv, CountInv
    PROVE  StorageOutlivesUsers
<1>1. ASSUME NEW i \in DOMAIN stack, NEW s \in OpenBlocks(stack[i])
      PROVE  ~storages[s].clobbered
  <2>1. InUse(stack[i], s)
    BY <1>1, InUseOpen
  <2>2. s \in DOMAIN storages
    BY <2>1, InUseIs DEF RunInv, StackOK
  <2>3. i \in Using(s)
    BY <2>1 DEF Using
  <2> QED BY <2>2, <2>3 DEF CountInv, CountOK, Counted
<1>2. ASSUME NEW k \in DOMAIN closures, closures[k].alive, NEW b \in DOMAIN closures[k].blocks
      PROVE  ~storages[closures[k].blocks[b]].clobbered
  <2>1. PICK s : s = closures[k].blocks[b]
    OBVIOUS
  <2>2. s \in DOMAIN storages
    BY <2>1 DEF CountInv, BlocksIn
  <2>3. k \in Holders(s)
    BY <1>2, <2>1 DEF Holders, Holds
  <2> QED BY <2>1, <2>2, <2>3 DEF CountInv, CountOK, Counted
<1> QED
  BY <1>1, <1>2 DEF StorageOutlivesUsers

LEMMA Released ==
    ASSUME RunInv, CountInv
    PROVE  StorageReleased
<1>1. ASSUME NEW s \in DOMAIN storages PROVE storages[s].count >= 0
  BY DEF CountInv, CountOK, Counted
<1>2. ASSUME stack = <<>>, ~HasEarlyExit, \A c \in DOMAIN closures : ~closures[c].alive,
             NEW s \in DOMAIN storages
      PROVE  storages[s].count = 0
  <2>1. Using(s) = {} /\ Holders(s) = {}
    BY <1>2, EmptyIs DEF Using, Holders, Holds
  <2>2. Counted(storages[s].count, storages[s].clobbered, {}, {})
    BY <1>2, <2>1 DEF CountInv, CountOK
  <2>3. storages[s].count = Cardinality({}) + Cardinality({})
    BY <1>2, <2>2 DEF Counted
  <2> QED BY <2>3, FS_EmptySet
<1> QED
  BY <1>1, <1>2 DEF StorageReleased

(* No block of captured variables is overwritten while an activation has it *)
(* in scope or a closure over it is alive (StorageOutlivesUsers): for every *)
(* source in which only for loops are left early.                           *)
THEOREM OutlivesItsUsers ==
    ClosuresSpec /\ [][LeavesForLoop]_closureVars => []StorageOutlivesUsers
BY Closes, Counts, OutlivesUsers, PTL

(* And when all is over each block was released as often as it was taken    *)
(* (StorageReleased): no count goes below zero, and none is left over       *)
(* unless an exit is compiled before the first capture in a block it leaves. *)
THEOREM ReleasesAll ==
    ClosuresSpec /\ [][LeavesForLoop]_closureVars => []StorageReleased
BY Closes, Counts, Released, PTL
=============================================================================
