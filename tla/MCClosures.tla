------------------------------ MODULE MCClosures ----------------------------
(* The sources of the instances of Closures.                                *)
EXTENDS Closures

Var(n) == <<"var", n>>
UseOf(n) == <<"use", n>>
Function(body) == <<<<"fn">>>> \o body \o <<<<"endfn">>>>

(* A function that uses x or y, or declares its own x, and may hold another *)
(* function that uses both.                                                 *)
Bodies ==
    {Function(u \o i) :
        u \in {<<UseOf("x")>>, <<Var("x"), UseOf("x")>>, <<UseOf("y")>>},
        i \in {<<>>, Function(<<UseOf("x"), UseOf("y")>>)}}

Shadowed == {<<>>, <<Var("x")>>}
Exits == {<<>>, <<<<"break">>>>, <<<<"continue">>>>, <<<<"return">>>>}
Returns == {<<>>, <<<<"return">>>>}

(* A for loop around a function, with every exit before and after it.       *)
ForLoops ==
    {<<Var("x"), <<"for", "y">>>> \o before \o x \o body \o after
        \o <<<<"endfor">>, UseOf("x")>> :
     before, after \in Exits, x \in Shadowed, body \in Bodies}

NestedLoops ==
    {<<<<"for", "x">>, <<"for", "y">>>> \o body \o exit \o <<<<"endfor">>>> \o exit
        \o <<<<"endfor">>>> :
     body \in Bodies, exit \in Exits}

(* A block, and a while loop that is not left by break or continue.         *)
Blocks ==
    {<<Var("x"), open, Var("y")>> \o exit \o x \o body \o exit
        \o <<IF open = <<"{">> THEN <<"}">> ELSE <<"endwhile">>, UseOf("x")>> :
     open \in {<<"{">>, <<"while">>}, x \in Shadowed, body \in Bodies,
     exit \in Returns}

Sources == ForLoops \cup NestedLoops \cup Blocks

(* A variable captured before a while loop that is left by break.           *)
WhileBreak ==
    {<<Var("x")>> \o Function(<<UseOf("x")>>) \o <<<<"while">>, exit, <<"endwhile">>, UseOf("x")>> :
     exit \in {<<"break">>, <<"continue">>}}
=============================================================================
