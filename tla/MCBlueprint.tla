---------------------------- MODULE MCBlueprint ----------------------------
(* Blueprint on graphs of up to seven entities, with prompts that name two.*)
EXTENDS Blueprint

CONSTANTS f1, f2

G(n, edges, programs) == [nodes |-> 1..n, edges |-> edges, programs |-> programs]
SomeGraphs == {G(2, {<<1, 2>>}, {1}),
               G(7, {<<6, 7>>}, {1, 5})}
SomeSettings == {[cap |-> 2, retries |-> 1, singleShot |-> 1]}

D(a, b) == [i \in Ids |-> IF i = f1 THEN a ELSE b]
SomeDrafts == {D({1}, {2}), D({Ghost}, {1})}
All(s) == [d \in Dimensions |-> s]
(* 4.55 with a dimension too weak for high; exactly 4.2; nothing.          *)
SomeAnswers == {[All(5) EXCEPT !["clarity"] = 2],
                [All(9) EXCEPT !["completeness"] = 3, !["accuracy"] = 4], <<>>}
=============================================================================
