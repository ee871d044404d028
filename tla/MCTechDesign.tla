---------------------------- MODULE MCTechDesign ----------------------------
(* TechDesign on domain designs of up to two contexts and two backlogs.    *)
EXTENDS TechDesign

CONSTANTS A, A2, B, f, g, p, s1, s2, ghost

ThreeNames == {A, A2, B}
TwoResources == {f, g}
(* A and A2 differ only in what a slug drops. *)
Slugs == [n \in {A, A2, B} |-> IF n = A2 THEN A ELSE n]

Nothing  == [r \in {f, g} |-> 0]
Just(r)  == [Nothing EXCEPT ![r] = 1]
Twice(r) == [Nothing EXCEPT ![r] = 2]
Ctx(n, refs, owns, to) == [name |-> n, refs |-> refs, owns |-> owns, to |-> to]

ctxA == Ctx(A, {p, ghost}, Just(f), {B})
ctxB == Ctx(B, {}, Nothing, {})
storyA == [id |-> s1, context |-> None, refs |-> {p}]
storyB == [id |-> s2, context |-> B, refs |-> {}]
In(cs, ss) == [contexts |-> cs, stories |-> ss, waves |-> {p}, known |-> {p}]

SomeInputs ==
    {In({ctxA, ctxB}, {storyA}), In({ctxA, ctxB}, {storyA, storyB}),
     In({ctxA, Ctx(B, {}, Just(f), {A})}, {storyA}), In({Ctx(A, {}, Twice(g), {A})}, {}),
     In({ctxA, Ctx(A2, {}, Nothing, {})}, {})}

Draft(n, owns) ==
    [unit |-> n, name |-> n, context |-> n, deployment |-> "microservice", stories |-> {s1, ghost},
     apis |-> {"default"}, owns |-> owns, to |-> {B}, refs |-> {p, ghost}]
SomeAnswers == [n \in {A, A2, B} |->
    CASE n = A -> {{Draft(A, Just(f))}}
      [] n = A2 -> {{Draft(A2, Nothing)}}
      [] n = B -> {{Draft(B, Nothing)}, {}, {[Draft(B, Just(f)) EXCEPT !.deployment = "lambda"], Draft(ghost, Just(g))}}]

SomeSettings == {[mode |-> "llm", legacy |-> ""], [mode |-> "other", legacy |-> ""],
                 [mode |-> "fast", legacy |-> "llm"]}
DecidedGate == {"technical_design_quality"}
=============================================================================
