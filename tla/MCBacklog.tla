----------------------------- MODULE MCBacklog -----------------------------
(* Backlog on BRDs of up to three requirements, two epics and two rounds.  *)
EXTENDS Backlog

CONSTANTS r1, r2, r3, s1, T1, T2, p, q, ghost, e1, e2

(* r1 and r2 make one slug, and so do the two section titles. *)
Slugs == [x \in {r1, r2, r3, T1, T2} |->
            CASE x \in {r1, r2} -> r1 [] x = r3 -> r3 [] OTHER -> T1]

Brd(reqs, cites, min) ==
    [reqs |-> reqs, cites |-> cites, title |-> [r \in {r1, r2, r3} |-> IF r = r3 THEN T2 ELSE T1],
     sections |-> 3, known |-> {p, q}, logic |-> {p, q}, min |-> min]
Everything == [r \in {r1, r2, r3} |-> {p, q, ghost}]
Gappy == [Everything EXCEPT ![r2] = {ghost}]
Half  == [r \in {r1, r2, r3} |-> {p}]

AllInputs == {Brd(<<r1, r2, r3>>, Everything, 100), Brd(<<r1, r2>>, Gappy, 50),
              Brd(<<r1, r2>>, Half, 80), Brd(<<>>, Half, 80)}

Story(u, e, reqs, acs) ==
    [unit |-> u, id |-> s1, epic |-> e, reqs |-> reqs, refs |-> {p, ghost}, acs |-> acs]
Epic(e, reqs) == [id |-> e, reqs |-> reqs, stories |-> {}, refs |-> {p}]

SomeWholes == {[epics |-> {Epic(e1, {r1}), Epic(e2, {r2, ghost})}, stories |-> {}],
               [epics |-> {Epic("top-up", {r1})}, stories |-> {}],
               [epics |-> {Epic(e1, {r1})}, stories |-> {Story(e1, e1, {r1, r2, ghost}, {{p}})}],
               [epics |-> {}, stories |-> {Story(e1, e1, {r1}, {})}]}
SomeStories == [e \in {e1, e2, "top-up"} |->
    CASE e = e1 -> {{Story(e1, e1, {r1}, {{p}})}}
      [] e = e2 -> {{}, {Story(e2, e2, {r2}, {{p, ghost}})}}
      [] OTHER  -> {{Story(e, e, {r1}, {{q}})}, {Story(e, e, {r3}, {{q}})}}]

SomeSettings == {[mode |-> "auto", first |-> TRUE], [mode |-> "auto", first |-> FALSE],
                 [mode |-> "fast", first |-> FALSE]}
=============================================================================
