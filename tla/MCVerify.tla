------------------------------ MODULE MCVerify ------------------------------
(* Verify of two stories, listed in either order, or without a backlog, by *)
(* a body that matches the golden master and two that do not and name the  *)
(* same sub-slices in another order.                                       *)
EXTENDS Verify, TLC

CONSTANTS r1, r2, r3, s1, s2, same, differs, permuted, left, right

ThreeRequests == {r1, r2, r3}
TwoStories    == {s1, s2}
ThreeBodies   == {same, differs, permuted}
OnlySame      == {same}
SomeBacklogs  == {<<>>, <<s1, s2>>, <<s2, s1>>}
TwoSlices     == {left, right}
SomeParts     == [b \in ThreeBodies |-> CASE b = same     -> <<left>>
                                          [] b = differs  -> <<left, right>>
                                          [] b = permuted -> <<right, left>>]
Symmetry      == Permutations(ThreeRequests)
=============================================================================
