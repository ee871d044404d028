--------------------------- MODULE MCDomainStage ---------------------------
(* DomainStage on two inputs that decompose into up to two contexts. *)
EXTENDS DomainStage

CONSTANTS i1, i2, c1, c2

TwoInputs   == {i1, i2}
TwoContexts == {c1, c2}
=============================================================================
