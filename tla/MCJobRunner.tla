---------------------------- MODULE MCJobRunner ----------------------------
(* JobRunner with two request threads.  Keys never interact except through *)
(* Restart, so one is enough.                                              *)
EXTENDS JobRunner

CONSTANTS c1, c2, k1

TwoCallers == {c1, c2}
OneKey == {k1}
=============================================================================
