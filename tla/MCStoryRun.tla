---------------------------- MODULE MCStoryRun ----------------------------
(* StoryRun in every backend with reliable commits, and, with the LLM      *)
(* implementing but not writing tests, in a restart-fresh one whose        *)
(* progress commits may fail.                                              *)
EXTENDS StoryRun

TestedModes == {m \in Mode : m.flaky => m.llmImpl /\ ~m.llmTests /\ ~m.resume}
=============================================================================
