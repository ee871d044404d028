--------------------------- MODULE MCStoryBuild ---------------------------
(* StoryBuild on a plan of four stories: s2 and s3 both need s1, so a wave *)
(* holds two of them, and s4 needs itself.                                 *)
EXTENDS StoryBuild

CONSTANTS s1, s2, s3, s4

FourStories == {s1, s2, s3, s4}

Knot == [s \in FourStories |->
            CASE s = s1 -> {} [] s = s4 -> {s4} [] OTHER -> {s1}]
=============================================================================
