---------------------------- MODULE MCBuildJobs ----------------------------
(* BuildJobs on two stories, one of which has no criteria of its own.      *)
EXTENDS BuildJobs

CONSTANTS s1, s2, a1

Criteria == [s \in {s1, s2} |-> IF s = s1 THEN {a1} ELSE {}]
SomeHavings == {{"key", "repository", "brd"},
                {"key", "repository", "brd", "backlog", "domain", "technical"}}
=============================================================================
