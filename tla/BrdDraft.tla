------------------------------ MODULE BrdDraft ------------------------------
(***************************************************************************)
(* What a Business Requirements Document is made of and how it is scored,  *)
(* as functions: the split of the graph into subsystems (agent/clustering, *)
(* agent/brd_orchestrator), the merge of the drafts the agents wrote for   *)
(* them, and the judge's verdict (agent/brd_judge).                        *)
(*                                                                         *)
(* A draft is its evidence map, from requirement ids to entities; the      *)
(* sections go with it.  Entities are numbers, in the order of their names.*)
(***************************************************************************)
EXTENDS Integers, SequencesExt

CONSTANTS Ids,        \* requirement ids
          Ghost,      \* an entity the graph does not have
          MapPreview  \* how many members of a subsystem its prompt names

NoDraft == [i \in Ids |-> {}]

(* Mutated forms: trivial clusters are dropped; the smallest components    *)
(* are kept; the accuracy is not forced down.                              *)
SelectedOnly(keep, folded) == keep
Smallest(n, components) ==
    {c \in components :
        Cardinality({d \in components :
                        \/ Cardinality(d) < Cardinality(c)
                        \/ Cardinality(d) = Cardinality(c) /\ Min(d) < Min(c)}) < n}
AccuracyKept(scores, ghosts) == scores

(* detect_subsystems: connected components, as networkx finds them;        *)
(* beyond the cap, the smallest are taken for one.                         *)
Closed(graph, S) ==
    \A e \in graph.edges : {e[1], e[2]} \subseteq graph.nodes => (e[1] \in S <=> e[2] \in S)
ComponentOf(graph, n) ==
    {m \in graph.nodes : \A S \in SUBSET graph.nodes : n \in S /\ Closed(graph, S) => m \in S}
LargerFirst(c, d) ==
    \/ Cardinality(c) > Cardinality(d)
    \/ Cardinality(c) = Cardinality(d) /\ Min(c) < Min(d)
Largest(n, components) ==
    {c \in components : Cardinality({d \in components : LargerFirst(d, c)}) < n}
Overflow(graph, cap, components) ==
    LET kept == Largest(cap - 1, components)
    IN  kept \cup {UNION (components \ kept)}
DetectSubsystems(graph, cap) ==
    LET components == {ComponentOf(graph, n) : n \in graph.nodes}
    IN  IF Cardinality(components) <= cap THEN components
        ELSE Overflow(graph, cap, components)

(* _select_subsystems: those worth an agent, ones with programs and larger *)
(* ones first; the others are folded into one.                             *)
HasProgram(graph, c) == c \cap graph.programs # {}
Substantive(graph, c) == Cardinality(c) >= 2 \/ HasProgram(graph, c)
Folded(keep, folded) == IF folded = {} THEN keep ELSE keep \cup {folded}
SelectSubsystems(graph, cap) ==
    LET raw   == DetectSubsystems(graph, cap)
        fit   == {c \in raw : Substantive(graph, c)}
        first == {c \in fit : HasProgram(graph, c)}
        keep  == Largest(cap, first) \cup Largest(cap - Cardinality(first), fit \ first)
        all   == Folded(keep, UNION (raw \ keep))
    IN  IF all = {} THEN {{}} ELSE all

(* _map_prompt: the first members by name; an agent is told of no others.  *)
Preview(c) == {m \in c : Cardinality({k \in c : k < m}) < MapPreview}

(* generate_brd_graph_sync: how far the work is spread. *)
Small(graph, settings) ==
    Cardinality(graph.programs) \in 1..settings.singleShot
MaxSubsystems(graph, settings) ==
    IF Small(graph, settings) THEN 1
    ELSE Max({4, Min({settings.cap, Cardinality(graph.programs) + 2})})
MaxRetries(graph, settings) == IF Small(graph, settings) THEN 0 ELSE settings.retries

(* _merge_drafts_fallback: every pointer of every draft. *)
Pointers(drafts, i) == UNION {drafts[k][i] : k \in DOMAIN drafts}
MergeDrafts(drafts) == [i \in Ids |-> Pointers(drafts, i)]

----------------------------------------------------------------------------
(* The judge. *)
Dimensions == {"completeness", "accuracy", "clarity", "consistency", "actionability"}

(* _coerce_score, and 3 for a dimension without a score. *)
Coerce(raw) == IF raw < 1 THEN 1 ELSE IF raw > 5 THEN 5 ELSE raw
Score(answer, d) ==
    IF d \in DOMAIN answer /\ answer[d] \in Int THEN Coerce(answer[d]) ELSE 3

(* _groundedness_failures *)
Ghosts(graph, draft) == (UNION {draft[i] : i \in Ids}) \ graph.nodes

Forced(scores, ghosts) ==
    IF ghosts # {} /\ scores["accuracy"] > 2 THEN [scores EXCEPT !["accuracy"] = 2]
    ELSE scores

(* _rate, with the weights as hundredths.  The code adds floats: a sum that *)
(* is a threshold exactly may fall short of it, which "up" tells.           *)
WeightedScore(scores) ==
    25 * scores["completeness"] + 30 * scores["accuracy"]
    + 15 * (scores["clarity"] + scores["consistency"] + scores["actionability"])
Reaches(weighted, threshold, up) == weighted > threshold \/ (weighted = threshold /\ up)
Rate(scores, up) ==
    LET weighted == WeightedScore(scores)
    IN  IF Reaches(weighted, 420, up) /\ \A d \in Dimensions : scores[d] >= 3 THEN "high"
        ELSE IF Reaches(weighted, 320, up) /\ \A d \in Dimensions : scores[d] >= 2 THEN "medium"
        ELSE "low"

(* ajudge *)
Judge(graph, draft, answer, up) ==
    LET ghosts == Ghosts(graph, draft)
        scores == Forced([d \in Dimensions |-> Score(answer, d)], ghosts)
    IN  [weighted |-> WeightedScore(scores), rating |-> Rate(scores, up), ghosts |-> ghosts]
=============================================================================
