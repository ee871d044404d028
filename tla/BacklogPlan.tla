---------------------------- MODULE BacklogPlan ----------------------------
(***************************************************************************)
(* The functions of the backlog stage: which refs a prompt shows, the      *)
(* backlog made without a model, how an answer is read, which requirements *)
(* a top-up round still asks for and of whom, and how a backlog is judged  *)
(* (backlog/generator.py, backlog/readiness.py, traceability/coverage.py). *)
(*                                                                         *)
(* An input is what a run loads: the BRD's requirements in order, what     *)
(* each cites and under which section title, how many sections there are,  *)
(* the names the graph knows, those of them that are logic, and the least  *)
(* coverage that passes.  An epic is [id, reqs, stories, refs], a story    *)
(* [unit, id, epic, reqs, refs, acs], where unit says which call drafted   *)
(* it and acs has the refs of each acceptance criterion.                   *)
(***************************************************************************)
EXTENDS Naturals, Sequences, FiniteSets

CONSTANTS IdPart,  \* _story_id_part: of a requirement id or a section title
          TopUp    \* COVERAGE_TOPUP_EPIC_ID

(* The requirement ids of the BRD. *)
RequirementIds(input) == {input.reqs[i] : i \in DOMAIN input.reqs}

(* The fields of an epic and of a story, and what a call returns. *)
IsEpic(e)    == e = [id |-> e.id, reqs |-> e.reqs, stories |-> e.stories, refs |-> e.refs]
IsStory(s)   == s = [unit |-> s.unit, id |-> s.id, epic |-> s.epic, reqs |-> s.reqs,
                     refs |-> s.refs, acs |-> s.acs]
IsPayload(b) ==
    /\ b = [epics |-> b.epics, stories |-> b.stories]
    /\ \A e \in b.epics : IsEpic(e)
    /\ \A s \in b.stories : IsStory(s)

(* Mutated forms: every story is filed under one id per slug; a top-up     *)
(* round asks the owners only.                                             *)
StoryIdColliding(input, i) == <<IdPart[input.reqs[i]], 1>>
UnitsOwnedOnly(epics, gaps) ==
    {[epic |-> e.id, reqs |-> gaps \cap e.reqs] : e \in {x \in epics : gaps \cap x.reqs # {}}}

----------------------------------------------------------------------------
(* Unknown citations are dropped. *)
Ground(values, allowed) == values \cap allowed

(* relevant_refs over the evidence map of some requirements, with the      *)
(* fallback of the caller: never nothing while anything is known.          *)
Cited(input, reqs) == Ground(UNION {input.cites[r] : r \in reqs}, input.known)
BrdRelevant(input) ==
    LET cited == Cited(input, RequirementIds(input))
    IN  IF cited = {} THEN input.known ELSE cited
ScopeEpicRefs(input, reqs) ==
    LET cited == Cited(input, reqs \cap RequirementIds(input))
    IN  IF cited = {} THEN BrdRelevant(input) ELSE cited

(* _sections_for_requirements, or all of them when none declares any. *)
SectionsFor(input, reqs) ==
    LET kept == reqs \cap RequirementIds(input)
    IN  IF kept = {} THEN RequirementIds(input) ELSE kept

----------------------------------------------------------------------------
(* generate_deterministic_backlog: a story per requirement, an epic per    *)
(* section title.                                                          *)

(* The suffix loop: the n-th story of a slug is numbered n. *)
StoryId(input, i) ==
    <<IdPart[input.reqs[i]],
      Cardinality({j \in 1..i : IdPart[input.reqs[j]] = IdPart[input.reqs[i]]})>>

DeterministicStory(input, i) ==
    LET refs == Ground(input.cites[input.reqs[i]], input.known)
    IN  [unit |-> "deterministic", id |-> StoryId(input, i),
         epic |-> IdPart[input.title[input.reqs[i]]],
         reqs |-> {input.reqs[i]}, refs |-> refs, acs |-> {refs}]

DeterministicEpic(input, title) ==
    LET own == {i \in DOMAIN input.reqs : input.title[input.reqs[i]] = title}
    IN  [id |-> IdPart[title], reqs |-> {input.reqs[i] : i \in own},
         stories |-> {StoryId(input, i) : i \in own},
         refs |-> Cited(input, {input.reqs[i] : i \in own})]

DeterministicBacklog(input) ==
    [epics   |-> {DeterministicEpic(input, input.title[r]) : r \in RequirementIds(input)},
     stories |-> {DeterministicStory(input, i) : i \in DOMAIN input.reqs}]

----------------------------------------------------------------------------
(* The completeness loop. *)

CoveredRequirements(stories) == UNION {s.reqs : s \in stories}

(* What a top-up round asks for: a gap goes to an epic that owns it, one   *)
(* unit per epic id, the others to the catch-all epic, which is created or *)
(* extended and then asked for them alone.  With several owners the first  *)
(* asked is any.                                                           *)
Owner(epics, r) == CHOOSE e \in epics : r \in e.reqs
Orphans(epics, gaps) == {r \in gaps : \A e \in epics : r \notin e.reqs}

WithTopUp(epics, orphans) ==
    CASE orphans = {} -> epics
      [] orphans # {} /\ \E e \in epics : e.id = TopUp ->
           {IF e.id = TopUp THEN [e EXCEPT !.reqs = @ \cup orphans] ELSE e : e \in epics}
      [] OTHER -> epics \cup
           {[id |-> TopUp, reqs |-> orphans, stories |-> {}, refs |-> {}]}

TopUpUnits(epics, gaps) ==
    LET orphans == Orphans(epics, gaps)
        owned   == gaps \ orphans
        ids     == {Owner(epics, r).id : r \in owned}
    IN  {[epic |-> id, reqs |-> {r \in owned : Owner(epics, r).id = id}] :
           id \in {x \in ids : orphans = {} \/ x # TopUp}}
        \cup (IF orphans = {} THEN {} ELSE {[epic |-> TopUp, reqs |-> orphans]})

----------------------------------------------------------------------------
(* parse_backlog_payload raises for a story without acceptance criteria. *)
Parseable(payload) == \A s \in payload.stories : s.acs # {}

ParsedEpic(e, input) ==
    [id |-> e.id, reqs |-> Ground(e.reqs, RequirementIds(input)), stories |-> e.stories,
     refs |-> Ground(e.refs, input.known)]
ParsedStory(s, input) ==
    [unit |-> s.unit, id |-> s.id, epic |-> s.epic,
     reqs |-> Ground(s.reqs, RequirementIds(input)), refs |-> Ground(s.refs, input.known),
     acs  |-> {Ground(refs, input.known) : refs \in s.acs}]
Parse(payload, input) ==
    [epics   |-> {ParsedEpic(e, input) : e \in payload.epics},
     stories |-> {ParsedStory(s, input) : s \in payload.stories}]

(* The evidence map has one entry per story id, of the last story of the   *)
(* id (which of several that is, is any here).                             *)
Evidence(stories) == {(CHOOSE s \in stories : s.id = id).refs : id \in {s.id : s \in stories}}
(* brd_logic_coverage, as a percentage against the least that passes. *)
CoverageOk(backlog, input) ==
    LET covered == (UNION Evidence(backlog.stories)) \cap input.logic
    IN  100 * Cardinality(covered) >= input.min * Cardinality(input.logic)

(* assess_backlog_readiness *)
Ready(backlog, input) ==
    LET ids == {s.id : s \in backlog.stories}
    IN  /\ CoveredRequirements(backlog.stories) = RequirementIds(input)
        /\ CoverageOk(backlog, input)
        /\ \A s, t \in backlog.stories : s.id = t.id => s = t
        /\ \A s \in backlog.stories :
              /\ s.epic \in {e.id : e \in backlog.epics}
              /\ s.reqs # {} /\ s.refs # {} /\ s.refs \subseteq input.known
              /\ s.acs # {} /\ {} \notin s.acs /\ UNION s.acs \subseteq input.known
        /\ \A e \in backlog.epics : e.stories \subseteq ids /\ e.refs \subseteq input.known
=============================================================================
