----------------------------- MODULE DomainPlan -----------------------------
(***************************************************************************)
(* How a domain design comes about, as functions: the design derived from  *)
(* backlog and graph (domain/deterministic.py), the decomposition an agent *)
(* answers and what is computed for it (domain/decompose.py, topology.py), *)
(* the gates both are held to (domain/gates.py, quality.py), and the       *)
(* contexts the planner's stories are tagged with (planner/tagging.py).    *)
(*                                                                         *)
(* A context is [name, members, owned, cited, depends_on, mapping]; writes *)
(* says what each program writes; a title is known by its slug.            *)
(***************************************************************************)
EXTENDS Planning

CONSTANTS SlugOf(_),    \* the slug of a title or of a program
          Coverage,     \* the title of the group of stories without an epic
          NoEpic,       \* what a story without an epic names
          Capability    \* the epic such a story is counted to

----------------------------------------------------------------------------
(* Mutated forms: programs no story cites are left out. *)
NoCoverage(writes, at) == at.contexts

(* _group_stories: by epic, those of no listed epic together at the end;   *)
(* without epics by what the stories say, in the order they first say it.  *)
OfEpic(stories, epic) == {s \in Range(stories) : s.epic = epic}
Group(title, told) == [title |-> title, told |-> told]
Firsts(stories) ==
    Sorted({k \in DOMAIN stories : \A j \in 1..(k - 1) : stories[j].epic # stories[k].epic})
Orphans(stories, epics) == {s \in Range(stories) : s.epic \notin {e.id : e \in Range(epics)}}
GroupStories(epics, stories) ==
    IF epics # <<>> THEN
        Append([k \in DOMAIN epics |-> Group(epics[k].title, OfEpic(stories, epics[k].id))],
               Group(Coverage, Orphans(stories, epics)))
    ELSE LET said == [k \in DOMAIN stories |->
                         IF stories[k].epic = NoEpic THEN [stories[k] EXCEPT !.epic = Capability]
                         ELSE stories[k]]
             new  == [k \in DOMAIN Firsts(said) |-> said[Firsts(said)[k]].epic]
         IN  [k \in DOMAIN new |-> Group(new[k], OfEpic(said, new[k]))]

(* Without a backlog every program is a group. *)
GroupsOf(writes, epics, stories) ==
    IF stories # <<>> THEN GroupStories(epics, stories)
    ELSE LET all == Sorted(DOMAIN writes)
         IN  [k \in DOMAIN all |-> Group(all[k], {[epic |-> NoEpic, refs |-> {all[k]}]})]

(* generate_deterministic_domain_design: the context of a group takes the  *)
(* programs its stories cite, or else the first that nobody took; a group  *)
(* without stories has none.                                               *)
ContextOf(writes, title, members, refs) ==
    [name |-> SlugOf(title), members |-> Sorted(members), depends_on |-> {},
     owned |-> UNION {writes[p] : p \in members}, cited |-> members \cup refs,
     mapping |-> IF members # {} THEN members ELSE refs]
AddGroup(writes, known, at, group) ==
    LET refs    == UNION {s.refs : s \in group.told}
        cited   == refs \cap DOMAIN writes
        members == IF cited = {} /\ at.unassigned # {}
                   THEN {Sorted(at.unassigned)[1]} ELSE cited
    IN  IF group.told = {} THEN at
        ELSE [contexts   |-> Append(at.contexts, ContextOf(writes, group.title, members, refs \cap known)),
              unassigned |-> at.unassigned \ members]
(* Programs no group took get a context each. *)
WithCoverage(writes, at) ==
    LET left == Sorted(at.unassigned)
    IN  at.contexts \o [k \in DOMAIN left |-> ContextOf(writes, left[k], {left[k]}, {})]
DeterministicDesign(writes, known, epics, stories) ==
    LET groups == GroupsOf(writes, epics, stories)
        At[k \in 0..Len(groups)] ==
            IF k = 0 THEN [contexts |-> <<>>, unassigned |-> DOMAIN writes]
            ELSE AddGroup(writes, known, At[k - 1], groups[k])
    IN  WithCoverage(writes, At[Len(groups)])

----------------------------------------------------------------------------
(* domain/gates.py, on what an agent answers.  Mutated form: once is not   *)
(* told from twice.                                                        *)

Mentions(contexts, p) ==
    UNION {{<<k, i>> : i \in {j \in DOMAIN contexts[k].members : contexts[k].members[j] = p}} :
              k \in DOMAIN contexts}
CoveredSomewhere(contexts, writers) == \A p \in writers : Mentions(contexts, p) # {}
CheckCoverage(contexts, writers) ==
    \A p \in writers : Cardinality(Mentions(contexts, p)) = 1
Owners(contexts, r) == {c.name : c \in {x \in Range(contexts) : r \in x.owned}}
Owned(contexts) == UNION {c.owned : c \in Range(contexts)}
CheckDataOwnership(contexts) ==
    \A r \in Owned(contexts) : Cardinality(Owners(contexts, r)) <= 1

(* check_acyclic: known targets, and no name is met again on its own path. *)
Names(contexts) == {c.name : c \in Range(contexts)}
TargetsOf(contexts, names) ==
    UNION {c.depends_on : c \in {x \in Range(contexts) : x.name \in names}}
Below(contexts, name) ==
    LET Level[k \in Nat] ==
            IF k = 0 THEN TargetsOf(contexts, {name})
            ELSE Level[k - 1] \cup TargetsOf(contexts, Level[k - 1])
    IN  Level[Len(contexts)]
CheckAcyclic(contexts) ==
    /\ TargetsOf(contexts, Names(contexts)) \subseteq Names(contexts)
    /\ \A n \in Names(contexts) : n \notin Below(contexts, n)

GroundedIn(cited, known) == cited # {} /\ cited \subseteq known
CheckGrounded(contexts, known) ==
    \A c \in Range(contexts) : GroundedIn(c.cited \cup Range(c.members), known)
RunPhase1Gates(contexts, writers, known) ==
    /\ CheckCoverage(contexts, writers) /\ CheckDataOwnership(contexts)
    /\ CheckAcyclic(contexts) /\ CheckGrounded(contexts, known)

(* assess_domain_quality, of a design whose contexts are all designed.     *)
DomainQuality(contexts, known) ==
    /\ contexts # <<>>
    /\ \A j, k \in DOMAIN contexts : j # k => contexts[j].name # contexts[k].name
    /\ CheckDataOwnership(contexts)
    /\ \A c \in Range(contexts) :
          /\ c.members # <<>> /\ c.mapping # {}
          /\ c.cited \cup Range(c.members) \cup c.mapping \subseteq known

(* _parse: citations that are not known are dropped.  _apply_topology,     *)
(* extract_score, deployment_for: means of the members' signals, in        *)
(* hundredths of thousandths, against a threshold.  A member the graph     *)
(* knows but as no program has no accesses, so its isolation is whole.     *)
Parsed(contexts, known) ==
    [k \in DOMAIN contexts |-> [contexts[k] EXCEPT !.cited = @ \cap known]]
Inbound(contexts, name) ==
    Cardinality({k \in DOMAIN contexts : name \in contexts[k].depends_on})
Mean(signal, none, members) ==
    LET Sum[k \in 0..Len(members)] ==
            IF k = 0 THEN 0
            ELSE Sum[k - 1] + (IF members[k] \in Programs THEN signal[members[k]] ELSE none)
    IN  IF members = <<>> THEN 0 ELSE Sum[Len(members)] \div Len(members)
ExtractScore(graph, contexts, k) ==
    LET ms     == contexts[k].members
        iso    == [p \in Programs |-> Isolation(graph, p)]
        own    == [p \in Programs |-> DataOwnership(graph, p)]
        biz    == [p \in Programs |-> Business(graph, p)]
        risk   == [p \in Programs |-> Risk(graph, p)]
        peak   == Max({Inbound(contexts, n) : n \in Names(contexts)})
    IN  30 * Mean(iso, 1000, ms) + 25 * Mean(own, 0, ms) + 20 * Mean(biz, 0, ms) - 15 * Mean(risk, 0, ms)
            - (IF peak = 0 THEN 0 ELSE (10000 * Inbound(contexts, contexts[k].name)) \div peak)
DeploymentFor(score) == IF score >= 55000 THEN "microservice" ELSE "module"

(* assign_extraction_ranks: the contexts others depend on come last, then  *)
(* by how many do, by business value and by name, the order they are in.   *)
ExtractedBefore(graph, contexts, j, k) ==
    LET biz      == [p \in Programs |-> Business(graph, p)]
        value(i) == Mean(biz, 0, contexts[i].members)
        deps(i)  == Inbound(contexts, contexts[i].name)
    IN  \/ deps(j) < deps(k)
        \/ deps(j) = deps(k) /\ value(j) > value(k)
        \/ deps(j) = deps(k) /\ value(j) = value(k) /\ j < k
ExtractionRank(graph, contexts, k) ==
    1 + Cardinality({j \in DOMAIN contexts : ExtractedBefore(graph, contexts, j, k)})

(* decompose: of at most so many answers the first that meets the gates;   *)
(* an agent that fails ends it.  No decomposition is <<>>.                 *)
Decompose(answers, writers, known, maxRepairs) ==
    LET tried == SubSeq(answers, 1, AtMost(maxRepairs + 1, Len(answers)))
        meets(k) == RunPhase1Gates(Parsed(tried[k], known), writers, known)
        ends  == {k \in DOMAIN tried : tried[k] = <<>> \/ meets(k)}
    IN  IF ends = {} THEN <<>> ELSE Parsed(tried[Min(ends)], known)

(* tag_stories_with_contexts: the last context that has the program. *)
ContextsWith(contexts, p) == {k \in DOMAIN contexts : p \in Range(contexts[k].members)}
TagOf(contexts, p) ==
    IF ContextsWith(contexts, p) = {} THEN {}
    ELSE {contexts[Max(ContextsWith(contexts, p))].name}

----------------------------------------------------------------------------
(* Properties. *)

(* However the stories cite programs, the derived design leaves none out;  *)
(* and when it passes the quality gate, it also meets the gates an agent's *)
(* decomposition is held to, which nothing checks on this path: each       *)
(* program that writes is in one context, and that is the one the          *)
(* planner's story of it is tagged with.                                   *)
DerivedIsCovered(writes, known, epics, stories) ==
    LET contexts == DeterministicDesign(writes, known, epics, stories)
        writers  == {p \in DOMAIN writes : writes[p] # {}}
    IN  /\ \A p \in DOMAIN writes : \E c \in Range(contexts) : p \in Range(c.members)
        /\ DomainQuality(contexts, known) =>
              /\ RunPhase1Gates(contexts, writers, known)
              /\ \A p \in writers : \A c \in Range(contexts) :
                    TagOf(contexts, p) = {c.name} <=> p \in Range(c.members)

(* A decomposition that is returned leaves no writer out and none in two   *)
(* contexts, no resource has two owners, and no contexts wait for one      *)
(* another; its extraction order is a permutation in which no context that *)
(* others depend on comes before one that none does; and none is made a    *)
(* service of its own that shares more than four fifths of its data.       *)
DecomposedIsCovered(graph, answers, writers, known, maxRepairs) ==
    LET contexts == Decompose(answers, writers, known, maxRepairs)
        ranks    == [k \in DOMAIN contexts |-> ExtractionRank(graph, contexts, k)]
        drift(k) == Inbound(contexts, contexts[k].name) > 0
        needs    == [n \in Names(contexts) |-> TargetsOf(contexts, {n})]
        owning   == [p \in Programs |-> DataOwnership(graph, p)]
    IN  /\ \A p \in writers : contexts # <<>> =>
              \E k \in DOMAIN contexts : ContextsWith(contexts, p) = {k}
        /\ \A r \in Owned(contexts) : \E n \in Names(contexts) : Owners(contexts, r) = {n}
        /\ ~HasCycle(needs)
        /\ Range(ranks) = DOMAIN contexts
        /\ \A j, k \in DOMAIN contexts : drift(j) /\ ~drift(k) => ranks[k] < ranks[j]
        /\ \A k \in DOMAIN contexts :
              DeploymentFor(ExtractScore(graph, contexts, k)) = "microservice" =>
                  Mean(owning, 0, contexts[k].members) >= 200
=============================================================================
