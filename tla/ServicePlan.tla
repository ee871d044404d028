---------------------------- MODULE ServicePlan ----------------------------
(***************************************************************************)
(* The functions of the technical design: what is asked of the model for   *)
(* one bounded context, the design built without it, how an answer is read *)
(* into services, what is derived from them and how they are judged        *)
(* (technical_design/generator.py, quality.py, enrichment/refs.py,         *)
(* agent/context_pack.py).                                                 *)
(*                                                                         *)
(* An input is what a run loads: the contexts of the domain design, the    *)
(* stories of the backlog, the programs of the seam ranking and the names  *)
(* the graph knows.  A context is a record [name, refs, owns, to], a story *)
(* [id, context, refs]; owns counts how often a resource is listed.        *)
(***************************************************************************)
EXTENDS Naturals, FiniteSets

CONSTANTS Names,      \* names of bounded contexts
          Resources,  \* files and tables a context may own
          SlugOf,     \* _slug: the service name made of a context name
          None        \* no name

(* Mutated forms: the hash leaves the stories out; an answer is read with  *)
(* its citations as they are; a service that lists a resource twice counts *)
(* once.                                                                   *)
PackWithoutStories(c, input) ==
    [context |-> c, stories |-> {}, waves |-> input.waves,
     refs |-> c.refs \cap input.known, ids |-> {}]
Ungrounded(values, allowed) == values
ListingsByService(services, r) == {s \in services : s.owns[r] > 0}

----------------------------------------------------------------------------
(* Citations that are not known are dropped. *)
Ground(values, allowed) == values \cap allowed

(* relevant_refs: the known refs a context cites anywhere. *)
RelevantRefs(c, known) == c.refs \cap known

(* The dictionaries of the loaded JSON that have a name, respectively id. *)
Named(input)   == {c \in input.contexts : c.name # None}
Known(input)   == {c.name : c \in Named(input)}
IdsOf(stories) == {s.id : s \in stories} \ {None}

(* build_technical_service_pack and its input_hash: the key of a context's *)
(* unit is everything the model is shown for it.                           *)
Pack(c, input) ==
    [context |-> c, stories |-> input.stories, waves |-> input.waves,
     refs |-> RelevantRefs(c, input.known), ids |-> IdsOf(input.stories)]

----------------------------------------------------------------------------
(* The design without a model. *)

Single(input) == Cardinality(input.contexts) = 1

(* The refs a context cites, and the seam programs if it is the only one. *)
Evidence(c, input) ==
    Ground(c.refs \cup (IF Single(input) THEN input.waves ELSE {}), input.known)

(* _story_matches_context *)
Matches(story, c, input) ==
    \/ story.context = c.name
    \/ story.refs \cap Evidence(c, input) # {}
    \/ Single(input) /\ story.context = None

StoriesOf(c, input) == {s \in input.stories : Matches(s, c, input)}

(* _api_from_story for each of them, _default_api if there is none. *)
ApiOf(c, input) ==
    IF StoriesOf(c, input) = {} THEN {"default"} ELSE {s.id : s \in StoriesOf(c, input)}

(* The fields of a service. *)
IsService(s) ==
    s = [unit |-> s.unit, name |-> s.name, context |-> s.context, deployment |-> s.deployment,
         stories |-> s.stories, apis |-> s.apis, owns |-> s.owns, to |-> s.to, refs |-> s.refs]

FallbackService(c, input) ==
    [unit       |-> c.name,
     name       |-> SlugOf[c.name],
     context    |-> c.name,
     deployment |-> "microservice",
     stories    |-> IdsOf(StoriesOf(c, input)),
     apis       |-> ApiOf(c, input),
     owns       |-> c.owns,
     to         |-> c.to,
     refs       |-> Evidence(c, input)]

FallbackPayload(input) == {FallbackService(c, input) : c \in Named(input)}

----------------------------------------------------------------------------
(* parse_technical_design_payload *)

Coerced(deployment) ==
    IF deployment \in {"module", "microservice"} THEN deployment ELSE "module"

Parsed(s, input) ==
    [s EXCEPT !.deployment = Coerced(@),
              !.stories    = Ground(@, IdsOf(input.stories)),
              !.refs       = Ground(@, input.known)]

(* A service of a context nobody knows is dropped. *)
Parse(payload, input) ==
    {Parsed(s, input) : s \in {t \in payload : Known(input) = {} \/ t.context \in Known(input)}}

(* _database_design: a schema per service, a table per resource it lists. *)
DatabaseDesign(services) ==
    {[service |-> s.name, tables |-> {r \in Resources : s.owns[r] > 0}] : s \in services}

(* _package_structure: the base package and the packages of each service. *)
PackageStructure(services) == {None} \cup {s.name : s \in services}

(* _mermaid_component_diagram: integrations drawn between known services. *)
ComponentDiagram(services) ==
    UNION {{s.context} \X (s.to \cap {t.context : t \in services}) : s \in services}

----------------------------------------------------------------------------
(* _data_ownership_ok: no resource is listed twice, by whomever. *)
Listings(services, r) == UNION {{s} \X (1..s.owns[r]) : s \in services}
OwnershipOk(services) == \A r \in Resources : Cardinality(Listings(services, r)) <= 1

Missing(services, input) == Known(input) \ {s.context : s \in services}

(* assess_technical_design_quality *)
QualityOk(services, input) ==
    /\ Cardinality(services) >= (IF Known(input) = {} THEN 1 ELSE Cardinality(Known(input)))
    /\ PackageStructure(services) # {} /\ DatabaseDesign(services) # {}
    /\ \A s, t \in services : s.name = t.name => s = t
    /\ Missing(services, input) = {}
    /\ \A s \in services : /\ s.context \in Known(input)
                           /\ s.stories \subseteq IdsOf(input.stories)
                           /\ s.apis # {}
                           /\ s.deployment = "microservice"
    /\ \A r \in Resources : Cardinality({s.name : s \in {t \in services : t.owns[r] > 0}}) <= 1
=============================================================================
