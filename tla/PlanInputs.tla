----------------------------- MODULE PlanInputs -----------------------------
(***************************************************************************)
(* What the planner, the story plan and the domain design are given: a     *)
(* parsed graph, a backlog with what was designed for it, the slice of a   *)
(* design, what a domain design is derived from, or what an agent answers. *)
(* One of them is drawn, whichever it is, and the properties are of it.    *)
(***************************************************************************)
EXTENDS SliceDesign, CodegenPlan

CONSTANT Words     \* names, references and resources of an answered context

----------------------------------------------------------------------------
(* A list: a sequence of anything. *)
IsList(l) == Len(l) \in Nat /\ l = [k \in 1..Len(l) |-> l[k]]

(* A parsed graph: every program has its counts and finitely many accesses. *)
ParsedGraph(parsed) ==
    \A p \in Programs :
        /\ parsed[p].fanIn \in Nat /\ parsed[p].gotos \in Nat /\ parsed[p].churn \in Nat
        /\ IsFiniteSet(parsed[p].accesses)

(* A backlog: the readiness gate turns away one that has an id twice.      *)
IsBacklog(stories) ==
    IsList(stories) /\ \A j, k \in DOMAIN stories : stories[j].id = stories[k].id => j = k

(* A technical design and a domain design: each service's references, and  *)
(* those of its context, are lists (empty where the design has none).      *)
AreServices(services, design) ==
    /\ IsList(services)
    /\ \A v \in Range(services) :
          IsList(v.evidence) /\ IsList(design[v.context].members) /\ IsList(design[v.context].mapped)

(* The entities of a slice, by the design: of each context its members and *)
(* what maps to it, of each entity what it contains.                       *)
SliceOf(refs, names, design, contained, size) ==
    /\ design \in [names -> [members : Seq(refs), mapped : Seq(refs)]]
    /\ contained \in [refs -> Seq(refs)] /\ size \in [refs -> Nat]

(* The programs of a graph are numbered. *)
Numbered(writes) == IsFiniteSet(DOMAIN writes) /\ DOMAIN writes \subseteq Int

(* What an agent answers: contexts of references, names and resources U.   *)
AnsweredContext(U) ==
    [name : U, members : Seq(U), owned : SUBSET U, cited : SUBSET U, depends_on : SUBSET U]

(* What an agent says of the seams: an item is about anything, cites a     *)
(* list of references and has a whole score.                               *)
AreItems(items) ==
    IsList(items) /\ \A it \in Range(items) : IsList(it.cited) /\ it.invest \in Int

(* What each of the parts is given. *)
IsInput(s) ==
    \/ s.kind = "graph" /\ ParsedGraph(s.graph)
    \/ /\ s.kind = "backlog"
       /\ IsBacklog(s.stories) /\ \A t \in Range(s.stories) : IsList(t.evidence)
       /\ AreServices(s.services, s.design)
    \/ /\ s.kind = "slice"
       /\ SliceOf(DOMAIN s.size, DOMAIN s.design, s.design, s.contained, s.size)
       /\ s.named \in Seq(DOMAIN s.design) /\ s.programs \in Seq(DOMAIN s.size)
       /\ s.units \in Nat /\ s.chars \in Nat /\ {s.lo, s.hi, s.cap, s.count} \subseteq Int
    \/ s.kind = "design" /\ Numbered(s.writes) /\ s.known # {} /\ IsList(s.epics) /\ IsList(s.stories)
    \/ /\ s.kind = "answer"
       /\ ParsedGraph(s.parsed) /\ s.answers \in Seq(Seq(AnsweredContext(Words))) /\ s.repairs \in Nat
    \/ s.kind = "narrative" /\ ParsedGraph(s.parsed) /\ AreItems(s.items)

VARIABLE sample

NoSample == [kind |-> "none"]
PlanInit == sample = NoSample
Draw     == sample = NoSample /\ IsInput(sample')
PlanSpec == PlanInit /\ [][Draw]_sample

----------------------------------------------------------------------------
(* The waves and the topological order of every plan (see Ordered).        *)
EveryPlanIsOrdered == sample.kind = "graph" => WavesAreOrdered(sample.graph)

(* The work-list of every backlog: each story once, after what it depends  *)
(* on, held up only by a cycle (see WorkListIsOrdered), with what builds   *)
(* it or marked as blocked (see EveryStoryIsListed).                       *)
EveryWorkListIsWhole ==
    sample.kind = "backlog" =>
        /\ WorkListIsOrdered(sample.stories)
        /\ EveryStoryIsListed(sample.stories, sample.services, sample.design)

(* The pack of every slice (see PackIsAPrefix) and the pool of every build *)
(* (see BuildIsFunded).                                                    *)
EveryPackIsAPrefix ==
    sample.kind = "slice" =>
        /\ PackIsAPrefix(sample.design, sample.named, sample.contained, sample.programs, sample.size,
                         sample.units, sample.chars, sample.lo, sample.hi)
        /\ BuildIsFunded(sample.cap, sample.count)

(* Nothing of a backlog or of a slice's source is left out unsaid.         *)
EveryInputIsWhole == EveryWorkListIsWhole /\ EveryPackIsAPrefix

(* Every design, derived or decomposed, holds each writing program once    *)
(* when it passes its gates (see DerivedIsCovered, DecomposedIsCovered),   *)
(* a program's own design says whether it shares its data (see             *)
(* SlicesOwnTheirData), and what is said of it is grounded (see            *)
(* NarrativesAreGrounded).                                                 *)
EveryWriterIsCovered ==
    /\ sample.kind = "design" =>
          /\ DerivedIsCovered(sample.writes, sample.known, sample.epics, sample.stories)
          /\ SlicesOwnTheirData(sample.writes, sample.known, sample.epics, sample.stories)
    /\ sample.kind = "answer" =>
          DecomposedIsCovered(sample.parsed, sample.answers, sample.writers, sample.known, sample.repairs)
    /\ sample.kind = "narrative" =>
          NarrativesAreGrounded(sample.parsed, sample.known, sample.items)
=============================================================================
