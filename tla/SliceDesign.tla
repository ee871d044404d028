---------------------------- MODULE SliceDesign ----------------------------
(***************************************************************************)
(* The design of each program that writes, as a service that owns what it  *)
(* writes (_compute_designs of controlplane/analysis.py, package design),  *)
(* and what an agent's answer adds to seams, plan and designs (package     *)
(* enrichment).  An item of an answer is [of, cited, invest]: what it says *)
(* it is about, the references it cites and its score of one dimension.    *)
(***************************************************************************)
EXTENDS DomainPlan

Writing(writes) == {p \in DOMAIN writes : writes[p] # {}}

(* Mutated form: only programs listed earlier count as writers.            *)
EarlierWriters(writes, p, r) == {q \in DOMAIN writes : q < p /\ r \in writes[q]}

----------------------------------------------------------------------------
(* _compute_designs: an owned resource is shared when any other program,   *)
(* of whatever context, writes it.                                         *)
OtherWriters(writes, p, r) == {q \in DOMAIN writes \ {p} : r \in writes[q]}
ExternalWriters(writes, p) ==
    [r \in {x \in writes[p] : OtherWriters(writes, p, x) # {}} |-> OtherWriters(writes, p, r)]

(* judge_design: an unknown reference outweighs a leak, either is low.     *)
JudgeDesign(design, known, external) ==
    LET failures == design.evidence \ known
        leaks    == design.owned \cap DOMAIN external
    IN  [groundedness_failures |-> failures, data_ownership_ok |-> leaks = {},
         rating |-> IF failures = {} /\ leaks = {} THEN "high" ELSE "low"]

ServiceDesign(writes, p) == [slice_id |-> p, owned |-> writes[p], evidence |-> {p}]
ComputeDesigns(writes, known) ==
    LET all == Sorted(Writing(writes))
        Of(p) == [design |-> ServiceDesign(writes, p),
                  report |-> JudgeDesign(ServiceDesign(writes, p), known, ExternalWriters(writes, p))]
    IN  IF known = {} THEN <<>> ELSE [k \in DOMAIN all |-> Of(all[k])]

----------------------------------------------------------------------------
(* What is kept of an answer: the last item about each thing asked for.    *)
LastAbout(items, id) == items[Max({k \in DOMAIN items : items[k].of = id})]
Narratives(ids, items, said) ==
    [id \in ids \cap {it.of : it \in Range(items)} |-> said[LastAbout(items, id)]]
GroundRefs(cited, known) ==
    LET kept == Sorted({k \in DOMAIN cited : cited[k] \in known})
    IN  [k \in DOMAIN kept |-> cited[kept[k]]]
IsGrounded(cited, known) == cited # <<>> /\ GroundRefs(cited, known) = cited

EnrichSeams(cands, known, items) ==
    Narratives({c.program : c \in Range(cands)}, items,
               [it \in Range(items) |-> [cited_refs |-> GroundRefs(it.cited, known),
                                        grounded |-> IsGrounded(it.cited, known)]])

(* enrich_plan: scores are brought between 1 and 5; those of value and     *)
(* estimate of a story with an unknown reference are at most 2.            *)
CoerceInvest(n) == Max({1, Min({5, n})})
Floored(evidence, known, n) == IF evidence \subseteq known THEN n ELSE Min({n, 2})
EnrichPlan(stories, known, items) ==
    LET ids == {s.seam : s \in Range(stories)}
        EvidenceOf(id) == UNION {s.evidence : s \in {x \in Range(stories) : x.seam = id}}
        said == [it \in Range(items) |->
                    [small |-> CoerceInvest(it.invest),
                     valuable |-> Floored(EvidenceOf(it.of), known, CoerceInvest(it.invest)),
                     groundedness_failures |-> EvidenceOf(it.of) \ known]]
    IN  Narratives(ids, items, said)

(* enrich_design looks for the slice at the top of each entry, but an      *)
(* entry of _compute_designs has it inside its design.                     *)
SliceIds(designs) == {d.slice_id : d \in {x \in Range(designs) : "slice_id" \in DOMAIN x}}
EnrichDesign(designs, known, items) ==
    Narratives(SliceIds(designs), items,
               [it \in Range(items) |-> [cited_refs |-> GroundRefs(it.cited, known)]])

----------------------------------------------------------------------------
(* Properties. *)

(* Every program that writes has one design, and it is high exactly when   *)
(* the graph knows the program and nothing else writes what it owns.  So   *)
(* of two slices that share a resource neither is high; and where all are, *)
(* the derived domain design gives no resource two owners unless it has a  *)
(* program in two contexts.                                                *)
SlicesOwnTheirData(writes, known, epics, stories) ==
    LET designs  == ComputeDesigns(writes, known)
        contexts == DeterministicDesign(writes, known, epics, stories)
        High(k)  == designs[k].report.rating = "high"
    IN  /\ {d.design.slice_id : d \in Range(designs)} = Writing(writes)
        /\ Len(designs) = Cardinality(Writing(writes))
        /\ \A j, k \in DOMAIN designs :
              j # k /\ designs[j].design.owned \cap designs[k].design.owned # {}
                  => ~High(j) /\ ~High(k)
        /\ \A k \in DOMAIN designs :
              ~High(k) => \/ designs[k].design.slice_id \notin known
                          \/ \E j \in DOMAIN designs \ {k} :
                                designs[j].design.owned \cap designs[k].design.owned # {}
        /\ (/\ \A k \in DOMAIN designs : High(k)
            /\ \A p \in DOMAIN writes : Cardinality(ContextsWith(contexts, p)) <= 1)
              => CheckDataOwnership(contexts)

(* Whatever an agent answers, of things it was not asked about, twice of   *)
(* one thing, or with references and scores out of range: a narrative is   *)
(* of a program the plan or a design has, says it is grounded only if all  *)
(* it cited is known and it cited something, and rates the value of a      *)
(* story above 2 only if the graph knows the story's evidence.             *)
NarrativesAreGrounded(graph, known, items) ==
    LET cands == Ranked(graph, Limit)
        seams == EnrichSeams(cands, known, items)
        plan  == EnrichPlan(Stories(cands), known, items)
        said  == EnrichDesign(ComputeDesigns([p \in Programs |-> Writes(graph, p)], known), known, items)
    IN  /\ DOMAIN seams = DOMAIN plan /\ DOMAIN seams \subseteq Programs
        /\ \A p \in DOMAIN said :
              Writes(graph, p) # {} /\ Range(said[p].cited_refs) \subseteq known
        /\ \A p \in DOMAIN seams :
              /\ Range(seams[p].cited_refs) \subseteq known
              /\ seams[p].grounded =>
                    \E it \in Range(items) : it.of = p /\ it.cited = seams[p].cited_refs /\ it.cited # <<>>
              /\ plan[p].valuable \in 1..5 /\ plan[p].small \in 1..5
              /\ plan[p].valuable > 2 => p \in known
=============================================================================
