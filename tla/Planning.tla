------------------------------ MODULE Planning ------------------------------
(***************************************************************************)
(* From the parsed graph to the migration plan: the seam candidates and    *)
(* their scores (seam), one story for each, their dependencies and         *)
(* delivery waves (planner), and what the seams and plan handlers          *)
(* (controlplane/analysis.py) record.                                      *)
(*                                                                         *)
(* What the graph holds of a program is a record: how often it is called,  *)
(* whether it is an entry point, what it accesses and how, its GO TOs, and *)
(* how often it changed.  A signal is a number of thousandths.             *)
(***************************************************************************)
EXTENDS Integers, SequencesExt, TLC

CONSTANTS Programs,   \* numbers, in the order of the names
          Billing     \* the resources named like billing or audit data

ASSUME PlanningAssumption == Programs \subseteq Nat \ {0} /\ IsFiniteSet(Programs)

----------------------------------------------------------------------------
(* Mutated form: a story is ready when one of its dependencies is done.    *)
ReadyTooSoon(deps, seen) == {s \in DOMAIN deps : deps[s] \cap seen # {} \/ deps[s] = {}}

----------------------------------------------------------------------------
(* seam/reader_writer.py *)

Reads(graph, p)  == {a.resource : a \in {x \in graph[p].accesses : x.intent = "read"}}
Writes(graph, p) == {a.resource : a \in {x \in graph[p].accesses : x.intent = "write"}}
Touched(graph, p) == Reads(graph, p) \cup Writes(graph, p)
ReaderOnly(graph, p) == Writes(graph, p) = {} /\ Reads(graph, p) # {}
IdentityDriftWriter(graph, p) ==
    \E q \in Programs \ {p} : Writes(graph, p) \cap Reads(graph, q) # {}

(* seam/signals.py, in thousandths: raw_signals_for_program. *)
Share(part, whole) == (1000 * Cardinality(part)) \div Cardinality(whole)
Peak(signal) == Max({1} \cup {signal[q] : q \in Programs})
AtMost(limit, n) == IF n < limit THEN n ELSE limit

Business(graph, p) ==
    AtMost(1000, (1000 * graph[p].fanIn) \div Peak([q \in Programs |-> graph[q].fanIn])
                     + (IF graph[p].entry THEN 250 ELSE 0))
SharedBy(graph, p) ==
    {r \in Touched(graph, p) : \E q \in Programs \ {p} : r \in Touched(graph, q)}
Isolation(graph, p) ==
    IF Touched(graph, p) = {} THEN 1000
    ELSE 1000 - Share(SharedBy(graph, p), Touched(graph, p))
Testability(graph, p) ==
    (IF ReaderOnly(graph, p) THEN 1000 ELSE 400) - AtMost(400, 100 * graph[p].gotos)
DataOwnership(graph, p) ==
    IF Touched(graph, p) = {} THEN 0
    ELSE Share(Touched(graph, p) \ SharedBy(graph, p), Touched(graph, p))
Risk(graph, p) ==
    (IF Writes(graph, p) # {} THEN 500 ELSE 0)
        + (IF Touched(graph, p) \cap Billing # {} THEN 300 ELSE 0)
        + (200 * graph[p].churn) \div Peak([q \in Programs |-> graph[q].churn])

(* score_signals: hundredths of thousandths; the risk counts against. *)
Weighted(graph, p) ==
    25 * Business(graph, p) + 20 * Isolation(graph, p) + 20 * Testability(graph, p)
        + 20 * DataOwnership(graph, p) - 15 * Risk(graph, p)

(* _profile, classify_seam_type: CICS, then writer, then batch, then reader *)
HasCics(graph, p) == \E a \in graph[p].accesses : a.via = "cics"
BatchIo(graph, p) ==
    /\ ~HasCics(graph, p) /\ Writes(graph, p) = {}
    /\ \E a \in graph[p].accesses : a.via = "file" /\ a.intent = "read"
SeamType(graph, p) ==
    CASE HasCics(graph, p)        -> "cics_api"
      [] Writes(graph, p) # {}    -> "db_writer"
      [] BatchIo(graph, p)        -> "batch_io"
      [] OTHER                    -> "db_reader"

(* SeamCandidate: it has no field for what the program reads or writes. *)
Candidate(graph, p) ==
    [program |-> p, seam_type |-> SeamType(graph, p), weighted |-> Weighted(graph, p),
     evidence |-> {p}, identity_drift_writer |-> IdentityDriftWriter(graph, p)]

(* rank_candidates: the best first, the order of the names among equals.   *)
Outranks(graph, p, q) ==
    \/ Weighted(graph, p) > Weighted(graph, q)
    \/ Weighted(graph, p) = Weighted(graph, q) /\ p < q
Ranked(graph, limit) ==
    LET at == [k \in 1..Cardinality(Programs) |->
                  CHOOSE p \in Programs :
                      Cardinality({q \in Programs : Outranks(graph, q, p)}) = k - 1]
    IN  [k \in 1..AtMost(limit, Cardinality(Programs)) |-> Candidate(graph, at[k])]

(* A candidate as derive_dependencies takes it, with the two lists. *)
WithAccesses(graph, c) ==
    c @@ [reads |-> Reads(graph, c.program), writes |-> Writes(graph, c.program)]

----------------------------------------------------------------------------
(* planner/dependency.py *)

(* stories_from_seam_set: the k-th candidate is story k. *)
Stories(cands) == [k \in DOMAIN cands |-> [seam |-> cands[k].program, evidence |-> {cands[k].program}]]

(* derive_dependencies: a writer's story depends on those of the readers.  *)
Listed(cand, list) == IF list \in DOMAIN cand THEN cand[list] ELSE {}
Dependencies(cands) ==
    [k \in DOMAIN cands |->
        {j \in DOMAIN cands \ {k} :
            Listed(cands[k], "writes") \cap Listed(cands[j], "reads") # {}}]

(* planner/dag.py.  Ready: the stories whose dependencies are all done. *)
Ready(deps, seen) == {s \in DOMAIN deps : deps[s] \subseteq seen}
Unseen(deps, seen) == Ready(deps, seen) \ seen
SeenAfter(deps) ==
    LET Seen[k \in Nat] ==
            IF k = 0 THEN {} ELSE Seen[k - 1] \cup Unseen(deps, Seen[k - 1])
    IN  [k \in 0..Cardinality(DOMAIN deps) |-> Seen[k]]

DeliveryWaves(deps) ==
    LET seen == SeenAfter(deps)
        size == Cardinality({k \in DOMAIN seen \ {0} : seen[k] # seen[k - 1]})
    IN  [k \in 1..size |-> seen[k] \ seen[k - 1]]

(* topo_order: the queue is served in order, and a story is queued when    *)
(* its last dependency is served.                                          *)
Sorted(S) == [k \in 1..Cardinality(S) |-> CHOOSE s \in S : Cardinality({x \in S : x < s}) = k - 1]
Served(deps, at) ==
    IF at.queue = <<>> THEN at
    ELSE LET next == Head(at.queue)
             done == Range(at.order) \cup {next}
         IN  [order |-> Append(at.order, next),
              queue |-> Tail(at.queue)
                  \o Sorted({s \in DOMAIN deps : next \in deps[s] /\ deps[s] \subseteq done})]
TopoOrder(deps) ==
    LET Kahn[k \in Nat] ==
            IF k = 0 THEN [order |-> <<>>, queue |-> Sorted(Ready(deps, {}))]
            ELSE Served(deps, Kahn[k - 1])
    IN  Kahn[Cardinality(DOMAIN deps)].order

(* is_acyclic: topo_order serves every story, and knows what it names.     *)
KnownOnly(deps) == \A s \in DOMAIN deps : deps[s] \subseteq DOMAIN deps
IsAcyclic(deps) == KnownOnly(deps) /\ Len(TopoOrder(deps)) = Cardinality(DOMAIN deps)

----------------------------------------------------------------------------
(* controlplane/analysis.py *)

Limit == 25

(* assess_plan_quality *)
PlanQuality(cands, deps) ==
    LET acyclic == IsAcyclic(deps)
    IN  /\ acyclic /\ cands # <<>>
        /\ Len(TopoOrder(deps)) = Len(cands)
        /\ UNION Range(DeliveryWaves(deps)) = DOMAIN cands
        /\ KnownOnly(deps)
        /\ \A k \in DOMAIN cands :
              /\ Stories(cands)[k].seam \in {c.program : c \in Range(cands)}
              /\ Stories(cands)[k].evidence # {}

(* assess_seam_quality, against the entities the graph knows. *)
SeamQuality(cands, known) ==
    /\ cands # <<>>
    /\ \A c \in Range(cands) :
          /\ c.evidence # {} /\ c.weighted \in Int
          /\ c.evidence \subseteq known \cup {d.program : d \in Range(cands)}

(* run_seams, run_plan: the status of the stage and of its gates.  The     *)
(* plan is what the response says.                                         *)
Status(passed) == IF passed THEN "passed" ELSE "incomplete"
RunSeams(graph) == Status(SeamQuality(Ranked(graph, Limit), Programs))
RunPlan(graph) ==
    LET cands == Ranked(graph, Limit)
        deps  == Dependencies(cands)
    IN  [stage |-> Status(PlanQuality(cands, deps)),
         seams |-> [k \in DOMAIN cands |-> cands[k].program],
         waves |-> IF IsAcyclic(deps) THEN DeliveryWaves(deps) ELSE <<>>]

----------------------------------------------------------------------------
(* Properties, of a graph. *)

(* What a cycle is, without an algorithm: stories each of which waits for  *)
(* another of them.                                                        *)
HasCycle(deps) ==
    \E S \in SUBSET DOMAIN deps : S # {} /\ \A s \in S : deps[s] \cap S # {}

WaveOf(waves, s) == CHOOSE k \in DOMAIN waves : s \in waves[k]

(* The waves of a plan exist exactly when nothing waits for itself.  They  *)
(* then hold every story once, as early as what it depends on allows, and  *)
(* the topological order serves dependencies first.                        *)
Ordered(deps) ==
    LET waves == DeliveryWaves(deps)
        order == TopoOrder(deps)
    IN  /\ IsAcyclic(deps) <=> ~HasCycle(deps)
        /\ IsAcyclic(deps) =>
              /\ \A s \in DOMAIN deps : \E k \in DOMAIN waves : s \in waves[k]
              /\ \A j, k \in DOMAIN waves : j # k => waves[j] \cap waves[k] = {}
              /\ \A s \in DOMAIN deps :
                    LET before == {WaveOf(waves, d) : d \in deps[s]}
                    IN  WaveOf(waves, s) = Max({0} \cup before) + 1
              /\ Len(order) = Cardinality(DOMAIN deps)
              /\ \A i \in DOMAIN order : deps[order[i]] \subseteq Range(SubSeq(order, 1, i - 1))

(* The plan's quality gate tells a plan without a cycle from one with it,  *)
(* and what the handler records holds, once each, as many programs as the  *)
(* limit allows, none left out that outranks one of them, whenever the     *)
(* seams themselves passed.                                                *)
WavesAreOrdered(graph) ==
    LET ranked == Ranked(graph, Limit)
        cands  == [k \in DOMAIN ranked |-> WithAccesses(graph, ranked[k])]
        deps   == Dependencies(cands)
        plan   == RunPlan(graph)
    IN  /\ Ordered(deps)
        /\ PlanQuality(cands, deps) <=> cands # <<>> /\ ~HasCycle(deps)
        /\ plan.stage = RunSeams(graph)
        /\ plan.stage = "passed" =>
              /\ UNION Range(plan.waves) = DOMAIN plan.seams
              /\ Cardinality(Range(plan.seams)) = AtMost(Limit, Cardinality(Programs))
              /\ Range(plan.seams) \subseteq Programs
              /\ \A p \in Programs, q \in Range(plan.seams) :
                    Outranks(graph, p, q) => p \in Range(plan.seams)
=============================================================================
