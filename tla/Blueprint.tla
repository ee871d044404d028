----------------------------- MODULE Blueprint -----------------------------
(***************************************************************************)
(* The blueprint stage of one repository (controlplane/blueprint.py over   *)
(* brd/pipeline.py).  The "blueprint" job drafts a BRD from the graph,     *)
(* judges it and tries again until one is rated high or its retries are    *)
(* spent; the best is saved as a version in Neo4j and the stage is marked. *)
(* The "blueprint-improve" job has the latest version refined and saves    *)
(* what comes back as a new one.  They are two jobs of the runner and may  *)
(* overlap.  That a job which hangs is one day superseded is JobRunner's.  *)
(*                                                                         *)
(* A version is durable when it is saved, the stage when the job commits.  *)
(***************************************************************************)
EXTENDS BrdDraft

CONSTANTS Graphs,    \* the parsed graphs a repository may have
          Settings,  \* the BRD_* environment: cap, retries, singleShot
          Drafts,    \* what an agent may write for a subsystem
          Answers,   \* what the judge may answer
          None,      \* no draft
          MaxRuns    \* bound: how many jobs are started

ASSUME BlueprintAssumption ==
    /\ \A g \in Graphs : IsFiniteSet(g.nodes) /\ g.nodes \subseteq Int /\ g.programs \subseteq g.nodes
    /\ \A s \in Settings : s.cap \in Nat \ {0} /\ s.retries \in Nat /\ s.singleShot \in Nat
    /\ MaxRuns \in Nat
    /\ MapPreview \in Nat \ {0}

VARIABLES graph,    \* the parsed graph
          setting,  \* how the process is configured
          subs,     \* the subsystems the graph splits into
          pc,       \* where each job is
          runs,     \* how many jobs were started
          prompts,  \* the members each subsystem's agent was told of
          mapped,   \* the drafts of the subsystems
          draft,    \* the draft each job has
          history,  \* the verdicts on the attempts of the blueprint job
          best,     \* the best attempt so far, or the improved draft
          base,     \* the version the improve job refines
          job,      \* the job runner's word on each job
          versions, \* the :BRD nodes
          stage     \* the blueprint stage

blueprintVars ==
    <<graph, setting, subs, pc, runs, prompts, mapped, draft, history, best, base, job, versions, stage>>
env == <<graph, setting, subs, runs>>

Jobs == {"blueprint", "blueprint-improve"}

(* A draft with the judge's report on it; none yet. *)
Attempt(d, report) == [draft |-> d, report |-> report]
NoAttempt == Attempt(NoDraft, [weighted |-> 0, rating |-> "none", ghosts |-> {}])

BlueprintInit ==
    /\ graph \in Graphs /\ setting \in Settings
    /\ subs = SelectSubsystems(graph, MaxSubsystems(graph, setting))
    /\ pc = [j \in Jobs |-> "idle"] /\ runs = 0
    /\ prompts = <<>> /\ mapped = <<>> /\ history = <<>> /\ base = 0
    /\ draft = [j \in Jobs |-> None] /\ best = [j \in Jobs |-> NoAttempt]
    /\ job = [j \in Jobs |-> "none"]
    /\ versions = <<>>
    /\ stage = "open"

----------------------------------------------------------------------------
(* Mutated forms: the last attempt is taken for the best; the attempts are *)
(* not counted.                                                            *)
LatestIsBetter(report, old) == TRUE
RecordedOnce(report) == <<report>>

Go(j, place) == pc' = [pc EXCEPT ![j] = place]

(* blueprint_workspace, blueprint_improve: a parsed graph; a BRD. *)
Post(j) ==
    /\ job[j] # "running" /\ runs < MaxRuns
    /\ IF j = "blueprint" THEN graph.nodes # {} ELSE versions # <<>>
    /\ runs' = runs + 1
    /\ job' = [job EXCEPT ![j] = "running"]
    /\ Go(j, IF j = "blueprint" THEN "map" ELSE "load")
    /\ UNCHANGED <<graph, setting, subs, prompts, mapped, draft, history, best, base, versions, stage>>

(* agenerate_brd_draft: an agent for every subsystem, told of its first    *)
(* members; one that fails leaves a stub.                                  *)
Stub == NoDraft
Map ==
    /\ pc["blueprint"] = "map"
    /\ prompts' = [c \in subs |-> Preview(c)]
    /\ mapped' \in [subs -> Drafts \cup {Stub}]
    /\ Go("blueprint", "reduce")
    /\ UNCHANGED <<env, draft, history, best, base, job, versions, stage>>

(* One draft is taken as it is; several are merged, by an agent or, when   *)
(* it fails, by _merge_drafts_fallback.                                    *)
Reduce ==
    /\ pc["blueprint"] = "reduce"
    /\ \E d \in IF Cardinality(subs) = 1 THEN Range(mapped) ELSE Drafts \cup {MergeDrafts(mapped)} :
          draft' = [draft EXCEPT !["blueprint"] = d]
    /\ prompts' = <<>> /\ mapped' = <<>>
    /\ Go("blueprint", "judge")
    /\ UNCHANGED <<env, history, best, base, job, versions, stage>>

(* agenerate_brd_graph: the better of the attempts is kept. *)
Better(report, old) == report.weighted > old.weighted
Improves(report) ==
    best["blueprint"] = NoAttempt \/ Better(report, best["blueprint"].report)

Recorded(report) == Append(history, report)

JudgeAttempt ==
    /\ pc["blueprint"] = "judge"
    /\ \E answer \in Answers, up \in BOOLEAN :
          LET report == Judge(graph, draft["blueprint"], answer, up)
          IN  /\ history' = Recorded(report)
              /\ best' = IF Improves(report)
                         THEN [best EXCEPT !["blueprint"] = Attempt(draft["blueprint"], report)]
                         ELSE best
    /\ Go("blueprint", "again")
    /\ UNCHANGED <<env, prompts, mapped, draft, base, job, versions, stage>>

MayRetry == Len(history) < MaxRetries(graph, setting) + 1 /\ Last(history).rating # "high"

Retry ==
    /\ pc["blueprint"] = "again" /\ MayRetry
    /\ Go("blueprint", "map")
    /\ draft' = [draft EXCEPT !["blueprint"] = None]
    /\ UNCHANGED <<env, prompts, mapped, history, best, base, job, versions, stage>>

StopTrying ==
    /\ pc["blueprint"] = "again" /\ ~MayRetry
    /\ Go("blueprint", "save")
    /\ UNCHANGED <<env, prompts, mapped, draft, history, best, base, job, versions, stage>>

(* BRDStorage.save: the next version, of the latest there is by then. *)
Saved(j) ==
    Append(versions, [by |-> j, base |-> IF j = "blueprint" THEN 0 ELSE base,
                      attempt |-> best[j],
                      history |-> IF j = "blueprint" THEN history ELSE <<best[j].report>>])

Save ==
    /\ pc["blueprint"] = "save"
    /\ versions' = Saved("blueprint")
    /\ Go("blueprint", "commit")
    /\ UNCHANGED <<env, prompts, mapped, draft, history, best, base, job, stage>>

(* The local state of a job that ends. *)
Leave(j) ==
    /\ Go(j, "idle")
    /\ draft' = [draft EXCEPT ![j] = None] /\ best' = [best EXCEPT ![j] = NoAttempt]
    /\ IF j = "blueprint"
       THEN prompts' = <<>> /\ mapped' = <<>> /\ history' = <<>> /\ base' = base
       ELSE base' = 0 /\ UNCHANGED <<prompts, mapped, history>>

(* run_blueprint: the stage is marked and the job commits. *)
Commit ==
    /\ pc["blueprint"] = "commit"
    /\ stage' = "passed"
    /\ job' = [job EXCEPT !["blueprint"] = "done"]
    /\ Leave("blueprint")
    /\ UNCHANGED <<env, versions>>

----------------------------------------------------------------------------
(* improve_brd_graph_sync *)

LoadLatest ==
    /\ pc["blueprint-improve"] = "load"
    /\ base' = Len(versions)
    /\ Go("blueprint-improve", "improve")
    /\ UNCHANGED <<env, prompts, mapped, draft, history, best, job, versions, stage>>

(* agenerate_brd_improvement: no draft raises, as a timeout does. *)
Improve ==
    /\ pc["blueprint-improve"] = "improve"
    /\ \E d \in Drafts : draft' = [draft EXCEPT !["blueprint-improve"] = d]
    /\ Go("blueprint-improve", "judge")
    /\ UNCHANGED <<env, prompts, mapped, history, best, base, job, versions, stage>>

JudgeImproved ==
    /\ pc["blueprint-improve"] = "judge"
    /\ \E answer \in Answers, up \in BOOLEAN :
          best' = [best EXCEPT !["blueprint-improve"] =
                      Attempt(draft["blueprint-improve"],
                              Judge(graph, draft["blueprint-improve"], answer, up))]
    /\ Go("blueprint-improve", "save")
    /\ UNCHANGED <<env, prompts, mapped, draft, history, base, job, versions, stage>>

SaveImproved ==
    /\ pc["blueprint-improve"] = "save"
    /\ versions' = Saved("blueprint-improve")
    /\ job' = [job EXCEPT !["blueprint-improve"] = "done"]
    /\ Leave("blueprint-improve")
    /\ UNCHANGED <<env, stage>>

----------------------------------------------------------------------------
(* A job raises: its answer, Neo4j, the disk or the commit fails. *)
Raise(j) ==
    /\ pc[j] # "idle"
    /\ job' = [job EXCEPT ![j] = "failed"]
    /\ Leave(j)
    /\ UNCHANGED <<env, versions, stage>>

(* blueprint_status after a restart tells from the versions alone. *)
BlueprintRestarts ==
    /\ \E j \in Jobs : job[j] = "running"
    /\ pc' = [j \in Jobs |-> "idle"]
    /\ job' = [j \in Jobs |-> "none"]
    /\ prompts' = <<>> /\ mapped' = <<>> /\ history' = <<>> /\ base' = 0
    /\ draft' = [j \in Jobs |-> None] /\ best' = [j \in Jobs |-> NoAttempt]
    /\ UNCHANGED <<env, versions, stage>>

Generating == Map \/ Reduce \/ JudgeAttempt \/ Retry \/ StopTrying \/ Save \/ Commit
Improving  == LoadLatest \/ Improve \/ JudgeImproved \/ SaveImproved

BlueprintNext == (\E j \in Jobs : Post(j) \/ Raise(j)) \/ Generating \/ Improving \/ BlueprintRestarts

BlueprintSpec == BlueprintInit /\ [][BlueprintNext]_blueprintVars

(* The steps that end whatever an agent does: the process runs on, and the *)
(* improve agent is cut off after BLUEPRINT_IMPROVE_TIMEOUT_S.  Nothing    *)
(* cuts off the map, reduce and judge calls.                               *)
Local == Retry \/ StopTrying \/ Save \/ Commit
Timed == LoadLatest \/ Improve \/ SaveImproved
FairBlueprint == BlueprintSpec /\ WF_blueprintVars(Local) /\ WF_blueprintVars(Timed)

----------------------------------------------------------------------------
(* Properties. *)

(* The version a blueprint job saves is the best of its attempts, which    *)
(* are as many as the retries allow and none after one rated high.         *)
BestIsSaved ==
    \A v \in Range(versions) : v.by = "blueprint" =>
        /\ Len(v.history) \in 1..(MaxRetries(graph, setting) + 1)
        /\ v.attempt.report \in Range(v.history)
        /\ \A k \in 1..Len(v.history) :
              /\ v.history[k].weighted <= v.attempt.report.weighted
              /\ k < Len(v.history) => v.history[k].rating # "high"

(* However the judge scores it, a document that cites an entity the graph  *)
(* does not have is not rated high, improved or not.                       *)
GroundedIsHigh ==
    \A v \in Range(versions) :
        (UNION {v.attempt.draft[i] : i \in Ids}) \ graph.nodes # {} =>
            v.attempt.report.rating # "high"

(* What is saved deserves its rating (agenerate_brd_graph, ajudge).        *)
SavedIsBest == BestIsSaved /\ GroundedIsHigh

(* The fan-out: every entity is in exactly one subsystem, of which there   *)
(* are no more than allowed, and when no agent merges their drafts no      *)
(* pointer of theirs is lost.                                              *)
FanOutIsWhole ==
    /\ UNION subs = graph.nodes
    /\ Cardinality(subs) <= MaxSubsystems(graph, setting)
    /\ \A k, l \in subs : k # l => k \cap l = {}
    /\ \A k \in DOMAIN mapped, i \in Ids : mapped[k][i] \subseteq MergeDrafts(mapped)[i]

(* An agent that is told of one entity of a component can walk to the      *)
(* others.  A component nobody is told anything of is trivial, or one of   *)
(* the smallest of more components than the cap; and it was put with       *)
(* others, after as many of them as a prompt names (detect_subsystems,     *)
(* _select_subsystems, _map_prompt).                                       *)
Told == UNION {prompts[c] : c \in DOMAIN prompts}
Outranked(c, cap) ==
    LET components == {ComponentOf(graph, n) : n \in graph.nodes}
    IN  /\ Cardinality(components) > cap
        /\ Cardinality({d \in components : LargerFirst(d, c)}) >= cap - 1
UntoldIsOverflow ==
    prompts # <<>> =>
        \A n \in graph.nodes :
            LET own == ComponentOf(graph, n)
            IN  own \cap Told = {} =>
                  /\ \E c \in subs : own \subseteq c /\ own # c /\ Cardinality(c) > MapPreview
                  /\ ~Substantive(graph, own) \/ Outranked(own, MaxSubsystems(graph, setting))

(* What no agent hears of is not dropped but overflow.                     *)
NothingDropped == FanOutIsWhole /\ UntoldIsOverflow

(* A job that does not end waits for one agent for ever: the retries do    *)
(* not go on without end, and no other step holds it up.  The calls with   *)
(* no timeout are the map and the reduce agent's and the judge's.          *)
Untimed == {"map", "reduce", "judge"}
BlueprintEnds ==
    \A j \in Jobs :
        []<>(job[j] # "running") \/ \E call \in Untimed : <>[](pc[j] = call)

=============================================================================
