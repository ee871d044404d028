----------------------------- MODULE BuildJobs -----------------------------
(***************************************************************************)
(* The two build jobs of one workspace and what they share.  POST .../build *)
(* starts "build" (controlplane/build.py), which runs the story engine or, *)
(* with CODEGEN_MODE=legacy_slice, generates one slice; POST               *)
(* .../build/stories starts "build-stories" (build_stories.py).  The job   *)
(* runner keeps one job per name, so the two may run at once.              *)
(*                                                                         *)
(* They share the module on disk, which every story build removes and      *)
(* scaffolds anew, and two artifacts that are only ever extended: each     *)
(* version is read from the latest one and inserted under the next number, *)
(* which the database keeps unique (workspace_id, kind, version).  An      *)
(* insert waits for a transaction that holds its number and fails if that  *)
(* one committed.  run_story is an outcome here; its phases are StoryRun's *)
(* and the waves and retries of a build StoryBuild's.                      *)
(***************************************************************************)
EXTENDS Naturals, FiniteSets

CONSTANTS Stories,         \* the stories of the plan
          AcIds,           \* the acceptance criteria of each
          Modes,           \* what CODEGEN_MODE may be
          Havings,         \* what may exist when a build is posted
          RepairAttempts,  \* repair_attempts of generate_slice
          MaxPosts         \* bound: how many builds are started

Acs == UNION {AcIds[s] : s \in Stories}

ASSUME BuildJobsAssumption ==
    /\ \A s \in Stories : IsFiniteSet(AcIds[s])
    /\ Modes \subseteq {"story", "legacy_slice"}
    /\ RepairAttempts \in Nat /\ MaxPosts \in Nat

VARIABLES mode,     \* CODEGEN_MODE of the process
          pc,       \* where each job is
          posts,    \* how many builds were started
          targets,  \* the stories a job builds
          targeted, \* one story was asked for
          todo,     \* those its current round has left
          cur,      \* the story it is at
          result,   \* what run_story returned for each
          tries,    \* calls for the slice; 1 when the story loop has stopped
          seen,     \* what a job read of an artifact to extend it, if it has
          pend,     \* the rows its transaction has inserted: how many, the last
          rows,     \* the committed versions of each artifact: likewise
          module,   \* stories whose tests are in the module on disk
          slice,    \* criteria cited by the tests of the slice on disk
          torn,     \* stories whose tests were removed before their record
          status,   \* the job runner's word on each job
          stage     \* the build stage

buildVars == <<mode, pc, posts, targets, targeted, todo, cur, result, tries, seen, pend,
          rows, module, slice, torn, status, stage>>
others == <<mode, posts, targets, targeted, status, stage, slice, module, torn>>

Jobs  == {"build", "build-stories"}
Kinds == {"story_codegen_status", "generated_test_refs"}
Status == "story_codegen_status"
Refs   == "generated_test_refs"

NoStory == "no story"
NoView  == [version |-> 0]

(* Versions 1..n of an artifact; what matters of them is the last.         *)
Blank(kind) == IF kind = Status THEN [s \in Stories |-> "absent"] ELSE {}
NoRows == [k \in Kinds |-> [n |-> 0, last |-> Blank(k)]]
Extended(by, with) == IF with.n = 0 THEN by ELSE [n |-> by.n + with.n, last |-> with.last]
Plus(by, value) == [n |-> by.n + 1, last |-> value]

BuildsInit ==
    /\ mode \in Modes
    /\ pc = [j \in Jobs |-> "idle"] /\ posts = 0
    /\ targets = [j \in Jobs |-> {}] /\ targeted = [j \in Jobs |-> FALSE]
    /\ todo = [j \in Jobs |-> {}] /\ cur = [j \in Jobs |-> NoStory]
    /\ result = [j \in Jobs |-> [s \in Stories |-> "none"]]
    /\ tries = [j \in Jobs |-> 0]
    /\ seen = [j \in Jobs |-> NoView] /\ pend = [j \in Jobs |-> NoRows]
    /\ rows = NoRows
    /\ module = {} /\ slice = {} /\ torn = {}
    /\ status = [j \in Jobs |-> "none"]
    /\ stage = "open"

----------------------------------------------------------------------------
(* Mutated forms: no unique constraint; a version of the references holds  *)
(* one story's only; a clash is logged and forgotten.    *)
NeverTaken(j, kind) == FALSE
RefsOfThisStory(latest, cited) == cited
SwallowedClash(j) ==
    /\ pc[j] \in {"running", "status", "refs"} /\ seen[j] # NoView
    /\ seen[j].version <= rows["story_codegen_status"].n
    /\ seen' = [seen EXCEPT ![j] = NoView]
    /\ UNCHANGED <<pc, todo, cur, result, tries, pend, rows, others>>

(* What the transaction of j sees of an artifact.                          *)
Visible(j, kind) == Extended(rows[kind], pend[j][kind])

(* The unique constraint: the number was committed since it was read, or   *)
(* a transaction that has not ended holds it.                              *)
Taken(j, kind) == seen[j].version <= rows[kind].n
Held(j, kind) ==
    \E i \in Jobs \ {j} :
        /\ seen[j].version > rows[kind].n
        /\ seen[j].version <= rows[kind].n + pend[i][kind].n

ViewOf(j, kind) == [version |-> Visible(j, kind).n + 1, value |-> Visible(j, kind).last]
Read(j, kind) == seen[j] = NoView /\ seen' = [seen EXCEPT ![j] = ViewOf(j, kind)]

(* The next story of a loop over stories. *)
Take(j) ==
    \E s \in todo[j] :
        /\ cur' = [cur EXCEPT ![j] = s]
        /\ todo' = [todo EXCEPT ![j] = @ \ {s}]

(* session.add and flush *)
Insertable(j, kind) == seen[j] # NoView /\ ~Taken(j, kind) /\ ~Held(j, kind)
Insert(j, kind, value) ==
    /\ Insertable(j, kind)
    /\ seen' = [seen EXCEPT ![j] = NoView]
    /\ pend' = [pend EXCEPT ![j][kind] = Plus(@, value)]

Committed(j) == [k \in Kinds |-> Extended(rows[k], pend[j][k])]

Go(j, place) == pc' = [pc EXCEPT ![j] = place]

(* record_story_status: the latest map with this story's payload. *)
Recorded(map, s, payload) == [map EXCEPT ![s] = payload]

(* scan_generated_test_refs, on the module of the story builds. *)
Cited(acs) == acs \cap UNION {AcIds[s] : s \in module}
(* _record_generated_test_refs: united with the latest. *)
Merged(latest, cited) == latest \cup cited

(* What the job is about to insert, and where. *)
Writing(j) ==
    CASE pc[j] \in {"reset", "running", "status"} -> Status
      [] pc[j] \in {"refs", "slice refs"} -> Refs
      [] OTHER -> "nothing"
Payload(j) ==
    CASE pc[j] = "reset" -> "pending"
      [] pc[j] = "running" -> "running"
      [] OTHER -> result[j][cur[j]]
Value(j) ==
    CASE pc[j] = "refs" -> Merged(seen[j].value, Cited(AcIds[cur[j]]))
      [] pc[j] = "slice refs" -> Merged(seen[j].value, slice)
      [] OTHER -> Recorded(seen[j].value, cur[j], Payload(j))

(* The local state of a job that ends. *)
Leave(j) ==
    /\ Go(j, "idle")
    /\ cur' = [cur EXCEPT ![j] = NoStory] /\ todo' = [todo EXCEPT ![j] = {}]
    /\ seen' = [seen EXCEPT ![j] = NoView] /\ pend' = [pend EXCEPT ![j] = NoRows]
    /\ result' = [result EXCEPT ![j] = [s \in Stories |-> "none"]]
    /\ tries' = [tries EXCEPT ![j] = 0]
    /\ targets' = [targets EXCEPT ![j] = {}] /\ targeted' = [targeted EXCEPT ![j] = FALSE]

(* The job raises: its session is closed uncommitted. *)
Fail(j) ==
    /\ Leave(j)
    /\ status' = [status EXCEPT ![j] = "failed"]
    /\ UNCHANGED <<mode, posts, rows, module, slice, torn, stage>>

----------------------------------------------------------------------------
(* Starting a build. *)

(* build_precheck and build_stories._precheck: the repository, its BRD and, *)
(* for the story engine, the specs the plan is made of.                     *)
IsSlice(j) == j = "build" /\ mode = "legacy_slice"
Precheck(j, have) ==
    /\ {"key", "repository", "brd"} \subseteq have
    /\ ~IsSlice(j) => {"backlog", "domain", "technical"} \subseteq have

Queue(j, scope) ==
    /\ status[j] # "running" /\ posts < MaxPosts
    /\ \E have \in Havings : Precheck(j, have)
    /\ posts' = posts + 1
    /\ targets' = [targets EXCEPT ![j] = scope]
    /\ targeted' = [targeted EXCEPT ![j] = scope # Stories]
    /\ status' = [status EXCEPT ![j] = "running"]
    /\ Go(j, "start")
    /\ UNCHANGED <<mode, todo, cur, result, tries, seen, pend, rows, module, slice,
                   torn, stage>>

(* build_workspace *)
PostBuild == Queue("build", Stories)

(* build_all_stories; build_one_story, of a story of the plan. *)
PostStories ==
    \E scope \in {Stories} \cup {{s} : s \in Stories} : Queue("build-stories", scope)

(* run_story_build: the records of an earlier build are re-stamped. *)
Start(j) ==
    /\ pc[j] = "start"
    /\ result' = [result EXCEPT ![j] = [s \in Stories |-> "none"]]
    /\ tries' = [tries EXCEPT ![j] = 0]
    /\ IF IsSlice(j)
       THEN todo' = todo /\ Go(j, "draft")
       ELSE LET stale == {s \in targets[j] : Visible(j, Status).last[s] # "absent"}
            IN  /\ todo' = [todo EXCEPT ![j] = stale]
                /\ Go(j, IF stale = {} THEN "scaffold" ELSE "reset")
    /\ UNCHANGED <<cur, seen, pend, rows, others>>

(* _reset_prior_story_status: all of them, then one commit. *)
ResetNext(j) ==
    /\ pc[j] = "reset" /\ seen[j] = NoView /\ todo[j] # {}
    /\ Take(j)
    /\ Read(j, Status)
    /\ UNCHANGED <<pc, result, tries, pend, rows, others>>

Reset(j) ==
    /\ pc[j] = "reset"
    /\ Insert(j, Status, Value(j))
    /\ UNCHANGED <<pc, todo, cur, result, tries, rows, others>>

ResetDone(j) ==
    /\ pc[j] = "reset" /\ seen[j] = NoView /\ todo[j] = {}
    /\ rows' = Committed(j) /\ pend' = [pend EXCEPT ![j] = NoRows]
    /\ Go(j, "scaffold")
    /\ UNCHANGED <<todo, cur, seen, result, tries, others>>

(* scaffold_from_design: rmtree, then the shells. *)
Scaffold(j) ==
    /\ pc[j] = "scaffold"
    /\ module' = {}
    /\ torn' = torn \cup {cur[i] : i \in {i \in Jobs \ {j} : pc[i] \in {"status", "refs"}}}
    /\ todo' = [todo EXCEPT ![j] = targets[j]]
    /\ Go(j, "pick")
    /\ UNCHANGED <<mode, posts, targets, targeted, cur, result, tries, seen, pend, rows,
                   slice, status, stage>>

----------------------------------------------------------------------------
(* A story of a build. *)

(* The latest outcomes that are not accepted; the loop has stopped.        *)
FailedOf(j) == {s \in targets[j] : result[j][s] = "failed"}
Deferring(j) == tries[j] = 1

Pick(j) ==
    /\ pc[j] = "pick" /\ ~Deferring(j)
    /\ Take(j)
    /\ Read(j, Status)
    /\ Go(j, "running")
    /\ UNCHANGED <<result, tries, pend, rows, others>>

(* _record_running_phase: recorded and committed at once, with all that    *)
(* was flushed before.                                                     *)
Running(j) ==
    /\ pc[j] = "running"
    /\ Insertable(j, Status)
    /\ seen' = [seen EXCEPT ![j] = NoView]
    /\ rows' = [Committed(j) EXCEPT ![Status] = Plus(@, Value(j))]
    /\ pend' = [pend EXCEPT ![j] = NoRows]
    /\ Go(j, "work")
    /\ UNCHANGED <<todo, cur, result, tries, others>>

(* run_story: its tests are written, unless a generator raised, and it     *)
(* passes its gate only with its criteria cited.                           *)
RunStory(j) ==
    /\ pc[j] = "work"
    /\ \/ /\ module' = module \cup {cur[j]}
          /\ \E o \in {"passed", "failed"} : result' = [result EXCEPT ![j][cur[j]] = o]
       \/ /\ module' = module
          /\ result' = [result EXCEPT ![j][cur[j]] = "failed"]
    /\ torn' = torn \ {cur[j]}
    /\ Read(j, Status)
    /\ Go(j, "status")
    /\ UNCHANGED <<mode, posts, targets, targeted, todo, cur, tries, pend, rows,
                   slice, status, stage>>

(* _persist: the outcome, then the references of a story with criteria.    *)
(* What the second one extends is read before anything else happens to it. *)
PersistStatus(j) ==
    /\ pc[j] = "status"
    /\ Insertable(j, Status)
    /\ pend' = [pend EXCEPT ![j][Status] = Plus(@, Value(j))]
    /\ IF AcIds[cur[j]] = {}
       THEN seen' = [seen EXCEPT ![j] = NoView] /\ Go(j, "pick")
       ELSE seen' = [seen EXCEPT ![j] = ViewOf(j, Refs)] /\ Go(j, "refs")
    /\ UNCHANGED <<todo, cur, result, tries, rows, others>>

PersistRefs(j) ==
    /\ pc[j] = "refs"
    /\ Insert(j, Refs, Value(j))
    /\ Go(j, "pick")
    /\ UNCHANGED <<todo, cur, result, tries, rows, others>>

(* run_story_plan_until_done: once it has stopped trying, the failed ones  *)
(* are deferred and recorded once more (_mark_deferred).                   *)
Stop(j) ==
    /\ pc[j] = "pick" /\ todo[j] = {} /\ ~Deferring(j)
    /\ todo' = [todo EXCEPT ![j] = FailedOf(j)]
    /\ result' = [result EXCEPT ![j] =
                     [s \in Stories |-> IF s \in FailedOf(j) THEN "deferred" ELSE @[s]]]
    /\ tries' = [tries EXCEPT ![j] = 1]
    /\ UNCHANGED <<pc, cur, seen, pend, rows, others>>

MarkDeferred(j) ==
    /\ pc[j] = "pick" /\ Deferring(j)
    /\ Take(j)
    /\ Read(j, Status)
    /\ Go(j, "status")
    /\ UNCHANGED <<result, tries, pend, rows, others>>

(* _gate_stage: one story was built, unless one was asked for. *)
GateStage(j) == targeted[j] \/ \E s \in targets[j] : result[j][s] = "passed"

(* The stage is marked passed and everything is committed. *)
FinishBuild(j) ==
    /\ \/ pc[j] = "pick" /\ todo[j] = {} /\ Deferring(j) /\ GateStage(j)
       \/ pc[j] = "mark"
    /\ Leave(j)
    /\ rows' = Committed(j)
    /\ stage' = "passed"
    /\ status' = [status EXCEPT ![j] = "done"]
    /\ UNCHANGED <<mode, posts, module, slice, torn>>

GateFail(j) ==
    /\ pc[j] = "pick" /\ todo[j] = {} /\ Deferring(j) /\ ~GateStage(j)
    /\ Fail(j)

----------------------------------------------------------------------------
(* The slice of the legacy engine: files with tests, in at most            *)
(* RepairAttempts more calls, or the job raises.                           *)

Draft(j) ==
    /\ pc[j] = "draft" /\ tries[j] <= RepairAttempts
    /\ \/ Go(j, "write") /\ tries' = tries
       \/ pc' = pc /\ tries' = [tries EXCEPT ![j] = @ + 1]
    /\ UNCHANGED <<todo, cur, result, seen, pend, rows, others>>

NoTests(j) ==
    /\ pc[j] = "draft" /\ tries[j] > RepairAttempts
    /\ Fail(j)

(* scaffold_module and the files, over or beside those of an earlier one.  *)
WriteSlice(j) ==
    /\ pc[j] = "write"
    /\ \E cites \in SUBSET Acs : slice' \in {cites, slice \cup cites}
    /\ IF Acs = {} THEN Go(j, "mark") /\ seen' = seen
                   ELSE Go(j, "slice refs") /\ Read(j, Refs)
    /\ UNCHANGED <<mode, posts, targets, targeted, todo, cur, result, tries, pend, rows,
                   module, torn, status, stage>>

SliceRefs(j) ==
    /\ pc[j] = "slice refs"
    /\ Insert(j, Refs, Value(j))
    /\ Go(j, "mark")
    /\ UNCHANGED <<todo, cur, result, tries, rows, others>>

----------------------------------------------------------------------------
(* IntegrityError: the flush fails, and so does the handler's on the same  *)
(* session.                                                                *)
Clash(j) ==
    /\ Writing(j) # "nothing" /\ seen[j] # NoView
    /\ Taken(j, Writing(j))
    /\ Fail(j)

(* Neo4j, the disk or the model fails outside of run_story's handler. *)
Raise(j) == pc[j] \in {"start", "scaffold", "work", "draft", "write"} /\ Fail(j)

(* The process dies: the transactions with it. *)
BackendRestarts ==
    /\ \E j \in Jobs : status[j] = "running"
    /\ pc' = [j \in Jobs |-> "idle"]
    /\ cur' = [j \in Jobs |-> NoStory] /\ todo' = [j \in Jobs |-> {}]
    /\ seen' = [j \in Jobs |-> NoView] /\ pend' = [j \in Jobs |-> NoRows]
    /\ result' = [j \in Jobs |-> [s \in Stories |-> "none"]]
    /\ tries' = [j \in Jobs |-> 0]
    /\ targets' = [j \in Jobs |-> {}] /\ targeted' = [j \in Jobs |-> FALSE]
    /\ status' = [j \in Jobs |-> "none"]
    /\ UNCHANGED <<mode, posts, rows, module, slice, torn, stage>>

Step(j) ==
    \/ Start(j) \/ ResetNext(j) \/ Reset(j) \/ ResetDone(j) \/ Scaffold(j)
    \/ Clash(j) \/ Pick(j) \/ Running(j) \/ RunStory(j)
    \/ PersistStatus(j) \/ PersistRefs(j)
    \/ Stop(j) \/ MarkDeferred(j) \/ FinishBuild(j) \/ GateFail(j)
    \/ Draft(j) \/ NoTests(j) \/ WriteSlice(j) \/ SliceRefs(j)

BuildsNext == PostBuild \/ PostStories \/ (\E j \in Jobs : Step(j) \/ Raise(j)) \/ BackendRestarts

BuildsSpec == BuildsInit /\ [][BuildsNext]_buildVars

(* Every call of a job is bounded by a timeout and the database ends every *)
(* wait: each job keeps running.                                           *)
FairBuilds == BuildsSpec /\ \A j \in Jobs : WF_buildVars(Step(j))

----------------------------------------------------------------------------
(* Properties. *)

(* Two builds at once lose nothing of each other's: no step takes a        *)
(* reference away, and the outcome on record for a story changes only with *)
(* a build that was asked for that story.                                  *)
NothingLost ==
    [][ /\ rows[Refs].last \subseteq rows'[Refs].last
        /\ \A s \in Stories :
              rows'[Status].last[s] # rows[Status].last[s] =>
                  \E j \in Jobs : s \in targets[j] /\ pc'[j] # pc[j] ]_buildVars

(* The verify stage reads the references on their own: whenever a story    *)
(* is on record as passed, they hold its criteria.  A story whose module   *)
(* was removed by the other build between its gate and its record is the   *)
(* one exception.                                                          *)
PassedIsReferenced ==
    \A s \in Stories :
        /\ rows[Status].last[s] = "passed"
        /\ s \notin torn
        => AcIds[s] \subseteq rows[Refs].last

(* A build ends: neither the other one's transaction nor its versions      *)
(* can hold it for ever.                                                   *)
BuildEnds == \A j \in Jobs : status[j] = "running" ~> status[j] # "running"
=============================================================================
