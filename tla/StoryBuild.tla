---------------------------- MODULE StoryBuild ----------------------------
(***************************************************************************)
(* One workspace's story build job: controlplane/build_stories.py          *)
(* run_story_build around codegen/story_runner.py run_story_plan_until_done*)
(* and run_story_plan.  The job runs the plan's stories in dependency      *)
(* waves, repeats the failed ones until they are accepted or an allotment  *)
(* (attempts, progress, token pool) is used up, re-stamps what is left as  *)
(* deferred, gates the build stage on the results and commits.             *)
(*                                                                         *)
(* One SQL session carries the whole job.  A story's terminal record is    *)
(* only flushed; it becomes durable with the next progress commit, which   *)
(* any story's running phase makes, or with the job's final commit.        *)
(*                                                                         *)
(* run_story (tests, implementation, repair, quality gate) is one outcome  *)
(* here: "passed" stands for passed and generated-unverified, which every  *)
(* line modelled in this module treats alike.                              *)
(***************************************************************************)
EXTENDS Integers, FiniteSets

CONSTANTS Stories,         \* the story ids of the codegen plan
          DependsOn,       \* depends_on of each story
          MaxAttempts,     \* BUILD_MAX_STORY_ATTEMPTS, at least 1
          Pool,            \* BUILD_TOKEN_POOL; negative disables the gate
          MaxDraw,         \* bound: tokens one run of one story may draw
          MaxConcurrency,  \* BUILD_MAX_CONCURRENCY
          Resumes,         \* what BUILD_RESUME may be of a build's process
          FlakyCommits,    \* a progress commit may fail and be swallowed
          MaxJobs          \* bound: how many builds are triggered

ASSUME BuildAssumption ==
    /\ IsFiniteSet(Stories)
    /\ DependsOn \in [Stories -> SUBSET Stories]
    /\ MaxAttempts \in Nat \ {0}
    /\ Pool \in Int
    /\ MaxDraw \in Nat
    /\ MaxConcurrency \in Nat \ {0}
    /\ Resumes \subseteq BOOLEAN
    /\ FlakyCommits \in BOOLEAN
    /\ MaxJobs \in Nat

VARIABLES pc,         \* where the job is
          jobCount,   \* how many builds were triggered
          scope,      \* the stories this build runs
          targeted,   \* POST .../build/stories/{story_id}
          passItems,  \* the stories of the current pass
          todo,       \* those not yet in a wave
          wave,       \* the current wave
          active,     \* stories of the wave inside run_story
          out,        \* their outcome in this pass
          attempts,   \* passes each story took part in
          latest,     \* latest outcome of each story, after a pass
          before,     \* accepted_before, of a retry pass
          retried,    \* a retry pass has run
          poolUsed,   \* pool_used
          session,    \* the status map as the job's session sees it
          saved,      \* the committed status map
          stage,      \* the build stage is marked passed
          cause       \* why the job failed: "gate", "raised" or "none"

vars == <<pc, jobCount, scope, targeted, passItems, todo, wave, active, out,
          attempts, latest, before, retried, poolUsed, session, saved, stage, cause>>
loopVars  == <<scope, targeted, jobCount>>
passVars  == <<passItems, todo, wave, active, out>>
tallyVars == <<attempts, latest, before, retried, poolUsed>>
storeVars == <<session, saved>>

Accepted == {"passed", "skipped"}
Built    == {"passed"}
Records  == {"absent", "pending", "running", "failed", "deferred"} \cup Accepted
Outcomes == {"none", "failed", "deferred"} \cup Accepted

TypeOK ==
    /\ pc \in {"idle", "pass", "decide", "gate", "done", "failed"}
    /\ jobCount \in 0..MaxJobs
    /\ scope \subseteq Stories /\ passItems \subseteq scope
    /\ todo \subseteq passItems /\ wave \subseteq passItems /\ active \subseteq wave
    /\ targeted \in BOOLEAN /\ retried \in BOOLEAN /\ stage \in BOOLEAN
    /\ out \in [Stories -> Outcomes] /\ latest \in [Stories -> Outcomes]
    /\ attempts \in [Stories -> 0..MaxAttempts]
    /\ before \subseteq Stories
    /\ poolUsed \in Nat
    /\ session \in [Stories -> Records] /\ saved \in [Stories -> Records]
    /\ cause \in {"none", "gate", "raised"}

Nothing == [s \in Stories |-> "none"]

Init ==
    /\ pc = "idle" /\ jobCount = 0
    /\ scope = {} /\ targeted = FALSE
    /\ passItems = {} /\ todo = {} /\ wave = {} /\ active = {}
    /\ out = Nothing /\ latest = Nothing
    /\ attempts = [s \in Stories |-> 0]
    /\ before = {} /\ retried = FALSE /\ poolUsed = 0
    /\ session = [s \in Stories |-> "absent"]
    /\ saved = [s \in Stories |-> "absent"]
    /\ stage = FALSE /\ cause = "none"

----------------------------------------------------------------------------
(* Mutated forms: the retry filter forgets the attempt cap; the pool       *)
(* admits a pass when it is exactly used up; the waves ignore dependencies, *)
(* or have no way out of a cycle; the gate accepts an all-deferred plan;   *)
(* what is deferred is not recorded.                                       *)
RetryableUncapped == {s \in scope : latest[s] = "failed"}
PoolExhaustedLate == Pool >= 0 /\ poolUsed > Pool
ReadyAtOnce(items, left) == left
WaveNoCycleExit(items, left) == {s \in left : DependsOn[s] \cap items \subseteq items \ left}
GateToleratesAll == scope # {} /\ \A s \in scope : latest[s] # "failed"
DeferUnrecorded(records) == records

(* The results run_story_plan_until_done decides on. *)
With(statuses) == {s \in scope : latest[s] \in statuses}
Failed         == With({"failed"})
AcceptedNow    == With(Accepted)
Retryable      == {s \in Failed : attempts[s] < MaxAttempts}

(* BuildBudget.pool_exhausted: no headroom left to start another attempt. *)
PoolExhausted == Pool >= 0 /\ poolUsed >= Pool

(* A retry pass that made nothing newly accepted stops the loop. *)
NoProgress == retried /\ AcceptedNow \subseteq before

(* Another pass over the retryable stories is spawned. *)
MayRetry == Retryable # {} /\ ~NoProgress /\ ~PoolExhausted

(* _reset_prior_story_status: restart-fresh re-stamps the records of the   *)
(* stories in scope; BUILD_RESUME keeps them.                              *)
Reset(records, targets, resume) ==
    [s \in Stories |->
        IF ~resume /\ s \in targets /\ records[s] # "absent"
        THEN "pending" ELSE records[s]]

(* _dependency_waves, one wave: the items whose dependencies inside this    *)
(* pass are all in earlier waves, or everything left when there is none.   *)
Ready(items, left) ==
    {s \in left : DependsOn[s] \cap items \subseteq items \ left}
NextWaveOf(items, left) ==
    IF Ready(items, left) = {} THEN left ELSE Ready(items, left)

WaveOver == active = {} /\ \A s \in wave : out[s] # "none"

(* budget.should_skip for a record whose context_hash may be unchanged. *)
MaySkip(s) == session[s] \in Accepted

(* _gate_stage: every result tolerated, and something genuinely built       *)
(* unless a single story was targeted.                                      *)
GatePasses ==
    /\ scope # {}
    /\ scope = With(Accepted \cup {"deferred"})
    /\ With(Built) # {} \/ targeted

(* The start of one pass over items. *)
EnterPass(items) ==
    /\ passItems' = items
    /\ todo' = items
    /\ wave' = {} /\ active' = {}
    /\ out' = Nothing

(* _mark_deferred re-stamps what is still failed. *)
Deferral(records) ==
    [s \in Stories |-> IF s \in Failed THEN "deferred" ELSE records[s]]

----------------------------------------------------------------------------
(* The job starts: a fresh session, prior records reset and committed, and *)
(* pass 1 over the whole plan or the one targeted story.                   *)
Start(targets, single, resume) ==
    /\ pc \in {"idle", "done", "failed"}
    /\ jobCount < MaxJobs
    /\ jobCount' = jobCount + 1
    /\ pc' = "pass"
    /\ scope' = targets
    /\ targeted' = single
    /\ EnterPass(targets)
    /\ attempts' = [s \in Stories |-> 0]
    /\ latest' = Nothing
    /\ before' = {} /\ retried' = FALSE /\ poolUsed' = 0
    /\ saved' = Reset(saved, targets, resume)
    /\ session' = saved'
    /\ cause' = "none"
    /\ UNCHANGED stage

(* run_story_plan moves on to the next wave when asyncio.gather returned. *)
NextWave ==
    /\ pc = "pass" /\ WaveOver /\ todo # {}
    /\ wave' = NextWaveOf(passItems, todo)
    /\ todo' = todo \ wave'
    /\ UNCHANGED <<pc, passItems, active, out, stage, cause>>
    /\ UNCHANGED <<loopVars, tallyVars, storeVars>>

(* _commit_progress: everything flushed so far becomes durable; a failure  *)
(* is swallowed after a rollback of the whole session.                     *)
CommitProgress(records) ==
    \/ session' = records /\ saved' = records
    \/ FlakyCommits /\ session' = saved /\ saved' = saved

(* run_story resumes: the accepted, unchanged story is recorded skipped. *)
Skip(s) ==
    /\ pc = "pass" /\ s \in wave \ active /\ out[s] = "none"
    /\ Cardinality(active) < MaxConcurrency
    /\ MaySkip(s)
    /\ out' = [out EXCEPT ![s] = "skipped"]
    /\ session' = [session EXCEPT ![s] = "skipped"]
    /\ UNCHANGED <<pc, passItems, todo, wave, active, saved, stage, cause>>
    /\ UNCHANGED <<loopVars, tallyVars>>

(* run_story starts its work: the "starting" phase is recorded, committed. *)
Begin(s) ==
    /\ pc = "pass" /\ s \in wave \ active /\ out[s] = "none"
    /\ Cardinality(active) < MaxConcurrency
    /\ active' = active \cup {s}
    /\ CommitProgress([session EXCEPT ![s] = "running"])
    /\ UNCHANGED <<pc, passItems, todo, wave, out, stage, cause>>
    /\ UNCHANGED <<loopVars, tallyVars>>

(* A later phase of a story inside run_story is recorded and committed. *)
Phase(s) ==
    /\ pc = "pass" /\ s \in active
    /\ CommitProgress([session EXCEPT ![s] = "running"])
    /\ UNCHANGED <<pc, stage, cause>>
    /\ UNCHANGED <<loopVars, passVars, tallyVars>>

(* run_story ends, by its gate or by the handler that turns an exception   *)
(* of the story's own phases into failed; _persist flushes the record.     *)
End(s, outcome, tokens) ==
    /\ pc = "pass" /\ s \in active
    /\ active' = active \ {s}
    /\ out' = [out EXCEPT ![s] = outcome]
    /\ session' = [session EXCEPT ![s] = outcome]
    /\ poolUsed' = poolUsed + tokens
    /\ UNCHANGED <<pc, passItems, todo, wave, attempts, latest, before, retried,
                   saved, stage, cause>>
    /\ UNCHANGED loopVars

(* An exception outside that handler (the context pack of a story about to *)
(* begin, the ledger, _persist): gather re-raises it, asyncio.run cancels  *)
(* the others, and the session is closed without a commit.                 *)
Abort ==
    /\ pc = "pass" /\ \E s \in wave : out[s] = "none"
    /\ pc' = "failed" /\ cause' = "raised"
    /\ active' = {}
    /\ session' = saved
    /\ UNCHANGED <<passItems, todo, wave, out, saved, stage>>
    /\ UNCHANGED <<loopVars, tallyVars>>

(* The pass is over: _one_pass counts it and takes over its results. *)
PassDone ==
    /\ pc = "pass" /\ WaveOver /\ todo = {}
    /\ pc' = "decide"
    /\ attempts' = [s \in Stories |-> IF s \in passItems THEN attempts[s] + 1
                                                          ELSE attempts[s]]
    /\ latest' = [s \in Stories |-> IF s \in passItems THEN out[s] ELSE latest[s]]
    /\ UNCHANGED <<before, retried, poolUsed, stage, cause>>
    /\ UNCHANGED <<loopVars, passVars, storeVars>>

(* A retry pass over the failed stories that are under their attempt cap. *)
Retry ==
    /\ pc = "decide" /\ MayRetry
    /\ pc' = "pass"
    /\ EnterPass(Retryable)
    /\ before' = AcceptedNow
    /\ retried' = TRUE
    /\ UNCHANGED <<attempts, latest, poolUsed, stage, cause>>
    /\ UNCHANGED <<loopVars, storeVars>>

(* The loop stops; what is still failed is re-stamped deferred, a record   *)
(* _mark_deferred flushes but does not commit.                             *)
StopLoop ==
    /\ pc = "decide" /\ ~MayRetry
    /\ pc' = "gate"
    /\ latest' = [s \in Stories |-> IF s \in Failed THEN "deferred" ELSE latest[s]]
    /\ session' = Deferral(session)
    /\ UNCHANGED <<attempts, before, retried, poolUsed, saved, stage, cause>>
    /\ UNCHANGED <<loopVars, passVars>>

(* The gate passes: the stage is marked, the job commits and is done. *)
GatePass ==
    /\ pc = "gate" /\ GatePasses
    /\ pc' = "done"
    /\ stage' = TRUE
    /\ saved' = session
    /\ UNCHANGED <<session, cause>>
    /\ UNCHANGED <<loopVars, passVars, tallyVars>>

(* The gate raises: the job fails and its session is closed uncommitted. *)
GateFail ==
    /\ pc = "gate" /\ ~GatePasses
    /\ pc' = "failed" /\ cause' = "gate"
    /\ session' = saved
    /\ UNCHANGED <<saved, stage>>
    /\ UNCHANGED <<loopVars, passVars, tallyVars>>

(* The backend dies: only what was committed is left. *)
Crash ==
    /\ pc \in {"pass", "decide", "gate"}
    /\ pc' = "idle"
    /\ active' = {}
    /\ session' = saved
    /\ UNCHANGED <<passItems, todo, wave, out, saved, stage, cause>>
    /\ UNCHANGED <<loopVars, tallyVars>>

Work ==
    \/ NextWave \/ PassDone \/ Retry \/ StopLoop \/ GatePass \/ GateFail
    \/ \E s \in Stories :
         Skip(s) \/ Begin(s)
         \/ \E o \in {"passed", "failed"}, t \in 0..MaxDraw : End(s, o, t)

Next ==
    \/ \E resume \in Resumes :
         Start(Stories, FALSE, resume) \/ \E s \in Stories : Start({s}, TRUE, resume)
    \/ \E s \in Stories : Phase(s)
    \/ Work
    \/ Abort
    \/ Crash

Spec == Init /\ [][Next]_vars

(* The worker thread keeps working: every LLM and Maven call is under a    *)
(* timeout, so a story inside run_story ends.                              *)
FairSpec == Spec /\ WF_vars(Work)

----------------------------------------------------------------------------
(* Properties. *)

(* The dependencies of a story, and theirs, do not end in a cycle: no set  *)
(* with the story in it has a dependency inside for each of its members.   *)
Untangled(s) ==
    \A S \in SUBSET Stories : s \in S => \E t \in S : DependsOn[t] \cap S = {}

(* A story is built only when the dependencies it has in the same pass are *)
(* finished, however wide the fan-out and whatever cycles other stories    *)
(* form; in a retry pass a dependency that is not retried no longer counts *)
(* (_dependency_waves over the subset).                                    *)
DependencyOrder ==
    \A s \in active : Untangled(s) =>
        \A d \in DependsOn[s] \cap passItems : out[d] # "none"

(* Within a run no accepted story is built again, and no story is begun    *)
(* beyond BUILD_MAX_STORY_ATTEMPTS passes.                                 *)
NoRebuild ==
    pc = "pass" => \A s \in passItems :
        latest[s] \notin Accepted /\ attempts[s] < MaxAttempts

(* The pool is overspent by at most what one retry pass draws: no pass is  *)
(* spawned once the tokens of the earlier ones reached BUILD_TOKEN_POOL.   *)
PoolBound ==
    Pool >= 0 /\ retried =>
        poolUsed < Pool + Cardinality(passItems) * MaxDraw

(* Retrying ends: neither what is accepted nor what used up its attempts   *)
(* is run again, and the pool bounds what all of it costs.                 *)
RetriesAreBounded == NoRebuild /\ PoolBound

(* A finished job leaves, for every story of its scope, a durable record   *)
(* that is what the job last decided, and none of them is failed.          *)
DoneIsRecorded ==
    pc = "done" => \A s \in scope :
        saved[s] = latest[s] /\ latest[s] \in Accepted \cup {"deferred"}

(* The build stage is first marked passed by a whole-plan build only in    *)
(* the same commit as the record of a story that was genuinely built.      *)
StageNeedsABuild ==
    [][stage' # stage => stage' /\ (targeted \/ \E s \in scope : saved'[s] \in Built)]_vars

(* What run_story_build reports is earned: a done job's decisions are      *)
(* durable, and the stage (_gate_stage) rests on a story really built.     *)
DoneIsEarned == []DoneIsRecorded /\ StageNeedsABuild

(* One bad story never wedges the build: the job always settles, even when *)
(* the dependencies of the plan form a cycle.                              *)
BuildSettles == pc = "pass" ~> pc \in {"done", "failed", "idle"}
=============================================================================
