----------------------------- MODULE StoryFiles -----------------------------
(***************************************************************************)
(* The one Java module that the stories of a workspace are built into, and *)
(* who writes it: a story build (controlplane/build_stories.py             *)
(* _real_story_build_step, codegen/story_runner.py run_story_plan and      *)
(* run_story), whose stories of a wave run under a semaphore and take      *)
(* turns only where they await a generator, and a verify repair            *)
(* (controlplane/verify_repair.py _repair_story_java).                     *)
(*                                                                         *)
(* A file is the stories whose code is in it.  A patch holds whole files:  *)
(* a generator keeps what it was shown of a file and adds its story.  That *)
(* is assumed of the LLM; the deterministic fallback does it by itself.    *)
(* Jobs come one after another here, and a build's records of accepted     *)
(* stories are those with an unchanged context (see StoryRun).             *)
(***************************************************************************)
EXTENDS Integers, FiniteSets, FiniteSetsExt, Functions

CONSTANTS Items,       \* the stories of the plan
          Needs,       \* depends_on of each
          Shells,      \* the Java files of the scaffold, numbered by their paths' order
          InPackages,  \* those in the packages of each story's service, if any
          TestFile,    \* the path of each story's acceptance test
          Settings,    \* environments of a job: [llmTests, llmImpl, fallback, resume, width]
          RepairCap,   \* repair_max_attempts
          PassCap      \* BUILD_MAX_STORY_ATTEMPTS

ASSUME FilesAssumption ==
    /\ IsFiniteSet(Items) /\ Needs \in [Items -> SUBSET Items]
    /\ Shells \subseteq Nat /\ Shells # {}
    /\ InPackages \in [Items -> SUBSET Shells]
    /\ \A x \in Settings : x.llmImpl \in BOOLEAN /\ x.width \in Int
    /\ Settings # {} /\ RepairCap \in Nat /\ PassCap \in Nat \ {0}

VARIABLES module,    \* file -> the stories whose code is in it
          tests,     \* test path -> the story whose test it holds
          at,        \* where each story of the build is
          shown,     \* the files its generator was shown
          tries,     \* its repairs in this pass
          passes,    \* passes of the build; 0 is no build
          setting,   \* the job's environment
          accepted,  \* stories whose record is accepted
          repaired   \* the last job's story and the code before it, if a repair

fileVars == <<module, tests, at, shown, tries, passes, setting, accepted, repaired>>

AtWork   == {"tests", "impl", "repair"}      \* holds the semaphore, awaits
NoRepair == [story |-> 0, before |-> {}]
NoFiles  == [f \in {} |-> {}]

(* A story's code is in the module. *)
OnDisk(s) == \E f \in DOMAIN module : s \in module[f]

----------------------------------------------------------------------------
(* Mutated forms: a patch drops what it was shown; all may start at once.  *)
TraceOnly(s, files, seen) == [f \in files |-> {s}]
NoPermits(inFlight) == TRUE

(* scaffold_from_design: the module is removed and laid out again. *)
Scaffold == [f \in Shells |-> {}]

(* _existing_java_for_story: the Java of the story's packages, or all. *)
Existing(s, files) ==
    LET mine == (DOMAIN files) \cap InPackages[s]
    IN  Restrict(files, IF mine = {} THEN DOMAIN files ELSE mine)

(* _enforce_patch_scope: exactly the files that were shown. *)
Permitted(paths, seen) == paths \subseteq DOMAIN seen

(* _write_files: files written over those there are. *)
Over(new, old) ==
    [f \in (DOMAIN new) \cup (DOMAIN old) |-> IF f \in DOMAIN new THEN new[f] ELSE old[f]]

(* A patch of the files, made from what was shown of them. *)
Patch(s, paths, seen) ==
    [f \in paths |-> (IF f \in DOMAIN seen THEN seen[f] ELSE {}) \cup {s}]

(* _deterministic_impl_patch: a trace in front of the first file. *)
FallbackPatch(s, seen) == Patch(s, {Min(DOMAIN seen)}, seen)

(* _deterministic_story_test, and what the LLM adds to the same file. *)
WithTest(s) == Over([p \in {TestFile[s]} |-> s], tests)

(* _cites_lineage: of the patch, not of the module. *)
CitesLineage(s, patch) == \E f \in DOMAIN patch : s \in patch[f]

(* The semaphore of the build. *)
HasPermit(inFlight) == Cardinality(inFlight) < (IF setting.width < 1 THEN 1 ELSE setting.width)

(* _dependency_waves: what waits for no other story left, or all of them. *)
Unblocked(left) ==
    LET free == {s \in left : Needs[s] \cap left = {}} IN IF free = {} THEN left ELSE free

----------------------------------------------------------------------------
FilesInit ==
    /\ module = NoFiles /\ tests = NoFiles
    /\ at = [s \in Items |-> "none"] /\ shown = [s \in Items |-> NoFiles]
    /\ tries = [s \in Items |-> 0]
    /\ passes = 0 /\ setting = CHOOSE x \in Settings : TRUE
    /\ accepted = {} /\ repaired = NoRepair

NoJob == passes = 0

(* _real_story_build_step for the plan or one story, after the reset of    *)
(* their records unless the build resumes.                                 *)
StartBuild(targets) ==
    /\ NoJob
    /\ setting' \in Settings
    /\ module' = Scaffold /\ tests' = NoFiles
    /\ at' = [s \in Items |-> IF s \in targets THEN "left" ELSE "none"]
    /\ tries' = [s \in Items |-> 0]
    /\ passes' = 1
    /\ accepted' = IF setting'.resume THEN accepted ELSE accepted \ targets
    /\ repaired' = NoRepair
    /\ UNCHANGED shown

In(where) == {s \in Items : at[s] \in where}

(* run_story_plan: the next wave, when all of the one before have returned. *)
StartWave ==
    /\ passes > 0 /\ In(AtWork \cup {"wave"}) = {} /\ In({"left"}) # {}
    /\ LET wave == Unblocked(In({"left"}))
       IN  at' = [s \in Items |-> IF s \in wave THEN "wave" ELSE at[s]]
    /\ UNCHANGED <<module, tests, shown, tries, passes, setting, accepted, repaired>>

(* The patch is written and the tests run; red ones are repaired from what *)
(* the module holds now, while attempts are left and the LLM is on.        *)
Settle(s, patch, verdict) ==
    /\ module' = Over(patch, module)
    /\ LET good == verdict = "green" /\ CitesLineage(s, patch)
           again == verdict = "red" /\ setting.llmImpl /\ tries[s] < RepairCap
       IN  /\ at' = [at EXCEPT ![s] = IF good THEN "built" ELSE IF again THEN "repair" ELSE "failed"]
           /\ shown' = [shown EXCEPT ![s] = IF again THEN Existing(s, module') ELSE NoFiles]
           /\ tries' = [tries EXCEPT ![s] = IF again THEN @ + 1 ELSE 0]
           /\ accepted' = IF good THEN accepted \cup {s} ELSE accepted

(* Something raised: what is written stays. *)
Raised(s) ==
    /\ at' = [at EXCEPT ![s] = "failed"] /\ shown' = [shown EXCEPT ![s] = NoFiles]
    /\ tries' = [tries EXCEPT ![s] = 0]
    /\ UNCHANGED <<module, accepted>>

(* run_story after its tests: the LLM is shown the story's files, or the   *)
(* deterministic patch of them follows at once.                            *)
Implement(s) ==
    LET seen == Existing(s, module)
    IN  IF setting.llmImpl
        THEN /\ at' = [at EXCEPT ![s] = "impl"] /\ shown' = [shown EXCEPT ![s] = seen]
             /\ UNCHANGED <<module, tries, accepted>>
        ELSE \E verdict \in {"green", "red"} : Settle(s, FallbackPatch(s, seen), verdict)

(* A story of the wave gets a permit: it is skipped, or its baseline test  *)
(* is written and the LLM asked for more.                                  *)
Enter(s) ==
    /\ at[s] = "wave" /\ HasPermit(In(AtWork))
    /\ IF s \in accepted
       THEN /\ at' = [at EXCEPT ![s] = "skipped"]
            /\ UNCHANGED <<module, tests, shown, tries, accepted>>
       ELSE /\ tests' = WithTest(s)
            /\ IF setting.llmTests
               THEN /\ at' = [at EXCEPT ![s] = "tests"]
                    /\ UNCHANGED <<module, shown, tries, accepted>>
               ELSE Implement(s)
    /\ UNCHANGED <<passes, setting, repaired>>

(* The tests were answered, or the baseline stands for them; a run of them *)
(* that raises is the story's end.                                         *)
TestsWritten(s) ==
    /\ at[s] = "tests"
    /\ tests' = WithTest(s)
    /\ Implement(s) \/ Raised(s)
    /\ UNCHANGED <<passes, setting, repaired>>

(* An implementation is answered: files out of the scope, like an agent    *)
(* that raises, lead to the fallback, made from what was shown before.     *)
Implemented(s, paths, verdict) ==
    /\ at[s] = "impl"
    /\ IF Permitted(paths, shown[s]) THEN Settle(s, Patch(s, paths, shown[s]), verdict)
       ELSE IF setting.fallback THEN Settle(s, FallbackPatch(s, shown[s]), verdict)
       ELSE Raised(s)
    /\ UNCHANGED <<tests, passes, setting, repaired>>

(* A repair is answered: no fallback here. *)
Repaired(s, paths, verdict) ==
    /\ at[s] = "repair"
    /\ IF Permitted(paths, shown[s]) THEN Settle(s, Patch(s, paths, shown[s]), verdict)
       ELSE Raised(s)
    /\ UNCHANGED <<tests, passes, setting, repaired>>

(* run_story_plan_until_done: the failed stories once more, in waves of    *)
(* their own and into the same module, or the build is over.               *)
PassOver == passes > 0 /\ In(AtWork \cup {"wave", "left"}) = {}
RetryPass ==
    /\ PassOver /\ In({"failed"}) # {} /\ passes < PassCap
    /\ at' = [s \in Items |-> IF at[s] = "failed" THEN "left" ELSE at[s]]
    /\ passes' = passes + 1
    /\ UNCHANGED <<module, tests, shown, tries, setting, accepted, repaired>>
EndBuild ==
    /\ PassOver
    /\ passes' = 0
    /\ UNCHANGED <<module, tests, at, shown, tries, setting, accepted, repaired>>

(* _repair_story_java: scaffolded again, and the LLM shown all its Java,   *)
(* without an allow-list.                                                  *)
VerifyRepair(s, paths) ==
    /\ NoJob /\ module # NoFiles
    /\ repaired' = [story |-> s, before |-> {t \in Items : OnDisk(t)}]
    /\ module' = Over(Patch(s, paths, Scaffold), Scaffold)
    /\ tests' = NoFiles
    /\ at' = [t \in Items |-> "none"]
    /\ UNCHANGED <<shown, tries, passes, setting, accepted>>

FilesNext ==
    \/ \E targets \in {Items} \cup {{s} : s \in Items} : StartBuild(targets)
    \/ StartWave \/ RetryPass \/ EndBuild
    \/ \E s \in Items :
          \/ Enter(s) \/ TestsWritten(s)
          \/ \E paths \in SUBSET Shells :
                \/ VerifyRepair(s, paths)
                \/ \E verdict \in {"green", "red", "error"} :
                      Implemented(s, paths, verdict) \/ Repaired(s, paths, verdict)

FilesSpec == FilesInit /\ [][FilesNext]_fileVars

----------------------------------------------------------------------------
(* Properties. *)

(* Although stories share files and write whole ones, a story built in     *)
(* this build keeps its code to the end of it, through later waves,        *)
(* repairs and retry passes, as long as stories run one at a time or with  *)
(* the deterministic patch; and its test, if the path is only its own.     *)
BuiltIsOnDisk ==
    \A s \in In({"built"}) :
        /\ OnDisk(s) \/ (setting.llmImpl /\ setting.width > 1)
        /\ (\A t \in Items \ {s} : TestFile[t] # TestFile[s]) =>
              TestFile[s] \in DOMAIN tests /\ tests[TestFile[s]] = s

(* A verify repair of one story leaves the code of the others as it was    *)
(* (verify_repair.py _repair_story_java: "other stories' files are         *)
(* untouched").                                                            *)
RepairIsScoped ==
    \A t \in repaired.before : t = repaired.story \/ OnDisk(t)
=============================================================================
