------------------------- MODULE StoryBuildProofs -------------------------
(***************************************************************************)
(* Proofs about StoryBuild for every plan, dependency relation, attempt    *)
(* cap, pool and fan-out width: type correctness, the order of dependent   *)
(* stories, no rebuild of an accepted story, the bound the pool sets to    *)
(* retries, and the durability of what a finished build decided when no    *)
(* progress commit is lost; and, after them, about StoryFiles, the Java    *)
(* module such a build writes.                                             *)
(***************************************************************************)
EXTENDS StoryBuild, StoryFiles, FiniteSetTheorems, WellFoundedInduction, TLAPS

(* What is neither waiting nor in the current wave has had its turn; what  *)
(* is inside run_story has no outcome yet.                                 *)
WaveShape ==
    /\ todo \cap wave = {}
    /\ \A s \in passItems \ (todo \cup wave) : out[s] # "none"
    /\ \A s \in active : out[s] = "none"
    /\ pc # "pass" => active = {}

(* No story of the current wave waits for one that is not finished. *)
WaveSound ==
    \A s \in wave : Untangled(s) => DependsOn[s] \cap passItems \cap (todo \cup wave) = {}

(* The session's record of a story is the outcome of this pass, if it had  *)
(* its turn, and the latest one if it is not part of the pass.             *)
RecordOfPass ==
    pc = "pass" => \A s \in scope :
        /\ s \in passItems /\ out[s] # "none" => session[s] = out[s]
        /\ s \notin passItems => session[s] = latest[s]

RecordOfLoop ==
    /\ pc \in {"decide", "gate", "done"} => \A s \in scope : session[s] = latest[s]
    /\ pc = "done" => saved = session

(* The inductive invariant. *)
IInv ==
    /\ TypeOK
    /\ WaveShape
    /\ WaveSound
    /\ NoRebuild
    /\ FlakyCommits = FALSE => RecordOfPass /\ RecordOfLoop /\ DoneIsRecorded

LEMMA Bounds ==
    /\ DependsOn \in [Stories -> SUBSET Stories]
    /\ MaxAttempts \in Nat \ {0} /\ MaxDraw \in Nat /\ MaxJobs \in Nat
BY BuildAssumption, Zenon DEF BuildAssumption

USE Bounds

(* As long as a story waits whose dependencies form no cycle, some story   *)
(* depends on none that waits: it is not in a wave that breaks a cycle.    *)
LEMMA WaveIsReady ==
    ASSUME NEW items \in SUBSET Stories, NEW left \in SUBSET items,
           NEW s \in NextWaveOf(items, left), s \in left, Untangled(s)
    PROVE  DependsOn[s] \cap items \cap left = {}
<1>1. PICK t \in left : DependsOn[t] \cap left = {}
  BY DEF Untangled
<1>2. t \in Ready(items, left)
  BY <1>1 DEF Ready
<1>3. NextWaveOf(items, left) = Ready(items, left)
  BY <1>2 DEF NextWaveOf
<1> QED
  BY <1>3 DEF Ready

LEMMA InitInv == Init => IInv
<1> SUFFICES ASSUME Init PROVE IInv
  OBVIOUS
<1>1. attempts \in [Stories -> 0..MaxAttempts] /\ jobCount \in 0..MaxJobs
  BY DEF Init
<1>2. TypeOK
  BY <1>1 DEF Init, TypeOK, Nothing, Records, Outcomes, Accepted
<1>3. WaveShape /\ WaveSound /\ NoRebuild /\ RecordOfPass /\ RecordOfLoop
      /\ DoneIsRecorded
  BY DEF Init, WaveShape, WaveSound, NoRebuild, RecordOfPass, RecordOfLoop, DoneIsRecorded
<1> QED
  BY <1>2, <1>3 DEF IInv

(* Every step preserves the inductive invariant. *)
LEMMA NextInv == IInv /\ [Next]_vars => IInv'
<1> SUFFICES ASSUME IInv, [Next]_vars PROVE IInv'
  OBVIOUS
<1> USE DEF IInv, loopVars, passVars, tallyVars, storeVars, Accepted
<1>1. ASSUME NEW targets \in SUBSET Stories, NEW single \in BOOLEAN,
             NEW resume \in BOOLEAN, Start(targets, single, resume)
      PROVE  IInv'
  <2> USE <1>1 DEF Start, EnterPass
  <2>1. TypeOK'
    <3>1. saved' \in [Stories -> Records] /\ session' = saved'
      BY DEF TypeOK, Reset, Records
    <3>2. attempts' \in [Stories -> 0..MaxAttempts] /\ jobCount' \in 0..MaxJobs
      BY DEF TypeOK
    <3> QED
      BY <3>1, <3>2 DEF TypeOK, Outcomes, Nothing
  <2>2. WaveShape' /\ WaveSound' /\ NoRebuild'
    <3>1. \A s \in Stories : latest'[s] = "none" /\ attempts'[s] = 0
      BY DEF Nothing
    <3>2. NoRebuild'
      BY <3>1 DEF NoRebuild
    <3> QED
      BY <3>2 DEF WaveShape, WaveSound
  <2>3. RecordOfPass' /\ RecordOfLoop' /\ DoneIsRecorded'
    BY DEF TypeOK, RecordOfPass, RecordOfLoop, DoneIsRecorded, Nothing
  <2> QED
    BY <2>1, <2>2, <2>3
<1>2. CASE NextWave
  <2> USE <1>2 DEF NextWave
  <2>1. NextWaveOf(passItems, todo) \subseteq todo
    BY DEF NextWaveOf, Ready
  <2>2. TypeOK'
    BY <2>1 DEF TypeOK, WaveOver
  <2>3. WaveShape'
    <3>1. todo' \cup wave' = todo
      BY <2>1
    <3> QED
      BY <2>1, <3>1 DEF WaveShape, WaveOver, TypeOK
  <2>4. WaveSound'
    <3> SUFFICES ASSUME NEW s \in wave', Untangled(s)
                 PROVE  DependsOn[s] \cap passItems \cap (todo' \cup wave') = {}
      BY DEF WaveSound, Untangled
    <3>1. /\ passItems \in SUBSET Stories /\ todo \in SUBSET passItems
          /\ todo' \cup wave' = todo
      BY <2>1 DEF TypeOK
    <3> QED
      BY <3>1, WaveIsReady
  <2>5. NoRebuild' /\ RecordOfPass' = RecordOfPass /\ RecordOfLoop' = RecordOfLoop
        /\ DoneIsRecorded' = DoneIsRecorded
    BY DEF NoRebuild, RecordOfPass, RecordOfLoop, DoneIsRecorded
  <2> QED
    BY <2>2, <2>3, <2>4, <2>5
<1>3. ASSUME NEW s \in Stories, Skip(s) PROVE IInv'
  <2> USE <1>3 DEF Skip
  <2>1. TypeOK'
    BY DEF TypeOK, Outcomes, Records
  <2>2. WaveShape' /\ WaveSound' /\ NoRebuild'
    BY DEF TypeOK, WaveShape, WaveSound, NoRebuild, Untangled
  <2>3. (FlakyCommits = FALSE => RecordOfPass /\ RecordOfLoop /\ DoneIsRecorded)'
    BY DEF TypeOK, RecordOfPass, RecordOfLoop, DoneIsRecorded
  <2> QED
    BY <2>1, <2>2, <2>3
<1>4. ASSUME NEW s \in Stories, Begin(s) \/ Phase(s) PROVE IInv'
  <2>1. /\ pc = "pass" /\ s \in wave /\ out[s] = "none"
        /\ active' = active \cup {s}
        /\ CommitProgress([session EXCEPT ![s] = "running"])
        /\ UNCHANGED <<pc, passItems, todo, wave, out, stage, cause>>
        /\ UNCHANGED <<loopVars, tallyVars>>
    BY <1>4 DEF Begin, Phase, WaveShape, TypeOK
  <2>2. TypeOK'
    BY <2>1 DEF TypeOK, CommitProgress, Records
  <2>3. WaveShape' /\ WaveSound' /\ NoRebuild'
    BY <2>1 DEF TypeOK, WaveShape, WaveSound, NoRebuild, Untangled
  <2>4. (FlakyCommits = FALSE => RecordOfPass /\ RecordOfLoop /\ DoneIsRecorded)'
    BY <2>1 DEF TypeOK, RecordOfPass, RecordOfLoop, DoneIsRecorded, CommitProgress
  <2> QED
    BY <2>2, <2>3, <2>4
<1>5. ASSUME NEW s \in Stories, NEW o \in {"passed", "failed"}, NEW t \in 0..MaxDraw,
             End(s, o, t)
      PROVE  IInv'
  <2> USE <1>5 DEF End
  <2>1. TypeOK'
    <3>1. poolUsed' \in Nat
      BY DEF TypeOK
    <3>2. out' \in [Stories -> Outcomes] /\ session' \in [Stories -> Records]
      BY DEF TypeOK, Outcomes, Records
    <3> QED
      BY <3>1, <3>2 DEF TypeOK
  <2>2. WaveShape' /\ WaveSound' /\ NoRebuild'
    BY DEF TypeOK, WaveShape, WaveSound, NoRebuild, Untangled
  <2>3. (FlakyCommits = FALSE => RecordOfPass /\ RecordOfLoop /\ DoneIsRecorded)'
    BY DEF TypeOK, RecordOfPass, RecordOfLoop, DoneIsRecorded
  <2> QED
    BY <2>1, <2>2, <2>3
<1>6. CASE Abort \/ Crash
  <2>1. /\ pc' \in {"idle", "failed"} /\ cause' \in {cause, "raised"}
        /\ active' = {} /\ session' = saved /\ saved' = saved
        /\ UNCHANGED <<passItems, todo, wave, out, stage, loopVars, tallyVars>>
    BY <1>6 DEF Abort, Crash
  <2>2. TypeOK'
    BY <2>1 DEF TypeOK
  <2>3. WaveShape' /\ WaveSound' /\ NoRebuild' /\ RecordOfPass' /\ RecordOfLoop'
        /\ DoneIsRecorded'
    BY <2>1 DEF WaveShape, WaveSound, NoRebuild, RecordOfPass, RecordOfLoop,
                DoneIsRecorded, Untangled
  <2> QED
    BY <2>2, <2>3
<1>7. CASE PassDone
  <2> USE <1>7 DEF PassDone
  <2>1. \A s \in passItems : out[s] # "none"
    BY DEF WaveShape, WaveOver, TypeOK
  <2>2. TypeOK'
    <3>1. ASSUME NEW s \in Stories PROVE attempts'[s] \in 0..MaxAttempts
      BY DEF TypeOK, NoRebuild
    <3>2. attempts' \in [Stories -> 0..MaxAttempts]
      BY <3>1
    <3>3. latest' \in [Stories -> Outcomes]
      BY DEF TypeOK
    <3> QED
      BY <3>2, <3>3 DEF TypeOK
  <2>3. WaveShape' /\ WaveSound' /\ NoRebuild'
    BY DEF WaveShape, WaveSound, NoRebuild, Untangled, WaveOver
  <2>4. (FlakyCommits = FALSE => RecordOfPass /\ RecordOfLoop /\ DoneIsRecorded)'
    BY <2>1 DEF TypeOK, RecordOfPass, RecordOfLoop, DoneIsRecorded
  <2> QED
    BY <2>2, <2>3, <2>4
<1>8. CASE Retry
  <2> USE <1>8 DEF Retry, EnterPass
  <2>1. Retryable \subseteq scope /\ AcceptedNow \subseteq scope
    BY DEF Retryable, Failed, AcceptedNow, With
  <2>2. TypeOK'
    BY <2>1 DEF TypeOK, Outcomes, Nothing
  <2>3. WaveShape' /\ WaveSound'
    BY DEF WaveShape, WaveSound
  <2>4. NoRebuild'
    BY DEF NoRebuild, Retryable, Failed, With
  <2>5. (FlakyCommits = FALSE => RecordOfPass /\ RecordOfLoop /\ DoneIsRecorded)'
    BY <2>1 DEF TypeOK, RecordOfPass, RecordOfLoop, DoneIsRecorded, Nothing
  <2> QED
    BY <2>2, <2>3, <2>4, <2>5
<1>9. CASE StopLoop
  <2> USE <1>9 DEF StopLoop
  <2>1. TypeOK'
    BY DEF TypeOK, Outcomes, Records, Deferral
  <2>2. WaveShape' /\ WaveSound' /\ NoRebuild'
    BY DEF WaveShape, WaveSound, NoRebuild, Untangled
  <2>3. (FlakyCommits = FALSE => RecordOfPass /\ RecordOfLoop /\ DoneIsRecorded)'
    BY DEF TypeOK, RecordOfPass, RecordOfLoop, DoneIsRecorded, Deferral
  <2> QED
    BY <2>1, <2>2, <2>3
<1>10. CASE GatePass
  <2> USE <1>10 DEF GatePass
  <2>1. TypeOK' /\ WaveShape' /\ WaveSound' /\ NoRebuild'
    BY DEF TypeOK, WaveShape, WaveSound, NoRebuild, Untangled
  <2>2. \A s \in scope : latest[s] \in Accepted \cup {"deferred"}
    BY DEF GatePasses, With
  <2>3. (FlakyCommits = FALSE => RecordOfPass /\ RecordOfLoop /\ DoneIsRecorded)'
    BY <2>2 DEF RecordOfPass, RecordOfLoop, DoneIsRecorded
  <2> QED
    BY <2>1, <2>3
<1>11. CASE GateFail
  <2> USE <1>11 DEF GateFail
  <2>1. TypeOK' /\ WaveShape' /\ WaveSound' /\ NoRebuild'
    BY DEF TypeOK, WaveShape, WaveSound, NoRebuild, Untangled
  <2>2. (FlakyCommits = FALSE => RecordOfPass /\ RecordOfLoop /\ DoneIsRecorded)'
    BY DEF RecordOfPass, RecordOfLoop, DoneIsRecorded
  <2> QED
    BY <2>1, <2>2
<1>12. CASE UNCHANGED vars
  BY <1>12 DEF vars, TypeOK, WaveShape, WaveSound, NoRebuild, RecordOfPass,
               RecordOfLoop, DoneIsRecorded, Untangled
<1>13. /\ Stories \in SUBSET Stories /\ \A s \in Stories : {s} \in SUBSET Stories
       /\ Resumes \subseteq BOOLEAN
  BY BuildAssumption DEF BuildAssumption
<1> QED
  BY <1>1, <1>2, <1>3, <1>4, <1>5, <1>6, <1>7, <1>8, <1>9, <1>10, <1>11, <1>12, <1>13
  DEF Next, Work

(* The inductive invariant holds in every reachable state. *)
THEOREM Invariance == Spec => []IInv
<1>1. Init => IInv
  BY InitInv
<1>2. IInv /\ [Next]_vars => IInv'
  BY NextInv
<1> QED
  BY <1>1, <1>2, PTL DEF Spec

(* Type correctness; attempts never exceed BUILD_MAX_STORY_ATTEMPTS. *)
THEOREM TypeCorrect == Spec => []TypeOK
BY Invariance, PTL DEF IInv

(* Dependent stories of a pass never overlap, whatever the fan-out. *)
THEOREM Ordered == Spec => []DependencyOrder
<1>1. IInv => DependencyOrder
  BY DEF IInv, TypeOK, WaveShape, WaveSound, DependencyOrder
<1> QED
  BY <1>1, Invariance, PTL

(* No accepted story is rebuilt, none is begun beyond its attempt cap. *)
THEOREM NeverRebuilt == Spec => []NoRebuild
BY Invariance, PTL DEF IInv

(* A finished build's decisions are durable, as long as no progress commit *)
(* is lost.                                                                *)
THEOREM DoneIsDurable ==
    ASSUME FlakyCommits = FALSE PROVE Spec => []DoneIsRecorded
<1>1. IInv => DoneIsRecorded
  BY DEF IInv
<1> QED
  BY <1>1, Invariance, PTL

(* The stage is first marked passed together with a durable built story. *)
THEOREM StageIsEarned ==
    ASSUME FlakyCommits = FALSE PROVE Spec => StageNeedsABuild
<1>1. IInv /\ [Next]_vars =>
        [stage' # stage => stage' /\ (targeted \/ \E s \in scope : saved'[s] \in Built)]_vars
  <2> SUFFICES ASSUME IInv, Next, stage' # stage
               PROVE  stage' /\ (targeted \/ \E s \in scope : saved'[s] \in Built)
    BY DEF vars
  <2>1. GatePass
    BY DEF Next, Work, Start, NextWave, Skip, Begin, Phase, End, Abort, PassDone,
           Retry, StopLoop, GateFail, Crash, IInv, TypeOK
  <2>2. \A s \in scope : session[s] = latest[s]
    BY <2>1 DEF IInv, RecordOfLoop, GatePass
  <2> QED
    BY <2>1, <2>2 DEF GatePass, GatePasses, With, IInv, TypeOK
<1> QED
  BY <1>1, Invariance, PTL DEF Spec, StageNeedsABuild

(* Both together: what run_story_build reports is earned, as long as no    *)
(* progress commit is lost.                                                *)
THEOREM BuildIsEarned ==
    ASSUME FlakyCommits = FALSE PROVE Spec => DoneIsEarned
BY DoneIsDurable, StageIsEarned, PTL DEF DoneIsEarned
----------------------------------------------------------------------------
(* The pool.  A retry pass is entered below BUILD_TOKEN_POOL, and each of  *)
(* its stories that had its turn drew at most once.                        *)
Finished == {s \in passItems : out[s] # "none"}

PoolInv == Pool >= 0 /\ retried => poolUsed < Pool + Cardinality(Finished) * MaxDraw

LEMMA OneMoreDraw ==
    ASSUME NEW n \in Nat, NEW d \in Nat
    PROVE  n * d \in Nat /\ (n + 1) * d = n * d + d
OBVIOUS

LEMMA MoreDraws ==
    ASSUME NEW n \in Nat, NEW k \in Nat, NEW d \in Nat, n <= k
    PROVE  n * d <= k * d
OBVIOUS

(* The stories of a pass are finitely many. *)
LEMMA FinishedIsFinite ==
    ASSUME TypeOK
    PROVE  /\ IsFiniteSet(passItems) /\ IsFiniteSet(Finished)
           /\ Cardinality(passItems) \in Nat /\ Cardinality(Finished) \in Nat
           /\ Cardinality(Finished) <= Cardinality(passItems)
<1>1. IsFiniteSet(Stories) /\ passItems \in SUBSET Stories
  BY BuildAssumption DEF BuildAssumption, TypeOK
<1>2. IsFiniteSet(passItems)
  BY <1>1, FS_Subset
<1>3. Finished \in SUBSET passItems
  BY DEF Finished
<1>4. IsFiniteSet(Finished) /\ Cardinality(Finished) <= Cardinality(passItems)
  BY <1>2, <1>3, FS_Subset
<1> QED
  BY <1>2, <1>4, FS_CardinalityType

(* A story that has its turn draws at most MaxDraw tokens. *)
LEMMA TurnDraws ==
    ASSUME IInv, PoolInv, NEW s \in passItems, out[s] = "none",
           NEW o \in Outcomes \ {"none"}, NEW t \in 0..MaxDraw,
           out' = [out EXCEPT ![s] = o], poolUsed' = poolUsed + t,
           UNCHANGED <<passItems, retried>>
    PROVE  PoolInv'
<1>1. /\ TypeOK /\ poolUsed \in Nat /\ Pool \in Int /\ t \in Nat /\ t <= MaxDraw
  BY BuildAssumption DEF BuildAssumption, IInv, TypeOK
<1>2. Finished' = Finished \cup {s} /\ s \notin Finished
  BY <1>1 DEF Finished, TypeOK, Outcomes
<1>3. Cardinality(Finished') = Cardinality(Finished) + 1 /\ Cardinality(Finished) \in Nat
  BY <1>1, <1>2, FinishedIsFinite, FS_AddElement
<1>4. /\ Cardinality(Finished') * MaxDraw = Cardinality(Finished) * MaxDraw + MaxDraw
      /\ Cardinality(Finished) * MaxDraw \in Nat
  BY <1>3, OneMoreDraw
<1> QED
  BY <1>1, <1>4 DEF PoolInv

LEMMA PoolStep == IInv /\ PoolInv /\ [Next]_vars => PoolInv'
<1> SUFFICES ASSUME IInv, PoolInv, [Next]_vars PROVE PoolInv'
  OBVIOUS
<1> USE DEF loopVars, passVars, tallyVars
<1>1. ASSUME NEW targets, NEW single, NEW resume, Start(targets, single, resume)
      PROVE  PoolInv'
  BY <1>1 DEF Start, PoolInv
<1>2. ASSUME NEW s \in Stories, Skip(s) PROVE PoolInv'
  <2>1. /\ s \in passItems /\ out[s] = "none" /\ "skipped" \in Outcomes \ {"none"}
        /\ 0 \in 0..MaxDraw /\ poolUsed' = poolUsed + 0
        /\ out' = [out EXCEPT ![s] = "skipped"] /\ UNCHANGED <<passItems, retried>>
    BY <1>2 DEF Skip, IInv, TypeOK, Outcomes, Accepted
  <2> QED
    BY <2>1, TurnDraws
<1>3. ASSUME NEW s \in Stories, NEW o \in {"passed", "failed"}, NEW t \in 0..MaxDraw,
             End(s, o, t)
      PROVE  PoolInv'
  <2>1. s \in passItems /\ out[s] = "none" /\ o \in Outcomes \ {"none"}
    BY <1>3 DEF End, IInv, TypeOK, WaveShape, Outcomes, Accepted
  <2> QED
    BY <1>3, <2>1, TurnDraws DEF End
<1>4. CASE Retry
  <2>1. /\ Finished' = {} /\ poolUsed' = poolUsed
        /\ Pool >= 0 => ~(poolUsed >= Pool)
    BY <1>4 DEF Retry, EnterPass, Finished, Nothing, MayRetry, PoolExhausted, Retryable,
                Failed, With, IInv, TypeOK
  <2>2. Cardinality(Finished') * MaxDraw = 0
    BY <2>1, FS_EmptySet
  <2> QED
    BY <2>1, <2>2, BuildAssumption DEF PoolInv, IInv, TypeOK, BuildAssumption
<1>5. CASE \/ NextWave \/ PassDone \/ StopLoop \/ GatePass \/ GateFail \/ Abort \/ Crash
           \/ UNCHANGED vars
           \/ \E s \in Stories : Begin(s) \/ Phase(s)
  <2>1. UNCHANGED <<passItems, out, retried, poolUsed>>
    BY <1>5 DEF NextWave, PassDone, StopLoop, GatePass, GateFail, Abort, Crash, Begin, Phase, vars
  <2> QED
    BY <2>1 DEF PoolInv, Finished
<1> QED
  BY <1>1, <1>2, <1>3, <1>4, <1>5 DEF Next, Work

(* The retries of a build end within their allotment: no accepted story is *)
(* in a later pass, none beyond its attempt cap, and the token pool is     *)
(* overspent by at most one draw of each story of the last pass.           *)
THEOREM RetriesBounded == Spec => []RetriesAreBounded
<1>1. Init => PoolInv
  BY DEF Init, PoolInv
<1>2. IInv /\ PoolInv => RetriesAreBounded
  <2> SUFFICES ASSUME IInv, PoolInv, Pool >= 0, retried
               PROVE  poolUsed < Pool + Cardinality(passItems) * MaxDraw
    BY DEF RetriesAreBounded, PoolBound, IInv
  <2>1. /\ Cardinality(Finished) \in Nat /\ Cardinality(passItems) \in Nat
        /\ Cardinality(Finished) <= Cardinality(passItems)
    BY FinishedIsFinite DEF IInv
  <2>2. /\ Cardinality(Finished) * MaxDraw <= Cardinality(passItems) * MaxDraw
        /\ Cardinality(Finished) * MaxDraw \in Nat /\ Cardinality(passItems) * MaxDraw \in Nat
    BY <2>1, MoreDraws, OneMoreDraw
  <2> QED
    BY <2>2, BuildAssumption DEF PoolInv, IInv, TypeOK, BuildAssumption
<1> QED
  BY <1>1, <1>2, PoolStep, Invariance, PTL DEF Spec

----------------------------------------------------------------------------
(* The files of a build.  A story at work is the only one, or only the     *)
(* deterministic patch writes; then what a writer was shown of a file is   *)
(* what the file still holds, and a patch takes nothing away.              *)
OneAtATime == setting.width <= 1
Guarded == OneAtATime \/ ~setting.llmImpl

(* The module as a build found it laid out, and what generators were shown. *)
LaidOut ==
    /\ setting \in Settings
    /\ at \in [Items -> {"none", "left", "wave", "tests", "impl", "repair", "built", "failed", "skipped"}]
    /\ shown = [s \in Items |-> shown[s]]
    /\ \A s \in Items : at[s] # "none" => DOMAIN module = Shells
    /\ \A s \in In({"impl", "repair"}) :
          /\ setting.llmImpl
          /\ DOMAIN shown[s] \subseteq Shells /\ DOMAIN shown[s] # {}
          /\ OneAtATime => \A f \in DOMAIN shown[s] : shown[s][f] = module[f]

Alone == OneAtATime => \A s, t \in In(AtWork) : s = t

OwnTest(s) == \A t \in Items \ {s} : TestFile[t] # TestFile[s]
Tested ==
    \A s \in In(AtWork \cup {"built"}) :
        OwnTest(s) => TestFile[s] \in DOMAIN tests /\ tests[TestFile[s]] = s

Lasting == Guarded => \A s \in In({"built"}) : OnDisk(s)

(* The inductive invariant of the files. *)
FilesInv == LaidOut /\ Alone /\ Tested /\ Lasting

LEMMA FilesBounds ==
    /\ IsFiniteSet(Items) /\ Shells \subseteq Nat /\ Shells # {} /\ Settings # {}
    /\ \A x \in Settings : x.llmImpl \in BOOLEAN /\ x.width \in Int
BY FilesAssumption DEF FilesAssumption

(* A set of numbers has a least one: of the intervals up to its members,   *)
(* which are finite, one contains no other.                                *)
LEMMA LeastOfShells ==
    ASSUME NEW S \in SUBSET Nat, S # {}
    PROVE  Min(S) \in S
<1> DEFINE U == {0..n : n \in S}
           R == StrictSubsetOrdering(Nat)
<1>1. \A T \in U : T \subseteq Nat /\ IsFiniteSet(T)
  <2> SUFFICES ASSUME NEW n \in S PROVE 0..n \subseteq Nat /\ IsFiniteSet(0..n)
    OBVIOUS
  <2>1. 0 \in Int /\ n \in Int
    OBVIOUS
  <2> QED  BY <2>1, FS_Interval
<1>2. U \subseteq FiniteSubsetsOf(Nat) /\ U # {}
  BY <1>1 DEF FiniteSubsetsOf
<1>3. IsWellFoundedOn(R, FiniteSubsetsOf(Nat))
  BY FS_StrictSubsetOrderingWellFounded
<1>4. PICK T \in U : \A V \in U : <<V, T>> \notin R
  <2> HIDE DEF U, R
  <2> QED  BY <1>2, <1>3, WFMin
<1>5. PICK x \in S : T = 0..x
  OBVIOUS
<1>6. ASSUME NEW y \in S, y < x PROVE FALSE
  <2>1. 0..y \in U /\ 0..y \subseteq T /\ 0..y # T
    BY <1>5, <1>6
  <2>2. <<0..y, T>> \in R
    BY <1>1, <2>1 DEF StrictSubsetOrdering
  <2> QED  BY <1>4, <2>1, <2>2
<1>7. \E z \in S : \A y \in S : z <= y
  BY <1>6
<1> QED  BY <1>7 DEF Min

(* What a story's files are. *)
LEMMA ExistingFiles ==
    ASSUME NEW s, NEW files, DOMAIN files = Shells
    PROVE  /\ DOMAIN Existing(s, files) \subseteq Shells /\ DOMAIN Existing(s, files) # {}
           /\ \A f \in DOMAIN Existing(s, files) : Existing(s, files)[f] = files[f]
BY FilesBounds DEF Existing, Restrict

(* A patch over a module: the files of the patch, then those of the module. *)
LEMMA Patched ==
    ASSUME NEW f, NEW g
    PROVE  /\ DOMAIN Over(f, g) = (DOMAIN f) \cup (DOMAIN g)
           /\ \A x \in DOMAIN f : Over(f, g)[x] = f[x]
           /\ \A x \in (DOMAIN g) \ (DOMAIN f) : Over(f, g)[x] = g[x]
BY DEF Over

LEMMA PatchKeeps ==
    ASSUME NEW s, NEW seen, NEW paths, paths \subseteq DOMAIN seen
    PROVE  /\ DOMAIN Patch(s, paths, seen) = paths
           /\ \A f \in paths : seen[f] \subseteq Patch(s, paths, seen)[f]
           /\ \A f \in paths : s \in Patch(s, paths, seen)[f]
BY DEF Patch

LEMMA FallbackKeeps ==
    ASSUME NEW s, NEW seen, DOMAIN seen \subseteq Shells, DOMAIN seen # {}
    PROVE  /\ DOMAIN FallbackPatch(s, seen) \subseteq DOMAIN seen
           /\ \A f \in DOMAIN FallbackPatch(s, seen) : seen[f] \subseteq FallbackPatch(s, seen)[f]
<1>1. Min(DOMAIN seen) \in DOMAIN seen
  BY LeastOfShells, FilesBounds
<1> QED  BY <1>1, PatchKeeps DEF FallbackPatch

LEMMA FewerThanOne ==
    ASSUME NEW S, IsFiniteSet(S), Cardinality(S) < 1
    PROVE  S = {}
<1>1. Cardinality(S) \in Nat
  BY FS_CardinalityType
<1>2. Cardinality(S) = 0
  BY <1>1
<1> QED  BY <1>2, FS_EmptySet

(* Who gets a permit when stories run one at a time finds nobody at work. *)
LEMMA PermitAlone ==
    ASSUME LaidOut, OneAtATime, HasPermit(In(AtWork))
    PROVE  In(AtWork) = {}
<1> DEFINE S == In(AtWork)
<1>1. IsFiniteSet(S)
  BY FilesBounds, FS_Subset DEF In
<1>2. Cardinality(S) < 1
  BY FilesBounds DEF HasPermit, OneAtATime, LaidOut
<1> HIDE DEF S
<1>3. S = {}
  BY <1>1, <1>2, FewerThanOne
<1> QED  BY <1>3 DEF S

LEMMA BaselineTest ==
    ASSUME NEW s, tests' = WithTest(s)
    PROVE  /\ TestFile[s] \in DOMAIN tests' /\ tests'[TestFile[s]] = s
           /\ \A p \in DOMAIN tests : p # TestFile[s] => p \in DOMAIN tests' /\ tests'[p] = tests[p]
<1> DEFINE f == [p \in {TestFile[s]} |-> s]
<1>1. tests' = Over(f, tests)
  BY DEF WithTest
<1>2. DOMAIN f = {TestFile[s]} /\ f[TestFile[s]] = s
  OBVIOUS
<1> HIDE DEF f
<1>3. /\ DOMAIN Over(f, tests) = (DOMAIN f) \cup (DOMAIN tests)
      /\ \A x \in DOMAIN f : Over(f, tests)[x] = f[x]
      /\ \A x \in (DOMAIN tests) \ (DOMAIN f) : Over(f, tests)[x] = tests[x]
  BY ONLY Patched
<1> QED  BY <1>1, <1>2, <1>3

(* The tests when only s moved on, from its turn or its baseline test. *)
LEMMA TestedStep ==
    ASSUME Tested, NEW s \in Items, tests' = WithTest(s),
           \A t \in Items \ {s} : at'[t] = at[t]
    PROVE  Tested'
<1> SUFFICES ASSUME NEW t \in In(AtWork \cup {"built"})', OwnTest(t)
             PROVE  TestFile[t] \in DOMAIN tests' /\ tests'[TestFile[t]] = t
  BY DEF Tested, OwnTest
<1>1. CASE t = s
  BY <1>1, BaselineTest
<1>2. CASE t # s
  <2>1. t \in In(AtWork \cup {"built"})
    BY <1>2 DEF In
  <2>2. TestFile[s] # TestFile[t]
    BY <1>2 DEF OwnTest
  <2> QED  BY <2>1, <2>2, BaselineTest DEF Tested
<1> QED  BY <1>1, <1>2

LEMMA TestedSame ==
    ASSUME Tested, UNCHANGED tests, In(AtWork \cup {"built"})' \subseteq In(AtWork \cup {"built"})
    PROVE  Tested'
BY DEF Tested, OwnTest

----------------------------------------------------------------------------
LEMMA FilesStart == FilesInit => FilesInv
<1> SUFFICES ASSUME FilesInit PROVE FilesInv
  OBVIOUS
<1>1. \A where : "none" \notin where => In(where) = {}
  BY DEF FilesInit, In
<1>2. setting \in Settings
  BY FilesBounds DEF FilesInit
<1>3. LaidOut
  BY <1>1, <1>2 DEF FilesInit, LaidOut
<1>4. Alone /\ Tested /\ Lasting
  BY <1>1 DEF Alone, Tested, Lasting, AtWork
<1> QED  BY <1>3, <1>4 DEF FilesInv

(* A job that lays the module out anew: nothing is built yet. *)
LEMMA LaidOutAnew ==
    ASSUME FilesInv, setting' \in Settings, UNCHANGED shown,
           \/ at' \in [Items -> {"left", "none"}] /\ DOMAIN module' = Shells
           \/ at' = [t \in Items |-> "none"]
    PROVE  FilesInv'
<1>1. \A where : where \cap {"left", "none"} = {} => In(where)' = {}
  BY DEF In
<1>2. LaidOut'
  BY <1>1 DEF LaidOut, FilesInv
<1>3. Alone' /\ Tested' /\ Lasting'
  BY <1>1 DEF Alone, Tested, Lasting, AtWork
<1> QED  BY <1>2, <1>3 DEF FilesInv

(* Nothing is written and nobody starts to work. *)
LEMMA NothingWritten ==
    ASSUME FilesInv, UNCHANGED <<module, tests, setting, shown>>,
           at' \in [Items -> {"none", "left", "wave", "tests", "impl", "repair", "built", "failed", "skipped"}],
           \A s \in Items :
              \/ at'[s] = at[s]
              \/ at[s] # "none" /\ at'[s] \in {"left", "wave", "skipped"}
    PROVE  FilesInv'
<1>1. \A s \in Items : at'[s] \in AtWork \cup {"built"} => at'[s] = at[s]
  BY DEF AtWork
<1>2. LaidOut'
  BY <1>1 DEF FilesInv, LaidOut, In, OneAtATime, AtWork
<1>3. Alone'
  BY <1>1 DEF FilesInv, Alone, In, OneAtATime
<1>4. Tested'
  <2>1. In(AtWork \cup {"built"})' \subseteq In(AtWork \cup {"built"})
    BY <1>1 DEF In
  <2> QED  BY <2>1, TestedSame DEF FilesInv
<1>5. Lasting'
  BY <1>1 DEF FilesInv, Lasting, In, Guarded, OneAtATime, OnDisk
<1> QED  BY <1>2, <1>3, <1>4, <1>5 DEF FilesInv

(* Story s alone moves on to its implementation or to its end, while it    *)
(* works or as it starts to; with one at a time nobody else works.         *)
Turn(s) ==
    /\ s \in Items /\ at[s] # "none" /\ UNCHANGED setting
    /\ at' \in [Items -> {"none", "left", "wave", "tests", "impl", "repair", "built", "failed", "skipped"}]
    /\ shown' = [t \in Items |-> shown'[t]]
    /\ at'[s] \in {"tests", "impl", "repair", "built", "failed"}
    /\ \A t \in Items \ {s} : at'[t] = at[t] /\ shown'[t] = shown[t]
    /\ OneAtATime => \A t \in Items \ {s} : at[t] \notin AtWork

LEMMA TurnAlone == ASSUME FilesInv, NEW s, Turn(s) PROVE Alone'
BY DEF Turn, Alone, In, OneAtATime

(* A turn that writes nothing. *)
LEMMA QuietTurn ==
    ASSUME FilesInv, NEW s, Turn(s), UNCHANGED module, Tested',
           at'[s] # "built",
           at'[s] \in {"impl", "repair"} => setting.llmImpl /\ shown'[s] = Existing(s, module)
    PROVE  FilesInv'
<1>1. DOMAIN module = Shells
  BY DEF Turn, FilesInv, LaidOut
<1>2. \A t \in In({"impl", "repair"})' \ {s} : t \in In({"impl", "repair"}) /\ shown'[t] = shown[t]
  BY DEF Turn, In
<1>3. LaidOut'
  <2>1. ASSUME NEW t \in In({"impl", "repair"})'
        PROVE  /\ setting.llmImpl /\ DOMAIN shown'[t] \subseteq Shells /\ DOMAIN shown'[t] # {}
               /\ OneAtATime => \A f \in DOMAIN shown'[t] : shown'[t][f] = module[f]
    <3>1. CASE t = s
      BY <1>1, <3>1, ExistingFiles DEF In
    <3>2. CASE t # s
      BY <1>2, <3>2 DEF FilesInv, LaidOut
    <3> QED  BY <3>1, <3>2
  <2> QED  BY <1>1, <2>1 DEF Turn, FilesInv, LaidOut, OneAtATime
<1>4. Lasting'
  BY DEF Turn, FilesInv, Lasting, In, Guarded, OneAtATime, OnDisk
<1> QED  BY <1>3, <1>4, TurnAlone DEF FilesInv

(* A turn that writes a patch of files it was shown as they are now.       *)
LEMMA SettleTurn ==
    ASSUME FilesInv, NEW s, Turn(s), Tested', NEW patch, NEW verdict, Settle(s, patch, verdict),
           DOMAIN patch \subseteq Shells,
           Guarded => \A f \in DOMAIN patch : module[f] \subseteq patch[f]
    PROVE  FilesInv'
<1>1. DOMAIN module = Shells
  BY DEF Turn, FilesInv, LaidOut
<1>2. /\ module' = Over(patch, module)
      /\ at' = [at EXCEPT ![s] = IF verdict = "green" /\ CitesLineage(s, patch) THEN "built"
                                 ELSE IF verdict = "red" /\ setting.llmImpl /\ tries[s] < RepairCap
                                      THEN "repair" ELSE "failed"]
      /\ (verdict = "red" /\ setting.llmImpl /\ tries[s] < RepairCap) =>
            shown' = [shown EXCEPT ![s] = Existing(s, module')]
  BY Zenon DEF Settle
<1>3. /\ DOMAIN module' = Shells
      /\ \A f \in DOMAIN patch : f \in Shells /\ module'[f] = patch[f]
      /\ Guarded => \A f \in Shells : module[f] \subseteq module'[f]
  <2> DEFINE new == Over(patch, module)
  <2>1. /\ DOMAIN new = (DOMAIN patch) \cup (DOMAIN module)
        /\ \A x \in DOMAIN patch : new[x] = patch[x]
        /\ \A x \in (DOMAIN module) \ (DOMAIN patch) : new[x] = module[x]
    BY ONLY Patched
  <2>2. module' = new
    BY <1>2
  <2> HIDE DEF new
  <2>3. DOMAIN module' = Shells /\ \A f \in DOMAIN patch : f \in Shells /\ module'[f] = patch[f]
    BY <1>1, <2>1, <2>2
  <2>4. \A f \in Shells \ DOMAIN patch : module'[f] = module[f]
    BY <1>1, <2>1, <2>2
  <2> QED  BY <2>3, <2>4
<1>4. /\ at'[s] = "built" => CitesLineage(s, patch)
      /\ at'[s] \notin {"tests", "impl"}
      /\ at'[s] = "repair" => setting.llmImpl /\ shown'[s] = Existing(s, module')
  BY <1>2 DEF Turn, FilesInv, LaidOut
<1>5. LaidOut'
  <2>1. ASSUME NEW t \in In({"impl", "repair"})'
        PROVE  /\ setting.llmImpl /\ DOMAIN shown'[t] \subseteq Shells /\ DOMAIN shown'[t] # {}
               /\ OneAtATime => \A f \in DOMAIN shown'[t] : shown'[t][f] = module'[f]
    <3>1. CASE t = s
      BY <1>3, <1>4, <3>1, ExistingFiles DEF In
    <3>2. CASE t # s
      <4>1. t \in In({"impl", "repair"}) /\ shown'[t] = shown[t] /\ ~OneAtATime
        BY <3>2 DEF Turn, In, AtWork
      <4> QED  BY <4>1 DEF FilesInv, LaidOut
    <3> QED  BY <3>1, <3>2
  <2> QED  BY <1>3, <2>1 DEF Turn, FilesInv, LaidOut, OneAtATime
<1>6. Lasting'
  <2> SUFFICES ASSUME Guarded, NEW t \in In({"built"})' PROVE OnDisk(t)'
    BY DEF Lasting, Guarded, OneAtATime, Turn
  <2>1. CASE t = s
    <3>1. PICK f \in DOMAIN patch : s \in patch[f]
      BY <1>4, <2>1 DEF In, CitesLineage
    <3> QED  BY <1>3, <2>1, <3>1 DEF OnDisk
  <2>2. CASE t # s
    <3>1. OnDisk(t)
      BY <2>2 DEF Turn, In, FilesInv, Lasting
    <3> QED  BY <1>1, <1>3, <3>1 DEF OnDisk
  <2> QED  BY <2>1, <2>2
<1> QED  BY <1>5, <1>6, TurnAlone DEF FilesInv

----------------------------------------------------------------------------
(* What a story's own step leaves of the others. *)
LEMMA SettleFrame ==
    ASSUME LaidOut, NEW s \in Items, NEW patch, NEW verdict, Settle(s, patch, verdict)
    PROVE  /\ at' \in [Items -> {"none", "left", "wave", "tests", "impl", "repair", "built", "failed", "skipped"}]
           /\ shown' = [t \in Items |-> shown'[t]]
           /\ at'[s] \in {"repair", "built", "failed"}
           /\ \A t \in Items \ {s} : at'[t] = at[t] /\ shown'[t] = shown[t]
<1>1. /\ at' = [at EXCEPT ![s] = IF verdict = "green" /\ CitesLineage(s, patch) THEN "built"
                                 ELSE IF verdict = "red" /\ setting.llmImpl /\ tries[s] < RepairCap
                                      THEN "repair" ELSE "failed"]
      /\ \E x : shown' = [shown EXCEPT ![s] = x]
  BY Zenon DEF Settle
<1>2. \E w \in {"repair", "built", "failed"} : at' = [at EXCEPT ![s] = w]
  BY <1>1
<1> QED  BY <1>1, <1>2 DEF LaidOut

LEMMA RaisedFrame ==
    ASSUME LaidOut, NEW s \in Items, Raised(s)
    PROVE  /\ at' \in [Items -> {"none", "left", "wave", "tests", "impl", "repair", "built", "failed", "skipped"}]
           /\ shown' = [t \in Items |-> shown'[t]]
           /\ at'[s] = "failed" /\ UNCHANGED module
           /\ \A t \in Items \ {s} : at'[t] = at[t] /\ shown'[t] = shown[t]
BY DEF Raised, LaidOut

(* The others of a story that may write now. *)
Sole(s) == OneAtATime => \A t \in Items \ {s} : at[t] \notin AtWork

LEMMA ImplementTurn ==
    ASSUME FilesInv, NEW s \in Items, at[s] # "none", Sole(s), UNCHANGED setting,
           tests' = WithTest(s), Implement(s)
    PROVE  FilesInv'
<1> DEFINE seen == Existing(s, module)
<1>1. DOMAIN module = Shells
  BY DEF FilesInv, LaidOut
<1>2. /\ DOMAIN seen \subseteq Shells /\ DOMAIN seen # {}
      /\ \A f \in DOMAIN seen : seen[f] = module[f]
  BY <1>1, ExistingFiles
<1>3. CASE setting.llmImpl
  <2>1. at' = [at EXCEPT ![s] = "impl"] /\ shown' = [shown EXCEPT ![s] = seen] /\ UNCHANGED module
    BY <1>3 DEF Implement
  <2>2. Turn(s) /\ at'[s] = "impl" /\ shown'[s] = seen
    BY <2>1 DEF Turn, Sole, FilesInv, LaidOut
  <2>3. Tested'
    BY <2>1, TestedStep DEF FilesInv, LaidOut
  <2> QED  BY <1>3, <2>1, <2>2, <2>3, QuietTurn
<1>4. CASE ~setting.llmImpl
  <2>1. PICK verdict \in {"green", "red"} : Settle(s, FallbackPatch(s, seen), verdict)
    BY <1>4 DEF Implement
  <2> HIDE DEF seen
  <2>2. Turn(s)
    BY <2>1, SettleFrame DEF Turn, Sole, FilesInv
  <2>3. Tested'
    BY <2>2, TestedStep DEF Turn, FilesInv
  <2>4. /\ DOMAIN FallbackPatch(s, seen) \subseteq Shells
        /\ \A f \in DOMAIN FallbackPatch(s, seen) : module[f] \subseteq FallbackPatch(s, seen)[f]
    BY <1>2, FallbackKeeps
  <2> QED  BY <2>1, <2>2, <2>3, <2>4, SettleTurn
<1> QED  BY <1>3, <1>4

LEMMA EnterStory == ASSUME FilesInv, NEW s \in Items, Enter(s) PROVE FilesInv'
<1>1. at[s] = "wave" /\ HasPermit(In(AtWork)) /\ UNCHANGED <<passes, setting, repaired>>
  BY DEF Enter
<1>2. Sole(s)
  BY <1>1, PermitAlone DEF FilesInv, Sole, In
<1>3. CASE s \in accepted
  <2>1. at' = [at EXCEPT ![s] = "skipped"] /\ UNCHANGED <<module, tests, shown>>
    BY <1>3 DEF Enter
  <2> QED  BY <1>1, <2>1, NothingWritten DEF FilesInv, LaidOut
<1>4. CASE s \notin accepted /\ setting.llmTests
  <2>1. tests' = WithTest(s) /\ at' = [at EXCEPT ![s] = "tests"] /\ UNCHANGED <<module, shown>>
    BY <1>4 DEF Enter
  <2>2. Turn(s) /\ at'[s] = "tests"
    BY <1>1, <1>2, <2>1 DEF Turn, Sole, FilesInv, LaidOut
  <2>3. Tested'
    BY <2>1, TestedStep DEF FilesInv, LaidOut
  <2> QED  BY <2>1, <2>2, <2>3, QuietTurn
<1>5. CASE s \notin accepted /\ ~setting.llmTests
  <2>1. tests' = WithTest(s) /\ Implement(s)
    BY <1>5 DEF Enter
  <2> QED  BY <1>1, <1>2, <2>1, ImplementTurn
<1> QED  BY <1>3, <1>4, <1>5

LEMMA WorkerSole == ASSUME FilesInv, NEW s \in Items, at[s] \in AtWork PROVE Sole(s)
BY DEF FilesInv, Alone, In, Sole

LEMMA RaisedTurn ==
    ASSUME FilesInv, NEW s \in Items, at[s] \in AtWork, Raised(s), UNCHANGED setting, Tested'
    PROVE  FilesInv'
<1>1. Turn(s) /\ at'[s] = "failed" /\ UNCHANGED module
  BY RaisedFrame, WorkerSole DEF Turn, Sole, FilesInv, AtWork
<1> QED  BY <1>1, QuietTurn

LEMMA TestsStory == ASSUME FilesInv, NEW s \in Items, TestsWritten(s) PROVE FilesInv'
<1>1. /\ at[s] = "tests" /\ tests' = WithTest(s) /\ UNCHANGED setting
      /\ Implement(s) \/ Raised(s)
  BY DEF TestsWritten
<1>2. Sole(s) /\ at[s] \in AtWork
  BY <1>1, WorkerSole DEF AtWork
<1>3. CASE Implement(s)
  BY <1>1, <1>2, <1>3, ImplementTurn
<1>4. CASE Raised(s)
  <2>1. Tested'
    BY <1>1, <1>4, TestedStep, RaisedFrame DEF FilesInv
  <2> QED  BY <1>1, <1>2, <1>4, <2>1, RaisedTurn
<1> QED  BY <1>1, <1>3, <1>4

(* A patch is written over the files that were shown, or the story fails.  *)
LEMMA AnswerTurn ==
    ASSUME FilesInv, NEW s \in Items, at[s] \in {"impl", "repair"}, UNCHANGED <<tests, setting>>,
           NEW verdict,
           \/ Raised(s)
           \/ Settle(s, FallbackPatch(s, shown[s]), verdict)
           \/ \E paths \in SUBSET DOMAIN shown[s] : Settle(s, Patch(s, paths, shown[s]), verdict)
    PROVE  FilesInv'
<1>1. s \in In({"impl", "repair"}) /\ at[s] \in AtWork
  BY DEF In, AtWork
<1>2. /\ setting.llmImpl /\ DOMAIN shown[s] \subseteq Shells /\ DOMAIN shown[s] # {}
      /\ Guarded => \A f \in DOMAIN shown[s] : shown[s][f] = module[f]
  BY <1>1 DEF FilesInv, LaidOut, Guarded
<1>3. CASE Raised(s)
  <2>1. In(AtWork \cup {"built"})' \subseteq In(AtWork \cup {"built"})
    BY <1>3, RaisedFrame DEF FilesInv, In, AtWork
  <2>2. Tested'
    BY <2>1, TestedSame DEF FilesInv
  <2> QED  BY <1>1, <1>3, <2>2, RaisedTurn
<1>4. ASSUME NEW patch, Settle(s, patch, verdict), DOMAIN patch \subseteq DOMAIN shown[s],
             \A f \in DOMAIN patch : shown[s][f] \subseteq patch[f]
      PROVE  FilesInv'
  <2>1. Turn(s)
    BY <1>1, <1>4, SettleFrame, WorkerSole DEF Turn, Sole, FilesInv, AtWork
  <2>2. In(AtWork \cup {"built"})' \subseteq In(AtWork \cup {"built"})
    BY <1>1, <2>1 DEF Turn, In
  <2>3. Tested'
    BY <2>2, TestedSame DEF FilesInv
  <2>4. DOMAIN patch \subseteq Shells /\ (Guarded => \A f \in DOMAIN patch : module[f] \subseteq patch[f])
    BY <1>2, <1>4
  <2> QED  BY <1>4, <2>1, <2>3, <2>4, SettleTurn
<1>5. CASE Settle(s, FallbackPatch(s, shown[s]), verdict)
  BY <1>2, <1>4, <1>5, FallbackKeeps
<1>6. ASSUME NEW paths \in SUBSET DOMAIN shown[s], Settle(s, Patch(s, paths, shown[s]), verdict)
      PROVE  FilesInv'
  BY <1>4, <1>6, PatchKeeps
<1> QED  BY <1>3, <1>5, <1>6

LEMMA AnswerStory ==
    ASSUME FilesInv, NEW s \in Items, NEW paths, NEW verdict,
           Implemented(s, paths, verdict) \/ Repaired(s, paths, verdict)
    PROVE  FilesInv'
<1>1. /\ at[s] \in {"impl", "repair"} /\ UNCHANGED <<tests, setting>>
      /\ \/ Permitted(paths, shown[s]) /\ Settle(s, Patch(s, paths, shown[s]), verdict)
         \/ Settle(s, FallbackPatch(s, shown[s]), verdict)
         \/ Raised(s)
  BY DEF Implemented, Repaired
<1>2. Permitted(paths, shown[s]) => paths \in SUBSET DOMAIN shown[s]
  BY DEF Permitted
<1> QED  BY <1>1, <1>2, AnswerTurn

LEMMA FilesStep == FilesInv /\ [FilesNext]_fileVars => FilesInv'
<1> SUFFICES ASSUME FilesInv, [FilesNext]_fileVars PROVE FilesInv'
  OBVIOUS
<1>1. ASSUME NEW targets, StartBuild(targets) PROVE FilesInv'
  <2>1. /\ setting' \in Settings /\ module' = Scaffold /\ UNCHANGED shown
        /\ at' = [s \in Items |-> IF s \in targets THEN "left" ELSE "none"]
    BY <1>1 DEF StartBuild
  <2>2. DOMAIN module' = Shells /\ at' \in [Items -> {"left", "none"}]
    BY <2>1 DEF Scaffold
  <2> QED  BY <2>1, <2>2, LaidOutAnew
<1>2. CASE StartWave
  <2> DEFINE going == Unblocked(In({"left"}))
  <2>1. /\ at' = [s \in Items |-> IF s \in going THEN "wave" ELSE at[s]]
        /\ UNCHANGED <<module, tests, setting, shown>>
    BY <1>2 DEF StartWave
  <2>2. \A s \in going : at[s] # "none"
    BY DEF Unblocked, In
  <2> HIDE DEF going
  <2> QED  BY <2>1, <2>2, NothingWritten DEF FilesInv, LaidOut
<1>3. CASE RetryPass
  BY <1>3, NothingWritten DEF RetryPass, FilesInv, LaidOut
<1>4. CASE EndBuild
  BY <1>4, NothingWritten DEF EndBuild, FilesInv, LaidOut
<1>5. ASSUME NEW s \in Items, NEW paths, VerifyRepair(s, paths) PROVE FilesInv'
  BY <1>5, LaidOutAnew DEF VerifyRepair, FilesInv, LaidOut
<1>6. CASE UNCHANGED fileVars
  BY <1>6, NothingWritten DEF fileVars, FilesInv, LaidOut
<1> QED  BY <1>1, <1>2, <1>3, <1>4, <1>5, <1>6, EnterStory, TestsStory, AnswerStory DEF FilesNext

(* Stories share files and write whole ones; a story built in this build   *)
(* is still in the module, through waves, repairs and retry passes, if     *)
(* stories run one at a time or with the deterministic patch, and so is    *)
(* its test (run_story, _write_files, build_max_concurrency).              *)
THEOREM BuiltStoriesStay == FilesSpec => []BuiltIsOnDisk
<1>1. FilesInv => BuiltIsOnDisk
  <2> SUFFICES ASSUME FilesInv PROVE BuiltIsOnDisk
    OBVIOUS
  <2>1. setting.llmImpl \in BOOLEAN /\ setting.width \in Int
    BY FilesBounds DEF FilesInv, LaidOut
  <2> QED  BY <2>1 DEF FilesInv, Tested, OwnTest, Lasting, Guarded, OneAtATime, BuiltIsOnDisk, In
<1> QED  BY FilesStart, FilesStep, <1>1, PTL DEF FilesSpec
=============================================================================
