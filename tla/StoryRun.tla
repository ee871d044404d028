----------------------------- MODULE StoryRun -----------------------------
(***************************************************************************)
(* codegen/story_runner.py run_story, phase by phase, for one story whose  *)
(* build goes through several passes and several builds: the story record  *)
(* (story_codegen_status) and the work-unit ledger rows (persistence/      *)
(* repo.py PgRepo) it writes into the job's SQL session, and what of them  *)
(* is durable.  The generators and Maven are outcomes chosen freely.       *)
(*                                                                         *)
(* A phase starts by opening its ledger row and recording a running phase, *)
(* which commits (_record_running_phase); it ends by settling the row.     *)
(* Other stories of the wave share the session: while this one awaits a    *)
(* generator, or is between passes, they commit it or roll it back.        *)
(*                                                                         *)
(* A generator that fails where a deterministic fallback applies leaves    *)
(* the row as a success does (failed, then succeeded, in one step).        *)
(***************************************************************************)
EXTENDS Naturals

CONSTANTS Modes,         \* the settings a backend may run with, see Mode
          MaxRepair,     \* repair_max_attempts
          MaxTokens,     \* STORY_MAX_TOKENS; 0 disables the cap
          MaxDraw,       \* bound: tokens one generator call may draw
          MaxPasses,     \* BUILD_MAX_STORY_ATTEMPTS
          MaxBuilds      \* bound: how many builds the story lives through

(* STORY_LLM_TESTS, STORY_LLM_IMPL, BUILD_RESUME, and whether a progress   *)
(* commit may fail (and be swallowed).                                     *)
Mode == [llmTests : BOOLEAN, llmImpl : BOOLEAN, resume : BOOLEAN, flaky : BOOLEAN]

ASSUME RunAssumption ==
    /\ Modes \subseteq Mode
    /\ {MaxRepair, MaxTokens, MaxDraw, MaxPasses} \subseteq Nat /\ MaxBuilds \in Nat \ {0}

VARIABLES mode,      \* the settings of this backend
          pc,        \* the phase, "loop", "handler", "idle" or "raised"
          inside,    \* the phase was started and has not ended
          session,   \* the record and the ledger rows, as the session sees them
          saved,     \* the same, as committed
          mine,      \* the ledger rows this call of run_story has opened
          attempts,  \* implementation passes of this call
          tested,    \* the implementation pass the last test run looked at
          result,    \* the status of that run
          tokens,    \* token usage of this call
          outcome,   \* what the last call returned in this build
          passes,    \* calls of run_story in this build
          builds     \* builds so far

vars == <<mode, pc, inside, session, saved, mine, attempts, tested, result, tokens,
          outcome, passes, builds>>

LlmTests     == mode.llmTests
LlmImpl      == mode.llmImpl
Resume       == mode.resume
FlakyCommits == mode.flaky

Phases == {"tests", "llmtests", "red", "impl", "green", "repair", "retest"}

(* Ledger rows by unit_type; those of the repair loop carry the attempt in *)
(* their input hash.  The context hash of the story does not change here,  *)
(* so a later pass finds the rows of an earlier one (create_work_unit); a  *)
(* row whose input differs between passes is taken for the same row here.  *)
Numbered == {"repair", "retest"}
Rows == ({"story", "tests", "red", "impl", "green"} \X {0})
          \cup (Numbered \X (1..(MaxRepair + 1)))
Row(kind) == IF kind \in Numbered THEN <<kind, attempts>>
             ELSE IF kind = "llmtests" THEN <<"tests", 0>> ELSE <<kind, 0>>
StoryRow == <<"story", 0>>

UnitStatus == {"absent", "pending", "running", "succeeded", "failed", "cached",
               "deferred"}
Accepted   == {"passed", "unverified", "skipped"}
Outcomes   == Accepted \cup {"failed", "deferred"}
RecStatus  == {"absent", "pending", "running"} \cup Outcomes
Store      == [rec : RecStatus, unit : [Rows -> UnitStatus]]

TestResults   == {"ok", "unavailable", "error", "red"}
NonRepairable == {"ok", "unavailable", "error"}

TypeOK ==
    /\ mode \in Modes
    /\ pc \in Phases \cup {"loop", "handler", "idle", "raised"}
    /\ inside \in BOOLEAN
    /\ session \in Store /\ saved \in Store
    /\ mine \subseteq Rows
    /\ attempts \in 0..(MaxRepair + 1) /\ tested \in 0..(MaxRepair + 1)
    /\ result \in TestResults \cup {"none"}
    /\ tokens \in Nat
    /\ outcome \in Outcomes \cup {"none"}
    /\ passes \in 0..MaxPasses /\ builds \in 1..MaxBuilds

Init ==
    /\ mode \in Modes
    /\ pc = "idle" /\ inside = FALSE
    /\ session = [rec |-> "absent", unit |-> [r \in Rows |-> "absent"]]
    /\ saved = session
    /\ mine = {}
    /\ attempts = 0 /\ tested = 0 /\ result = "none" /\ tokens = 0
    /\ outcome = "none" /\ passes = 0 /\ builds = 1

----------------------------------------------------------------------------
(* Mutated forms: the reset keeps the accepted record; the retest is left  *)
(* out; the repair guard forgets the budget; a failing phase does not fail *)
(* its row; repairs are not counted; the phase is recorded with no commit; *)
(* the record is written without the row.                                  *)
ResetKeepsAccepted(db) ==
    IF db.rec \in Accepted \cup {"absent"} THEN db ELSE [db EXCEPT !.rec = "pending"]
AfterNoRetest(k) ==
    CASE k = "tests"    -> IF LlmTests THEN "llmtests" ELSE "red"
      [] k = "llmtests" -> "red"
      [] k = "red"      -> "impl"
      [] k = "impl"     -> "green"
      [] OTHER          -> "loop"
MayRepairUnbudgeted == result \notin NonRepairable /\ attempts < MaxRepair + 1 /\ LlmImpl
FailedRowKept(db, r) == db
CountsImplOnly(k) == k = "impl"
CommitSkipped(db) == session' = db /\ saved' = saved
SettleRecordOnly(db, o) == [db EXCEPT !.rec = o]

(* The row is in the session; a rollback may have taken it away, and then  *)
(* every mark_work_unit_* raises ValueError.                               *)
Known(db, r) == db.unit[r] # "absent"

(* create_work_unit: an existing row is returned as it is. *)
Create(db, r) == IF Known(db, r) THEN db ELSE [db EXCEPT !.unit[r] = "pending"]

(* mark_work_unit_running, succeeded, failed on a row that is known. *)
Mark(db, r, status) == [db EXCEPT !.unit[r] = status]

(* _start_child_unit *)
Open(db, r) == Mark(Create(db, r), r, "running")

(* _fail_child_unit; on a lost row it raises in its turn, which ends in *)
(* the same handler.                                                    *)
FailedRow(db, r) == IF Known(db, r) THEN Mark(db, r, "failed") ELSE db

(* _record_running_phase on a store that already holds the other writes: *)
(* commit, or have the commit fail, be swallowed and everything since    *)
(* the last one be rolled back.                                          *)
Commit(db) ==
    \/ session' = db /\ saved' = db
    \/ FlakyCommits /\ session' = saved /\ saved' = saved

(* How a terminal outcome reads in the story's own ledger row. *)
LedgerOf(o) ==
    CASE o = "skipped"               -> "cached"
      [] o \in {"passed", "unverified"} -> "succeeded"
      [] o = "deferred"              -> "deferred"
      [] OTHER                       -> "failed"

(* _persist and the mark of the story's row, one flush each, no commit. *)
Settle(db, o) == [db EXCEPT !.rec = o, !.unit[StoryRow] = LedgerOf(o)]

(* The phases that count as an implementation pass. *)
Counts(k) == k \in {"impl", "repair"}

(* The next phase of a phase that went well. *)
After(k) ==
    CASE k = "tests"    -> IF LlmTests THEN "llmtests" ELSE "red"
      [] k = "llmtests" -> "red"
      [] k = "red"      -> "impl"
      [] k = "impl"     -> "green"
      [] k = "repair"   -> "retest"
      [] OTHER          -> "loop"

(* budget.should_skip with the context hash unchanged. *)
MaySkip == session.rec \in Accepted

(* The repair loop goes on: repairable, under its attempt cap, the LLM on, *)
(* and the story's token budget not exceeded.                              *)
MayRepair ==
    /\ result \notin NonRepairable
    /\ attempts < MaxRepair + 1
    /\ LlmImpl
    /\ MaxTokens = 0 \/ tokens <= MaxTokens

(* _reset_prior_story_status of a restart-fresh build. *)
Reset(db) == IF db.rec = "absent" THEN db ELSE [db EXCEPT !.rec = "pending"]

(* run_story is suspended in a generator call. *)
Awaiting ==
    /\ inside
    /\ \/ pc \in {"llmtests", "repair"}
       \/ pc = "impl" /\ LlmImpl

Draws == IF Awaiting THEN 0..MaxDraw ELSE {0}

----------------------------------------------------------------------------
Returned == pc = "idle" /\ outcome # "none"

(* A call of run_story: the first of the build, or a retry pass. *)
MayEnter ==
    /\ pc = "idle"
    /\ passes < MaxPasses
    /\ outcome \in {"none", "failed"}

(* The accepted, unchanged story: record and row say so, nothing is built. *)
Skip ==
    /\ MayEnter /\ MaySkip
    /\ session' = Settle(Create(session, StoryRow), "skipped")
    /\ outcome' = "skipped"
    /\ passes' = passes + 1
    /\ mine' = {StoryRow}
    /\ UNCHANGED <<pc, inside, saved, attempts, tested, result, tokens, builds>>

(* The story's row and the "starting" phase are committed; only then is    *)
(* the row marked running, outside the handler that turns errors into a    *)
(* failed story: if the commit failed and took a new row with it, the      *)
(* ValueError leaves run_story.                                            *)
Begin ==
    /\ MayEnter /\ ~MaySkip
    /\ passes' = passes + 1
    /\ LET opened == [Create(session, StoryRow) EXCEPT !.rec = "running"]
       IN  \/ /\ saved' = opened
              /\ session' = Mark(opened, StoryRow, "running")
              /\ pc' = "tests"
           \/ /\ FlakyCommits
              /\ saved' = saved
              /\ IF Known(saved, StoryRow)
                 THEN session' = Mark(saved, StoryRow, "running") /\ pc' = "tests"
                 ELSE session' = saved /\ pc' = "raised"
    /\ inside' = FALSE
    /\ mine' = {StoryRow}
    /\ attempts' = 0 /\ tested' = 0 /\ result' = "none" /\ tokens' = 0
    /\ outcome' = "none"
    /\ UNCHANGED builds

(* A phase opens its ledger row, records itself as running and commits. *)
Start(k) ==
    /\ pc = k /\ ~inside
    /\ k \in {"tests", "red", "impl", "green"}
    /\ inside' = TRUE
    /\ mine' = mine \cup {Row(k)}
    /\ Commit([Open(session, Row(k)) EXCEPT !.rec = "running"])
    /\ UNCHANGED <<pc, attempts, tested, result, tokens, outcome, passes, builds>>

(* The LLM tests are a second phase of the row the tests opened. *)
StartLlmTests ==
    /\ pc = "llmtests" /\ ~inside
    /\ inside' = TRUE
    /\ Commit([session EXCEPT !.rec = "running"])
    /\ UNCHANGED <<pc, mine, attempts, tested, result, tokens, outcome, passes, builds>>

(* A repair records its phase before it opens its row. *)
StartRepair ==
    /\ pc = "loop" /\ MayRepair
    /\ pc' = "repair" /\ inside' = TRUE
    /\ mine' = mine \cup {Row("repair")}
    /\ LET recorded == [session EXCEPT !.rec = "running"]
       IN  \/ saved' = recorded /\ session' = Open(recorded, Row("repair"))
           \/ FlakyCommits /\ saved' = saved /\ session' = Open(saved, Row("repair"))
    /\ UNCHANGED <<attempts, tested, result, tokens, outcome, passes, builds>>

(* The test run of a repair opens its row and records no phase. *)
StartRetest ==
    /\ pc = "retest" /\ ~inside
    /\ inside' = TRUE
    /\ mine' = mine \cup {Row("retest")}
    /\ session' = Open(session, Row("retest"))
    /\ UNCHANGED <<pc, saved, attempts, tested, result, tokens, outcome, passes, builds>>

(* The deterministic tests leave their row to the LLM tests that follow. *)
LeavesRow(k) == k = "tests" /\ LlmTests
SettleRow(db, k) == IF LeavesRow(k) THEN db ELSE Mark(db, Row(k), "succeeded")

(* The phase succeeded: its row says so, unless a rollback took it away, in *)
(* which case the ValueError sends the story to its handler.               *)
Finish(k, draw) ==
    /\ pc = k /\ inside
    /\ draw \in Draws
    /\ inside' = FALSE
    /\ tokens' = tokens + draw
    /\ IF LeavesRow(k) \/ Known(session, Row(k))
       THEN /\ session' = SettleRow(session, k)
            /\ pc' = After(k)
            /\ attempts' = IF Counts(k) THEN attempts + 1 ELSE attempts
       ELSE /\ pc' = "handler"
            /\ UNCHANGED <<session, attempts>>
    /\ IF k \in {"green", "retest"}
       THEN result' \in TestResults /\ tested' = attempts
       ELSE UNCHANGED <<result, tested>>
    /\ UNCHANGED <<saved, mine, outcome, passes, builds>>

(* The phase raised: its row fails and the handler takes over. *)
Fail(k, draw) ==
    /\ pc = k /\ inside
    /\ draw \in Draws
    /\ inside' = FALSE
    /\ tokens' = tokens + draw
    /\ pc' = "handler"
    /\ session' = FailedRow(session, Row(k))
    /\ UNCHANGED <<saved, mine, attempts, tested, result, outcome, passes, builds>>

(* Reading the module's Java raised: that is after the row of the          *)
(* implementation was opened and before the handler that would fail it.    *)
FailReading ==
    /\ pc = "impl" /\ inside
    /\ inside' = FALSE
    /\ pc' = "handler"
    /\ UNCHANGED <<session, saved, mine, attempts, tested, result, tokens, outcome, passes, builds>>

(* The phase succeeded, but writing its files into the module raised. *)
FailWriting(k, draw) ==
    /\ pc = k /\ inside
    /\ k \in {"tests", "llmtests", "impl", "repair"} /\ ~LeavesRow(k)
    /\ Known(session, Row(k))
    /\ draw \in Draws
    /\ inside' = FALSE
    /\ tokens' = tokens + draw
    /\ pc' = "handler"
    /\ session' = SettleRow(session, k)
    /\ UNCHANGED <<saved, mine, attempts, tested, result, outcome, passes, builds>>

(* The handler, and the gate: the outcome is persisted with the story's row. *)
Return(o) ==
    IF Known(session, StoryRow)
    THEN session' = Settle(session, o) /\ outcome' = o /\ pc' = "idle"
    ELSE session' = [session EXCEPT !.rec = o] /\ pc' = "raised" /\ UNCHANGED outcome

Handle ==
    /\ pc = "handler"
    /\ Return("failed")
    /\ UNCHANGED <<inside, saved, mine, attempts, tested, result, tokens, passes, builds>>

(* _decide_status: red, an infra error, a missing criterion or lineage and *)
(* a failed quality gate all fail; the loop also ends when the story's     *)
(* wall-clock budget is over, which may be at any time.                    *)
Gate(o) ==
    /\ pc = "loop"
    /\ \/ o = "failed"
       \/ o = "passed" /\ result = "ok"
       \/ o = "unverified" /\ result = "unavailable"
    /\ Return(o)
    /\ UNCHANGED <<inside, saved, mine, attempts, tested, result, tokens, passes, builds>>

(* _mark_deferred: the loop around the story gave it up. *)
Defer ==
    /\ pc = "idle" /\ outcome = "failed"
    /\ session' = Settle(Create(session, StoryRow), "deferred")
    /\ outcome' = "deferred"
    /\ UNCHANGED <<pc, inside, saved, mine, attempts, tested, result, tokens, passes, builds>>

(* Other stories of the wave commit or roll back the session they share. *)
Suspended == Awaiting \/ Returned
OthersCommit ==
    /\ Suspended
    /\ saved' = session
    /\ UNCHANGED <<pc, inside, session, mine, attempts, tested, result, tokens,
                   outcome, passes, builds>>
OthersRollback ==
    /\ FlakyCommits /\ Suspended
    /\ session' = saved
    /\ UNCHANGED <<pc, inside, saved, mine, attempts, tested, result, tokens,
                   outcome, passes, builds>>

(* The next build of the story, after the job's final commit (kept) or     *)
(* after it failed or its process died: what was only flushed is gone.     *)
NextBuild(kept) ==
    /\ builds < MaxBuilds
    /\ kept => pc = "idle" /\ outcome \in Accepted \cup {"deferred"}
    /\ builds' = builds + 1
    /\ LET left == IF kept THEN session ELSE saved
       IN  saved' = IF Resume THEN left ELSE Reset(left)
    /\ session' = saved'
    /\ pc' = "idle" /\ inside' = FALSE
    /\ mine' = {}
    /\ attempts' = 0 /\ tested' = 0 /\ result' = "none" /\ tokens' = 0
    /\ outcome' = "none" /\ passes' = 0

Step ==
    /\ \/ StartLlmTests \/ StartRepair \/ StartRetest \/ FailReading \/ Handle
       \/ \E k \in Phases :
            \/ Start(k)
            \/ \E draw \in 0..MaxDraw :
                 Finish(k, draw) \/ Fail(k, draw) \/ FailWriting(k, draw)
       \/ \E o \in Outcomes : Gate(o)
    /\ UNCHANGED mode

Around ==
    /\ \/ Skip \/ Begin \/ Defer
       \/ OthersCommit \/ OthersRollback
       \/ \E kept \in BOOLEAN : NextBuild(kept)
    /\ UNCHANGED mode

Next == Step \/ Around

Spec == Init /\ [][Next]_vars

(* A story that was begun keeps being worked on: generator and Maven calls *)
(* have timeouts.                                                          *)
FairSpec == Spec /\ WF_vars(Step)

----------------------------------------------------------------------------
(* Properties. *)

(* When run_story returned and no commit failed, the story's record, its   *)
(* ledger row and the returned outcome say the same, and no row opened by  *)
(* the call is left running, whichever phase ended it and how; but for the *)
(* implementation's, when the story failed before anything was generated.  *)
LeftOpen(r) == r = Row("impl") /\ attempts = 0 /\ outcome \notin Accepted

LedgerAgrees ==
    Returned /\ ~FlakyCommits =>
        /\ session.rec = outcome
        /\ session.unit[StoryRow] = LedgerOf(outcome)
        /\ \A r \in mine : session.unit[r] = "running" => LeftOpen(r)

(* Even with failing commits, rollbacks of other stories and crashes, a    *)
(* terminal record is durable only together with the story's row: the      *)
(* progress endpoint and the story map never disagree on how it ended.     *)
DurableTogether ==
    saved.rec \in Outcomes => saved.unit[StoryRow] = LedgerOf(saved.rec)

(* While a generator call is in flight the other sessions see the story    *)
(* and its row as running, unless a commit failed.                         *)
InFlightVisible ==
    Awaiting /\ ~FlakyCommits =>
        saved.rec = "running" /\ saved.unit[StoryRow] = "running"

(* What is written about a story is true: of the call that returned        *)
(* (run_story), of what is durable (_persist and the mark of the story's   *)
(* row share every commit), and of the call in flight                      *)
(* (_record_running_phase commits before the generator is awaited).        *)
RecordsAreTrue == LedgerAgrees /\ DurableTogether /\ InFlightVisible

(* The repair loop and the gate only ever judge a test run of the very     *)
(* implementation the story has now: neither the verdict nor the feedback  *)
(* of a repair comes from a run an earlier repair made obsolete.           *)
VerdictIsFresh == pc = "loop" => attempts >= 1 /\ tested = attempts

(* Restart-fresh: no build skips a story on the strength of an earlier     *)
(* build, whatever that one committed before it ended, failed or died.     *)
FreshRebuild == ~Resume => outcome # "skipped"

(* Nothing obsolete decides a story: no test run of an earlier             *)
(* implementation (run_story's repair loop), and in a restart-fresh        *)
(* backend no record of an earlier build (_reset_prior_story_status).      *)
NothingStale == VerdictIsFresh /\ FreshRebuild

(* A story overruns its token cap by at most one generator call, or by the *)
(* two calls that come before the first look at the budget: run_story asks *)
(* BuildBudget only before a repair, and lets a story at its cap go on.    *)
TokenOverrun ==
    MaxTokens > 0 => tokens <= MaxTokens + MaxDraw \/ tokens <= 2 * MaxDraw

(* The repair loop of run_story cannot keep a story for ever. *)
StoryReturns == pc \notin {"idle", "raised"} ~> pc \in {"idle", "raised"}
=============================================================================
