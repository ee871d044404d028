# TLA+ models of the COBOL modernizer

The modernizer takes a COBOL repository through a journey of stages (ingestion,
BRD, seams, backlog, domain design, technical design, story build, verify,
deploy). A FastAPI backend (`src/src/cobol_modernizer/controlplane`) owns the
journey: every expensive stage is a background job that calls LLM agents or
Maven, writes its units of work into a SQL ledger, publishes gates and marks a
stage row that later stages and people rely on. Artifacts live in Neo4j, control
state in SQL, and what is running now only in memory.

Two kinds of modules follow from that. State machines model the control: which
job runs, what is written in which transaction, what survives a failure or a
restart, and whether what the stages report is what happened. Function modules
model the algorithms whose results the stages judge: what is planned, merged,
compared. What the agents write is data the models leave free.

## Contents

| Module | What it is |
| --- | --- |
| `JobSlot` | what the job runner promises its callers, abstractly |
| `JobRunner` | `controlplane/jobs.py`, shown to implement `JobSlot` |
| `StoryBuild` | the story build job: passes, waves, retries, token pool, gate (`build_stories.py`, `codegen/story_runner.py`, `codegen/budget.py`) |
| `StoryRun` | one story inside that job, phase by phase, with its record and ledger rows (`codegen/story_runner.py`, `persistence/repo.py`) |
| `StoryFiles` | the one Java module that stories and repairs write into |
| `BuildJobs` | the two kinds of build job of one workspace and the artifacts they share (`build.py`, `codegen/story_storage.py`) |
| `CodegenPlan` | functions: backlog dependencies, work-list, budgets, the source a slice is packed with |
| `Verify` | verify and verify-repair requests as concurrent transactions (`verify.py`, `verify_repair.py`, `verify_storage.py`) |
| `StageJob` | what a generation stage promises of its job, abstractly |
| `TechDesign`, `ServicePlan` | the technical-design stage, shown to implement `StageJob`, and its functions (`technical_design.py`, package `technical_design`) |
| `Backlog`, `BacklogPlan` | the backlog stage, shown to implement `StageJob`, and its functions (`backlog.py`, package `backlog`) |
| `DomainStage`, `Gates` | the domain-design stage (`domain.py`, `analysis.py`) and the operators of a gate row (`gates_util.py`, `workspaces.py`) |
| `DomainPlan` | functions: the derived design, the agent's decomposition, its gates and extraction order |
| `Blueprint`, `BrdDraft` | the BRD jobs (`blueprint.py`, `brd/pipeline.py`) and the functions of clusters, merge and judge |
| `Planning` | functions: seam signals, score and ranking, dependencies, delivery waves (packages `seam`, `planner`) |
| `SliceDesign` | functions: each program's own design, and what is kept of an agent's narratives (packages `design`, `enrichment`) |
| `Lab` | functions: equivalence lab, COBOL numerics, legacy mimic (packages `equivalence`, `mimic`) |
| `DarkLaunch` | functions: the replay of captured inputs (package `darklaunch`) |
| `Release` | canary runs, routing, rollback and caps on cost (packages `deploy`, `cost`, `slice/gates.py`) |
| `PlanInputs` | what `Planning`, `CodegenPlan`, `DomainPlan` and `SliceDesign` are given, drawn once, and what must hold of it |
| `LabInputs` | the same of `Lab` and `DarkLaunch` |
| `*Proofs` | the theorems and their proofs: of the module they are named after, and of `BuildJobs` in `JobRunnerProofs`, `StoryFiles` in `StoryBuildProofs`, `Lab` and `DarkLaunch` in `VerifyProofs`, `Planning`, `CodegenPlan`, `DomainPlan`, `SliceDesign` and `Blueprint` in `ReleaseProofs` |
| `MC*` and `*.cfg` | small instances for TLC |

`PROJECT.json` maps every definition to its lines of source and lists the parts of
the system, the runs, the mutated forms each property has to notice, the theorems,
the hazards and the disagreements between code and documentation the runs exhibit.

## Inventory

State, operations, what is hard and what makes each part right.

**Background job runner** (`controlplane/jobs.py`). State: `_jobs` and
`_threads`, dictionaries by (kind, workspace) under one lock, and the worker
threads. Operations: `start`, `get`, the worker, `_finish`, the staleness rule.
Called by every stage's POST and polled by every stage's GET. Hard: a job that
is superseded because it is too old keeps running and finishes late; a worker
can die without `_finish`; a restart forgets everything. Right when a record
never holds another run's outcome, the registered thread is always that of the
running job, nothing but age lets two workers overlap, pollers never see time
run backwards and no key is blocked for ever.

**Story build** (`run_story_build`, `run_story_plan_until_done`,
`run_story_plan`). State: story records in one SQL session for the whole job,
attempts, results, tokens drawn from a pool, the stage row. Operations: reset of
prior records, dependency waves, concurrent stories under a semaphore, retry
passes, deferral, the gate, the final commit. Hard: every story shares one
session, so one story's progress commit makes the others' half-finished records
durable and its rollback undoes them; a crash keeps exactly the last progress
commit; retries race a token pool. Right when dependent stories are built in
order, nothing accepted is rebuilt, attempts and pool hold, a finished job's
decisions are durable, and a stage turns green only with something built.

**Story lifecycle and work-unit ledger** (`run_story`, `PgRepo`). State: the
story's record, one ledger row per phase, tokens, the last test result.
Operations: seven phases, each opening a row, committing a running record and
settling the row; repair loop; quality gate; error handler; deferral. Hard: each
phase may fail at several places between its writes, other stories commit or roll
back in between, and a later pass finds the rows of an earlier one. Right when
record, row and outcome agree, also durably, and a verdict is always about the
code as it is.

**Story codegen plan** (`codegen/story_plan.py`, `backlog/dependency.py`). Pure:
an ordered work-list from backlog and services. Hard: cyclic, unknown and
duplicate dependencies, stories no service declares. Right when each story is on
the list once, held up only by a cycle, and blocked only if nothing builds it.

**Java module on disk** (`scaffold_from_design`, `_apply_patch`,
`_repair_story_java`). State: the files of one directory per repository. A build
removes and scaffolds it, stories add shells, tests and code to it, a repair does
all of that for one story. Hard: stories of a wave write whole files from what
they read before an await. Right when a story's code outlives the build's others.

**The two build jobs** (`build.py` beside `build_stories.py`). State shared: the
module, `story_codegen_status`, `generated_test_refs`, gate and stage. Both
artifacts are extended by reading the newest version and inserting the next. Hard:
the jobs have different names, so the runner lets them overlap; the reads are
separate from the inserts. Right when neither loses what the other recorded and
a story on record as passed has its criteria referenced.

**Verify and verify repair** (`verify.py`, `verify_repair.py`, `verify_storage.py`).
State: versioned checks and reports, the stage row, two gates, ledger rows.
Operations: verify all stories of the backlog, or one slice without a backlog; repair
one story. No job runner: each is an HTTP request with its own transaction. Hard:
two requests at once, versions taken as newest plus one, a status that is not
sent when it equals the loaded one, rows held until the request ends, and rows taken in
the order in which the body names stories and sub-slices. Right when the history of
versions is whole, the stage tells the newest verdict, a green verdict was measured, and
requests wait in a circle only over ledger rows that they list differently.

**Domain design** (`_domain_run_and_persist`, `run_domain_design`, package
`domain`). State: decomposition and tactical units in the ledger, the versioned
design in Neo4j, a gate, the stage row. Operations: decompose with a repair loop,
design each context in three cached units under a semaphore, assemble, save, judge,
mark, commit; or all in one deterministic unit. Hard: Neo4j is durable before SQL
is; contexts are dropped silently; the marking is best effort; the status is read from
the runner first and from the stores after a restart. Right when green is earned,
designs are backed by the ledger, paid-for units are kept, the status survives a
restart, and each program that writes is in exactly one context.

**Gates and approvals** (`gates_util.py`, `workspaces.py`). State: one row per
(workspace, gate key), approvals. Stages publish verdicts, people resolve them,
in different sessions. Right when decisions stand.

**Technical design** (`technical_design.py`, `technical_design/`). State: one unit
per bounded context in the ledger, keyed by a hash of its context pack, a version in
Neo4j, three gates. Operations: one call per context under a semaphore with retries,
merge, fallback to a design without a model, save, judge, commit; the status after
a restart is worked out from the gates. Hard: stale cache hits, dropped contexts,
a fallback that reads as done. Right when a design is of its own run, done means
every context has its service, and the fallback is sound.

**Backlog** (`backlog.py`, `backlog/`). State: units keyed by what a prompt shows, a
version, three gates. Operations: without a model, in one call, or epics first,
then stories per epic and rounds for what is not covered yet. Hard: rounds answered
from the cache of another round, requirements nobody owns, ids that clash. Right when
no requirement is lost unasked and the loop ends.

**BRD** (`blueprint.py`, `brd/pipeline.py`, `agent/brd_orchestrator.py`,
`agent/clustering.py`). State: versions in Neo4j, the stage. Operations: cluster the
graph, draft by subsystem, fold the drafts, judge, retry; improve the latest. Hard: the
loop ends on one measure and keeps the best by another; clusters beyond the cap
are merged, and a prompt names the first 60 members of its cluster; most calls have no
timeout. Right when the best is saved, an ungrounded document is never high and an agent
hears of every part of the graph but what overflows.

**Seams, planner, slice designs, enrichment** (`analysis.py`, `seam/`, `planner/`,
`design/`, `enrichment/`). Sequential functions over the graph behind four endpoints.
Hard: cycles, ties, shared data, answers about things nobody asked. Right when waves
respect dependencies, shared data is never rated high, and narratives are grounded.

**Equivalence lab, mimic, dark launch** (`equivalence/`, `mimic/`, `darklaunch/`).
Sequential functions over records. Hard: COBOL numerics at the edges of a picture,
rounding, duplicate and missing keys. Right when a pass means parity, and what the
mimic writes the lab reads.

**Deploy and cost policy** (`deploy/`, `cost/`, the canary endpoints). State in
memory: traffic weights per slice, recorded usage, caps, killed flags, the deploy
gate. Operations: smoke, performance, flip, observe, roll back; charge, set a cap (raise
or lower), decide, flip by hand. Hard: runs and people share one weight and one ledger,
whose sums are read and written back without a lock. Right when traffic is only ever
promoted under watch and the overrun of a ledger that lost nothing is bounded.

Interactions: endpoint -> `JobRunner.start` -> job function -> ledger, gates,
stages (SQL), artifacts (Neo4j), LLM and Maven (external, with timeouts);
status endpoints read the runner's record if there is one and the stores
otherwise; the next stage's precheck reads the stores. Blueprint feeds backlog,
backlog and graph feed domain design, these feed technical design, that and the
backlog feed the builds, whose records verify and repair read.

## The models and the code

### JobSlot, JobRunner

The lock makes `get`, `_finish` and the locked part of `start` single steps;
`start`'s final `self.get` is a step of its own (`StartReturn`), since another
thread may have acted. `work[r]` is a run's thread, from birth to the end; `FnDies`
is a `BaseException` that escapes `_run`. Age is counted in ticks up to
`StaleAfter`: past the threshold nothing tells ages apart. `Restart` empties the
dictionaries and kills the daemon threads. `JobState.by` records whose outcome a
record holds, a history variable in the sense that the code's dictionary has only
the outcome.

`JobSlot` says: a slot holds one generation; only that one settles it, once;
a replaced generation never comes back. The mapping reads `run` as generation
and `by` as settled value.

### StoryBuild

One job at a time per workspace, one SQL session. `session` is the status map as
the job sees it, `saved` the committed one. `Begin` and `Phase` are the two
places a story commits (`_record_running_phase`), `End` only flushes, `GatePass`
is the final commit; `GateFail`, `Abort` and `Crash` lose what was not committed.
`run_story` is one outcome here. `Begin` with a commit that failed lets the story go
on; in the code it may instead leave `run_story` with a `ValueError` when the
rollback took its new row (exact in `StoryRun`); `Abort` covers that end.
`NextWaveOf` is one round of `_dependency_waves`, with its way out of a cycle.
`Abort` is `gather` re-raising: exceptions of a story's own phases never reach
it, those outside `run_story`'s handler do.

### StoryRun

`pc` is the phase, `inside` whether it has started. Starting a phase opens its row
and commits a running record, in that order or, for a repair, the other way round,
as in the code; finishing marks the row; each of the places a phase can raise is an
action (`Fail`, `FailWriting`, a lost row in `Finish`, and `FailReading`: the module is
read between committing the running row and the `try` around the generator,
`story_runner.py:867`, so an error there fails the story and leaves its row running, the
one exception that `LedgerAgrees` makes, `LeftOpen`). `OthersCommit` and
`OthersRollback` are the other stories of the wave on the shared session while
this one awaits a generator or is between passes. A generator failing where a
deterministic fallback applies leaves the row as success does. The context hash
of the story does not change during a run of the model. `NextBuild` is the next
build after a commit, a failure or a crash. The settings of a backend (which parts
the LLM does, resume, whether commits may fail) are one value chosen at the start.

### StoryFiles

A file is the set of stories whose code is in it, `shown` what a story read of the
module before its generator was awaited. A story of a wave holds its permit of the
semaphore from `Enter` to its verdict and gives way to others only where the code
awaits. `Scaffold` is the `shutil.rmtree` with the shells after it, and it is part of
every build and every repair. `Permitted` is the allow-list of a story's packages.
Two assumptions: jobs come one after another (their overlap is `BuildJobs`), and an
LLM that writes a file keeps what it was shown of it. The scope of a story is its
packages; the generic shells stand for all of them where the design names none, which
today is always, since `_load_technical_design` drops the package structure.

### BuildJobs

Two processes, named as the runner names them. An artifact is the number of its
committed versions and the content of the last; `pend` are the rows a transaction
has inserted, `view` what it read to extend. An insert waits while another transaction
holds its number (`Held`) and raises if that one committed (`Clash`): the unique
constraint. `run_story` is one outcome, passes and waves are left to `StoryBuild`.
The slice engine writes its module and cites criteria of its own; `mode` is
`CODEGEN_MODE`. `torn` marks a story whose module the other build removed between its
gate and its record, the one way its references can miss it.

### Gates, DomainStage

`Upsert` is told the status the session had loaded, because SQLAlchemy writes only the
columns it changed: a decision committed between load and flush stands unless
the run turns "open" into "passed". `verdict` stands for result and threshold.

`head` is the unit a job starts from, the decomposition or the deterministic one,
by input (BRD text, backlog, refinement instruction: one hash). A member of
`Contexts` is a declared context with its payload, hence one set of tactical
inputs; the hashes of contract and mapping units follow from the aggregate's
payload, which changes only if it is generated again, and then they were never
stored. Contexts pass the semaphore (`Enter`), each unit is taken from the cache
(`Reuse`) or opened, called and settled (`Open`, `Succeed`, `Fail`); a context
that raises is dropped by `gather(return_exceptions=True)`. `session` is the ledger
inside the job's transaction and becomes `saved` only in `Commit`. `Save` writes the
Neo4j version, durable at once. `CommitLost` is the swallowed rollback, `Raise` any
exception that fails the job, `Restart` a new backend process. The quality
rules about payloads are free; the two that decide completeness (a context at
least, none missing a design) are kept. A run *landed* when its transaction
committed; a run that died between `Save` and `Commit` left a newer design under
older verdicts, and the properties say so explicitly.

The journey row is assumed seeded. The runner's supersession of an old job is in
`JobRunner` and not composed here: the stage has one job at a time.

### StageJob, TechDesign, ServicePlan

`StageJob` is what `TechDesign` and `Backlog` implement: a version is stored at once,
the rest of a job lands later, with its commit, or not at all, and a job that reports an
outcome of its own has landed (`DoneIsLanded`). `ServicePlan` has what a run computes: the context pack and hence the hash of a
unit, the services read from an answer, the database and component views, ownership
and quality, and the design without a model. `TechDesign` runs contexts through cache,
semaphore and retries, merges what the ledger holds, falls back when nothing comes of
it, and marks three gates by `Gates`. An input is what a run loads from the stores; two
runs may find different ones, which is what makes a stale cache hit possible. People
decide gates at any time (`Approve`); to keep the instance small it allows it of one.

### Backlog, BacklogPlan

A prompt is a record of all a call shows; `Hash` is the identity because the code hashes
the whole pack, and a mutated form that leaves the round out is caught. `session.units`
is the ledger. A round asks for what no story cites yet, by the epic that owns each
requirement (`TopUp` for those nobody owns); `streak` counts rounds without progress.
`Proxy` is the size a BRD is taken to have, its requirements or, without any, its sections.
`BacklogPlan` has the deterministic generator, the slugs and their clashes, parsing,
coverage and readiness. Coverage looks evidence up by story id (`Evidence`): of stories
with one id one counts. The code takes the last; a draft is a set here, so it is one, the
same for every reader, and no property depends on which.

### Blueprint, BrdDraft

`BrdDraft` splits the graph into its clusters, folds trivial ones and merges beyond
the cap, folds drafts when no agent does, and scores a report under the judge's
floors. `Blueprint` has both jobs as processes, because they are two jobs of the
runner; a version remembers the attempt it was made of and the reports before it.
`prompts` is what each agent is told of its subsystem, the first `MapPreview` members
(60 in the code); the agent may walk the graph from there. `UntoldIsOverflow` says
of which components nothing is told to anybody: of trivial ones, and of the smallest where
there are more than the cap, and only if they were put behind others enough to fill a prompt.

### Planning, CodegenPlan, DomainPlan, SliceDesign, PlanInputs

Functions of a graph, a backlog or an answer, written as the code computes them
(Kahn's algorithm, levels, stable sorts, integer thousandths in place of floats) and
checked against definitions by quantifiers: a cycle is a set each member of which
waits for another of it, an owner is whoever writes. `RunSeams` and `RunPlan` are the
handlers; a work-list is ordered by rounds as `_ordered_stories` does. `SliceDesign` has
`_compute_designs` with its judge and the three enrichment readers. `PlanInputs` draws
one input, any that `IsInput` admits, and states the properties of it; `MCPlanning` draws
from finitely many, all of which `IsInput` admits. What it asks of them: a parsed graph
has its counts and finitely many accesses; no two stories of a backlog have one id, which
`backlog/readiness.py:118` refuses; the graph knows something, since the handlers answer
409 without one.

A work-list keeps the order of the backlog only where nothing forces another:
`InPlace` are the stories that depend on nothing but earlier ones that are in place
themselves, and no later story comes before one of them. To ask it of each story whose
own dependencies come earlier is too much: of four stories, the first two of which
depend on the last and on the first, the third overtakes the second.

### Lab, DarkLaunch, LabInputs

Numbers are integers of thousandths, fields are sequences of character codes. A decimal
also has the zeros it is written with behind its value, for `exact` and the text fields of
a dark launch compare strings (`SameString`): 1.20 is not 1.2, but a numeric rule takes
them for one. A sub-slice is keyed by its field as written, blanks included.
`RunEquivalence` pairs records by key as the differ does, compares under the ruleset
and decides the verdict. `Encode`/`Decode` are the mimic, `LabComp3`/`LabZoned` the lab's
own readers of the same bytes. The layouts of the two disagree on packed fields with
an odd number of digits and on tables, which `RecordsSurvive` states as its condition.
A value fits (`FitsIn`) if it is a number of the field's digits and scale, negative only
in a signed field, or a text of the field's length that does not end in blanks, which
reading strips; a value for a name the layout does not have raises.
Two things are cut short in the lab. A golden field in another form than its rule names
raises in `NumbersWithin`; in the code `decode_zoned` or `bytes.fromhex` may make a number of
it. And an encoded golden field has no text of its own that `exact` could compare. The
verdict properties are about records where neither occurs (`Readable`, `OwnForm`). The sum of widths and the digits of a number are recursive functions.
`DarkLaunch` replays inputs through golden and actual answers under the fixed rules.
`LabInputs` tries one comparison, record or launch, any that `IsTrial` admits.

### Verify

A request is a process and its transaction; `locks` are the rows it has written and
not committed. Ledger rows are looked for and written one by one (`Open`): a row per
story in the order of the list, and after the comparisons a row per sub-slice of a
failing story, in the order the body first names them (`Parts`, `Sooner`, `Before`); one
that another request commits between the look and the insert makes it raise. A step sends what the step before assigned, then reads: that is
SQLAlchemy's autoflush, and merging the two is sound because nobody else can touch
a row once it is sent. `Free` is Postgres making a writer wait for such a row,
`Insert` the unique constraint on (workspace, kind, version): if the version read
before was committed by another request meanwhile, the insert raises. `newest` is
that read. A request's checks are one `Artifact` of as many versions as it has
stories. All comparisons of a request are of the records in its body, so a body
matches or does not; a time-out or an exception makes a story of a fan-out red on
its own. `Raise` is any exception and also the death of the backend, for one request
at a time. Approvals of the two gates are left out; `DomainStage` has that race.
Requests without golden records are refused before they touch anything and are not
shown.

### Release

A canary run is a process; smoke, performance and observation are preceded by spending,
which is three steps because the ledger is shared with the agents and nothing locks it:
the spender's own sum with the read of the workspace's, the write of that sum, and the
check of the caps (`Spend`, `SpendShared`, `Check`; `Charge`, `ChargeShared`,
`CheckCharge`). A spender's own sum has no other writer. `setBy`
remembers who set the weight, which the code does not; `lost` and `highest` are
history: whether an add wrote over another, and the highest cap so far. Caps go up
and down (`SetCaps`). The gate is what the caller read before the run, as
`CanaryOrchestrator.run` gets it. Weights, caps and usage are in memory, so `Restart` takes
them back to zero; the gate is a SQL row and stays. A charge is one unit.

## Runs

All runs finish within two minutes on two workers. Symmetry is used where nothing tells the
processes apart: requests in `verify`, canary runs in `release`. Deadlock is checked in `runner`;
elsewhere `CHECK_DEADLOCK FALSE` is used because the bound on jobs, builds or requests
lets the system come to rest.

| Run | Instance | What it shows |
| --- | --- | --- |
| `runner` | 2 callers, 1 key, 3 runs, age limit 1 | workers overlap only by age, a key is never blocked for ever, and the runner implements `JobSlot` |
| `story_build` | 4 stories: two need a third, the fourth needs itself; 3 attempts, pool 4, width 2, 2 jobs that start afresh or resume | order outside the knot, bounded retries, what a finished job reports is earned, every build settles |
| `story_run` | every backend with reliable commits and one with failing ones; 1 repair, cap 1, 2 passes, 2 builds | record, ledger and outcome agree, nothing obsolete decides, the token overrun, termination |
| `build_jobs` | 2 stories, both engines, 1 repair, 2 posts | two builds at once lose nothing, passed stories are referenced, builds end |
| `domain_stage` | 2 inputs, 2 contexts, semaphore 1, 2 jobs | green is whole, designs are backed, what is settled stands, the status survives, jobs settle |
| `tech_design` | 2 jobs over 5 inputs, 3 settings, semaphore 1, 2 attempts | a design is of its own run, done is whole, when the fallback is sound |
| `backlog` | 2 jobs over 4 BRDs, 3 settings, epics from 3 requirements on, 3 rounds, 2 dry ones end it | the backlog is what the ledger holds, no requirement is lost unasked, it implements `StageJob`, jobs settle |
| `blueprint` | 2 graphs of up to 7 entities, prompts of 2, cap 2, 1 retry, 2 jobs | the best attempt is saved, agents hear of all but what overflows, only an untimed call can hold a job for ever |
| `plan` | samples of graphs of 3 programs, backlogs of 3 stories, packs, designs, answers and narratives; `StoryFiles` with 3 stories | waves and work-lists are ordered and whole, writers are covered once, built stories keep their files |
| `verify` | 3 requests, 2 stories in either order or no backlog, one matching body and two differing ones with sub-slices in opposite orders, 1 repair attempt | requests write in turn, green was measured, no circular wait but between differing lists |
| `release` | 2 canary runs, 1 agent, two pairs of caps, one percentage, 3 charges; samples for lab, mimic and dark launch | traffic is watched, overruns are bounded, verdicts are sound, records survive |
| `repair_wipes` | as `plan` | violation: a verify repair removes other stories' code |

Why the bounds are enough. Runner: keys meet only in `Restart`; three runs are
the least with a superseded worker, the one that superseded it and one after a
restart. Builds: the plan has a wave of two behind a dependency and a cycle, two jobs
give records left by an earlier build, three attempts a retry that makes progress
and one that does not, and the pool of 4 is reached between passes. Story: two passes
and builds meet old rows, and a repair that is itself re-tested is the loop. Build jobs:
two of each shared thing is what a clash needs. Domain and technical design:
two jobs make cache hits, a worse second run and a crash in between; with width 1 a
context waits for the other, and nothing is committed before the job ends, so
the contexts' calls share no state but the semaphore. The five inputs of technical
design are the ways in which two runs can be confused: a changed backlog, a shared
resource, one listed twice, names with one slug. Backlog: four BRDs are one that
is decomposed, one with a gap in its evidence, one with little coverage and an empty
one; three rounds are one with progress and two dry ones. Blueprint: a graph that is
drafted by one agent and one whose clusters exceed the cap, with more behind the cut than
a prompt of two names. Samples: three programs
or stories give chains, forks, joins, cycles and ties; amounts and pictures lie on
both sides of every edge (sign, rounding, overflow, odd and even digits). Verify: three
requests are an earlier verdict and two that race over it, and the least that can wait
in a circle with one looking on; a second repair attempt repeats the first. Release: two
runs reset each other's route, the agent spends beside them, the lower caps stop a run
after its first charges and the higher ones let it reach its observation or are
met exactly, and one pair replaces the other either way.

`MaxDraw`, `MaxRuns`, `MaxJobs`, `MaxBuilds`, `MaxPosts` and `MaxCharges` are the
bounds that are no setting of the program; `MapPreview` is the code's 60. `MaxPasses` and `PassCap` are
`BUILD_MAX_STORY_ATTEMPTS`, `RepairCap` and `MaxRepair` the repair attempts.

### Disagreements between code and documentation

The violation run: `_repair_story_java` promises that other stories' files are
untouched, but it scaffolds the module first, and `scaffold_from_design` begins with
`shutil.rmtree` (`RepairIsScoped`). The same call begins every story build, so a build
of one story, or one that resumes, also leaves stories on record as passed whose code
and tests are gone.

Met while modelling, and kept here in words. In the jobs and verdicts:

* `jobs.py:57` promises that a live job is never doubled; the age rule doubles one that
  is merely slow. What holds is `OverlapOnlyWhenStale`.
* `build_stories.py:545` says stories' outcomes are persisted even when the gate fails;
  they were only flushed, and the session is closed without a commit.
* `story_runner.py:737` says `run_story` never re-raises; marking the story's row
  raises when a swallowed commit failure had rolled the row away.
* `gates_util.py:44` protects gates a person resolved; it cannot tell them from gates
  a run passed, so a later failing run leaves a gate green.
* `verify_repair.py:339` says passed means every story; a repair sets the stage from its
  one story. Without a backlog the stage can keep the older of two racing verdicts. A
  repair compares the records of its request again after regenerating, so only a
  story that was green to begin with ends green (`GreenIsMeasured`).
* `brd/pipeline.py:93` ends the loop on the rating and keeps the best weighted sum, so a
  medium draft can be kept over the high one that ended the loop.
* A targeted build of one story that ends deferred still passes the build stage.
* A unit of the backlog or the technical design that was answered with nothing is cached
  as succeeded, and never asked again on the same input.
* A job whose commit fails after its version was stored reads "failed" until the
  backend restarts and "done" afterwards (`StageJob`'s `Vanish` after `Abort`).
* A run that ends "promoted" may have had its weight taken back by another run's
  reset; starting a run over budget resets the route of every other. The deploy gate is
  read before the run and may be stale at the flip; a smoke test that raises leaves
  earlier traffic where it was.

In the functions:

* `run_plan` builds stories from candidates without reads or writes, so the plan the
  endpoint stores has no dependencies (`dependency.py:16`); `backlog.py:488` is the same.
  `Dependencies` is checked on candidates that have them.
* `rank_candidates` keeps 25 programs and drops the rest without a word.
* `enrich_design` looks for `slice_id` at the top of each entry, where
  `_compute_designs` does not put it, so every design narrative is dropped.
* `design/judge.py:28` speaks of another context; any other program that writes counts.
* The derived domain design is not held to the gates of an agent's decomposition;
  `DerivedIsCovered` shows when it would meet them.
* `record_layout.py:39` and `mimic/layout.py:43` disagree on the width of packed fields.
  The mimic rounds half to even, the lab half up. A packed field without a value
  decodes to a wild number.
* `lab.py:78` says the most recent golden run is taken; it is the first inserted.
* Empty fixtures pass the performance gate, no requests count as healthy, no probes
  pass the smoke test, no inputs pass a dark launch.
* `STORY_MAX_TOKENS` of zero or less makes the default pool zero, hence exhausted
  at once (`BuildIsFunded`).
* `BUILD_MAX_CONCURRENCY` defaults to 1 although two docstrings say 2 and 4.

## Fairness

* Runner: time passes (`Tick`), a worker past `fn` reaches `_finish`, a caller inside
  `start` returns. Nothing is assumed of `fn`, which may hang for ever; that is
  why `NeverWedged` needs the age rule.
* Build, story, both build jobs, domain, backlog: the job's thread goes on working
  (`Work`, `Step`), because the generator and unit calls run under a wall-clock timeout,
  Maven under a process timeout, and the database ends waits. Two jobs get a condition each,
  since each has its own thread.
* Blueprint: only the steps between the calls (`Local`) and improve's draft, which has
  its timeout (`Timed`). Nothing ends the calls of map, reduce and judge
  (`brd_orchestrator.py:118`, `:160`, `brd_judge.py:104`): a turn cap does not end a
  subprocess that hangs (`enrichment/base.py:50`). So `BlueprintEnds` says that a job
  ends or waits for one such call for ever; that a hung job is one day superseded is
  `JobRunner`'s.
* New jobs, approvals, crashes, aborts, restarts, commits of other stories are never fair.
* Verify, technical design, plan, release: none. `SomeoneProceeds` says as an invariant
  that of the requests under way one can go on, or some wait in a circle over ledger rows
  that their bodies or backlogs list in different orders. Postgres ends such a circle by
  aborting one of them, which is a `Raise`. As each has a bounded number of steps, they end.

## Proofs

TLAPS proves the following for every value of the constants that satisfies the
named assumption of the module (`RunnerAssumption`, `BuildAssumption`, `RunAssumption`,
`FilesAssumption`, `BuildJobsAssumption`, `StageAssumption`, `DesignAssumption` with
`GateAssumption`, `BacklogAssumption`, `BlueprintAssumption`, `PlanningAssumption`,
`VerifyAssumption`, `ReleaseAssumption`: sorts of the constants, positivity of widths
and limits). TLC evaluates each assumption in the run of the module. Hardly a
property is inductive as it stands; what follows is what had to be added.

**JobRunnerProofs**: `TypeCorrect`, `LateWorkerIgnored`, `ThreadTableExact`,
`OverlapNeedsAge`, `RunnerImplementsSlot`. Identities above `runs` are unborn
(`BornInOrder`), a job's run belongs to its key and was handed out, and an unsettled
record holds no outcome and a settled one its own run's (`JobShape`): then a late
`_finish` cannot own a slot it lost.

Of `BuildJobs`, in the same module: `PassedStoriesAreReferenced` and
`BuildsLoseNothing`. The whole argument is the unique constraint. `Places` says what
each job has read and inserted where it stands in the code, `Stores` what a committed
version may hold, and `Serial` that an uncommitted version has one owner
(`Exclusive`), extends what its transaction read (`Extends`), and that what was read is
still the newest whenever the insert will succeed (`Fresh`): a job that read before
the other committed can only clash. `Referenced` then says, for the store and for each
transaction's view of it, that a passed story is backed by its criteria (`Backed`) or
was `torn`, and `Cleared` that a job has reset the old records of its stories before it
records new ones.

**StoryBuildProofs**: `TypeCorrect`, `Ordered`, `NeverRebuilt`, `DoneIsDurable`,
`StageIsEarned`, `BuildIsEarned`, `RetriesBounded`. The invariant describes the wave
(what is neither waiting nor in it has an outcome; what is active has none), that a story
outside every cycle never takes the way out of one, and how `session` relates to `out`
and `latest` in each part of the loop. Durability holds under `FlakyCommits = FALSE`, which
is a hypothesis of those theorems and necessary: a swallowed rollback during one story
undoes flushed results of the others. The pool is asked before a retry pass and
not within it; `PoolInv` says that since then each story that had its turn drew at most
once, so the overdraft is bounded by the number of stories of one pass.

Of `StoryFiles`, in the same module: `BuiltStoriesStay`. `LaidOut` says that the shells of
a module are there while a build is on, and that what a generator was
shown is still what a file holds if stories run one at a time, `Alone` that then at most
one story is at work, `Tested` that a story's own test is there from the moment it is
written, and `Lasting` that a built story stays on disk, if stories run one at a time or
the patch is the deterministic one. Without that guard it does not.

**StoryRunProofs**: `TypeCorrect`, `RecordsTrue`, `NothingIsStale`, `OverrunBounded`.
`Place` says where each phase stands in the count of implementations, `Spending` what
may have been drawn at each phase, `Fresh` what a restart-fresh build finds, `Together`
that a terminal record agrees with the story's row in the store and, but where the code
is between the two writes, in the session, and `Reliable` that with commits that never
fail record and row are running while the story is worked on, and which row a failed story
may leave running.

**DomainStageProofs**: `TypeCorrect`, `GreenIsEarned`, `DesignBacked`,
`StatusIsDurable`, `CacheIsKept`, `DecisionIsKept`, `SettledIsKept`. The invariant
relates the transaction to the committed ledger (it extends it and never takes a
succeeded unit back), the place of each context to the units it must have behind it, and
the saved design to the plan while the job is between `Save` and `Commit`.

**TechDesignProofs**: `TypeCorrect`, `DesignImplementsStage`, `DoneDesignIsWhole`,
`SavedDesignIsOfItsRun`, `FallbackPassesItsGates`. `Transaction` says that a succeeded unit
was shown the pack it is filed under, in the session and in the store, `Fanned` that a
settled context has its unit in the session, `Drafted` and `Kept` what of the ledger a
draft and then the version were drawn from, and `Resolving` that a gate seen as decided
stays decided until the commit. For the fallback, `FellBack` says that a version
made without a model is the function of its input, and the rest is about that function:
what makes two of its services share a name or a table.

**BacklogProofs**: `TypeCorrect`, `BacklogImplementsStage`, `DoneBacklogIsLanded`, by the
invariant `Transaction` on the run a transaction belongs to, and the abstract
`DoneIsLanded` through the mapping; `BacklogIsOfItsLedger` and `RequirementsKept`. For
these, `Drafts` and `Matches` tie what the loop holds, and the version on top, to the
units of the ledger under the prompts of the run; `Gapless` and `Explored` say that each
round asked for all that was still missing, but for the requirements nobody owns in the
first round when an answered epic already has the id of the catch-all one; `Sources`
that a draft without a model is the function of an input that shows the same.

**VerifyProofs**: `TypeCorrect`, `WritesInTurnAlways`, `GreenMeasuredAlways`. Each request
keeps in step with its locks and what it read (`Good`), two requests never hold the same
row (`Exclusive`), versions form a chain (`History`), and the stage is what the newest
report or the request now holding its row says (`LastVerdict`). Writing rows one by one adds
nothing to the argument but their sorts: no version depends on a ledger row.

Of `Lab` and `DarkLaunch`, in the same module: `VerdictsAreSound`,
`FailuresAreBroughtDown` and `LaunchesAreSound`, for any records, rules and answers.
`PassMeans` and `LaunchPasses` say field by field what a pass is: the same string, or
numbers or dates as near as the rule wants. The rest is rounding: half up moves a tie away from zero, hence two numbers that round to the same
are strictly less than a unit apart (`NearWhenRoundedNear`), but under half-even only
at most a unit (`CloseWhenQuantized`); a decoded field is already rounded
(`ZonedIsWhole`, `PackedIsWhole`). `Readable` is what the sampled records are too: a
rule of numbers or of dates is given for a field whose golden value has that form;
otherwise the comparison raises, or misreads it, and the theorem says nothing.

Of the mimic, in the same module: `RecordsAreKept`, for any copybook of items with at least
one digit and any results. A digit is what is left of the number when the lower ones have
been dropped (`Drops`), the number its digits make grows from the other end (`Makes`), and
the two meet (`DigitsMakeIt`) if there are digits enough, which is what fitting says; the
sign is taken off again (`Overpunched`, `PackedNibbles`), and rounding leaves alone what
needs none, for half-even and half-up alike (`HalfEvenExact`), so mimic and lab agree.
`JoinSteps` unfolds `FlattenSeq`, and `CellsJoin` finds each field at the sum of the widths
before it (`OffsetsAdd`). The lab's widths are the mimic's on the condition the property
states (`WidthsOfItems`), hence its offsets too (`OffsetsAgree`). `StepsExist`, `StepsKeep`
and `UpToNumber` are what stands in for induction over data: they are about sets of
numbers and about step functions, which are values, not operators.

**ReleaseProofs**: `TypeCorrect`, `TrafficWatched`, `OverrunBounded`. The
two safety properties are inductive once typed and once it is known that a promoted run is
over and no cap is above the highest (`CapIsLow`); the work is in the cardinality of the
stopped spenders, which grows with each charge that is not yet checked (`OneCharge`; who
adds was not stopped before, `ChargedGoOn`), while one that goes on found the workspace
under its cap (`UnderCap`). The bound
is stated for a ledger that lost no add. Of one that did, the property says nothing: how
much was spent the ledger cannot tell.

Of `Blueprint`, in the same module: `BestBlueprintSaved` and `NothingIsDropped`. `BestSoFar`
says that the best so far is one of the attempts, that none is better, and that it is not
rated high on references to nothing; `Tried` how many attempts there are at each place
and that only the last may be rated high; `Busy` that a job that is somewhere is running,
so that no second one resets them. The rest is a matter of `BrdDraft`: components
meet only if they are one (`ComponentsApart`), the `n` largest are at most `n`
(`LargestBounded`), whatever the order, and folding what is left keeps the parts apart
(`FoldApart`). For what is told, subsystems are unions of components
(`SubsystemsCoarse`), the prompt of one that is a single component names some of it and that
of a small one all of it (`PreviewNames`), and a component that shares its subsystem was
trivial or outranked (`UntoldMerged`).

Of `Planning`, in the same module: `PlansAreOrdered`, for any finite set of stories that
know one another, and `EveryPlanIsWhole`, for any parsed graph. `EveryNumber` is
induction over the naturals, with a set in place of a predicate, and `Iteration` that a
function may be defined step by step; with them the waves are the steps of a growing set
(`SeenGrows`, `SeenEnds`) which stops short of all stories only on a circle
(`SeenUnlessCycle`), and each turn of Kahn's queue keeps `Serving`: served once,
dependencies first, and queued exactly what is ready and not served. `Ranks` is about any
order of finitely many things: the number of those before it is a thing's place, and
no place is empty; the sorted queue and the ranking of the programs are both instances.
The handlers hand `derive_dependencies` candidates without the two lists it compares, so
their stories wait for nothing; the theorem has both, the plan as made and the plan the
graph would give.

Of `DomainPlan` and `SliceDesign`, in the same module: `DecompositionsAreCovered`,
`DerivedDesignsAreCovered`, `SlicesAreJudged` and `NarrativesGrounded`. An answer of an
agent is any sequence of contexts, its items any list about anything; programs, writes
and backlog are any finite ones, and the graph knows something, since the handlers
answer 409 without one. `AnsweredContext` is what parsing leaves of an answer. The search
for what lies below a context is a growing set (`GrowthEnds`, which also ends the waves
above): it reaches everything there is (`BelowIsAll`), hence contexts that pass the gates
wait for nobody in a circle (`NoContextsWait`). The derived design is defined group by
group, which `StepByStep` makes a sequence whose members only grow (`AddGroupStays`), so a
program once in a context stays (`DesignHasAll`); gates that hold leave each program one
context (`OneMention`) and each resource one owner (`OneOwner`). The sum of signals is
defined step by step too, and their mean stays between 0 and 1000 (`MeanIsWhole`).

Of `CodegenPlan`, in the same module: `WorkListsAreOrdered`, `StoriesAreListed`,
`PacksArePrefixes` and `BuildsAreFunded`, for any backlog, services, slice and limits. A
pass of `_ordered_stories` is defined story by story and the passes one by one, so both
are proved with `StepByStep`: `Emittings` is what every step keeps (each emitted story
once and after all it depends on, those a cycle holds up still left), a pass without
progress leaves a set each member of which waits for another of it, hence the held-up ones
(`HeldUp`), and every other pass emits one, so the passes suffice (`EmissionSettles`). That
no story in place is overtaken needs the state within a pass: up to the story a pass is
at, those in place are emitted, and in the order of the backlog. `FlattenSeq` is taken
as what it is defined by; `FlattenStays` says that it stays within a set, `SizesAdd` that
the size of a beginning is the sum so far, and `BeginningOf` that the longest beginning
that fits is cut short by one that does not.

`PlansStayOrdered`, `InputsStayWhole` and `WritersStayCovered`, and in **VerifyProofs**
`VerdictsStaySound` and `RecordsStayKept`, state the above as the invariants of `PlanSpec`
and `LabSpec` that the runs check: whichever input or trial is drawn, no instance fixed.
Their inductive invariant is that what was drawn is an input (`InputsAreDrawn`,
`TrialsAreTried`). Facts about numbers and functions that both modules need are proved in each.

Only model-checked: liveness, and `SomeoneProceeds`, which say what is ENABLED or rest on
fairness. Every other invariant and action property the runs check is a theorem too.

## Not modelled

* What agents and templates write, prompts, parsing of prose and rendering; the agent
  harness and its sessions. Their outcomes are free choices.
* Ingestion, the COBOL parsers, the graph, and the parse stage: text in, graph data out,
  in one request that marks its stages at the end.
* Run events: `emit_event` is called by the seed only, so no event of a running
  application exists to be lost.
* Code no endpoint reaches: `run_repair_loop`, `build_story_dag` and INVEST, the planner
  service, `build_seam_map`, `deadcode.py`, `dedup.py`. `CanaryOrchestrator`,
  `CostVerifier`, the mimic and the lab's record layout are not wired to endpoints either
  but are complete protocols or algorithms of their own, and are modelled.
* The enrichment jobs, which store what `SliceDesign` computes, and context labels. One
  thing to know: an enrichment that fails stores an empty payload, which is then
  served, and shadows a good one after a refresh.
* Prechecks that only refuse to start, read-only endpoints, HTTP, authentication, logging,
  migrations, `runner.inline` (a switch for tests), agent runs and budget rows of `PgRepo`,
  date rules of the dark launch, the EBCDIC code page, the web client and the extractor.

Two hazards have no property: without a backlog nothing serialises two verify requests
before the stage row (`verify.py:155`), and a unit that failed under an input never used
again keeps the domain stage incomplete (`analysis.py:92`), which is never wrong about a
green one. Three more are known and outside the models: the deterministic domain unit is
cached on BRD and backlog although it is derived from the graph as well
(`domain.py:113`), BRD versions are newest plus one without a constraint that makes them
unique, and the supersession of an old job by the runner is not composed with the
stages.
