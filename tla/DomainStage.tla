---------------------------- MODULE DomainStage ----------------------------
(***************************************************************************)
(* The domain-design stage of one workspace: the job                       *)
(* controlplane/analysis.py _domain_run_and_persist around                 *)
(* controlplane/domain.py run_domain_design.  The job decomposes the       *)
(* system into bounded contexts, designs every context in three tactical   *)
(* units under a semaphore (or does all of it deterministically), saves a  *)
(* new design version, publishes its quality gate, marks the stage and     *)
(* commits.  Every unit is a row of the work-unit ledger, cached by its    *)
(* input hash.                                                             *)
(*                                                                         *)
(* The design is saved to Neo4j and is durable at once; ledger, gate and   *)
(* stage are written in one SQL transaction that ends with the job.  A     *)
(* refinement is a run on another input.                                   *)
(***************************************************************************)
EXTENDS Naturals, FiniteSets, Gates

CONSTANTS Inputs,          \* BRD text, backlog and instruction: one input hash
          Contexts,        \* the declared contexts, each with its payload
          MaxConcurrency,  \* DOMAIN_TACTICAL_MAX_CONCURRENCY
          MaxRuns          \* bound: how many jobs are started

ASSUME StageAssumption ==
    /\ MaxConcurrency \in Nat \ {0}
    /\ MaxRuns \in Nat

VARIABLES pc,       \* where the job is
          runs,     \* how many jobs were started
          head,     \* what the job works from, by LLM or deterministically
          plan,     \* the contexts it found
          pos,      \* where each of them is
          busy,     \* the contexts that await the model
          quality,  \* assess_domain_quality's verdict
          loaded,   \* status of the gate row as the job's session loaded it
          job,      \* the status the job runner holds, if any
          session,  \* the ledger as the job's transaction sees it
          saved,    \* the committed ledger
          gate,     \* the committed domain_quality gate
          stage,    \* the committed status of the journey stage
          latest    \* the latest :DomainDesign version

vars == <<pc, runs, head, plan, pos, busy, quality, loaded, job, session,
          saved, gate, stage, latest>>
jobVars   == <<runs, head, quality, loaded, job>>
storeVars == <<saved, gate, stage>>

Runs     == 1..MaxRuns
Tactical == {"aggregate", "contract", "mapping"}
Heads    == {"decomposition", "deterministic"} \X Inputs
Units    == Heads \cup (Tactical \X Contexts)

UnitStatus == {"absent", "running", "succeeded", "failed"}

(* runs: the AgentRun rows; found: the contexts in the payload of a head. *)
Ledger == [runs : SUBSET Runs, unit : [Units -> UnitStatus],
           found : [Heads -> SUBSET Contexts]]

Design == [run : Runs \cup {0}, contexts : SUBSET Contexts, designed : SUBSET Contexts,
           llm : BOOLEAN]

NoDesign == [run |-> 0, contexts |-> {}, designed |-> {}, llm |-> FALSE]

Active    == {"head", "tactical", "save", "judge", "mark"}
Positions == {"queued", "parse", "designed", "dropped"} \cup Tactical

TypeOK ==
    /\ pc \in Active \cup {"idle"}
    /\ runs \in 0..MaxRuns
    /\ head \in Heads
    /\ plan \subseteq Contexts /\ busy \subseteq plan
    /\ pos \in [Contexts -> Positions]
    /\ quality \in BOOLEAN
    /\ loaded \in {"none", "open"} \cup Resolved
    /\ job \in {"none", "running", "done", "incomplete", "failed"}
    /\ session \in Ledger /\ saved \in Ledger
    /\ gate \in GateRow
    /\ stage \in {"pending", "incomplete", "passed"}
    /\ latest \in Design

Queued == [c \in Contexts |-> "queued"]

Init ==
    /\ pc = "idle" /\ runs = 0
    /\ head \in Heads
    /\ plan = {} /\ pos = Queued /\ busy = {}
    /\ quality = FALSE /\ loaded = "none" /\ job = "none"
    /\ saved = [runs |-> {}, unit |-> [u \in Units |-> "absent"],
                found |-> [h \in Heads |-> {}]]
    /\ session = saved
    /\ gate = NoGate /\ stage = "pending" /\ latest = NoDesign

----------------------------------------------------------------------------
(* Mutated forms: a succeeded unit is generated again; the mapping unit is *)
(* left out; a dropped context keeps its slot;                             *)
(* the quality gate does not look for missing designs; the status is read  *)
(* from the quality gate alone.                                            *)
CachedNever(u) == FALSE
NextPosEarly(k) == IF k = "aggregate" THEN "contract" ELSE "parse"
FreeLeaky == Cardinality({c \in plan : pos[c] \in Tactical \cup {"dropped"}}) < MaxConcurrency
MayPassPartial(contexts, designed) == contexts # {}
PersistedByQuality ==
    IF latest.run = 0 THEN "idle" ELSE IF gate.status = "open" THEN "incomplete" ELSE "done"

(* find_cached_work_unit: the row of this input hash succeeded. *)
Cached(u) == session.unit[u] = "succeeded"

(* create_work_unit and the marks, on the one row of the unit. *)
Mark(u, status) == [session EXCEPT !.unit[u] = status]
Answered(h, found) == [session EXCEPT !.unit[h] = "succeeded", !.found[h] = found]

(* The units of a context follow each other; then its parts are merged. *)
NextPos(k) ==
    CASE k = "aggregate" -> "contract" [] k = "contract" -> "mapping" [] OTHER -> "parse"

(* The contexts that hold the semaphore. *)
Inside == {c \in plan : pos[c] \in Tactical}
Free   == Cardinality(Inside) < MaxConcurrency

Designed == {c \in plan : pos[c] = "designed"}

(* assess_domain_quality can only pass a design with a context and with no *)
(* context left out; the rest of its rules are about the payloads.         *)
MayPass(contexts, designed) == contexts # {} /\ designed = contexts

(* _has_blocking_work_units: any failed row of the stage, of any input. *)
Blocked == \E u \in Units : session.unit[u] = "failed"

Outcome(blocked, passed) == IF blocked \/ ~passed THEN "incomplete" ELSE "done"

(* domain_design_status, when no job is known: what is persisted. *)
Persisted ==
    IF latest.run = 0 THEN "idle" ELSE IF stage = "incomplete" THEN "incomplete" ELSE "done"

----------------------------------------------------------------------------
(* domain_design_start and _refine: the job opens its session and its run. *)
Begin(h) ==
    /\ pc = "idle" /\ runs < MaxRuns
    /\ runs' = runs + 1
    /\ head' = h
    /\ pc' = "head"
    /\ plan' = {} /\ pos' = Queued /\ busy' = {}
    /\ job' = "running"
    /\ session' = [saved EXCEPT !.runs = @ \cup {runs + 1}]
    /\ UNCHANGED <<quality, loaded, latest, storeVars>>

(* _decompose_with_ledger, and the one unit of deterministic mode, which   *)
(* designs every context it finds: reuse the cached payload or answer.     *)
Answer(found) ==
    /\ pc = "head"
    /\ IF Cached(head)
       THEN plan' = session.found[head] /\ UNCHANGED session
       ELSE plan' = found /\ session' = Answered(head, found)
    /\ IF head[1] = "deterministic"
       THEN pc' = "save" /\ pos' = [c \in Contexts |-> "designed"]
       ELSE pc' = "tactical" /\ UNCHANGED pos
    /\ UNCHANGED <<busy, latest, jobVars, storeVars>>

(* _one passes the semaphore. *)
Enter(c) ==
    /\ pc = "tactical" /\ c \in plan /\ pos[c] = "queued"
    /\ Free
    /\ pos' = [pos EXCEPT ![c] = "aggregate"]
    /\ UNCHANGED <<pc, plan, busy, session, latest, jobVars, storeVars>>

(* _payload_unit: the cached payload is taken without a call. *)
Reuse(c) ==
    /\ pc = "tactical" /\ c \in Inside \ busy
    /\ Cached(<<pos[c], c>>)
    /\ pos' = [pos EXCEPT ![c] = NextPos(@)]
    /\ UNCHANGED <<pc, plan, busy, session, latest, jobVars, storeVars>>

(* _payload_unit: the row is created, marked running, the model called. *)
Open(c) ==
    /\ pc = "tactical" /\ c \in Inside \ busy
    /\ ~Cached(<<pos[c], c>>)
    /\ session' = Mark(<<pos[c], c>>, "running")
    /\ busy' = busy \cup {c}
    /\ UNCHANGED <<pc, plan, pos, latest, jobVars, storeVars>>

(* The model answers. *)
Succeed(c) ==
    /\ pc = "tactical" /\ c \in busy
    /\ session' = Mark(<<pos[c], c>>, "succeeded")
    /\ pos' = [pos EXCEPT ![c] = NextPos(@)]
    /\ busy' = busy \ {c}
    /\ UNCHANGED <<pc, plan, latest, jobVars, storeVars>>

(* The call raises: the row fails; gather(return_exceptions=True) drops    *)
(* the context and the others go on.                                       *)
Fail(c) ==
    /\ pc = "tactical" /\ c \in busy
    /\ session' = Mark(<<pos[c], c>>, "failed")
    /\ pos' = [pos EXCEPT ![c] = "dropped"]
    /\ busy' = busy \ {c}
    /\ UNCHANGED <<pc, plan, latest, jobVars, storeVars>>

(* The parts are merged and parsed, or that raises: no row says so. *)
Parse(c, well) ==
    /\ pc = "tactical" /\ c \in plan /\ pos[c] = "parse"
    /\ pos' = [pos EXCEPT ![c] = IF well THEN "designed" ELSE "dropped"]
    /\ UNCHANGED <<pc, plan, busy, session, latest, jobVars, storeVars>>

(* gather returns, the contexts that have a design are assembled. *)
Assemble ==
    /\ pc = "tactical" /\ \A c \in plan : pos[c] \in {"designed", "dropped"}
    /\ pc' = "save"
    /\ UNCHANGED <<plan, pos, busy, session, latest, jobVars, storeVars>>

(* DomainDesignStorage.save: a new version in Neo4j, durable at once. *)
Save ==
    /\ pc = "save"
    /\ pc' = "judge"
    /\ latest' = [run |-> runs, contexts |-> plan, designed |-> Designed,
                  llm |-> head[1] = "decomposition"]
    /\ UNCHANGED <<plan, pos, busy, session, jobVars, storeVars>>

(* The quality is assessed and upsert_gate loads the gate's row. *)
Judge(passed) ==
    /\ pc = "judge"
    /\ passed => MayPass(plan, Designed)
    /\ pc' = "mark"
    /\ quality' = passed
    /\ loaded' = gate.status
    /\ UNCHANGED <<runs, head, plan, pos, busy, job, session, latest, storeVars>>

(* The stage is marked and everything committed.  Reading the progress for *)
(* the job's result may still raise.                                       *)
Commit ==
    /\ pc = "mark"
    /\ pc' = "idle"
    /\ saved' = session
    /\ gate' = Upsert(gate, loaded, quality)
    /\ job' \in {Outcome(Blocked, quality), "failed"}
    /\ stage' = IF Outcome(Blocked, quality) = "done" THEN "passed" ELSE "incomplete"
    /\ UNCHANGED <<runs, head, plan, pos, busy, quality, loaded, session, latest>>

(* Marking or committing raises: everything is rolled back, the exception  *)
(* is swallowed and the job ends with the status it had computed so far.   *)
CommitLost(blocked) ==
    /\ pc = "mark"
    /\ blocked => Blocked
    /\ pc' = "idle"
    /\ session' = saved
    /\ job' = Outcome(blocked, quality)
    /\ UNCHANGED <<runs, head, plan, pos, busy, quality, loaded, latest, storeVars>>

(* Anything else raises: the job fails, its session is never committed.    *)
(* With the decomposition it takes the failed mark of its unit with it.    *)
Raise ==
    /\ pc \in Active
    /\ pc' = "idle" /\ job' = "failed"
    /\ session' = saved
    /\ UNCHANGED <<runs, head, plan, pos, busy, quality, loaded, latest, storeVars>>

(* The backend restarts: no job is known, no transaction is left. *)
Restart ==
    /\ job # "none"
    /\ pc' = "idle" /\ job' = "none"
    /\ session' = saved
    /\ UNCHANGED <<runs, head, plan, pos, busy, quality, loaded, latest, storeVars>>

(* submit_approval, in a request of its own. *)
Approve(decision) ==
    /\ gate.status # "none"
    /\ gate' = Decide(gate, decision)
    /\ UNCHANGED <<pc, plan, pos, busy, session, saved, stage, latest, jobVars>>

Work ==
    \/ \E found \in SUBSET Contexts : Answer(found)
    \/ \E c \in Contexts :
         \/ Enter(c) \/ Reuse(c) \/ Open(c) \/ Succeed(c) \/ Fail(c)
         \/ \E well \in BOOLEAN : Parse(c, well)
    \/ Assemble \/ Save
    \/ \E passed \in BOOLEAN : Judge(passed)
    \/ Commit
    \/ \E blocked \in BOOLEAN : CommitLost(blocked)

Next ==
    \/ \E h \in Heads : Begin(h)
    \/ Work
    \/ Raise
    \/ Restart
    \/ \E decision \in Decisions : Approve(decision)

Spec == Init /\ [][Next]_vars

(* Model calls have timeouts, so the job's thread gets on. *)
FairSpec == Spec /\ WF_vars(Work)

----------------------------------------------------------------------------
(* Properties.  A run landed when its transaction was committed. *)

Landed == latest.run \in saved.runs

(* A green stage is earned: no unit of the stage is on record as failed,   *)
(* and the design it stands for, unless a run died between saving a newer  *)
(* one and its commit, has every context it declares.                      *)
GreenIsWhole ==
    stage = "passed" =>
        /\ \A u \in Units : saved.unit[u] # "failed"
        /\ Landed => latest.contexts # {} /\ latest.designed = latest.contexts

(* Every context of a landed LLM design has its three tactical units in    *)
(* the durable ledger, so the next run on the same payloads is free.       *)
DesignIsBacked ==
    Landed /\ latest.llm =>
        \A c \in latest.designed, k \in Tactical : saved.unit[<<k, c>>] = "succeeded"

(* The cache: output once paid for and committed is never lost, restarted  *)
(* or replaced, whatever fails later.                                      *)
CacheKept ==
    [][\A u \in Units : saved.unit[u] = "succeeded" =>
         /\ saved'.unit[u] = "succeeded"
         /\ u \in Heads => saved'.found[u] = saved.found[u]]_vars

(* Only another decision changes the status of a gate a person decided,    *)
(* except that a run which had loaded the gate while it was open and       *)
(* passes still turns it green.                                            *)
DecisionStands ==
    [][gate.decision # "none" /\ gate'.status # gate.status =>
         \/ gate'.status = gate'.decision
         \/ pc = "mark" /\ loaded = "open"]_vars

(* What is settled stands, whatever later runs do: committed unit output   *)
(* (find_cached_work_unit) and a person's decision (upsert_gate).          *)
SettledStands == CacheKept /\ DecisionStands

(* The status endpoint answers the same before and after a restart, for a  *)
(* settled job whose commit landed.                                        *)
StatusSurvives == job \in {"done", "incomplete"} /\ Landed => job = Persisted

(* Every job settles: no context waits for the semaphore for ever. *)
RunSettles == pc # "idle" ~> pc = "idle"

=============================================================================
