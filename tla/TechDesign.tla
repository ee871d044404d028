----------------------------- MODULE TechDesign -----------------------------
(***************************************************************************)
(* The technical-design stage of one workspace                             *)
(* (controlplane/technical_design.py, enrichment/base.py).  A run loads    *)
(* the domain design and the backlog, has the model design one service per *)
(* context, at most MaxConcurrency at a time and each answer a unit of the *)
(* ledger cached by its input, falls back to the design without a model    *)
(* when nothing comes of it, saves a version, publishes three gates and    *)
(* commits.  After a restart the status is worked out from the gates.      *)
(*                                                                         *)
(* As in DomainStage the saved version is durable at once while ledger and *)
(* gates are one transaction that ends with the job.                       *)
(***************************************************************************)
EXTENDS ServicePlan, Gates

CONSTANTS Inputs,          \* what a run may find in the stores
          Settings,        \* TECHNICAL_DESIGN_MODE and TECH_DESIGN_GEN_MODE
          Answers,         \* per context: the payloads the model may give
          MaxConcurrency,  \* TECH_DESIGN_MAX_CONCURRENCY
          MaxAttempts,     \* TECH_DESIGN_UNIT_ATTEMPTS
          Approvable,      \* bound: the gates people decide
          MaxRuns          \* bound: how many jobs are started

(* A context is known by its name; what is loaded and answered is finite.  *)
ASSUME DesignAssumption ==
    /\ MaxConcurrency \in Nat \ {0} /\ MaxAttempts \in Nat \ {0} /\ MaxRuns \in Nat
    /\ None \notin Names \cup Inputs
    /\ \A i \in Inputs :
          /\ IsFiniteSet(i.contexts) /\ Known(i) \subseteq Names
          /\ \A c, d \in Named(i) : c.name = d.name => c = d
          /\ \A c \in Named(i) : c.owns \in [Resources -> Nat]
    /\ \A n \in Names : \A services \in Answers[n] :
          IsFiniteSet(services) /\ \A s \in services : IsService(s)

VARIABLES pc,       \* where the job is
          runs,     \* how many jobs were started
          input,    \* what it loaded
          pos,      \* per context name: where its unit is
          tries,    \* per context name: calls made for it
          origin,   \* who made the payload: the model, the fallback, no model
          payload,  \* the services before they are read
          loaded,   \* status of the gates as the job's session loaded them
          job,      \* the status the job runner holds, if any
          session,  \* the ledger as the job's transaction sees it
          saved,    \* the committed ledger
          gates,    \* the committed gates
          latest    \* the latest :TechnicalDesign version

vars == <<pc, runs, input, pos, tries, origin, payload, loaded, job, session,
          saved, gates, latest>>

GateKeys == {"design_generation_complete", "design_data_ownership",
             "technical_design_quality"}
ASSUME GateAssumption == Approvable \subseteq GateKeys

Packs == UNION {{Pack(c, i) : c \in Named(i)} : i \in Inputs}

UnitStatus == {"absent", "running", "succeeded", "failed"}

(* A unit keeps, besides its payload, the pack the model was shown. *)
NoUnit  == [status |-> "absent", payload |-> {}, shown |-> None]
NoDesign == [run |-> 0, origin |-> "none", input |-> None, services |-> {}]

Init ==
    /\ pc = "idle" /\ runs = 0 /\ job = "none"
    /\ input = None /\ origin = "none" /\ payload = {}
    /\ pos = [n \in Names |-> "none"] /\ tries = [n \in Names |-> 0]
    /\ loaded = [k \in GateKeys |-> "none"]
    /\ saved = [runs |-> {}, unit |-> [p \in Packs |-> NoUnit]]
    /\ session = saved
    /\ gates = [k \in GateKeys |-> NoGate]
    /\ latest = NoDesign

TypeOK ==
    /\ pc \in {"idle", "fan_out", "units", "save", "judge", "commit"}
    /\ runs \in 0..MaxRuns /\ input \in Inputs \cup {None}
    /\ pos \in [Names -> {"none", "queued", "calling", "settled"}]
    /\ tries \in [Names -> 0..MaxAttempts]
    /\ origin \in {"none", "llm", "fallback", "deterministic"}
    /\ loaded \in [GateKeys -> {"none", "open"} \cup Resolved]
    /\ job \in {"none", "running", "done", "incomplete", "failed"}
    /\ \A l \in {session, saved} :
          /\ l.runs \subseteq 1..MaxRuns
          /\ \A p \in Packs : l.unit[p].status \in UnitStatus
    /\ gates \in [GateKeys -> GateRow]
    /\ latest.run \in 0..MaxRuns

----------------------------------------------------------------------------
(* Mutated form: a fallback counts as generated. *)
GenerationOkAlways(o) == o # "none"

(* _use_deterministic_technical_design *)
UseDeterministic(setting) ==
    CASE setting.mode \in {"llm", "agent"} -> FALSE
      [] setting.mode \in {"deterministic", "fast", ""} -> TRUE
      [] OTHER -> setting.legacy \notin {"llm", "agent", "oneshot", "decomposed"}

(* find_cached_work_unit on the input hash of the pack. *)
Cached(p) == session.unit[p].status = "succeeded"

(* create_work_unit and the marks. *)
Mark(p, status, services) ==
    [session EXCEPT !.unit[p].status = status, !.unit[p].payload = services]

(* The context of a name. *)
Declared(n) == CHOOSE c \in Named(input) : c.name = n
PackOf(n)   == Pack(Declared(n), input)

Room == Cardinality({n \in Names : pos[n] = "calling"}) < MaxConcurrency

(* _is_retryable: out of time or out of turns, no other failure. *)
Retryable(cause) == cause \in {"timeout", "turn cap"}
Causes == {"timeout", "turn cap", "error", "no output"}

(* The services of the units that have one, the cached ones included. *)
Gathered == UNION {session.unit[PackOf(n)].payload :
                     n \in {m \in Names : pos[m] = "settled"}}

GenerationOk(o) == o \in {"llm", "deterministic"}

Verdicts(services, i, o) ==
    [k \in GateKeys |-> CASE k = "design_generation_complete" -> GenerationOk(o)
                          [] k = "design_data_ownership"      -> OwnershipOk(services)
                          [] k = "technical_design_quality"   -> QualityOk(services, i)]

StageStatus(verdicts) == IF \A k \in GateKeys : verdicts[k] THEN "done" ELSE "incomplete"

(* The status endpoint when no job is known. *)
Persisted ==
    IF latest.run = 0 THEN "idle"
    ELSE IF \E k \in GateKeys : gates[k].status = "open" THEN "incomplete" ELSE "done"

----------------------------------------------------------------------------
(* The job's function returns or raises: its local state is gone. *)
Forget ==
    /\ input' = None /\ origin' = "none" /\ payload' = {}
    /\ pos' = [n \in Names |-> "none"] /\ tries' = [n \in Names |-> 0]
    /\ loaded' = [k \in GateKeys |-> "none"]

(* The job opens its session and loads its input. *)
Begin(i, setting) ==
    /\ pc = "idle" /\ runs < MaxRuns
    /\ runs' = runs + 1
    /\ input' = i
    /\ job' = "running"
    /\ session' = [saved EXCEPT !.runs = @ \cup {runs + 1}]
    /\ IF UseDeterministic(setting)
       THEN pc' = "save" /\ origin' = "deterministic" /\ payload' = FallbackPayload(i)
       ELSE pc' = "fan_out" /\ origin' = "llm" /\ payload' = {}
    /\ UNCHANGED <<pos, tries, loaded, saved, gates, latest>>

(* gather starts every context: it is answered from the ledger, or its row *)
(* is created and marked running before it waits for the semaphore.        *)
FanOut ==
    /\ pc = "fan_out"
    /\ pc' = "units"
    /\ LET worked == Named(input)
           fresh  == {c \in worked : ~Cached(Pack(c, input))}
       IN  /\ pos' = [n \in Names |->
                        CASE n \in {c.name : c \in fresh} -> "queued"
                          [] n \in {c.name : c \in worked \ fresh} -> "settled"
                          [] OTHER -> "none"]
           /\ session' = [session EXCEPT !.unit = [p \in Packs |->
                            IF p \in {Pack(c, input) : c \in fresh}
                            THEN [@[p] EXCEPT !.status = "running"] ELSE @[p]]]
    /\ UNCHANGED <<runs, input, tries, origin, payload, loaded, job, saved, gates, latest>>

(* A context passes the semaphore and is asked for. *)
Enter(n) ==
    /\ pc = "units" /\ pos[n] = "queued" /\ Room
    /\ pos' = [pos EXCEPT ![n] = "calling"]
    /\ tries' = [tries EXCEPT ![n] = 1]
    /\ UNCHANGED <<pc, runs, input, origin, payload, loaded, job, session, saved, gates, latest>>

Settle(n, status, services, shown) ==
    /\ pos' = [pos EXCEPT ![n] = "settled"]
    /\ session' = [session EXCEPT !.unit[PackOf(n)] =
                     [status |-> status, payload |-> services, shown |-> shown]]
    /\ UNCHANGED <<pc, runs, input, tries, origin, payload, loaded, job, saved, gates, latest>>

(* run_batched_result returns a payload: the unit succeeds, even with one  *)
(* that has no service or that of another context.                         *)
Answer(n, services) ==
    /\ pc = "units" /\ pos[n] = "calling"
    /\ Settle(n, "succeeded", services,
              [context |-> Declared(n), stories |-> input.stories])

(* A failure worth another, longer call. *)
Again(n, cause) ==
    /\ pc = "units" /\ pos[n] = "calling"
    /\ Retryable(cause) /\ tries[n] < MaxAttempts
    /\ tries' = [tries EXCEPT ![n] = @ + 1]
    /\ UNCHANGED <<pc, runs, input, pos, origin, payload, loaded, job, session, saved, gates, latest>>

(* One that is not, or the attempts are used up: the unit fails. *)
GiveUp(n, cause) ==
    /\ pc = "units" /\ pos[n] = "calling"
    /\ ~Retryable(cause) \/ tries[n] = MaxAttempts
    /\ Settle(n, "failed", {}, None)

(* gather returns.  Without any service the fallback stands in. *)
Merge ==
    /\ pc = "units" /\ \A n \in Names : pos[n] \in {"none", "settled"}
    /\ pc' = "save"
    /\ IF Gathered = {} THEN origin' = "fallback" /\ payload' = FallbackPayload(input)
                        ELSE origin' = "llm" /\ payload' = Gathered
    /\ UNCHANGED <<runs, input, pos, tries, loaded, job, session, saved, gates, latest>>

(* Parsed, and saved to Neo4j as a new version. *)
Save ==
    /\ pc = "save"
    /\ pc' = "judge"
    /\ latest' = [run |-> runs, origin |-> origin, input |-> input,
                  services |-> Parse(payload, input)]
    /\ UNCHANGED <<runs, input, pos, tries, origin, payload, loaded, job, session, saved, gates>>

(* upsert_gate loads the three rows; they are flushed with the commit. *)
Judge ==
    /\ pc = "judge"
    /\ pc' = "commit"
    /\ loaded' = [k \in GateKeys |-> gates[k].status]
    /\ UNCHANGED <<runs, input, pos, tries, origin, payload, job, session, saved, gates, latest>>

Commit ==
    /\ pc = "commit"
    /\ pc' = "idle"
    /\ LET verdicts == Verdicts(latest.services, input, origin)
       IN  /\ gates' = [k \in GateKeys |-> Upsert(gates[k], loaded[k], verdicts[k])]
           /\ job' = StageStatus(verdicts)
    /\ saved' = session
    /\ Forget
    /\ UNCHANGED <<runs, session, latest>>

(* Anything raises, the commit included: everything since the last commit  *)
(* is rolled back and the job fails.                                       *)
Raise ==
    /\ pc # "idle"
    /\ pc' = "idle" /\ job' = "failed" /\ session' = saved
    /\ Forget
    /\ UNCHANGED <<runs, saved, gates, latest>>

(* The backend restarts: no job is known, no transaction is left. *)
Restart ==
    /\ job # "none"
    /\ pc' = "idle" /\ job' = "none" /\ session' = saved
    /\ Forget
    /\ UNCHANGED <<runs, saved, gates, latest>>

(* submit_approval, in a request of its own. *)
Approve(k, decision) ==
    /\ gates[k].status # "none"
    /\ gates' = [gates EXCEPT ![k] = Decide(@, decision)]
    /\ UNCHANGED <<pc, runs, input, pos, tries, origin, payload, loaded, job, session, saved, latest>>

Work ==
    \/ FanOut
    \/ \E n \in Names :
         \/ Enter(n)
         \/ \E services \in Answers[n] : Answer(n, services)
         \/ \E cause \in Causes : Again(n, cause) \/ GiveUp(n, cause)
    \/ Merge \/ Save \/ Judge \/ Commit

Next ==
    \/ \E i \in Inputs, setting \in Settings : Begin(i, setting)
    \/ Work
    \/ Raise
    \/ Restart
    \/ \E k \in Approvable, decision \in Decisions : Approve(k, decision)

Spec == Init /\ [][Next]_vars

----------------------------------------------------------------------------
(* Properties.  A run landed when its transaction was committed. *)

Landed == latest.run \in saved.runs

(* Whatever a unit was answered, and whenever, a saved design cites only   *)
(* contexts, stories and graph names its own run had loaded.               *)
Grounded ==
    latest.run # 0 => \A s \in latest.services :
        /\ s.context \in Known(latest.input)
        /\ s.stories \subseteq IdsOf(latest.input.stories)
        /\ s.refs \subseteq latest.input.known
        /\ \A link \in ComponentDiagram(latest.services) : link[2] \in Known(latest.input)

(* A landed design by the model is what the durable ledger holds for its   *)
(* contexts, read once more: nothing in it was drafted for another context *)
(* or before the stories changed, and every context left out has a unit    *)
(* that says why.                                                          *)
DesignMatchesLedger ==
    Landed /\ latest.origin \in {"llm", "fallback"} =>
        LET units == {<<c, saved.unit[Pack(c, latest.input)]>> : c \in Named(latest.input)}
        IN  /\ \A u \in units :
                  \/ u[2].status = "failed" /\ u[2].payload = {}
                  \/ /\ u[2].status = "succeeded"
                     /\ u[2].shown = [context |-> u[1], stories |-> latest.input.stories]
            /\ IF latest.origin = "fallback" THEN \A u \in units : u[2].payload = {}
               ELSE latest.services = Parse(UNION {u[2].payload : u \in units}, latest.input)

(* A saved design is of its own run and of nothing else: no other run's    *)
(* inputs show in it (_ground, ContextPack.input_hash).                    *)
DesignIsOfItsRun == Grounded /\ DesignMatchesLedger

(* A job that reports done has a design that was generated as asked, gives *)
(* every context a service and every table one writer, and the status      *)
(* endpoint says done after a restart as well.                             *)
DoneIsWhole ==
    job = "done" =>
        /\ Persisted = "done"
        /\ latest.run = runs /\ Landed /\ latest.origin # "fallback"
        /\ {s.context : s \in latest.services} = Known(latest.input)
        /\ \A d, e \in DatabaseDesign(latest.services) :
              d.tables \cap e.tables # {} => d = e

(* The design without a model keeps its promise of one sound service per   *)
(* context: only names that make the same slug, a resource listed twice or *)
(* no context at all make it miss its own gates.                           *)
FallbackIsSound ==
    latest.origin \in {"fallback", "deterministic"} =>
        LET i == latest.input
        IN  (OwnershipOk(latest.services) /\ QualityOk(latest.services, i)) <=>
              /\ Named(i) # {}
              /\ \A c, d \in Named(i) : c # d => SlugOf[c.name] # SlugOf[d.name]
              /\ \A r \in Resources : \A c, d \in Named(i) :
                    c.owns[r] <= 1 /\ (c # d => c.owns[r] = 0 \/ d.owns[r] = 0)

(* The stage implements the promise of a stage's job: the design is stored *)
(* as a version at once, ledger and gates land with the commit             *)
(* (technical_design_generate._job) or not at all.                         *)
Stage == INSTANCE StageJob WITH
    phase   <- CASE pc = "idle" -> "idle"
                 [] pc \in {"judge", "commit"} -> "stored"
                 [] OTHER -> "working",
    version <- latest.run,
    landed  <- saved.runs,
    status  <- job
StageSpec == Stage!Spec
=============================================================================
