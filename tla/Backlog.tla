------------------------------ MODULE Backlog ------------------------------
(***************************************************************************)
(* The backlog stage of one workspace (controlplane/backlog.py).  A run    *)
(* loads the BRD, makes a backlog without a model or asks for it in one    *)
(* call or, for a larger BRD, for epics first, then for the stories of     *)
(* each epic and, in rounds, for those of the requirements no story cites  *)
(* yet.  Every call is a unit of the ledger, keyed by what it shows; a     *)
(* unit that succeeded is never asked again.  The backlog is saved as a    *)
(* version in Neo4j, three gates are published and the job commits.        *)
(*                                                                         *)
(* The version is durable at once, ledger and gates with the job.          *)
(***************************************************************************)
EXTENDS BacklogPlan, Gates

CONSTANTS Inputs,          \* what a run may find in the stores
          Settings,        \* BACKLOG_GEN_MODE and BACKLOG_DETERMINISTIC_FIRST
          StoryAnswers,    \* per epic id: the sets of stories it may give
          WholeAnswers,    \* the backlogs, or epics, it may give in one call
          MinEpics,        \* BACKLOG_DECOMPOSE_MIN_EPICS
          MaxConcurrency,  \* BACKLOG_MAX_CONCURRENCY
          MaxTopUps,       \* BACKLOG_MAX_ROUNDS
          NoProgressLimit, \* BACKLOG_NO_PROGRESS_ROUNDS
          None,            \* no input, no model
          MaxRuns          \* bound: how many jobs are started

ASSUME BacklogAssumption ==
    /\ MaxConcurrency \in Nat \ {0} /\ MaxTopUps \in Nat \ {0}
    /\ NoProgressLimit \in Nat \ {0} /\ MinEpics \in Nat /\ MaxRuns \in Nat
    /\ \A i \in Inputs : i.reqs \in Seq(DOMAIN i.cites)
    /\ TopUp \in DOMAIN StoryAnswers
    /\ \A e \in DOMAIN StoryAnswers : \A stories \in StoryAnswers[e] :
          \A s \in stories : IsStory(s)
    /\ \A answer \in WholeAnswers :
          IsPayload(answer) /\ \A e \in answer.epics : e.id \in DOMAIN StoryAnswers

VARIABLES pc,       \* where the job is
          runs,     \* how many jobs were started
          input,    \* what it loaded
          setting,  \* how it was configured
          draft,    \* the epics and stories so far
          round,    \* the round under way: 0 is the initial one
          streak,   \* no_progress_streak
          asked,    \* the prompts of this round, and where each is
          used,     \* every prompt the draft came from (for the properties)
          job,      \* the status the job runner holds, if any
          session,  \* the ledger as the job's transaction sees it
          saved,    \* the committed ledger
          gates,    \* the committed gates
          latest    \* the latest :Backlog version

vars == <<pc, runs, input, setting, draft, round, streak, asked, used, job,
          session, saved, gates, latest>>

GateKeys == {"backlog_coverage", "brd_logic_coverage", "backlog_readiness"}

NoDraft   == [epics |-> {}, stories |-> {}]
NoBacklog == [run |-> 0, input |-> None, rounds |-> 0, used |-> {}, backlog |-> NoDraft]

Init ==
    /\ pc = "idle" /\ runs = 0 /\ job = "none"
    /\ input = None /\ setting = None /\ draft = NoDraft
    /\ round = 0 /\ streak = 0 /\ asked = {} /\ used = {}
    /\ saved = [runs |-> {}, units |-> {}]
    /\ session = saved
    /\ gates = [k \in GateKeys |-> NoGate]
    /\ latest = NoBacklog

TypeOK ==
    /\ pc \in {"idle", "begun", "route", "whole", "round", "units", "not ok", "save",
               "commit"}
    /\ runs \in 0..MaxRuns /\ input \in Inputs \cup {None}
    /\ setting \in Settings \cup {None}
    /\ round \in 0..MaxTopUps /\ streak \in 0..NoProgressLimit
    /\ \A u \in asked : u.pos \in {"queued", "calling", "settled"}
    /\ job \in {"none", "running", "done", "failed"}
    /\ \A l \in {session, saved} :
          /\ l.runs \subseteq 1..MaxRuns
          /\ \A u \in l.units : u.status \in {"running", "succeeded", "failed"}
    /\ gates \in [GateKeys -> GateRow]
    /\ latest.run \in 0..MaxRuns

----------------------------------------------------------------------------
(* Mutated forms: the round is left out of the hash; a unit that was       *)
(* called keeps its place in the semaphore; a failing job commits what its *)
(* ledger says.                                                            *)
HashWithoutRound(prompt) == [prompt EXCEPT !.round = 0]
LeakyRoom == Cardinality({u \in asked : u.pos # "queued"}) < MaxConcurrency
CommittingRaise ==
    /\ pc # "idle" /\ pc' = "idle" /\ job' = "failed"
    /\ saved' = session
    /\ input' = None /\ setting' = None /\ draft' = NoDraft
    /\ round' = 0 /\ streak' = 0 /\ asked' = {} /\ used' = {}
    /\ UNCHANGED <<runs, session, gates, latest>>

(* _use_deterministic_backlog *)
UseDeterministic ==
    \/ setting.mode \in {"deterministic", "fast"}
    \/ setting.mode \notin {"decomposed", "oneshot", "llm"} /\ setting.first

(* _decompose: the size router counts requirements, or sections without.   *)
Proxy == IF input.reqs = <<>> THEN input.sections ELSE Len(input.reqs)
Decompose ==
    \/ setting.mode = "decomposed"
    \/ setting.mode # "oneshot" /\ Proxy >= MinEpics

(* The context packs: everything a prompt shows, and its unit key. *)
WholePrompt(type) ==
    [type |-> type, round |-> 0, epic |-> None, reqs |-> RequirementIds(input),
     sections |-> input.cites, refs |-> BrdRelevant(input)]
StoriesPrompt(u) ==
    [type |-> "stories", round |-> round, epic |-> u.epic, reqs |-> u.reqs,
     sections |-> <<SectionsFor(input, u.reqs), RequirementIds(input)>>,
     refs |-> ScopeEpicRefs(input, u.reqs)]

(* The unit key and input_hash a prompt is filed under: all of it. *)
Hash(prompt) == prompt

(* find_cached_work_unit *)
Cached(prompt) ==
    \E u \in session.units : u.key = Hash(prompt) /\ u.status = "succeeded"
PayloadOf(prompt) == (CHOOSE u \in session.units : u.key = Hash(prompt)).payload

(* create_work_unit and the marks: of a key's rows the last one counts. *)
Marked(prompts, status, payload) ==
    [session EXCEPT !.units =
        {u \in @ : u.key \notin {Hash(p) : p \in prompts}} \cup
        {[key |-> Hash(p), prompt |-> p, status |-> status, payload |-> payload] : p \in prompts}]

Room == Cardinality({u \in asked : u.pos = "calling"}) < MaxConcurrency

(* The stories of the round's units, in whatever order they settled. *)
RoundStories ==
    UNION {PayloadOf(u.prompt).stories : u \in {x \in asked : Cached(x.prompt)}}

Gaps(stories) == RequirementIds(input) \ CoveredRequirements(stories)

(* The condition of the completeness loop, dry rounds counted. *)
MoreToAsk(stories, dry) ==
    Gaps(stories) # {} /\ round < MaxTopUps /\ dry < NoProgressLimit

Verdicts(backlog, i) ==
    [k \in GateKeys |-> IF k = "backlog_readiness" THEN Ready(backlog, i)
                        ELSE CoverageOk(backlog, i)]

(* The status endpoint when no job is known. *)
Persisted == IF latest.run = 0 THEN "idle" ELSE "done"

----------------------------------------------------------------------------
(* The job's function returns or raises: its local state is gone. *)
Forget ==
    /\ input' = None /\ setting' = None /\ draft' = NoDraft
    /\ round' = 0 /\ streak' = 0 /\ asked' = {} /\ used' = {}

(* The job loads the BRD and starts its ledger run. *)
Begin(i, s) ==
    /\ pc = "idle" /\ runs < MaxRuns
    /\ pc' = "begun" /\ runs' = runs + 1 /\ job' = "running"
    /\ input' = i /\ setting' = s
    /\ session' = [saved EXCEPT !.runs = @ \cup {runs + 1}]
    /\ UNCHANGED <<draft, round, streak, asked, used, saved, gates, latest>>

(* Without a model, unless the mode forbids it: from the ledger or anew.   *)
(* An empty one fails the run where it was asked for by name.              *)
Deterministic ==
    /\ pc = "begun"
    /\ LET prompt == WholePrompt("deterministic")
           fresh  == DeterministicBacklog(input)
       IN  \/ /\ UseDeterministic /\ Cached(prompt)
              /\ pc' = "save" /\ draft' = PayloadOf(prompt) /\ used' = {prompt}
              /\ UNCHANGED session
           \/ /\ UseDeterministic /\ ~Cached(prompt) /\ fresh.stories # {}
              /\ pc' = "save" /\ draft' = fresh /\ used' = {prompt}
              /\ session' = Marked({prompt}, "succeeded", fresh)
           \/ /\ UseDeterministic /\ ~Cached(prompt) /\ fresh.stories = {}
              /\ pc' = IF setting.mode \in {"deterministic", "fast"} THEN "not ok" ELSE "route"
              /\ session' = Marked({prompt}, "failed", NoDraft)
              /\ UNCHANGED <<draft, used>>
           \/ /\ ~UseDeterministic
              /\ pc' = "route"
              /\ UNCHANGED <<draft, used, session>>
    /\ UNCHANGED <<runs, input, setting, round, streak, asked, job, saved, gates, latest>>

(* One call for all of it, or for the epics: from the ledger, or its row   *)
(* is created and marked running.                                          *)
Route ==
    /\ pc = "route"
    /\ LET prompt == WholePrompt(IF Decompose THEN "epics" ELSE "oneshot")
       IN  /\ used' = {prompt}
           /\ IF Cached(prompt)
              THEN /\ draft' = PayloadOf(prompt)
                   /\ pc' = IF Decompose THEN "round" ELSE "save"
                   /\ UNCHANGED session
              ELSE /\ pc' = "whole"
                   /\ session' = Marked({prompt}, "running", NoDraft)
                   /\ UNCHANGED draft
    /\ UNCHANGED <<runs, input, setting, round, streak, asked, job, saved, gates, latest>>

(* The answer to it; epics without one are as good as no answer. *)
AnswerWhole(answer) ==
    /\ pc = "whole"
    /\ Decompose => answer.epics # {} /\ answer.stories = {}
    /\ draft' = answer
    /\ session' = Marked(used, "succeeded", answer)
    /\ pc' = IF Decompose THEN "round" ELSE "save"
    /\ UNCHANGED <<runs, input, setting, round, streak, asked, used, job, saved, gates, latest>>

FailWhole ==
    /\ pc = "whole"
    /\ session' = Marked(used, "failed", NoDraft)
    /\ pc' = "not ok"
    /\ UNCHANGED <<runs, input, setting, draft, round, streak, asked, used, job, saved, gates, latest>>

(* gather starts the units of a round: every epic with all it owns first,  *)
(* later the gaps by owner.  Each is answered from the ledger or queued.   *)
StartRound ==
    /\ pc = "round"
    /\ LET gaps    == Gaps(draft.stories)
           units   == IF round = 0 THEN {[epic |-> e.id, reqs |-> e.reqs] : e \in draft.epics}
                                   ELSE TopUpUnits(draft.epics, gaps)
           prompts == {StoriesPrompt(u) : u \in units}
           fresh   == {p \in prompts : ~Cached(p)}
       IN  /\ draft' = IF round = 0 THEN draft
                       ELSE [draft EXCEPT !.epics = WithTopUp(@, Orphans(@, gaps))]
           /\ asked' = {[prompt |-> p, pos |-> IF p \in fresh THEN "queued" ELSE "settled"] : p \in prompts}
           /\ used' = used \cup prompts
           /\ session' = Marked(fresh, "running", NoDraft)
    /\ pc' = "units"
    /\ UNCHANGED <<runs, input, setting, round, streak, job, saved, gates, latest>>

MoveUnit(u, pos) == asked' = (asked \ {u}) \cup {[u EXCEPT !.pos = pos]}

(* A unit passes the semaphore. *)
Enter(u) ==
    /\ pc = "units" /\ u.pos = "queued" /\ Room
    /\ MoveUnit(u, "calling")
    /\ UNCHANGED <<pc, runs, input, setting, draft, round, streak, used, job, session, saved, gates, latest>>

(* Its stories, none of them included. *)
Answer(u, stories) ==
    /\ pc = "units" /\ u.pos = "calling"
    /\ MoveUnit(u, "settled")
    /\ session' = Marked({u.prompt}, "succeeded", [epics |-> {}, stories |-> stories])
    /\ UNCHANGED <<pc, runs, input, setting, draft, round, streak, used, job, saved, gates, latest>>

(* Its attempts are used up; the round goes on without it. *)
Fail(u) ==
    /\ pc = "units" /\ u.pos = "calling"
    /\ MoveUnit(u, "settled")
    /\ session' = Marked({u.prompt}, "failed", NoDraft)
    /\ UNCHANGED <<pc, runs, input, setting, draft, round, streak, used, job, saved, gates, latest>>

(* gather returns: the stories are added and the loop goes on or ends.  No *)
(* story at all in the initial round fails the run.                        *)
EndRound ==
    /\ pc = "units" /\ \A u \in asked : u.pos = "settled"
    /\ LET stories == draft.stories \cup RoundStories
           news    == CoveredRequirements(RoundStories) \cap Gaps(draft.stories)
           dry     == IF round = 0 \/ news # {} THEN 0 ELSE streak + 1
       IN  /\ draft' = [draft EXCEPT !.stories = stories]
           /\ streak' = dry
           /\ \/ /\ round = 0 /\ stories = {}
                 /\ pc' = "not ok" /\ UNCHANGED round
              \/ /\ round > 0 \/ stories # {}
                 /\ MoreToAsk(stories, dry)
                 /\ pc' = "round" /\ round' = round + 1
              \/ /\ round > 0 \/ stories # {}
                 /\ ~MoreToAsk(stories, dry)
                 /\ pc' = "save" /\ UNCHANGED round
    /\ asked' = {}
    /\ UNCHANGED <<runs, input, setting, used, job, session, saved, gates, latest>>

(* Parsed, ordered, and saved to Neo4j as a new version; a story without   *)
(* acceptance criteria makes the parser raise.                             *)
Save ==
    /\ pc = "save" /\ Parseable(draft)
    /\ pc' = "commit"
    /\ latest' = [run |-> runs, input |-> input, rounds |-> round, used |-> used,
                  backlog |-> Parse(draft, input)]
    /\ UNCHANGED <<runs, input, setting, draft, round, streak, asked, used, job, session, saved, gates>>

(* The three gates are published and the transaction is committed. *)
Commit ==
    /\ pc = "commit"
    /\ pc' = "idle" /\ job' = "done"
    /\ LET verdicts == Verdicts(latest.backlog, input)
       IN  gates' = [k \in GateKeys |-> Upsert(gates[k], gates[k].status, verdicts[k])]
    /\ saved' = session
    /\ Forget
    /\ UNCHANGED <<runs, session, latest>>

(* A run that is not ok is answered 502: the ledger rows that say why are  *)
(* rolled back with everything else.  So does anything else that raises.   *)
Raise ==
    /\ pc # "idle"
    /\ pc' = "idle" /\ job' = "failed" /\ session' = saved
    /\ Forget
    /\ UNCHANGED <<runs, saved, gates, latest>>

(* The backend restarts: no job is known, no transaction is left. *)
Restart ==
    /\ job # "none"
    /\ pc' = "idle" /\ job' = "none" /\ session' = saved
    /\ Forget
    /\ UNCHANGED <<runs, saved, gates, latest>>

Refuse == (pc = "not ok" \/ (pc = "save" /\ ~Parseable(draft))) /\ Raise

Work ==
    \/ Deterministic
    \/ Route
    \/ \E answer \in WholeAnswers : AnswerWhole(answer)
    \/ FailWhole
    \/ StartRound
    \/ \E u \in asked : \/ Enter(u)
                        \/ Fail(u)
                        \/ \E stories \in StoryAnswers[u.prompt.epic] : Answer(u, stories)
    \/ EndRound \/ Save \/ Commit
    \/ Refuse

Next ==
    \/ \E i \in Inputs, s \in Settings : Begin(i, s)
    \/ Work
    \/ Raise
    \/ Restart

Spec == Init /\ [][Next]_vars

(* Every call has a timeout and a bounded number of attempts. *)
FairSpec == Spec /\ WF_vars(Work)

----------------------------------------------------------------------------
(* Properties.  A run landed when its transaction was committed. *)

Landed   == latest.run \in saved.runs
ByModel  == \A p \in latest.used : p.type # "deterministic"
InRounds == \E p \in latest.used : p.type = "epics"

(* A landed backlog is what the durable ledger holds for the prompts its   *)
(* run made, read once more: no story in it was drafted for other          *)
(* requirements, another round or an older BRD, and every prompt is        *)
(* settled.                                                                *)
BacklogMatchesLedger ==
    Landed /\ latest.run # 0 =>
        LET units == {u \in saved.units : u.prompt \in latest.used}
            drafted == UNION {u.payload.stories : u \in units}
        IN  /\ {u.prompt : u \in units} = latest.used
            /\ \A u \in units : u.status # "running"
            /\ latest.backlog.stories =
                  Parse([epics |-> {}, stories |-> drafted], latest.input).stories

(* An epic answered to one of the prompts has the id of the catch-all one. *)
CatchAllTaken(ledger, prompts) ==
    \E u \in ledger.units : /\ u.prompt \in prompts /\ u.prompt.type = "epics"
                            /\ \E e \in u.payload.epics : e.id = TopUp

(* No requirement is dropped in silence: when a landed backlog by rounds   *)
(* misses one, it was asked for in every top-up round, of an epic that is  *)
(* in the backlog, and each time the unit failed or left it out; and the   *)
(* rounds stopped at their number or as the last of them covered nothing.  *)
(* Only the first round may skip it, where an answered epic took the id of *)
(* the catch-all one: the orphans then replace what that epic would be     *)
(* asked for.                                                              *)
EveryGapWasAsked ==
    Landed /\ latest.run # 0 /\ InRounds =>
        \A r \in RequirementIds(latest.input) \ CoveredRequirements(latest.backlog.stories) :
            /\ latest.rounds = MaxTopUps \/ latest.rounds >= NoProgressLimit
            /\ \A n \in 1..latest.rounds :
                  \/ n = 1 /\ CatchAllTaken(saved, latest.used)
                  \/ \E u \in saved.units :
                        /\ u.prompt \in latest.used /\ u.prompt.type = "stories"
                        /\ u.prompt.round = n /\ r \in u.prompt.reqs
                        /\ u.prompt.epic \in {e.id : e \in latest.backlog.epics}
                        /\ r \notin CoveredRequirements(u.payload.stories)
            /\ latest.rounds < MaxTopUps =>
                  \A u \in saved.units :
                      /\ u.prompt \in latest.used /\ u.prompt.type = "stories"
                      /\ u.prompt.round + NoProgressLimit > latest.rounds
                      => u.prompt.reqs \cap CoveredRequirements(u.payload.stories) = {}

(* The backlog made without a model passes its own readiness gate unless a *)
(* requirement has no known evidence, or the whole too little of it: its   *)
(* ids never clash and no story or epic points into the void.              *)
DeterministicIsReady ==
    Landed /\ ~ByModel =>
        LET i == latest.input
        IN  gates["backlog_readiness"].verdict <=>
              /\ \A r \in RequirementIds(i) : Cited(i, {r}) # {}
              /\ 100 * Cardinality(Cited(i, RequirementIds(i)) \cap i.logic)
                    >= i.min * Cardinality(i.logic)

(* No requirement of the BRD is lost on the way to the backlog, with a     *)
(* model (_generate_backlog_with_ledger) or without                        *)
(* (generate_deterministic_backlog).                                       *)
RequirementsAreKept == EveryGapWasAsked /\ DeterministicIsReady

(* Every job settles: the completeness loop ends. *)
RunSettles == pc # "idle" ~> pc = "idle"

(* The stage implements the promise of a stage's job. *)
Stage == INSTANCE StageJob WITH
    phase   <- CASE pc = "idle" -> "idle"
                 [] pc = "commit" -> "stored"
                 [] OTHER -> "working",
    version <- latest.run,
    landed  <- saved.runs,
    status  <- job
StageSpec == Stage!Spec
=============================================================================
