--------------------------- MODULE BacklogProofs ---------------------------
(***************************************************************************)
(* Proofs about Backlog for any inputs, settings, answers and bounds: the  *)
(* stage keeps the promise of a stage's job, a landed backlog is what the  *)
(* durable ledger holds for the prompts of its run, and no requirement is  *)
(* lost in silence, by rounds or without a model.                          *)
(***************************************************************************)
EXTENDS Backlog, FiniteSetTheorems, TLAPS

(* A ledger is its runs and its units. *)
IsLedger(l) == l = [runs |-> l.runs, units |-> l.units]

(* The transaction of the job under way is the committed ledger, its own   *)
(* run and whatever units; the version on top is never of a later run, and *)
(* of this one only once it was saved.                                     *)
Transaction ==
    /\ runs \in Nat /\ latest.run \in 0..runs /\ saved.runs \subseteq 1..runs
    /\ IsLedger(session) /\ IsLedger(saved)
    /\ pc = "idle" => session = saved
    /\ pc # "idle" => session.runs = saved.runs \cup {runs} /\ runs # 0
    /\ pc = "commit" => latest.run = runs

IInv == Transaction /\ Stage!DoneIsLanded

(* Marking units leaves the runs of the ledger alone. *)
LEMMA MarkedRuns ==
    ASSUME IsLedger(session), NEW prompts, NEW status, NEW payload
    PROVE  /\ IsLedger(Marked(prompts, status, payload))
           /\ Marked(prompts, status, payload).runs = session.runs
<1> DEFINE units == {u \in session.units : u.key \notin {Hash(p) : p \in prompts}} \cup
        {[key |-> Hash(p), prompt |-> p, status |-> status, payload |-> payload] : p \in prompts}
<1>1. Marked(prompts, status, payload) = [session EXCEPT !.units = units]
  BY DEF Marked
<1> HIDE DEF units
<1>2. [session EXCEPT !.units = units] = [runs |-> session.runs, units |-> units]
  BY DEF IsLedger
<1> QED  BY <1>1, <1>2 DEF IsLedger

LEMMA InitInv == Init => IInv
BY DEF Init, IInv, Transaction, IsLedger, NoBacklog, Stage!DoneIsLanded

(* A job begins. *)
LEMMA BeginStep ==
    ASSUME IInv, NEW i \in Inputs, NEW s \in Settings, Begin(i, s)
    PROVE  IInv' /\ Stage!Start
<1>1. /\ pc = "idle" /\ pc' = "begun" /\ runs' = runs + 1 /\ job' = "running"
      /\ session' = [saved EXCEPT !.runs = @ \cup {runs + 1}]
      /\ UNCHANGED <<saved, latest>>
  BY DEF Begin
<1>2. session' = [runs |-> saved.runs \cup {runs + 1}, units |-> saved.units]
  BY <1>1 DEF IInv, Transaction, IsLedger
<1>3. IInv'
  <2>1. session'.runs = saved'.runs \cup {runs'} /\ IsLedger(session')
    BY <1>1, <1>2 DEF IsLedger
  <2>2. Transaction'
    BY <1>1, <2>1 DEF IInv, Transaction, IsLedger
  <2>3. Stage!DoneIsLanded'
    BY <1>1 DEF Stage!DoneIsLanded
  <2> QED  BY <2>2, <2>3 DEF IInv
<1>4. Stage!Start
  BY <1>1 DEF Stage!Start
<1> QED  BY <1>3, <1>4

(* The steps by which the backlog is drafted: the ledger's units change,   *)
(* the promise does not see them.                                          *)
Drafting ==
    /\ pc \notin {"idle", "commit"} /\ pc' \notin {"idle", "commit"}
    /\ IsLedger(session') /\ session'.runs = session.runs
    /\ UNCHANGED <<runs, job, saved, latest>>

LEMMA DraftingStep ==
    ASSUME IInv, Drafting
    PROVE  IInv' /\ UNCHANGED Stage!vars
<1>1. IInv'
  BY DEF Drafting, IInv, Transaction, Stage!DoneIsLanded
<1> QED  BY <1>1 DEF Drafting, Stage!vars

LEMMA ActionsDraft ==
    ASSUME IInv,
           \/ Deterministic \/ Route \/ FailWhole \/ StartRound \/ EndRound
           \/ \E answer \in WholeAnswers : AnswerWhole(answer)
           \/ \E u \in asked : \/ Enter(u) \/ Fail(u)
                               \/ \E stories \in StoryAnswers[u.prompt.epic] : Answer(u, stories)
    PROVE  Drafting
<1>1. IsLedger(session)
  BY DEF IInv, Transaction
<1>2. CASE Deterministic
  <2>1. \/ UNCHANGED session
        \/ \E prompts, status, payload : session' = Marked(prompts, status, payload)
    BY <1>2 DEF Deterministic
  <2>2. pc = "begun" /\ pc' \in {"save", "not ok", "route"} /\ UNCHANGED <<runs, job, saved, latest>>
    BY <1>2 DEF Deterministic
  <2> QED  BY <1>1, <2>1, <2>2, MarkedRuns DEF Drafting
<1>3. CASE Route
  <2>1. \/ UNCHANGED session
        \/ \E prompts, status, payload : session' = Marked(prompts, status, payload)
    BY <1>3 DEF Route
  <2>2. pc = "route" /\ pc' \in {"save", "round", "whole"} /\ UNCHANGED <<runs, job, saved, latest>>
    BY <1>3 DEF Route
  <2> QED  BY <1>1, <2>1, <2>2, MarkedRuns DEF Drafting
<1>4. CASE FailWhole
  BY <1>1, <1>4, MarkedRuns DEF Drafting, FailWhole
<1>5. CASE \E answer \in WholeAnswers : AnswerWhole(answer)
  BY <1>1, <1>5, MarkedRuns DEF Drafting, AnswerWhole
<1>6. CASE StartRound
  <2>1. \E prompts : session' = Marked(prompts, "running", NoDraft)
    BY <1>6 DEF StartRound
  <2>2. pc = "round" /\ pc' = "units" /\ UNCHANGED <<runs, job, saved, latest>>
    BY <1>6 DEF StartRound
  <2> QED  BY <1>1, <2>1, <2>2, MarkedRuns DEF Drafting
<1>7. CASE EndRound
  <2>1. pc = "units" /\ pc' \in {"not ok", "round", "save"} /\ UNCHANGED <<runs, job, saved, session, latest>>
    BY <1>7 DEF EndRound
  <2> QED  BY <1>1, <2>1 DEF Drafting
<1>8. ASSUME NEW u \in asked, Enter(u) \/ Fail(u)
                              \/ \E stories \in StoryAnswers[u.prompt.epic] : Answer(u, stories)
      PROVE  Drafting
  <2>1. CASE Enter(u)
    BY <1>1, <2>1 DEF Drafting, Enter
  <2>2. CASE Fail(u)
    BY <1>1, <2>2, MarkedRuns DEF Drafting, Fail
  <2>3. CASE \E stories \in StoryAnswers[u.prompt.epic] : Answer(u, stories)
    BY <1>1, <2>3, MarkedRuns DEF Drafting, Answer
  <2> QED  BY <1>8, <2>1, <2>2, <2>3
<1> QED  BY <1>2, <1>3, <1>4, <1>5, <1>6, <1>7, <1>8

LEMMA SaveStep == ASSUME IInv, Save PROVE IInv' /\ Stage!Store
<1>1. /\ pc = "save" /\ pc' = "commit" /\ latest'.run = runs
      /\ UNCHANGED <<runs, job, session, saved>>
  BY DEF Save
<1>2. IInv'
  BY <1>1 DEF IInv, Transaction, Stage!DoneIsLanded
<1>3. Stage!Store
  BY <1>1 DEF Stage!Store
<1> QED  BY <1>2, <1>3

(* The commit lands what the job's transaction holds: its own run. *)
LEMMA CommitStep == ASSUME IInv, Commit PROVE IInv' /\ Stage!Land("done")
<1>1. /\ pc = "commit" /\ pc' = "idle" /\ job' = "done" /\ saved' = session
      /\ UNCHANGED <<runs, session, latest>>
  BY DEF Commit
<1>2. saved'.runs = saved.runs \cup {runs} /\ latest.run = runs /\ runs \in 1..runs
  BY <1>1 DEF IInv, Transaction
<1>3. IInv'
  <2>1. saved'.runs \subseteq 1..runs
    BY <1>2 DEF IInv, Transaction
  <2>2. Transaction'
    BY <1>1, <1>2, <2>1 DEF IInv, Transaction, IsLedger
  <2>3. Stage!DoneIsLanded'
    BY <1>1, <1>2 DEF Stage!DoneIsLanded
  <2> QED  BY <2>2, <2>3 DEF IInv
<1>4. Stage!Land("done")
  BY <1>1, <1>2 DEF Stage!Land
<1> QED  BY <1>3, <1>4

LEMMA LossStep ==
    ASSUME IInv, Raise \/ Restart
    PROVE  IInv' /\ (Stage!Abort \/ Stage!Vanish)
<1>1. CASE Raise
  <2>1. /\ pc # "idle" /\ pc' = "idle" /\ job' = "failed" /\ session' = saved
        /\ UNCHANGED <<runs, saved, latest>>
    BY <1>1 DEF Raise
  <2>2. IInv'
    BY <2>1 DEF IInv, Transaction, Stage!DoneIsLanded
  <2>3. Stage!Abort
    BY <2>1 DEF Stage!Abort
  <2> QED  BY <2>2, <2>3
<1>2. CASE Restart
  <2>1. /\ pc' = "idle" /\ job' = "none" /\ session' = saved
        /\ UNCHANGED <<runs, saved, latest>>
    BY <1>2 DEF Restart
  <2>2. IInv'
    BY <2>1 DEF IInv, Transaction, Stage!DoneIsLanded
  <2>3. Stage!Vanish
    BY <2>1 DEF Stage!Vanish
  <2> QED  BY <2>2, <2>3
<1> QED  BY <1>1, <1>2

(* Every step keeps the invariant and is a step of the promise. *)
LEMMA NextStep == IInv /\ [Next]_vars => IInv' /\ [Stage!Next]_(Stage!vars)
<1> SUFFICES ASSUME IInv, [Next]_vars PROVE IInv' /\ [Stage!Next]_(Stage!vars)
  OBVIOUS
<1>1. CASE \E i \in Inputs, s \in Settings : Begin(i, s)
  BY <1>1, BeginStep DEF Stage!Next
<1>2. CASE \/ Deterministic \/ Route \/ FailWhole \/ StartRound \/ EndRound
           \/ \E answer \in WholeAnswers : AnswerWhole(answer)
           \/ \E u \in asked : \/ Enter(u) \/ Fail(u)
                               \/ \E stories \in StoryAnswers[u.prompt.epic] : Answer(u, stories)
  BY <1>2, ActionsDraft, DraftingStep
<1>3. CASE Save
  BY <1>3, SaveStep DEF Stage!Next
<1>4. CASE Commit
  BY <1>4, CommitStep DEF Stage!Next
<1>5. CASE Refuse \/ Raise \/ Restart
  BY <1>5, LossStep DEF Stage!Next, Refuse
<1>6. CASE UNCHANGED vars
  BY <1>6 DEF vars, IInv, Transaction, Stage!DoneIsLanded, Stage!vars
<1> QED  BY <1>1, <1>2, <1>3, <1>4, <1>5, <1>6 DEF Next, Work

LEMMA Invariance == Spec => []IInv
<1>1. Init => IInv
  BY InitInv
<1>2. IInv /\ [Next]_vars => IInv'
  BY NextStep
<1> QED  BY <1>1, <1>2, PTL DEF Spec

(* The backlog's job (controlplane/backlog.py) implements the promise of a *)
(* stage's job: the version is stored first, and ledger, gates and answer  *)
(* land together or not at all.                                            *)
THEOREM BacklogImplementsStage == Spec => StageSpec
<1>1. Init => Stage!Init
  BY DEF Init, Stage!Init, NoBacklog
<1>2. IInv /\ [Next]_vars => [Stage!Next]_(Stage!vars)
  BY NextStep
<1> QED  BY <1>1, <1>2, Invariance, PTL DEF Spec, StageSpec, Stage!Spec

(* A job the runner shows as done stored the latest backlog and its ledger *)
(* run was committed.                                                      *)
THEOREM DoneBacklogIsLanded == Spec => []Stage!DoneIsLanded
<1>1. IInv => Stage!DoneIsLanded
  BY DEF IInv
<1> QED  BY <1>1, Invariance, PTL
----------------------------------------------------------------------------
(* Types.  While rounds may follow, fewer than the limit were dry. *)
Typing ==
    /\ TypeOK
    /\ \A u \in asked : u = [prompt |-> u.prompt, pos |-> u.pos]
    /\ pc \notin {"save", "commit", "not ok"} => streak < NoProgressLimit

LedgerOK(l) ==
    /\ l.runs \subseteq 1..MaxRuns
    /\ \A u \in l.units : u.status \in {"running", "succeeded", "failed"}

LEMMA MarkedTyped ==
    ASSUME LedgerOK(session), IsLedger(session), NEW prompts,
           NEW status \in {"running", "succeeded", "failed"}, NEW payload
    PROVE  LedgerOK(Marked(prompts, status, payload))
<1> DEFINE kept == {u \in session.units : u.key \notin {Hash(p) : p \in prompts}}
           new == {[key |-> Hash(p), prompt |-> p, status |-> status, payload |-> payload] : p \in prompts}
<1>1. \A u \in kept \cup new : u.status \in {"running", "succeeded", "failed"}
  BY DEF LedgerOK
<1>2. Marked(prompts, status, payload) = [session EXCEPT !.units = kept \cup new]
  BY DEF Marked
<1> HIDE DEF kept, new
<1>3. [session EXCEPT !.units = kept \cup new] = [runs |-> session.runs, units |-> kept \cup new]
  BY DEF IsLedger
<1> QED  BY <1>1, <1>2, <1>3 DEF LedgerOK

(* A settled or moved unit is at one of the three places. *)
LEMMA MovedTyped ==
    ASSUME NEW u \in asked, NEW pos \in {"queued", "calling", "settled"}, MoveUnit(u, pos),
           \A x \in asked : x.pos \in {"queued", "calling", "settled"},
           \A x \in asked : x = [prompt |-> x.prompt, pos |-> x.pos]
    PROVE  /\ \A x \in asked' : x.pos \in {"queued", "calling", "settled"}
           /\ \A x \in asked' : x = [prompt |-> x.prompt, pos |-> x.pos]
BY DEF MoveUnit
LEMMA InitTyped == Init => Typing
BY BacklogAssumption DEF BacklogAssumption, Init, Typing, TypeOK, NoBacklog, GateKeys, NoGate,
   GateRow, Decisions, Resolved

(* What a step leaves alone keeps its type. *)
LEMMA StepTyped ==
    ASSUME IInv, Typing, [Next]_vars
    PROVE  Typing'
<1> USE BacklogAssumption DEF BacklogAssumption
<1>1. LedgerOK(session) /\ LedgerOK(saved) /\ IsLedger(session) /\ IsLedger(saved)
  BY DEF Typing, TypeOK, LedgerOK, IInv, Transaction
<1>2. ASSUME NEW i \in Inputs, NEW s \in Settings, Begin(i, s) PROVE Typing'
  <2>1. /\ runs < MaxRuns /\ runs \in Nat /\ runs' = runs + 1 /\ pc' = "begun" /\ job' = "running"
        /\ input' = i /\ setting' = s /\ pc = "idle"
        /\ UNCHANGED <<draft, round, streak, asked, used, saved, gates, latest>>
    BY <1>2 DEF Begin, IInv, Transaction
  <2>2. session' = [runs |-> saved.runs \cup {runs + 1}, units |-> saved.units]
    BY <1>1, <1>2 DEF Begin, IsLedger
  <2>3. LedgerOK(session')
    BY <1>1, <2>1, <2>2 DEF LedgerOK
  <2> QED  BY <2>1, <2>3 DEF Typing, TypeOK, LedgerOK
<1>3. CASE Deterministic
  <2>1. /\ pc' \in {"save", "not ok", "route"} /\ pc = "begun"
        /\ UNCHANGED <<runs, input, setting, round, streak, asked, job, saved, gates, latest>>
    BY <1>3 DEF Deterministic
  <2>2. \/ UNCHANGED session
        \/ \E prompts, payload : \/ session' = Marked(prompts, "succeeded", payload)
                                 \/ session' = Marked(prompts, "failed", payload)
    BY <1>3 DEF Deterministic
  <2>3. LedgerOK(session')
    BY <1>1, <2>2, MarkedTyped
  <2> QED  BY <2>1, <2>3 DEF Typing, TypeOK, LedgerOK
<1>4. CASE Route
  <2>1. /\ pc' \in {"save", "round", "whole"} /\ pc = "route"
        /\ UNCHANGED <<runs, input, setting, round, streak, asked, job, saved, gates, latest>>
    BY <1>4 DEF Route
  <2>2. UNCHANGED session \/ \E prompts, payload : session' = Marked(prompts, "running", payload)
    BY <1>4 DEF Route
  <2>3. LedgerOK(session')
    BY <1>1, <2>2, MarkedTyped
  <2> QED  BY <2>1, <2>3 DEF Typing, TypeOK, LedgerOK
<1>5. CASE FailWhole \/ \E answer \in WholeAnswers : AnswerWhole(answer)
  <2>1. /\ pc' \in {"save", "round", "not ok"} /\ pc = "whole"
        /\ UNCHANGED <<runs, input, setting, round, streak, asked, job, saved, gates, latest>>
    BY <1>5 DEF AnswerWhole, FailWhole
  <2>2. \E prompts, payload : \/ session' = Marked(prompts, "succeeded", payload)
                              \/ session' = Marked(prompts, "failed", payload)
    BY <1>5 DEF AnswerWhole, FailWhole
  <2>3. LedgerOK(session')
    BY <1>1, <2>2, MarkedTyped
  <2> QED  BY <2>1, <2>3 DEF Typing, TypeOK, LedgerOK
<1>6. CASE StartRound
  <2>1. /\ pc' = "units" /\ pc = "round"
        /\ UNCHANGED <<runs, input, setting, round, streak, job, saved, gates, latest>>
    BY <1>6 DEF StartRound
  <2> DEFINE units == IF round = 0 THEN {[epic |-> e.id, reqs |-> e.reqs] : e \in draft.epics}
                      ELSE TopUpUnits(draft.epics, Gaps(draft.stories))
             prompts == {StoriesPrompt(u) : u \in units}
             fresh == {p \in prompts : ~Cached(p)}
  <2>2. /\ session' = Marked(fresh, "running", NoDraft)
        /\ asked' = {[prompt |-> p, pos |-> IF p \in fresh THEN "queued" ELSE "settled"] : p \in prompts}
    BY <1>6 DEF StartRound
  <2> HIDE DEF prompts, fresh
  <2>3. LedgerOK(session')
    BY <1>1, <2>2, MarkedTyped
  <2>4. /\ \A u \in asked' : u.pos \in {"queued", "calling", "settled"}
        /\ \A u \in asked' : u = [prompt |-> u.prompt, pos |-> u.pos]
    BY <2>2
  <2> QED  BY <2>1, <2>3, <2>4 DEF Typing, TypeOK, LedgerOK
<1>7. ASSUME NEW u \in asked, Enter(u) \/ Fail(u)
                              \/ \E stories \in StoryAnswers[u.prompt.epic] : Answer(u, stories)
      PROVE  Typing'
  <2>1. /\ UNCHANGED <<pc, runs, input, setting, round, streak, job, saved, gates, latest>>
        /\ MoveUnit(u, "calling") \/ MoveUnit(u, "settled")
    BY <1>7 DEF Enter, Fail, Answer
  <2>2. \/ UNCHANGED session
        \/ \E prompts, payload : \/ session' = Marked(prompts, "succeeded", payload)
                                 \/ session' = Marked(prompts, "failed", payload)
    BY <1>7 DEF Enter, Fail, Answer
  <2>3. LedgerOK(session')
    BY <1>1, <2>2, MarkedTyped
  <2>4. /\ \A x \in asked' : x.pos \in {"queued", "calling", "settled"}
        /\ \A x \in asked' : x = [prompt |-> x.prompt, pos |-> x.pos]
    BY <2>1, MovedTyped DEF Typing, TypeOK
  <2> QED  BY <2>1, <2>3, <2>4 DEF Typing, TypeOK, LedgerOK
<1>8. CASE EndRound
  <2>1. /\ pc = "units" /\ asked' = {} /\ pc' \in {"not ok", "round", "save"}
        /\ UNCHANGED <<runs, input, setting, used, job, session, saved, gates, latest>>
    BY <1>8 DEF EndRound
  <2>2. /\ streak' \in {0, streak + 1}
        /\ \/ pc' \in {"not ok", "save"} /\ round' = round
           \/ pc' = "round" /\ round < MaxTopUps /\ round' = round + 1 /\ streak' < NoProgressLimit
    BY <1>8 DEF EndRound, MoreToAsk
  <2>3. round' \in 0..MaxTopUps /\ streak' \in 0..NoProgressLimit
    <3>1. round \in 0..MaxTopUps /\ streak \in 0..NoProgressLimit /\ streak < NoProgressLimit
      BY <2>1 DEF Typing, TypeOK
    <3>2. round' \in 0..MaxTopUps
      <4>1. CASE round' = round
        BY <3>1, <4>1
      <4>2. CASE round < MaxTopUps /\ round' = round + 1
        BY <3>1, <4>2
      <4> QED  BY <2>2, <4>1, <4>2
    <3>3. streak' = 0 \/ streak' = streak + 1
      BY <2>2
    <3> QED  BY <3>1, <3>2, <3>3
  <2>4. pc' = "round" => streak' < NoProgressLimit
    BY <2>2
  <2> QED  BY <1>1, <2>1, <2>3, <2>4 DEF Typing, TypeOK, LedgerOK
<1>9. CASE Save
  <2>1. /\ pc = "save" /\ pc' = "commit" /\ latest'.run = runs
        /\ UNCHANGED <<runs, input, setting, round, streak, asked, job, session, saved, gates>>
    BY <1>9 DEF Save
  <2> QED  BY <2>1 DEF Typing, TypeOK
<1>10. CASE Commit
  <2>1. /\ pc' = "idle" /\ job' = "done" /\ saved' = session /\ UNCHANGED <<runs, session, latest>>
        /\ input' = None /\ setting' = None /\ round' = 0 /\ streak' = 0 /\ asked' = {}
    BY <1>10 DEF Commit, Forget
  <2>2. gates' \in [GateKeys -> GateRow]
    <3> DEFINE verdicts == Verdicts(latest.backlog, input)
    <3>1. \A k \in GateKeys : verdicts[k] \in BOOLEAN
      <4>1. CoverageOk(latest.backlog, input) \in BOOLEAN
        BY DEF CoverageOk
      <4>2. Ready(latest.backlog, input) \in BOOLEAN
        BY Zenon DEF Ready
      <4> QED  BY <4>1, <4>2 DEF Verdicts
    <3> HIDE DEF verdicts
    <3>2. ASSUME NEW g \in GateRow, NEW passed \in BOOLEAN PROVE Upsert(g, g.status, passed) \in GateRow
      BY DEF Upsert, GateRow, Decisions, Resolved
    <3>3. gates' = [k \in GateKeys |-> Upsert(gates[k], gates[k].status, verdicts[k])]
      BY <1>10 DEF Commit, verdicts
    <3>4. \A k \in GateKeys : gates[k] \in GateRow
      BY DEF Typing, TypeOK
    <3> QED  BY <3>1, <3>2, <3>3, <3>4
  <2>3. LedgerOK(session') /\ LedgerOK(saved')
    BY <1>1, <2>1
  <2>4. round' \in 0..MaxTopUps /\ streak' \in 0..NoProgressLimit /\ streak' < NoProgressLimit
    BY <2>1
  <2> QED  BY <2>1, <2>2, <2>3, <2>4 DEF Typing, TypeOK, LedgerOK
<1>11. CASE Refuse \/ Raise \/ Restart
  <2>1. /\ pc' = "idle" /\ job' \in {"failed", "none"} /\ session' = saved
        /\ UNCHANGED <<runs, saved, gates, latest>>
        /\ input' = None /\ setting' = None /\ round' = 0 /\ streak' = 0 /\ asked' = {}
    BY <1>11 DEF Refuse, Raise, Restart, Forget
  <2>2. LedgerOK(session') /\ LedgerOK(saved')
    BY <1>1, <2>1
  <2>3. round' \in 0..MaxTopUps /\ streak' \in 0..NoProgressLimit /\ streak' < NoProgressLimit
    BY <2>1
  <2> QED  BY <2>1, <2>2, <2>3 DEF Typing, TypeOK, LedgerOK
<1>12. CASE UNCHANGED vars
  BY <1>12 DEF vars, Typing, TypeOK
<1> QED  BY <1>2, <1>3, <1>4, <1>5, <1>6, <1>7, <1>8, <1>9, <1>10, <1>11, <1>12 DEF Next, Work

(* The variables of the backlog's job keep their types: no round is run    *)
(* beyond the bound, no more rounds stay dry than allowed, and the ledger  *)
(* names no run that was not started.  So do those of its promise.         *)
THEOREM TypeCorrect == Spec => [](TypeOK /\ Stage!TypeOK)
<1>1. Init => Typing
  BY InitTyped
<1>2. IInv /\ Typing /\ [Next]_vars => Typing'
  BY StepTyped
<1>3. IInv /\ Typing => TypeOK /\ Stage!TypeOK
  BY DEF Typing, TypeOK, IInv, Transaction, Stage!TypeOK
<1> QED  BY <1>1, <1>2, <1>3, Invariance, PTL DEF Spec
----------------------------------------------------------------------------
(* Drafts.  A prompt has one unit in the ledger, under a key of its own;   *)
(* only a unit that succeeded has a payload.                               *)
IdsIn(epics) == {e.id : e \in epics}

AnsweredEpics(epics) == IdsIn(epics) \subseteq DOMAIN StoryAnswers

PayloadFor(type, status, payload) ==
    /\ IsPayload(payload)
    /\ status # "succeeded" => payload = NoDraft
    /\ type = "epics" => AnsweredEpics(payload.epics)

UnitsOk(l) ==
    /\ \A u \in l.units : u.key = u.prompt /\ PayloadFor(u.prompt.type, u.status, u.payload)
    /\ \A u, v \in l.units : u.prompt = v.prompt => u = v

UnitsFor(l, prompts) == {u \in l.units : u.prompt \in prompts}
DraftedBy(l, prompts) == UNION {u.payload.stories : u \in UnitsFor(l, prompts)}
Settled(l, prompts) == \A p \in prompts : \E u \in l.units : u.prompt = p /\ u.status # "running"

(* The round under way: what waits or is called is marked running, and the *)
(* draft lacks only the stories of this round.                             *)
Asking ==
    /\ \A a \in asked :
          /\ a.prompt \in used
          /\ \E u \in session.units : /\ u.prompt = a.prompt
                                      /\ a.pos = "settled" <=> u.status # "running"
    /\ \A a, b \in asked : a.prompt = b.prompt => a = b
    /\ \A p \in used : \E u \in session.units :
          u.prompt = p /\ (u.status = "running" => \E a \in asked : a.prompt = p)
    /\ draft.stories \cup DraftedBy(session, {a.prompt : a \in asked}) = DraftedBy(session, used)

(* What the draft came from, at every place of the job. *)
Drawn ==
    /\ IsPayload(draft)
    /\ pc \in {"idle", "begun", "route"} => used = {} /\ draft = NoDraft
    /\ pc = "whole" => \E p : /\ used = {p}
                              /\ \A u \in session.units : u.prompt = p => u.status = "running"
    /\ pc \in {"round", "save"} =>
          Settled(session, used) /\ draft.stories = DraftedBy(session, used)
    /\ pc = "units" => Asking

(* The version on top is what the ledger l holds for its prompts. *)
Matches(l) ==
    /\ Settled(l, latest.used)
    /\ latest.backlog.stories =
          Parse([epics |-> {}, stories |-> DraftedBy(l, latest.used)], latest.input).stories

Kept ==
    /\ pc # "idle" => runs \notin saved.runs
    /\ pc = "commit" => Matches(session)
    /\ Landed /\ latest.run # 0 => Matches(saved)

Drafts == UnitsOk(session) /\ UnitsOk(saved) /\ Drawn /\ Kept

(* Marking prompts that did not succeed replaces their units and leaves    *)
(* the others alone.                                                       *)
Unanswered(prompts) == \A u \in session.units : u.prompt \in prompts => u.status # "succeeded"

LEMMA MarkedUnits ==
    ASSUME IsLedger(session), UnitsOk(session), NEW prompts, NEW status, NEW payload,
           \A p \in prompts : PayloadFor(p.type, status, payload)
    PROVE  LET l == Marked(prompts, status, payload)
           IN  /\ UnitsOk(l)
               /\ \A u \in session.units : u.prompt \notin prompts => u \in l.units
               /\ \A u \in l.units : \/ u \in session.units /\ u.prompt \notin prompts
                                     \/ u.prompt \in prompts /\ u.status = status /\ u.payload = payload
               /\ \A p \in prompts : \E u \in l.units :
                     u.prompt = p /\ u.status = status /\ u.payload = payload
<1> DEFINE units == {u \in session.units : u.key \notin {Hash(p) : p \in prompts}} \cup
        {[key |-> Hash(p), prompt |-> p, status |-> status, payload |-> payload] : p \in prompts}
<1>1. Marked(prompts, status, payload).units = units
  <2>1. Marked(prompts, status, payload) = [session EXCEPT !.units = units]
    BY DEF Marked
  <2> HIDE DEF units
  <2> QED  BY <2>1 DEF IsLedger
<1>2. \A u \in session.units : u.prompt \notin prompts => u \in units
  BY DEF UnitsOk, Hash
<1>3. \A u \in units : \/ u \in session.units /\ u.prompt \notin prompts
                       \/ /\ u.prompt \in prompts /\ u.status = status /\ u.payload = payload
                          /\ u = [key |-> u.prompt, prompt |-> u.prompt, status |-> status, payload |-> payload]
  BY DEF UnitsOk, Hash
<1>4. \A p \in prompts : \E u \in units : u.prompt = p /\ u.status = status /\ u.payload = payload
  <2> SUFFICES ASSUME NEW p \in prompts
               PROVE  \E u \in units : u.prompt = p /\ u.status = status /\ u.payload = payload
    OBVIOUS
  <2>1. [key |-> Hash(p), prompt |-> p, status |-> status, payload |-> payload] \in units
    OBVIOUS
  <2> HIDE DEF units
  <2> QED  BY <2>1
<1> HIDE DEF units
<1>5. UnitsOk(Marked(prompts, status, payload))
  <2>1. \A u \in units : u.key = u.prompt /\ PayloadFor(u.prompt.type, u.status, u.payload)
    BY <1>3 DEF UnitsOk
  <2>2. \A u, v \in units : u.prompt = v.prompt => u = v
    BY <1>3 DEF UnitsOk
  <2> QED  BY <1>1, <2>1, <2>2 DEF UnitsOk
<1> QED  BY <1>1, <1>2, <1>3, <1>4, <1>5

LEMMA MarkedDrafts ==
    ASSUME IsLedger(session), UnitsOk(session), NEW prompts, NEW status, NEW payload,
           \A p \in prompts : PayloadFor(p.type, status, payload), Unanswered(prompts),
           NEW P
    PROVE  DraftedBy(Marked(prompts, status, payload), P)
              = DraftedBy(session, P) \cup (IF P \cap prompts = {} THEN {} ELSE payload.stories)
<1> DEFINE l == Marked(prompts, status, payload)
<1>1. /\ \A u \in session.units : u.prompt \notin prompts => u \in l.units
      /\ \A u \in l.units : \/ u \in session.units /\ u.prompt \notin prompts
                            \/ u.prompt \in prompts /\ u.status = status /\ u.payload = payload
      /\ \A p \in prompts : \E u \in l.units :
            u.prompt = p /\ u.status = status /\ u.payload = payload
  BY MarkedUnits
<1>2. \A u \in session.units : u.prompt \in prompts => u.payload.stories = {}
  BY DEF Unanswered, UnitsOk, PayloadFor, NoDraft
<1> HIDE DEF l
<1>3. ASSUME NEW s \in DraftedBy(l, P)
      PROVE  s \in DraftedBy(session, P) \cup (IF P \cap prompts = {} THEN {} ELSE payload.stories)
  <2>1. PICK u \in l.units : u.prompt \in P /\ s \in u.payload.stories
    BY <1>3 DEF DraftedBy, UnitsFor
  <2> QED  BY <1>1, <2>1 DEF DraftedBy, UnitsFor
<1>4. ASSUME NEW s \in DraftedBy(session, P)
      PROVE  s \in DraftedBy(l, P)
  <2>1. PICK u \in session.units : u.prompt \in P /\ s \in u.payload.stories
    BY <1>4 DEF DraftedBy, UnitsFor
  <2> QED  BY <1>1, <1>2, <2>1 DEF DraftedBy, UnitsFor
<1>5. ASSUME NEW s \in (IF P \cap prompts = {} THEN {} ELSE payload.stories)
      PROVE  s \in DraftedBy(l, P)
  <2>1. PICK p \in P \cap prompts : s \in payload.stories
    BY <1>5
  <2>2. PICK u \in l.units : u.prompt = p /\ u.payload = payload
    BY <1>1, <2>1
  <2> QED  BY <2>1, <2>2 DEF DraftedBy, UnitsFor
<1> QED  BY <1>3, <1>4, <1>5 DEF l

LEMMA InitDrafts == Init => Drafts
BY DEF Init, Drafts, UnitsOk, Drawn, Kept, Landed, NoDraft, NoBacklog, IsPayload

(* What is stored and committed is as it was. *)
LEMMA KeptSteady ==
    ASSUME Kept, UNCHANGED <<saved, latest>>, pc' # "commit" \/ (pc = "commit" /\ session' = session),
           pc' # "idle" => runs' \notin saved'.runs
    PROVE  Kept'
<1>1. Matches(saved)' = Matches(saved) /\ Landed' = Landed
  BY DEF Landed, Matches, Settled, DraftedBy, UnitsFor
<1>2. session' = session => Matches(session)' = Matches(session)
  BY DEF Matches, Settled, DraftedBy, UnitsFor
<1> QED  BY <1>1, <1>2 DEF Kept

LEMMA BeginDrafts ==
    ASSUME IInv, Drafts, NEW i \in Inputs, NEW s \in Settings, Begin(i, s)
    PROVE  Drafts'
<1>1. /\ pc = "idle" /\ pc' = "begun" /\ runs' = runs + 1
      /\ session' = [saved EXCEPT !.runs = @ \cup {runs + 1}]
      /\ UNCHANGED <<draft, used, saved, latest>>
  BY DEF Begin
<1>2. session' = [runs |-> saved.runs \cup {runs + 1}, units |-> saved.units]
  BY <1>1 DEF IInv, Transaction, IsLedger
<1>3. UnitsOk(session') /\ UnitsOk(saved')
  <2>1. session'.units = saved.units
    BY <1>2
  <2> QED  BY <1>1, <2>1 DEF Drafts, UnitsOk
<1>4. runs' \notin saved'.runs
  BY <1>1 DEF IInv, Transaction
<1>5. Kept'
  BY <1>1, <1>4, KeptSteady DEF Drafts
<1>6. Drawn'
  BY <1>1 DEF Drafts, Drawn
<1> QED  BY <1>3, <1>5, <1>6 DEF Drafts

(* One unit answers for a prompt. *)
LEMMA PayloadIsDrafted ==
    ASSUME UnitsOk(session), NEW prompt, Cached(prompt)
    PROVE  /\ IsPayload(PayloadOf(prompt)) /\ Settled(session, {prompt})
           /\ PayloadOf(prompt).stories = DraftedBy(session, {prompt})
           /\ prompt.type = "epics" => AnsweredEpics(PayloadOf(prompt).epics)
           /\ \E u \in session.units : /\ u.prompt = prompt /\ u.status = "succeeded"
                                       /\ u.payload = PayloadOf(prompt)
<1>1. PICK u \in session.units : u.prompt = prompt /\ u.status = "succeeded"
  BY DEF Cached, Hash, UnitsOk
<1>2. \A v \in session.units : v.key = prompt <=> v = u
  BY <1>1 DEF UnitsOk
<1>3. PayloadOf(prompt) = u.payload
  <2>1. (CHOOSE v \in session.units : v.key = Hash(prompt)) = u
    BY <1>2 DEF Hash
  <2> QED  BY <2>1 DEF PayloadOf
<1>4. UnitsFor(session, {prompt}) = {u}
  BY <1>1, <1>2 DEF UnitsFor, UnitsOk
<1>5. DraftedBy(session, {prompt}) = u.payload.stories
  BY <1>4 DEF DraftedBy
<1>6. PayloadFor(prompt.type, u.status, u.payload)
  BY <1>1 DEF UnitsOk
<1>7. Settled(session, {prompt})
  BY <1>1 DEF Settled
<1> QED  BY <1>1, <1>3, <1>5, <1>6, <1>7 DEF PayloadFor

LEMMA NotAnswered ==
    ASSUME UnitsOk(session), NEW prompts, \A p \in prompts : ~Cached(p)
    PROVE  Unanswered(prompts)
BY DEF UnitsOk, Unanswered, Cached, Hash

(* Marking a single prompt that was not answered makes its unit the draft. *)
LEMMA MarkedOne ==
    ASSUME IsLedger(session), UnitsOk(session), NEW prompt, NEW status, NEW payload,
           PayloadFor(prompt.type, status, payload), Unanswered({prompt}),
           session' = Marked({prompt}, status, payload)
    PROVE  /\ UnitsOk(session')
           /\ DraftedBy(session', {prompt}) = payload.stories
           /\ \E u \in session'.units : u.prompt = prompt /\ u.status = status
           /\ \A u \in session'.units : u.prompt = prompt => u.status = status
           /\ status # "running" => Settled(session', {prompt})
<1>1. /\ UnitsOk(session')
      /\ \A u \in session'.units : \/ u \in session.units /\ u.prompt \notin {prompt}
                                   \/ u.prompt \in {prompt} /\ u.status = status /\ u.payload = payload
      /\ \A p \in {prompt} : \E u \in session'.units :
            u.prompt = p /\ u.status = status /\ u.payload = payload
  BY MarkedUnits
<1>2. UnitsFor(session', {prompt}) # {} /\ \A u \in UnitsFor(session', {prompt}) : u.payload = payload
  BY <1>1 DEF UnitsFor
<1>3. DraftedBy(session', {prompt}) = payload.stories
  BY <1>2 DEF DraftedBy
<1> QED  BY <1>1, <1>3 DEF Settled

LEMMA DeterministicPayload ==
    ASSUME NEW i PROVE IsPayload(DeterministicBacklog(i))
<1>1. ASSUME NEW title PROVE IsEpic(DeterministicEpic(i, title))
  <2>1. \E id, reqs, stories, refs :
          DeterministicEpic(i, title) = [id |-> id, reqs |-> reqs, stories |-> stories, refs |-> refs]
    BY DEF DeterministicEpic
  <2> QED  BY <2>1 DEF IsEpic
<1>2. ASSUME NEW n PROVE IsStory(DeterministicStory(i, n))
  <2>1. \E unit, id, epic, reqs, refs, acs :
          DeterministicStory(i, n) = [unit |-> unit, id |-> id, epic |-> epic, reqs |-> reqs,
                                      refs |-> refs, acs |-> acs]
    BY DEF DeterministicStory
  <2> QED  BY <2>1 DEF IsStory
<1> QED  BY <1>1, <1>2 DEF IsPayload, DeterministicBacklog

LEMMA NoDraftPayload == IsPayload(NoDraft) /\ NoDraft.epics = {} /\ NoDraft.stories = {}
BY DEF NoDraft, IsPayload

LEMMA EmptyPayload == ASSUME NEW type, NEW status PROVE PayloadFor(type, status, NoDraft)
BY NoDraftPayload DEF PayloadFor, AnsweredEpics, IdsIn

(* While the draft is made, what is stored and committed stays. *)
LEMMA KeptDrafting ==
    ASSUME Drafts, Drafting
    PROVE  Kept' /\ UnitsOk(saved')
<1>1. /\ UNCHANGED <<runs, saved, latest>> /\ pc' # "commit" /\ runs \notin saved.runs
  BY DEF Drafting, Drafts, Kept
<1>2. Kept'
  BY <1>1, KeptSteady DEF Drafts
<1> QED  BY <1>1, <1>2 DEF Drafts, UnitsOk

(* A draft that is the payload of one answered unit. *)
LEMMA DeterministicDrafts == ASSUME IInv, Drafts, Deterministic PROVE Drafts'
<1>1. Kept' /\ UnitsOk(saved')
  BY ActionsDraft, KeptDrafting
<1>2. IsLedger(session) /\ UnitsOk(session) /\ used = {} /\ draft = NoDraft /\ pc = "begun"
  BY DEF IInv, Transaction, Drafts, Drawn, Deterministic
<1> DEFINE prompt == WholePrompt("deterministic")
           fresh  == DeterministicBacklog(input)
<1>3. prompt.type = "deterministic"
  BY DEF WholePrompt
<1>4. PayloadFor(prompt.type, "succeeded", fresh) /\ PayloadFor(prompt.type, "failed", NoDraft)
  BY <1>3, DeterministicPayload, NoDraftPayload DEF PayloadFor
<1>5. ~Cached(prompt) => Unanswered({prompt})
  BY <1>2, NotAnswered
<1>6. \/ /\ Cached(prompt) /\ pc' = "save" /\ draft' = PayloadOf(prompt) /\ used' = {prompt}
         /\ session' = session
      \/ /\ ~Cached(prompt) /\ pc' = "save" /\ draft' = fresh /\ used' = {prompt}
         /\ session' = Marked({prompt}, "succeeded", fresh)
      \/ /\ ~Cached(prompt) /\ pc' \in {"not ok", "route"} /\ UNCHANGED <<draft, used>>
         /\ session' = Marked({prompt}, "failed", NoDraft)
      \/ pc' = "route" /\ UNCHANGED <<draft, used, session>>
  BY DEF Deterministic
<1> HIDE DEF prompt, fresh
<1>7. CASE Cached(prompt) /\ pc' = "save" /\ draft' = PayloadOf(prompt) /\ used' = {prompt}
           /\ session' = session
  <2>1. /\ IsPayload(PayloadOf(prompt)) /\ Settled(session, {prompt})
        /\ PayloadOf(prompt).stories = DraftedBy(session, {prompt})
    BY <1>2, <1>7, PayloadIsDrafted
  <2>2. Drawn'
    BY <1>7, <2>1 DEF Drawn
  <2> QED  BY <1>1, <1>2, <1>7, <2>2 DEF Drafts
<1>8. CASE ~Cached(prompt) /\ pc' = "save" /\ draft' = fresh /\ used' = {prompt}
           /\ session' = Marked({prompt}, "succeeded", fresh)
  <2>1. /\ UnitsOk(session') /\ Settled(session', {prompt})
        /\ DraftedBy(session', {prompt}) = fresh.stories
    BY <1>2, <1>4, <1>5, <1>8, MarkedOne
  <2>2. Drawn'
    BY <1>4, <1>8, <2>1 DEF Drawn, PayloadFor
  <2> QED  BY <1>1, <2>1, <2>2 DEF Drafts
<1>9. CASE ~Cached(prompt) /\ pc' \in {"not ok", "route"} /\ UNCHANGED <<draft, used>>
           /\ session' = Marked({prompt}, "failed", NoDraft)
  <2>1. UnitsOk(session')
    BY <1>2, <1>4, <1>5, <1>9, MarkedOne
  <2>2. Drawn'
    BY <1>2, <1>9, NoDraftPayload DEF Drawn
  <2> QED  BY <1>1, <2>1, <2>2 DEF Drafts
<1>10. CASE pc' = "route" /\ UNCHANGED <<draft, used, session>>
  BY <1>1, <1>2, <1>10, NoDraftPayload DEF Drafts, Drawn
<1> QED  BY <1>6, <1>7, <1>8, <1>9, <1>10

LEMMA RouteDrafts == ASSUME IInv, Drafts, Route PROVE Drafts'
<1>1. Kept' /\ UnitsOk(saved')
  BY ActionsDraft, KeptDrafting
<1>2. IsLedger(session) /\ UnitsOk(session) /\ draft = NoDraft
  BY DEF IInv, Transaction, Drafts, Drawn, Route
<1>3. PICK prompt :
        /\ used' = {prompt}
        /\ \/ /\ Cached(prompt) /\ pc' \in {"round", "save"} /\ draft' = PayloadOf(prompt)
              /\ session' = session
           \/ /\ ~Cached(prompt) /\ pc' = "whole" /\ draft' = draft
              /\ session' = Marked({prompt}, "running", NoDraft)
  BY Zenon DEF Route
<1>4. CASE Cached(prompt) /\ pc' \in {"round", "save"} /\ draft' = PayloadOf(prompt)
           /\ session' = session
  <2>1. /\ IsPayload(PayloadOf(prompt)) /\ Settled(session, {prompt})
        /\ PayloadOf(prompt).stories = DraftedBy(session, {prompt})
    BY <1>2, <1>4, PayloadIsDrafted
  <2>2. Drawn'
    BY <1>3, <1>4, <2>1 DEF Drawn
  <2> QED  BY <1>1, <1>2, <1>4, <2>2 DEF Drafts
<1>5. CASE ~Cached(prompt) /\ pc' = "whole" /\ draft' = draft
           /\ session' = Marked({prompt}, "running", NoDraft)
  <2>1. PayloadFor(prompt.type, "running", NoDraft) /\ Unanswered({prompt})
    BY <1>2, <1>5, NotAnswered, EmptyPayload
  <2>2. UnitsOk(session') /\ \A u \in session'.units : u.prompt = prompt => u.status = "running"
    BY <1>2, <1>5, <2>1, MarkedOne
  <2>3. Drawn'
    BY <1>2, <1>3, <1>5, <2>2, NoDraftPayload DEF Drawn
  <2> QED  BY <1>1, <2>2, <2>3 DEF Drafts
<1> QED  BY <1>3, <1>4, <1>5

LEMMA WholeDrafts ==
    ASSUME IInv, Drafts, FailWhole \/ \E answer \in WholeAnswers : AnswerWhole(answer)
    PROVE  Drafts'
<1>1. Kept' /\ UnitsOk(saved')
  BY ActionsDraft, KeptDrafting
<1>2. IsLedger(session) /\ UnitsOk(session) /\ pc = "whole" /\ IsPayload(draft)
  BY DEF IInv, Transaction, Drafts, Drawn, FailWhole, AnswerWhole
<1>3. PICK prompt :
        used = {prompt} /\ \A u \in session.units : u.prompt = prompt => u.status = "running"
  BY <1>2 DEF Drafts, Drawn
<1>4. Unanswered({prompt})
  BY <1>3 DEF Unanswered
<1>5. CASE FailWhole
  <2>1. pc' = "not ok" /\ draft' = draft /\ session' = Marked({prompt}, "failed", NoDraft)
    BY <1>3, <1>5 DEF FailWhole
  <2>2. UnitsOk(session')
    BY <1>2, <1>4, <2>1, EmptyPayload, MarkedOne
  <2>3. Drawn'
    BY <1>2, <2>1 DEF Drawn
  <2> QED  BY <1>1, <2>2, <2>3 DEF Drafts
<1>6. ASSUME NEW answer \in WholeAnswers, AnswerWhole(answer) PROVE Drafts'
  <2>1. /\ pc' \in {"round", "save"} /\ draft' = answer /\ used' = used
        /\ session' = Marked({prompt}, "succeeded", answer)
    BY <1>3, <1>6 DEF AnswerWhole
  <2>2. IsPayload(answer) /\ AnsweredEpics(answer.epics)
    BY BacklogAssumption DEF BacklogAssumption, AnsweredEpics, IdsIn
  <2>3. PayloadFor(prompt.type, "succeeded", answer)
    BY <2>2 DEF PayloadFor
  <2>4. /\ UnitsOk(session') /\ Settled(session', {prompt})
        /\ DraftedBy(session', {prompt}) = answer.stories
    BY <1>2, <1>4, <2>1, <2>3, MarkedOne
  <2>5. Drawn'
    BY <1>3, <2>1, <2>2, <2>4 DEF Drawn
  <2> QED  BY <1>1, <2>4, <2>5 DEF Drafts
<1> QED  BY <1>5, <1>6

LEMMA ExtendedEpic ==
    ASSUME NEW e, IsEpic(e), NEW reqs
    PROVE  [e EXCEPT !.reqs = reqs]
              = [id |-> e.id, reqs |-> reqs, stories |-> e.stories, refs |-> e.refs]
BY DEF IsEpic

(* The catch-all epic is an epic; the others keep their ids. *)
LEMMA TopUpEpics ==
    ASSUME NEW epics, \A e \in epics : IsEpic(e), NEW orphans
    PROVE  /\ \A e \in WithTopUp(epics, orphans) : IsEpic(e)
           /\ IdsIn(epics) \subseteq IdsIn(WithTopUp(epics, orphans))
           /\ IdsIn(WithTopUp(epics, orphans)) \subseteq IdsIn(epics) \cup {TopUp}
           /\ orphans # {} =>
                 \E e \in WithTopUp(epics, orphans) : e.id = TopUp /\ orphans \subseteq e.reqs
           /\ \A e \in epics : \E f \in WithTopUp(epics, orphans) : f.id = e.id /\ e.reqs \subseteq f.reqs
<1> DEFINE extended == {IF e.id = TopUp THEN [e EXCEPT !.reqs = @ \cup orphans] ELSE e : e \in epics}
           catchall == [id |-> TopUp, reqs |-> orphans, stories |-> {}, refs |-> {}]
<1>1. \A e \in epics : [e EXCEPT !.reqs = @ \cup orphans]
          = [id |-> e.id, reqs |-> e.reqs \cup orphans, stories |-> e.stories, refs |-> e.refs]
  BY ExtendedEpic
<1>2. CASE orphans = {}
  BY <1>2 DEF WithTopUp, IdsIn
<1>3. CASE orphans # {} /\ \E e \in epics : e.id = TopUp
  <2>1. WithTopUp(epics, orphans) = extended
    BY <1>3 DEF WithTopUp
  <2>2. \A f \in extended : \E e \in epics :
          \/ f = e
          \/ /\ e.id = TopUp
             /\ f = [id |-> e.id, reqs |-> e.reqs \cup orphans, stories |-> e.stories, refs |-> e.refs]
    BY <1>1
  <2>3. \A e \in epics : \E f \in extended :
          /\ e.id # TopUp => f = e
          /\ e.id = TopUp => f = [id |-> e.id, reqs |-> e.reqs \cup orphans, stories |-> e.stories, refs |-> e.refs]
    BY <1>1
  <2> HIDE DEF extended
  <2>4. \A f \in extended : IsEpic(f) /\ f.id \in IdsIn(epics)
    BY <2>2 DEF IsEpic, IdsIn
  <2>5. \A e \in epics : \E f \in extended : f.id = e.id /\ e.reqs \subseteq f.reqs
    BY <2>3
  <2>6. \E f \in extended : f.id = TopUp /\ orphans \subseteq f.reqs
    BY <1>3, <2>3
  <2> QED  BY <2>1, <2>4, <2>5, <2>6 DEF IdsIn
<1>4. CASE orphans # {} /\ ~\E e \in epics : e.id = TopUp
  <2>1. WithTopUp(epics, orphans) = epics \cup {catchall}
    BY <1>4 DEF WithTopUp
  <2>2. IsEpic(catchall) /\ catchall.id = TopUp /\ catchall.reqs = orphans
    BY DEF IsEpic
  <2> HIDE DEF catchall
  <2> QED  BY <2>1, <2>2 DEF IdsIn
<1> QED  BY <1>2, <1>3, <1>4

(* What was drafted for two sets of prompts. *)
LEMMA DraftedTogether ==
    ASSUME NEW l, NEW P, NEW Q
    PROVE  DraftedBy(l, P \cup Q) = DraftedBy(l, P) \cup DraftedBy(l, Q)
BY DEF DraftedBy, UnitsFor

(* A round is started: every prompt of it has a unit, marked running       *)
(* unless it is answered from the ledger.                                  *)
LEMMA StartRoundDrafts == ASSUME IInv, Drafts, StartRound PROVE Drafts'
<1>1. Kept' /\ UnitsOk(saved')
  BY ActionsDraft, KeptDrafting
<1>2. /\ IsLedger(session) /\ UnitsOk(session) /\ IsPayload(draft)
      /\ Settled(session, used) /\ draft.stories = DraftedBy(session, used)
  BY DEF IInv, Transaction, Drafts, Drawn, StartRound
<1>3. PICK prompts, fresh, epics :
        /\ fresh = {p \in prompts : ~Cached(p)}
        /\ draft' = draft \/ (draft' = [draft EXCEPT !.epics = epics] /\ \A e \in epics : IsEpic(e))
        /\ asked' = {[prompt |-> p, pos |-> IF p \in fresh THEN "queued" ELSE "settled"] : p \in prompts}
        /\ used' = used \cup prompts
        /\ session' = Marked(fresh, "running", NoDraft)
  <2> DEFINE gaps    == Gaps(draft.stories)
             units   == IF round = 0 THEN {[epic |-> e.id, reqs |-> e.reqs] : e \in draft.epics}
                                     ELSE TopUpUnits(draft.epics, gaps)
             prompts == {StoriesPrompt(u) : u \in units}
             fresh   == {p \in prompts : ~Cached(p)}
             epics   == WithTopUp(draft.epics, Orphans(draft.epics, gaps))
  <2>1. \A e \in epics : IsEpic(e)
    BY <1>2, TopUpEpics DEF IsPayload
  <2>2. /\ draft' = draft \/ draft' = [draft EXCEPT !.epics = epics]
        /\ asked' = {[prompt |-> p, pos |-> IF p \in fresh THEN "queued" ELSE "settled"] : p \in prompts}
        /\ used' = used \cup prompts
        /\ session' = Marked(fresh, "running", NoDraft)
    BY Zenon DEF StartRound
  <2>3. fresh = {p \in prompts : ~Cached(p)}
    OBVIOUS
  <2> HIDE DEF units, prompts, fresh, epics
  <2> QED  BY <2>1, <2>2, <2>3
<1>4. IsPayload(draft') /\ draft'.stories = draft.stories
  <2>1. draft' = draft \/ draft' = [epics |-> epics, stories |-> draft.stories]
    BY <1>2, <1>3 DEF IsPayload
  <2> QED  BY <1>2, <1>3, <2>1 DEF IsPayload
<1>5. Unanswered(fresh) /\ \A p \in fresh : PayloadFor(p.type, "running", NoDraft)
  BY <1>2, <1>3, NotAnswered, EmptyPayload
<1>6. /\ UnitsOk(session')
      /\ \A u \in session.units : u.prompt \notin fresh => u \in session'.units
      /\ \A u \in session'.units : \/ u \in session.units /\ u.prompt \notin fresh
                                   \/ u.prompt \in fresh /\ u.status = "running"
      /\ \A p \in fresh : \E u \in session'.units : u.prompt = p /\ u.status = "running"
  <2>1. session' = Marked(fresh, "running", NoDraft) /\ IsLedger(session) /\ UnitsOk(session)
    BY <1>2, <1>3
  <2> QED  BY <2>1, <1>5, MarkedUnits
<1>7. ASSUME NEW P PROVE DraftedBy(session', P) = DraftedBy(session, P)
  <2>1. session' = Marked(fresh, "running", NoDraft) /\ IsLedger(session) /\ UnitsOk(session)
    BY <1>2, <1>3
  <2>2. DraftedBy(session', P)
          = DraftedBy(session, P) \cup (IF P \cap fresh = {} THEN {} ELSE NoDraft.stories)
    BY <2>1, <1>5, MarkedDrafts
  <2> QED  BY <2>2, NoDraftPayload
<1>8. \A p \in prompts \ fresh : \E u \in session'.units : u.prompt = p /\ u.status = "succeeded"
  <2> SUFFICES ASSUME NEW p \in prompts \ fresh
               PROVE  \E u \in session'.units : u.prompt = p /\ u.status = "succeeded"
    OBVIOUS
  <2>0. Cached(p) /\ UnitsOk(session)
    BY <1>2, <1>3
  <2>1. PICK u \in session.units : u.prompt = p /\ u.status = "succeeded"
    BY ONLY <2>0, PayloadIsDrafted
  <2> QED  BY <1>6, <2>1
<1>9. Asking'
  <2>1. \A a \in asked' : /\ a.prompt \in prompts
                          /\ a = [prompt |-> a.prompt, pos |-> IF a.prompt \in fresh THEN "queued" ELSE "settled"]
    BY <1>3
  <2>2. \A p \in prompts : \E a \in asked' : a.prompt = p
    <3> SUFFICES ASSUME NEW p \in prompts PROVE \E a \in asked' : a.prompt = p
      OBVIOUS
    <3>1. [prompt |-> p, pos |-> IF p \in fresh THEN "queued" ELSE "settled"] \in asked'
      BY <1>3
    <3> QED  BY <3>1
  <2>3. \A a \in asked' : \E u \in session'.units :
           u.prompt = a.prompt /\ (a.pos = "settled" <=> u.status # "running")
    <3> SUFFICES ASSUME NEW a \in asked'
                 PROVE  \E u \in session'.units :
                           u.prompt = a.prompt /\ (a.pos = "settled" <=> u.status # "running")
      OBVIOUS
    <3>1. a.prompt \in fresh \/ a.prompt \in prompts \ fresh
      BY <2>1
    <3>2. a.pos = IF a.prompt \in fresh THEN "queued" ELSE "settled"
      BY <2>1
    <3> QED  BY <1>6, <1>8, <3>1, <3>2
  <2>4. \A a, b \in asked' : a.prompt = b.prompt => a = b
    BY <2>1
  <2>5. \A p \in used' : \E u \in session'.units :
           u.prompt = p /\ (u.status = "running" => \E a \in asked' : a.prompt = p)
    <3> SUFFICES ASSUME NEW p \in used'
                 PROVE  \E u \in session'.units :
                           u.prompt = p /\ (u.status = "running" => \E a \in asked' : a.prompt = p)
      OBVIOUS
    <3>1. CASE p \in prompts
      BY <1>6, <1>8, <2>2, <3>1
    <3>2. CASE p \in used \ prompts
      <4>1. PICK u \in session.units : u.prompt = p /\ u.status # "running"
        BY <1>2, <3>2 DEF Settled
      <4> QED  BY <1>3, <1>6, <3>2, <4>1
    <3> QED  BY <1>3, <3>1, <3>2
  <2>6. {a.prompt : a \in asked'} = prompts
    BY <2>1, <2>2
  <2>7. draft'.stories \cup DraftedBy(session', prompts) = DraftedBy(session', used')
    BY <1>2, <1>3, <1>4, <1>7, DraftedTogether
  <2> QED  BY <1>3, <2>1, <2>3, <2>4, <2>5, <2>6, <2>7 DEF Asking
<1>10. Drawn'
  BY <1>4, <1>9 DEF Drawn, StartRound
<1> QED  BY <1>1, <1>6, <1>10 DEF Drafts

(* A unit of the round changes its place. *)
LEMMA Moved ==
    ASSUME Typing, NEW u \in asked, NEW pos, MoveUnit(u, pos)
    PROVE  /\ asked' = (asked \ {u}) \cup {[prompt |-> u.prompt, pos |-> pos]}
           /\ {a.prompt : a \in asked'} = {a.prompt : a \in asked}
<1>1. [u EXCEPT !.pos = pos] = [prompt |-> u.prompt, pos |-> pos]
  <2>1. u = [prompt |-> u.prompt, pos |-> u.pos]
    BY DEF Typing
  <2> QED  BY <2>1
<1>2. asked' = (asked \ {u}) \cup {[prompt |-> u.prompt, pos |-> pos]}
  BY <1>1 DEF MoveUnit
<1>3. \A a \in asked' : \E b \in asked : b.prompt = a.prompt
  BY <1>2
<1>4. \A b \in asked : \E a \in asked' : a.prompt = b.prompt
  <2> SUFFICES ASSUME NEW b \in asked PROVE \E a \in asked' : a.prompt = b.prompt
    OBVIOUS
  <2>1. CASE b = u
    <3>1. [prompt |-> u.prompt, pos |-> pos] \in asked'
      BY <1>2
    <3> QED  BY <2>1, <3>1
  <2> QED  BY <1>2, <2>1
<1> QED  BY <1>2, <1>3, <1>4

LEMMA EnterDrafts ==
    ASSUME IInv, Typing, Drafts, NEW u \in asked, Enter(u)
    PROVE  Drafts'
<1>1. Kept' /\ UnitsOk(saved')
  BY ActionsDraft, KeptDrafting
<1>2. /\ pc = "units" /\ pc' = "units" /\ u.pos = "queued" /\ MoveUnit(u, "calling")
      /\ UNCHANGED <<draft, used, session>> /\ Asking
  BY DEF Enter, Drafts, Drawn
<1>3. /\ asked' = (asked \ {u}) \cup {[prompt |-> u.prompt, pos |-> "calling"]}
      /\ {a.prompt : a \in asked'} = {a.prompt : a \in asked}
  BY <1>2, Moved
<1>4. \A a \in asked' : /\ a.prompt \in used
                        /\ \E v \in session.units : /\ v.prompt = a.prompt
                                                    /\ a.pos = "settled" <=> v.status # "running"
  BY <1>2, <1>3 DEF Asking
<1>5. \A a, b \in asked' : a.prompt = b.prompt => a = b
  BY <1>2, <1>3 DEF Asking
<1>6. \A p \in used : \E v \in session.units :
        v.prompt = p /\ (v.status = "running" => \E a \in asked' : a.prompt = p)
  <2> SUFFICES ASSUME NEW p \in used
               PROVE  \E v \in session.units :
                        v.prompt = p /\ (v.status = "running" => \E a \in asked' : a.prompt = p)
    OBVIOUS
  <2>1. PICK v \in session.units :
          v.prompt = p /\ (v.status = "running" => \E a \in asked : a.prompt = p)
    BY <1>2 DEF Asking
  <2> QED  BY <1>3, <2>1
<1>7. Asking'
  BY <1>2, <1>3, <1>4, <1>5, <1>6 DEF Asking
<1> QED  BY <1>1, <1>2, <1>7 DEF Drafts, Drawn

(* A unit that is called settles, as a success with its stories or failed. *)
LEMMA SettleDrafts ==
    ASSUME IInv, Typing, Drafts, NEW u \in asked,
           Fail(u) \/ \E stories \in StoryAnswers[u.prompt.epic] : Answer(u, stories),
           u.prompt.type = "stories" /\ u.prompt.epic \in DOMAIN StoryAnswers
    PROVE  Drafts'
<1>1. Kept' /\ UnitsOk(saved')
  BY ActionsDraft, KeptDrafting
<1>2. /\ pc = "units" /\ pc' = "units" /\ u.pos = "calling" /\ MoveUnit(u, "settled")
      /\ UNCHANGED <<draft, used>> /\ Asking /\ IsLedger(session) /\ UnitsOk(session)
      /\ IsPayload(draft)
  BY DEF Fail, Answer, Drafts, Drawn, IInv, Transaction
<1>3. /\ asked' = (asked \ {u}) \cup {[prompt |-> u.prompt, pos |-> "settled"]}
      /\ {a.prompt : a \in asked'} = {a.prompt : a \in asked}
  BY <1>2, Moved
<1>4. PICK status, payload :
        /\ status \in {"succeeded", "failed"}
        /\ session' = Marked({u.prompt}, status, payload)
        /\ PayloadFor(u.prompt.type, status, payload)
  <2>1. CASE Fail(u)
    BY <2>1, EmptyPayload DEF Fail
  <2>2. ASSUME NEW stories \in StoryAnswers[u.prompt.epic], Answer(u, stories)
        PROVE  \E status, payload :
                 /\ status \in {"succeeded", "failed"}
                 /\ session' = Marked({u.prompt}, status, payload)
                 /\ PayloadFor(u.prompt.type, status, payload)
    <3>1. \A s \in stories : IsStory(s)
      BY BacklogAssumption DEF BacklogAssumption
    <3>2. PayloadFor(u.prompt.type, "succeeded", [epics |-> {}, stories |-> stories])
      BY <3>1 DEF PayloadFor, IsPayload
    <3> QED  BY <2>2, <3>2 DEF Answer
  <2> QED  BY <2>1, <2>2
<1>5. Unanswered({u.prompt})
  <2>1. PICK v \in session.units : v.prompt = u.prompt /\ v.status = "running"
    BY <1>2 DEF Asking
  <2> QED  BY <1>2, <2>1 DEF UnitsOk, Unanswered
<1>6. /\ UnitsOk(session')
      /\ \A v \in session.units : v.prompt # u.prompt => v \in session'.units
      /\ \E v \in session'.units : v.prompt = u.prompt /\ v.status = status
  BY <1>2, <1>4, <1>5, MarkedUnits
<1>7. ASSUME NEW P, u.prompt \in P
      PROVE  DraftedBy(session', P) = DraftedBy(session, P) \cup payload.stories
  <2>1. DraftedBy(session', P)
          = DraftedBy(session, P) \cup (IF P \cap {u.prompt} = {} THEN {} ELSE payload.stories)
    BY <1>2, <1>4, <1>5, MarkedDrafts
  <2> QED  BY <1>7, <2>1
<1>8. \A a \in asked' : /\ a.prompt \in used
                        /\ \E v \in session'.units : /\ v.prompt = a.prompt
                                                     /\ a.pos = "settled" <=> v.status # "running"
  <2> SUFFICES ASSUME NEW a \in asked'
               PROVE  /\ a.prompt \in used
                      /\ \E v \in session'.units : /\ v.prompt = a.prompt
                                                   /\ a.pos = "settled" <=> v.status # "running"
    OBVIOUS
  <2>1. CASE a = [prompt |-> u.prompt, pos |-> "settled"]
    BY <1>2, <1>4, <1>6, <2>1 DEF Asking
  <2>2. CASE a \in asked \ {u}
    <3>1. a.prompt # u.prompt
      BY <1>2, <2>2 DEF Asking
    <3>2. PICK v \in session.units : v.prompt = a.prompt /\ (a.pos = "settled" <=> v.status # "running")
      BY <1>2, <2>2 DEF Asking
    <3> QED  BY <1>2, <1>6, <2>2, <3>1, <3>2 DEF Asking
  <2> QED  BY <1>3, <2>1, <2>2
<1>9. \A a, b \in asked' : a.prompt = b.prompt => a = b
  BY <1>2, <1>3 DEF Asking
<1>10. \A p \in used : \E v \in session'.units :
         v.prompt = p /\ (v.status = "running" => \E a \in asked' : a.prompt = p)
  <2> SUFFICES ASSUME NEW p \in used
               PROVE  \E v \in session'.units :
                        v.prompt = p /\ (v.status = "running" => \E a \in asked' : a.prompt = p)
    OBVIOUS
  <2>1. CASE p = u.prompt
    BY <1>4, <1>6, <2>1
  <2>2. CASE p # u.prompt
    <3>1. PICK v \in session.units :
            v.prompt = p /\ (v.status = "running" => \E a \in asked : a.prompt = p)
      BY <1>2 DEF Asking
    <3> QED  BY <1>3, <1>6, <2>2, <3>1
  <2> QED  BY <2>1, <2>2
<1>11. draft.stories \cup DraftedBy(session', {a.prompt : a \in asked'}) = DraftedBy(session', used)
  <2>1. u.prompt \in {a.prompt : a \in asked} /\ u.prompt \in used
    BY <1>2 DEF Asking
  <2>2. /\ DraftedBy(session', {a.prompt : a \in asked}) = DraftedBy(session, {a.prompt : a \in asked}) \cup payload.stories
        /\ DraftedBy(session', used) = DraftedBy(session, used) \cup payload.stories
    BY <1>7, <2>1
  <2> QED  BY <1>2, <1>3, <2>2 DEF Asking
<1>12. Asking'
  BY <1>2, <1>8, <1>9, <1>10, <1>11 DEF Asking
<1> QED  BY <1>1, <1>2, <1>6, <1>12 DEF Drafts, Drawn

(* What the units of the round answered is in the ledger for them. *)
LEMMA RoundIsDrafted ==
    ASSUME UnitsOk(session)
    PROVE  /\ RoundStories = DraftedBy(session, {a.prompt : a \in asked})
           /\ \A s \in RoundStories : IsStory(s)
<1>1. ASSUME NEW s \in RoundStories
      PROVE  s \in DraftedBy(session, {a.prompt : a \in asked}) /\ IsStory(s)
  <2>1. PICK a \in asked : Cached(a.prompt) /\ s \in PayloadOf(a.prompt).stories
    BY <1>1 DEF RoundStories
  <2>2. PICK u \in session.units : u.prompt = a.prompt /\ u.payload = PayloadOf(a.prompt)
    BY <2>1, PayloadIsDrafted
  <2>3. IsPayload(PayloadOf(a.prompt))
    BY <2>1, PayloadIsDrafted
  <2> QED  BY <2>1, <2>2, <2>3 DEF DraftedBy, UnitsFor, IsPayload
<1>2. ASSUME NEW s \in DraftedBy(session, {a.prompt : a \in asked})
      PROVE  s \in RoundStories
  <2>1. PICK a \in asked, u \in session.units : u.prompt = a.prompt /\ s \in u.payload.stories
    BY <1>2 DEF DraftedBy, UnitsFor
  <2>2. u.status = "succeeded" /\ u.key = u.prompt
    BY <2>1, NoDraftPayload DEF UnitsOk, PayloadFor
  <2>3. Cached(a.prompt)
    BY <2>1, <2>2 DEF Cached, Hash
  <2>4. PICK v \in session.units : v.prompt = a.prompt /\ v.payload = PayloadOf(a.prompt)
    BY <2>3, PayloadIsDrafted
  <2>5. s \in PayloadOf(a.prompt).stories
    BY <2>1, <2>4 DEF UnitsOk
  <2> QED  BY <2>3, <2>5 DEF RoundStories
<1> QED  BY <1>1, <1>2

LEMMA EndRoundDrafts == ASSUME IInv, Drafts, EndRound PROVE Drafts'
<1>1. Kept' /\ UnitsOk(saved')
  BY ActionsDraft, KeptDrafting
<1>2. /\ pc = "units" /\ pc' \in {"not ok", "round", "save"}
      /\ draft' = [draft EXCEPT !.stories = draft.stories \cup RoundStories]
      /\ UNCHANGED <<used, session>> /\ \A a \in asked : a.pos = "settled"
      /\ UnitsOk(session) /\ IsPayload(draft) /\ Asking
  BY DEF EndRound, Drafts, Drawn
<1>3. draft' = [epics |-> draft.epics, stories |-> draft.stories \cup RoundStories]
  BY <1>2 DEF IsPayload
<1>4. IsPayload(draft') /\ draft'.stories = DraftedBy(session, used)
  <2>1. /\ RoundStories = DraftedBy(session, {a.prompt : a \in asked})
        /\ \A s \in RoundStories : IsStory(s)
    BY <1>2, RoundIsDrafted
  <2>2. IsPayload(draft')
    BY <1>2, <1>3, <2>1 DEF IsPayload
  <2>3. draft'.stories = draft.stories \cup RoundStories
    BY <1>3
  <2> QED  BY <1>2, <2>1, <2>2, <2>3 DEF Asking
<1>5. Settled(session, used)
  <2> SUFFICES ASSUME NEW p \in used
               PROVE  \E u \in session.units : u.prompt = p /\ u.status # "running"
    BY DEF Settled
  <2>1. PICK u \in session.units :
          u.prompt = p /\ (u.status = "running" => \E a \in asked : a.prompt = p)
    BY <1>2 DEF Asking
  <2>2. ASSUME NEW a \in asked
        PROVE  \E v \in session.units : v.prompt = a.prompt /\ v.status # "running"
    <3>1. Asking /\ a.pos = "settled"
      BY <1>2
    <3> QED  BY ONLY a \in asked, <3>1 DEF Asking
  <2> QED  BY <2>1, <2>2
<1> QED  BY <1>1, <1>2, <1>4, <1>5 DEF Drafts, Drawn

(* A version is saved of a run that has not landed. *)
LEMMA SaveDrafts == ASSUME IInv, Drafts, Save PROVE Drafts'
<1>1. /\ pc = "save" /\ pc' = "commit" /\ UNCHANGED <<runs, input, draft, used, session, saved>>
      /\ latest' = [run |-> runs, input |-> input, rounds |-> round, used |-> used,
                    backlog |-> Parse(draft, input)]
  BY DEF Save
<1>2. Matches(session)'
  <2>1. Settled(session', latest'.used) /\ draft.stories = DraftedBy(session', latest'.used)
    BY <1>1 DEF Drafts, Drawn
  <2>2. latest'.backlog.stories = Parse([epics |-> {}, stories |-> draft.stories], latest'.input).stories
    BY <1>1 DEF Parse
  <2> QED  BY <2>1, <2>2 DEF Matches
<1>3. Kept'
  BY <1>1, <1>2 DEF Drafts, Kept, Landed
<1> QED  BY <1>1, <1>3 DEF Drafts, Drawn, UnitsOk

LEMMA CommitDrafts == ASSUME IInv, Drafts, Commit PROVE Drafts'
<1>1. /\ pc = "commit" /\ pc' = "idle" /\ saved' = session /\ UNCHANGED <<runs, session, latest>>
      /\ used' = {} /\ draft' = NoDraft
  BY DEF Commit, Forget
<1>2. Matches(saved)'
  <2>1. Matches(session)
    BY <1>1 DEF Drafts, Kept
  <2> QED  BY <1>1, <2>1 DEF Matches, Settled, DraftedBy, UnitsFor
<1>3. Drafts'
  BY <1>1, <1>2, NoDraftPayload DEF Drafts, Drawn, Kept, UnitsOk
<1> QED  BY <1>3

LEMMA LossDrafts == ASSUME IInv, Drafts, Raise \/ Restart PROVE Drafts'
<1>1. /\ pc' = "idle" /\ session' = saved /\ UNCHANGED <<saved, latest>>
      /\ used' = {} /\ draft' = NoDraft
  BY DEF Raise, Restart, Forget
<1>2. Kept'
  BY <1>1, KeptSteady DEF Drafts
<1> QED  BY <1>1, <1>2, NoDraftPayload DEF Drafts, Drawn, UnitsOk

(* The rounds ask for stories only, in the name of an epic of the draft. *)
ByRounds(prompts) == \E p \in prompts : p.type = "epics"

Rounds ==
    /\ pc \in {"idle", "begun", "route", "whole"} => round = 0 /\ streak = 0
    /\ pc = "whole" => (Decompose <=> ByRounds(used))
    /\ pc \in {"round", "units"} =>
          IdsIn(draft.epics) \subseteq DOMAIN StoryAnswers /\ IsPayload(draft)
    /\ pc = "units" =>
          \A a \in asked : /\ a.prompt.type = "stories" /\ a.prompt.round = round
                           /\ a.prompt.epic \in DOMAIN StoryAnswers

LEMMA InitRounds == Init => Rounds
BY DEF Init, Rounds

(* A top-up unit asks for gaps only, of an epic of the extended draft, and *)
(* unless an answered epic already has the id of the catch-all one, every  *)
(* gap is asked for.                                                       *)
LEMMA TopUpAsks ==
    ASSUME NEW epics, \A e \in epics : IsEpic(e), NEW gaps
    PROVE  /\ \A u \in TopUpUnits(epics, gaps) :
                 u.reqs \subseteq gaps /\ u.epic \in IdsIn(WithTopUp(epics, Orphans(epics, gaps)))
           /\ Orphans(epics, gaps) = {} \/ TopUp \notin IdsIn(epics) =>
                 \A r \in gaps : \E u \in TopUpUnits(epics, gaps) : r \in u.reqs
<1> DEFINE orphans == Orphans(epics, gaps)
           owned   == gaps \ orphans
           ids     == {Owner(epics, r).id : r \in owned}
           kept    == {x \in ids : orphans = {} \/ x # TopUp}
           own(id) == [epic |-> id, reqs |-> {r \in owned : Owner(epics, r).id = id}]
           all     == [epic |-> TopUp, reqs |-> orphans]
<1>1. TopUpUnits(epics, gaps) = {own(id) : id \in kept} \cup (IF orphans = {} THEN {} ELSE {all})
  BY DEF TopUpUnits
<1>2. orphans \subseteq gaps
  BY DEF Orphans
<1>3. \A r \in owned : Owner(epics, r) \in epics
  BY DEF Orphans, Owner
<1>4. ids \subseteq IdsIn(epics)
  BY <1>3 DEF IdsIn
<1>5. /\ IdsIn(epics) \subseteq IdsIn(WithTopUp(epics, orphans))
      /\ orphans # {} => TopUp \in IdsIn(WithTopUp(epics, orphans))
  <2> HIDE DEF orphans
  <2> QED  BY TopUpEpics DEF IdsIn
<1>6. ASSUME NEW u \in TopUpUnits(epics, gaps)
      PROVE  u.reqs \subseteq gaps /\ u.epic \in IdsIn(WithTopUp(epics, orphans))
  <2>1. CASE \E id \in kept : u = own(id)
    <3> HIDE DEF orphans
    <3> QED  BY <1>4, <1>5, <2>1
  <2>2. CASE orphans # {} /\ u = all
    BY <1>2, <1>5, <2>2
  <2> QED  BY <1>1, <1>6, <2>1, <2>2
<1>7. ASSUME orphans = {} \/ TopUp \notin IdsIn(epics), NEW r \in gaps
      PROVE  \E u \in TopUpUnits(epics, gaps) : r \in u.reqs
  <2>1. CASE r \in orphans
    <3>1. all \in TopUpUnits(epics, gaps) /\ r \in all.reqs
      BY <1>1, <2>1
    <3> QED  BY <3>1
  <2>2. CASE r \in owned
    <3> DEFINE id == Owner(epics, r).id
    <3>1. id \in ids
      BY <2>2
    <3>2. id \in kept
      BY <1>4, <1>7, <3>1
    <3>3. r \in own(id).reqs
      BY <2>2
    <3> HIDE DEF id, own, kept, all
    <3> QED  BY <1>1, <3>2, <3>3
  <2> QED  BY <2>1, <2>2
<1> QED  BY <1>6, <1>7

(* The round as StartRound starts it. *)
RoundUnits ==
    IF round = 0 THEN {[epic |-> e.id, reqs |-> e.reqs] : e \in draft.epics}
                 ELSE TopUpUnits(draft.epics, Gaps(draft.stories))
RoundEpics ==
    IF round = 0 THEN draft.epics
                 ELSE WithTopUp(draft.epics, Orphans(draft.epics, Gaps(draft.stories)))
RoundPrompts == {StoriesPrompt(u) : u \in RoundUnits}

LEMMA RoundStarted ==
    ASSUME IsPayload(draft), StartRound
    PROVE  /\ draft' = [epics |-> RoundEpics, stories |-> draft.stories]
           /\ \A p \in RoundPrompts : \E a \in asked' : a.prompt = p
           /\ \A a \in asked' : a.prompt \in RoundPrompts
           /\ used' = used \cup RoundPrompts
           /\ session' = Marked({p \in RoundPrompts : ~Cached(p)}, "running", NoDraft)
           /\ IdsIn(draft.epics) \subseteq IdsIn(RoundEpics)
           /\ IdsIn(RoundEpics) \subseteq IdsIn(draft.epics) \cup {TopUp}
           /\ \A u \in RoundUnits : u.epic \in IdsIn(RoundEpics)
<1> DEFINE fresh == {p \in RoundPrompts : ~Cached(p)}
<1>1. /\ draft' = IF round = 0 THEN draft ELSE [draft EXCEPT !.epics = RoundEpics]
      /\ asked' = {[prompt |-> p, pos |-> IF p \in fresh THEN "queued" ELSE "settled"] : p \in RoundPrompts}
      /\ used' = used \cup RoundPrompts
      /\ session' = Marked(fresh, "running", NoDraft)
  BY Zenon DEF StartRound, RoundPrompts, RoundUnits, RoundEpics
<1>2. draft' = [epics |-> RoundEpics, stories |-> draft.stories]
  BY <1>1 DEF IsPayload, RoundEpics
<1>3. \A a \in asked' : a.prompt \in RoundPrompts
  BY <1>1
<1>4. ASSUME NEW p \in RoundPrompts PROVE \E a \in asked' : a.prompt = p
  <2>1. [prompt |-> p, pos |-> IF p \in fresh THEN "queued" ELSE "settled"] \in asked'
    BY <1>1
  <2> QED  BY <2>1
<1>5. /\ IdsIn(draft.epics) \subseteq IdsIn(RoundEpics)
      /\ IdsIn(RoundEpics) \subseteq IdsIn(draft.epics) \cup {TopUp}
  BY TopUpEpics DEF RoundEpics, IsPayload
<1>6. \A u \in RoundUnits : u.epic \in IdsIn(RoundEpics)
  <2>1. CASE round = 0
    BY <2>1 DEF RoundUnits, RoundEpics, IdsIn
  <2>2. CASE round # 0
    BY <2>2, TopUpAsks DEF RoundUnits, RoundEpics, IsPayload
  <2> QED  BY <2>1, <2>2
<1> QED  BY <1>1, <1>2, <1>3, <1>4, <1>5, <1>6

LEMMA StepRounds ==
    ASSUME IInv, Typing, Drafts, Rounds, [Next]_vars
    PROVE  Rounds'
<1>1. CASE \E i \in Inputs, s \in Settings : Begin(i, s)
  BY <1>1 DEF Begin, Rounds
<1>2. CASE Deterministic
  <2>1. pc = "begun" /\ pc' \in {"save", "not ok", "route"} /\ UNCHANGED <<round, streak>>
    BY <1>2 DEF Deterministic
  <2> QED  BY <2>1 DEF Rounds
<1>3. CASE Route
  <2>1. PICK prompt :
          /\ prompt = WholePrompt(IF Decompose THEN "epics" ELSE "oneshot") /\ used' = {prompt}
          /\ \/ /\ Cached(prompt) /\ draft' = PayloadOf(prompt)
                /\ pc' = IF Decompose THEN "round" ELSE "save"
             \/ pc' = "whole"
    BY <1>3, Zenon DEF Route
  <2>2. pc = "route" /\ UNCHANGED <<round, streak, input, setting>>
    BY <1>3 DEF Route
  <2>3. prompt.type = IF Decompose THEN "epics" ELSE "oneshot"
    BY <2>1 DEF WholePrompt
  <2>4. Decompose' <=> Decompose
    BY <2>2 DEF Decompose, Proxy
  <2>5. ByRounds(used') <=> Decompose
    BY <2>1, <2>3 DEF ByRounds
  <2>6. Cached(prompt) => IsPayload(PayloadOf(prompt))
                          /\ (prompt.type = "epics" => AnsweredEpics(PayloadOf(prompt).epics))
    BY PayloadIsDrafted DEF Drafts
  <2>7. CASE Cached(prompt) /\ draft' = PayloadOf(prompt) /\ pc' = IF Decompose THEN "round" ELSE "save"
    BY <2>2, <2>3, <2>6, <2>7 DEF Rounds, AnsweredEpics
  <2>8. CASE pc' = "whole"
    BY <2>2, <2>4, <2>5, <2>8 DEF Rounds
  <2> QED  BY <2>1, <2>7, <2>8
<1>4. CASE FailWhole
  BY <1>4 DEF FailWhole, Rounds
<1>5. ASSUME NEW answer \in WholeAnswers, AnswerWhole(answer) PROVE Rounds'
  <2>1. draft' = answer /\ pc = "whole" /\ pc' \in {"round", "save"}
    BY <1>5 DEF AnswerWhole
  <2>2. IsPayload(answer) /\ IdsIn(answer.epics) \subseteq DOMAIN StoryAnswers
    BY BacklogAssumption DEF BacklogAssumption, IdsIn
  <2> QED  BY <2>1, <2>2 DEF Rounds
<1>6. CASE StartRound
  <2>1. /\ pc = "round" /\ pc' = "units" /\ round' = round /\ IsPayload(draft)
        /\ IdsIn(draft.epics) \subseteq DOMAIN StoryAnswers
    BY <1>6 DEF StartRound, Rounds
  <2>2. IdsIn(draft'.epics) \subseteq DOMAIN StoryAnswers
    BY <1>6, <2>1, RoundStarted, BacklogAssumption DEF BacklogAssumption
  <2>3. IsPayload(draft')
    BY <1>6, StartRoundDrafts DEF Drafts, Drawn
  <2>4. \A a \in asked' : /\ a.prompt.type = "stories" /\ a.prompt.round = round
                          /\ a.prompt.epic \in DOMAIN StoryAnswers
    <3> SUFFICES ASSUME NEW a \in asked'
                 PROVE  /\ a.prompt.type = "stories" /\ a.prompt.round = round
                        /\ a.prompt.epic \in DOMAIN StoryAnswers
      OBVIOUS
    <3>1. PICK u \in RoundUnits : a.prompt = StoriesPrompt(u)
      BY <1>6, <2>1, RoundStarted DEF RoundPrompts
    <3>2. u.epic \in IdsIn(draft'.epics)
      BY <1>6, <2>1, RoundStarted
    <3> QED  BY <2>2, <3>1, <3>2 DEF StoriesPrompt
  <2> QED  BY <2>1, <2>2, <2>3, <2>4 DEF Rounds
<1>7. ASSUME NEW u \in asked, Enter(u) \/ Fail(u)
                              \/ \E stories \in StoryAnswers[u.prompt.epic] : Answer(u, stories)
      PROVE  Rounds'
  <2>1. /\ pc = "units" /\ pc' = "units" /\ UNCHANGED <<draft, round>>
        /\ MoveUnit(u, "calling") \/ MoveUnit(u, "settled")
    BY <1>7 DEF Enter, Fail, Answer
  <2>2. {a.prompt : a \in asked'} = {a.prompt : a \in asked}
    BY <2>1, Moved
  <2>3. \A a \in asked' : \E b \in asked : b.prompt = a.prompt
    BY <2>2
  <2> QED  BY <2>1, <2>3 DEF Rounds
<1>8. CASE EndRound
  <2>1. /\ pc = "units" /\ pc' \in {"not ok", "round", "save"}
        /\ draft' = [draft EXCEPT !.stories = draft.stories \cup RoundStories]
    BY <1>8 DEF EndRound
  <2>2. draft' = [epics |-> draft.epics, stories |-> draft.stories \cup RoundStories]
    BY <2>1 DEF Rounds, IsPayload
  <2>3. IsPayload(draft')
    BY <1>8, EndRoundDrafts DEF Drafts, Drawn
  <2> QED  BY <2>1, <2>2, <2>3 DEF Rounds
<1>9. CASE Save
  BY <1>9 DEF Save, Rounds
<1>10. CASE Commit \/ Refuse \/ Raise \/ Restart
  BY <1>10 DEF Commit, Refuse, Raise, Restart, Forget, Rounds
<1>11. CASE UNCHANGED vars
  BY <1>11 DEF vars, Rounds, Decompose, Proxy
<1> QED  BY <1>1, <1>2, <1>3, <1>4, <1>5, <1>6, <1>7, <1>8, <1>9, <1>10, <1>11 DEF Next, Work

(* Every step keeps the drafts what the ledger holds for them. *)
LEMMA StepDrafts ==
    ASSUME IInv, Typing, Drafts, Rounds, [Next]_vars
    PROVE  Drafts'
<1>1. CASE \E i \in Inputs, s \in Settings : Begin(i, s)
  BY <1>1, BeginDrafts
<1>2. CASE Deterministic \/ Route \/ FailWhole \/ \E answer \in WholeAnswers : AnswerWhole(answer)
  BY <1>2, DeterministicDrafts, RouteDrafts, WholeDrafts
<1>3. CASE StartRound \/ EndRound \/ Save \/ Commit \/ Refuse \/ Raise \/ Restart
  BY <1>3, StartRoundDrafts, EndRoundDrafts, SaveDrafts, CommitDrafts, LossDrafts DEF Refuse
<1>4. ASSUME NEW u \in asked, Enter(u) PROVE Drafts'
  BY <1>4, EnterDrafts
<1>5. ASSUME NEW u \in asked,
             Fail(u) \/ \E stories \in StoryAnswers[u.prompt.epic] : Answer(u, stories)
      PROVE  Drafts'
  <2>1. u.prompt.type = "stories" /\ u.prompt.epic \in DOMAIN StoryAnswers
    BY <1>5 DEF Rounds, Fail, Answer
  <2> QED  BY <1>5, <2>1, SettleDrafts
<1>6. CASE UNCHANGED vars
  <2>1. UNCHANGED <<pc, runs, draft, asked, used, session, saved, latest>>
    BY <1>6 DEF vars
  <2>2. Kept'
    BY <2>1, KeptSteady DEF Drafts, Kept
  <2>3. Asking' = Asking
    BY <2>1 DEF Asking
  <2> QED  BY <2>1, <2>2, <2>3 DEF Drafts, Drawn
<1> QED  BY <1>1, <1>2, <1>3, <1>4, <1>5, <1>6 DEF Next, Work

LEMMA DraftsInvariance == Spec => [](IInv /\ Typing /\ Drafts /\ Rounds)
<1>1. Init => IInv /\ Typing /\ Drafts /\ Rounds
  BY InitInv, InitTyped, InitDrafts, InitRounds
<1>2. (IInv /\ Typing /\ Drafts /\ Rounds) /\ [Next]_vars => (IInv /\ Typing /\ Drafts /\ Rounds)'
  BY NextStep, StepTyped, StepDrafts, StepRounds
<1> QED  BY <1>1, <1>2, PTL DEF Spec

(* A landed backlog is what the durable ledger holds for the prompts of    *)
(* its run, each of them settled: nothing in it was drafted for another    *)
(* round, other requirements or an older BRD.                              *)
THEOREM BacklogIsOfItsLedger == Spec => []BacklogMatchesLedger
<1>1. Drafts => BacklogMatchesLedger
  <2> SUFFICES ASSUME Drafts, Landed, latest.run # 0
               PROVE  LET units == UnitsFor(saved, latest.used)
                      IN  /\ {u.prompt : u \in units} = latest.used
                          /\ \A u \in units : u.status # "running"
                          /\ latest.backlog.stories =
                                Parse([epics |-> {}, stories |-> UNION {u.payload.stories : u \in units}],
                                      latest.input).stories
    BY DEF BacklogMatchesLedger, UnitsFor
  <2>1. Matches(saved) /\ UnitsOk(saved)
    BY DEF Drafts, Kept
  <2>2. \A p \in latest.used : \E u \in UnitsFor(saved, latest.used) : u.prompt = p /\ u.status # "running"
    BY <2>1 DEF Matches, Settled, UnitsFor
  <2>3. \A u \in UnitsFor(saved, latest.used) : u.status # "running"
    BY <2>1, <2>2 DEF UnitsOk, UnitsFor
  <2>4. {u.prompt : u \in UnitsFor(saved, latest.used)} = latest.used
    BY <2>2 DEF UnitsFor
  <2> QED  BY <2>1, <2>3, <2>4 DEF Matches, DraftedBy
<1> QED  BY <1>1, DraftsInvariance, PTL
----------------------------------------------------------------------------
(* Gaps.  A requirement without a story was asked for, of an epic of the   *)
(* draft, in every round that is over.                                     *)
AskedFor(r, k) ==
    \E p \in used : /\ p.type = "stories" /\ p.round = k /\ r \in p.reqs
                    /\ p.epic \in IdsIn(draft.epics)

Taken == CatchAllTaken(session, used)

AllAsked(n) ==
    \A r \in Gaps(draft.stories), k \in 1..n : (k = 1 /\ Taken) \/ AskedFor(r, k)

(* The last rounds before the n-th covered nothing they were asked for. *)
Dry(l, prompts, n, last) ==
    \A u \in l.units :
        u.prompt \in prompts /\ u.prompt.type = "stories"
            /\ u.prompt.round < n /\ u.prompt.round + last >= n
        => u.prompt.reqs \cap CoveredRequirements(u.payload.stories) = {}

(* The prompts come from the rounds up to n. *)
UpTo(n) == \A p \in used : p.type = "stories" => p.round \in Nat /\ p.round <= n

(* Once n top-up rounds were started and the draft has the catch-all epic, *)
(* every gap has an owner.                                                 *)
Adopted(n) ==
    TopUp \in IdsIn(draft.epics) =>
        (n < 1 /\ Taken) \/ Orphans(draft.epics, Gaps(draft.stories)) = {}

BeforeRound ==
    /\ streak <= round /\ (round > 0 => streak < round)
    /\ Dry(session, used, round, streak)

Gapless ==
    /\ pc = "round" => BeforeRound /\ UpTo(round - 1) /\ AllAsked(round - 1) /\ Adopted(round - 1)
    /\ pc = "units" =>
          /\ BeforeRound /\ UpTo(round) /\ AllAsked(round) /\ Adopted(round)
          /\ round > 0 => \A a \in asked : a.prompt.reqs \subseteq Gaps(draft.stories)
          /\ \A p \in used : p.type = "stories" /\ p.round = round => \E a \in asked : a.prompt = p
    /\ pc = "save" /\ ByRounds(used) =>
          /\ UpTo(round) /\ AllAsked(round) /\ Dry(session, used, round + 1, streak)
          /\ streak <= round
          /\ Gaps(draft.stories) # {} => round = MaxTopUps \/ streak = NoProgressLimit

(* What is said of a landed backlog by rounds, of any ledger. *)
Explored(l) ==
    InRounds =>
        \A r \in RequirementIds(latest.input) \ CoveredRequirements(latest.backlog.stories) :
            /\ latest.rounds = MaxTopUps \/ latest.rounds >= NoProgressLimit
            /\ \A n \in 1..latest.rounds :
                  \/ n = 1 /\ CatchAllTaken(l, latest.used)
                  \/ \E u \in l.units :
                        /\ u.prompt \in latest.used /\ u.prompt.type = "stories"
                        /\ u.prompt.round = n /\ r \in u.prompt.reqs
                        /\ u.prompt.epic \in {e.id : e \in latest.backlog.epics}
                        /\ r \notin CoveredRequirements(u.payload.stories)
            /\ latest.rounds < MaxTopUps =>
                  \A u \in l.units :
                      /\ u.prompt \in latest.used /\ u.prompt.type = "stories"
                      /\ u.prompt.round + NoProgressLimit > latest.rounds
                      => u.prompt.reqs \cap CoveredRequirements(u.payload.stories) = {}

Remembered ==
    /\ pc = "commit" => Explored(session)
    /\ Landed /\ latest.run # 0 => Explored(saved)

LEMMA Numbers ==
    ASSUME Typing
    PROVE  /\ round \in Nat /\ streak \in Nat /\ MaxTopUps \in Nat /\ NoProgressLimit \in Nat
           /\ round <= MaxTopUps /\ streak <= NoProgressLimit
<1>1. MaxTopUps \in Nat /\ NoProgressLimit \in Nat
  BY BacklogAssumption DEF BacklogAssumption
<1>2. round \in 0..MaxTopUps /\ streak \in 0..NoProgressLimit
  BY DEF Typing, TypeOK
<1> QED  BY <1>1, <1>2

(* The first round is about to start: only the epics were asked for. *)
LEMMA FirstRound ==
    ASSUME round' = 0, streak' = 0, pc' = "round",
           TopUp \in IdsIn(draft'.epics) => CatchAllTaken(session', used'),
           \A p \in used' : p.type = "epics"
    PROVE  Gapless'
<1>1. Dry(session', used', 0, 0) /\ UpTo(round - 1)'
  BY DEF Dry, UpTo
<1>2. AllAsked(round - 1)'
  <2>1. 1..(round' - 1) = {}
    OBVIOUS
  <2> QED  BY <2>1 DEF AllAsked
<1>3. Adopted(round - 1)'
  BY DEF Adopted, Taken
<1> QED  BY <1>1, <1>2, <1>3 DEF Gapless, BeforeRound

LEMMA RouteGaps == ASSUME IInv, Drafts, Rounds, Route PROVE Gapless'
<1>1. PICK prompt :
        /\ prompt = WholePrompt(IF Decompose THEN "epics" ELSE "oneshot") /\ used' = {prompt}
        /\ \/ /\ Cached(prompt) /\ draft' = PayloadOf(prompt)
              /\ pc' = IF Decompose THEN "round" ELSE "save"
           \/ pc' = "whole"
  BY Zenon DEF Route
<1>2. pc = "route" /\ round' = 0 /\ streak' = 0
  BY DEF Route, Rounds
<1>3. prompt.type = IF Decompose THEN "epics" ELSE "oneshot"
  BY <1>1 DEF WholePrompt
<1>4. CASE pc' = "round"
  <2>1. Decompose /\ Cached(prompt) /\ draft' = PayloadOf(prompt)
    BY <1>1, <1>4
  <2>2. session' = session
    BY <1>4, Zenon DEF Route
  <2>3. TopUp \in IdsIn(draft'.epics) => CatchAllTaken(session', used')
    <3>1. \E u \in session.units : u.prompt = prompt /\ u.payload = PayloadOf(prompt)
      BY <2>1, PayloadIsDrafted DEF Drafts
    <3> QED  BY <1>1, <1>3, <2>1, <2>2, <3>1 DEF IdsIn, CatchAllTaken
  <2> QED  BY <1>1, <1>2, <1>3, <1>4, <2>1, <2>3, FirstRound
<1>5. CASE pc' # "round"
  <2>1. pc' = "save" => ~ByRounds(used')
    BY <1>1, <1>3 DEF ByRounds
  <2>2. pc' # "units"
    BY <1>1
  <2> QED  BY <1>5, <2>1, <2>2 DEF Gapless
<1> QED  BY <1>4, <1>5

LEMMA AnswerWholeGaps ==
    ASSUME IInv, Drafts, Rounds, NEW answer \in WholeAnswers, AnswerWhole(answer)
    PROVE  Gapless'
<1>1. /\ pc = "whole" /\ draft' = answer /\ pc' = (IF Decompose THEN "round" ELSE "save")
      /\ UNCHANGED <<round, streak, used>>
  BY DEF AnswerWhole
<1>2. round' = 0 /\ streak' = 0 /\ (Decompose <=> ByRounds(used))
  BY <1>1 DEF Rounds
<1>3. AnsweredEpics(answer.epics) /\ IsPayload(answer)
  BY BacklogAssumption DEF BacklogAssumption, AnsweredEpics, IdsIn
<1>4. CASE Decompose
  <2>1. PICK p : used = {p} /\ p.type = "epics"
    BY <1>1, <1>2, <1>4 DEF ByRounds, Drafts, Drawn
  <2>2. \E u \in session'.units : u.prompt = p /\ u.payload = answer
    <3>1. session' = Marked({p}, "succeeded", answer) /\ IsLedger(session) /\ UnitsOk(session)
      BY <2>1 DEF AnswerWhole, IInv, Transaction, Drafts
    <3>2. PayloadFor(p.type, "succeeded", answer)
      BY <1>3 DEF PayloadFor
    <3> QED  BY <3>1, <3>2, MarkedUnits
  <2>3. TopUp \in IdsIn(draft'.epics) => CatchAllTaken(session', used')
    BY <1>1, <2>1, <2>2 DEF IdsIn, CatchAllTaken
  <2> QED  BY <1>1, <1>2, <1>4, <2>1, <2>3, FirstRound
<1>5. CASE ~Decompose
  <2>1. pc' = "save" /\ ~ByRounds(used')
    BY <1>1, <1>2, <1>5
  <2> QED  BY <2>1 DEF Gapless
<1> QED  BY <1>4, <1>5

(* A round is started: every gap is asked for once more. *)
LEMMA StartRoundGaps ==
    ASSUME IInv, Typing, Drafts, Rounds, Gapless, StartRound
    PROVE  Gapless'
<1>1. /\ pc = "round" /\ pc' = "units" /\ UNCHANGED <<round, streak, input>> /\ round \in Nat
      /\ BeforeRound /\ UpTo(round - 1) /\ AllAsked(round - 1) /\ Adopted(round - 1) /\ IsPayload(draft)
  BY Numbers DEF StartRound, Gapless, Rounds
<1>2. /\ draft' = [epics |-> RoundEpics, stories |-> draft.stories]
      /\ \A p \in RoundPrompts : \E a \in asked' : a.prompt = p
      /\ \A a \in asked' : a.prompt \in RoundPrompts
      /\ used' = used \cup RoundPrompts
      /\ session' = Marked({p \in RoundPrompts : ~Cached(p)}, "running", NoDraft)
      /\ IdsIn(draft.epics) \subseteq IdsIn(RoundEpics)
      /\ \A u \in RoundUnits : u.epic \in IdsIn(RoundEpics)
  BY <1>1, RoundStarted
<1>3. \A p \in RoundPrompts : \E u \in RoundUnits :
        p.type = "stories" /\ p.round = round /\ p.reqs = u.reqs /\ p.epic = u.epic
  BY DEF RoundPrompts, StoriesPrompt
<1>4. Gaps(draft.stories)' = Gaps(draft.stories)
  BY <1>1, <1>2 DEF Gaps
<1>5. /\ Dry(session', used', round, streak)
      /\ Taken => Taken'
  <2>1. IsLedger(session) /\ UnitsOk(session)
    BY DEF IInv, Transaction, Drafts
  <2>2. \A p \in {q \in RoundPrompts : ~Cached(q)} : PayloadFor(p.type, "running", NoDraft)
    BY EmptyPayload
  <2>3. /\ \A u \in session'.units : u \in session.units \/ u.prompt \in RoundPrompts
        /\ \A u \in session.units : u.prompt \notin RoundPrompts => u \in session'.units
    BY <1>2, <2>1, <2>2, MarkedUnits
  <2>4. \A u \in session'.units : u.prompt.round < round => u.prompt \notin RoundPrompts
    BY <1>1, <1>3
  <2>5. Taken => Taken'
    BY <1>2, <1>3, <2>3 DEF Taken, CatchAllTaken
  <2> QED  BY <1>1, <1>2, <2>3, <2>4, <2>5 DEF BeforeRound, Dry
<1>6. UpTo(round)'
  BY <1>1, <1>2, <1>3 DEF UpTo
<1>7. Adopted(round)'
  <2> DEFINE epics == draft.epics
             gaps == Gaps(draft.stories)
             orphans == Orphans(epics, gaps)
  <2>1. RoundEpics = IF round = 0 THEN epics ELSE WithTopUp(epics, orphans)
    BY DEF RoundEpics
  <2>2. TopUp \in IdsIn(epics) => (round - 1 < 1 /\ Taken) \/ orphans = {}
    BY <1>1 DEF Adopted
  <2>3. \A e \in epics : IsEpic(e)
    BY <1>1 DEF IsPayload
  <2>4. Adopted(round)' <=>
          (TopUp \in IdsIn(RoundEpics) => (round < 1 /\ Taken') \/ Orphans(RoundEpics, gaps) = {})
    BY <1>1, <1>2, <1>4 DEF Adopted
  <2>5. \A r \in gaps : r \in orphans \/ \E e \in epics : r \in e.reqs
    BY DEF Orphans
  <2> HIDE DEF epics, gaps, orphans
  <2>6. CASE round = 0
    <3>1. orphans = {} => Orphans(RoundEpics, gaps) = {}
      BY <2>1, <2>6 DEF orphans
    <3> QED  BY <1>5, <2>1, <2>2, <2>4, <2>6, <3>1
  <2>7. CASE round # 0
    <3>1. /\ orphans # {} => \E e \in RoundEpics : orphans \subseteq e.reqs
          /\ \A e \in epics : \E f \in RoundEpics : e.reqs \subseteq f.reqs
      <4>1. /\ orphans # {} => \E e \in WithTopUp(epics, orphans) : e.id = TopUp /\ orphans \subseteq e.reqs
            /\ \A e \in epics : \E f \in WithTopUp(epics, orphans) : f.id = e.id /\ e.reqs \subseteq f.reqs
        BY <2>3, TopUpEpics
      <4> QED  BY <2>1, <2>7, <4>1
    <3>2. \A r \in gaps : \E f \in RoundEpics : r \in f.reqs
      BY <2>5, <3>1
    <3>3. Orphans(RoundEpics, gaps) = {}
      BY <3>2 DEF Orphans
    <3> QED  BY <2>4, <3>3
  <2> QED  BY <2>6, <2>7
<1>8. round > 0 => \A a \in asked' : a.prompt.reqs \subseteq Gaps(draft.stories)
  <2> SUFFICES ASSUME round > 0, NEW a \in asked' PROVE a.prompt.reqs \subseteq Gaps(draft.stories)
    OBVIOUS
  <2>1. PICK u \in RoundUnits : a.prompt.reqs = u.reqs
    BY <1>2, <1>3
  <2>2. u \in TopUpUnits(draft.epics, Gaps(draft.stories))
    BY <2>1 DEF RoundUnits
  <2> QED  BY <1>1, <2>1, <2>2, TopUpAsks DEF IsPayload
<1>9. AllAsked(round)'
  <2> SUFFICES ASSUME NEW r \in Gaps(draft.stories), NEW k \in 1..round, ~(k = 1 /\ Taken')
               PROVE  AskedFor(r, k)'
    BY <1>1, <1>2, <1>4 DEF AllAsked
  <2>1. CASE k # round
    <3>1. k \in 1..(round - 1)
      BY <1>1, <2>1
    <3>2. AskedFor(r, k)
      BY <1>1, <1>5, <3>1 DEF AllAsked
    <3> QED  BY <1>2, <3>2 DEF AskedFor
  <2>2. CASE k = round
    <3>1. RoundUnits = TopUpUnits(draft.epics, Gaps(draft.stories))
      BY <2>2 DEF RoundUnits
    <3>2. Orphans(draft.epics, Gaps(draft.stories)) = {} \/ TopUp \notin IdsIn(draft.epics)
      <4>1. ~(round - 1 < 1 /\ Taken)
        BY <1>1, <1>5, <2>2
      <4> QED  BY <1>1, <4>1 DEF Adopted
    <3>3. PICK u \in RoundUnits : r \in u.reqs
      BY <1>1, <3>1, <3>2, TopUpAsks DEF IsPayload
    <3>4. StoriesPrompt(u) \in used'
      BY <1>2 DEF RoundPrompts
    <3>5. /\ StoriesPrompt(u).type = "stories" /\ StoriesPrompt(u).round = round
          /\ StoriesPrompt(u).reqs = u.reqs /\ StoriesPrompt(u).epic = u.epic
      BY DEF StoriesPrompt
    <3>6. u.epic \in IdsIn(draft'.epics)
      BY <1>2
    <3> QED  BY <2>2, <3>3, <3>4, <3>5, <3>6 DEF AskedFor
  <2> QED  BY <2>1, <2>2
<1>10. \A p \in used' : p.type = "stories" /\ p.round = round => \E a \in asked' : a.prompt = p
  BY <1>1, <1>2 DEF UpTo
<1>11. BeforeRound'
  <2>1. Dry(session, used, round, streak)'
    BY <1>1, <1>5
  <2> QED  BY <1>1, <2>1 DEF BeforeRound
<1> QED  BY <1>1, <1>4, <1>6, <1>7, <1>8, <1>9, <1>10, <1>11 DEF Gapless

(* A unit that moves touches its own row of the ledger only. *)
LEMMA UnitMoves ==
    ASSUME IInv, NEW u \in asked,
           Enter(u) \/ Fail(u) \/ \E stories \in StoryAnswers[u.prompt.epic] : Answer(u, stories)
    PROVE  /\ \A v \in session'.units : v \in session.units \/ v.prompt = u.prompt
           /\ \A v \in session.units : v \in session'.units \/ v.key = u.prompt
<1>1. IsLedger(session)
  BY DEF IInv, Transaction
<1>2. \/ session' = session
      \/ \E status, payload : session' = Marked({u.prompt}, status, payload)
  BY DEF Enter, Fail, Answer
<1>3. ASSUME NEW status, NEW payload, session' = Marked({u.prompt}, status, payload)
      PROVE  /\ \A v \in session'.units : v \in session.units \/ v.prompt = u.prompt
             /\ \A v \in session.units : v \in session'.units \/ v.key = u.prompt
  <2> DEFINE units == {v \in session.units : v.key \notin {Hash(p) : p \in {u.prompt}}} \cup
          {[key |-> Hash(p), prompt |-> p, status |-> status, payload |-> payload] : p \in {u.prompt}}
  <2>1. session' = [session EXCEPT !.units = units]
    BY <1>3 DEF Marked
  <2>2. /\ \A v \in units : v \in session.units \/ v.prompt = u.prompt
        /\ \A v \in session.units : v \in units \/ v.key = u.prompt
    BY DEF Hash
  <2> HIDE DEF units
  <2> QED  BY <1>1, <2>1, <2>2 DEF IsLedger
<1> QED  BY <1>2, <1>3

(* A unit of the round moves: what it brings is of this round. *)
LEMMA UnitGaps ==
    ASSUME Typing, IInv, Drafts, Rounds, Gapless, NEW u \in asked,
           Enter(u) \/ Fail(u) \/ \E stories \in StoryAnswers[u.prompt.epic] : Answer(u, stories)
    PROVE  Gapless'
<1>1. /\ pc = "units" /\ pc' = "units" /\ UNCHANGED <<draft, used, round, streak, input>>
      /\ MoveUnit(u, "calling") \/ MoveUnit(u, "settled")
      /\ u.prompt.round = round /\ BeforeRound
  BY DEF Enter, Fail, Answer, Rounds, Gapless
<1>2. {a.prompt : a \in asked'} = {a.prompt : a \in asked}
  BY <1>1, Moved
<1>3. /\ \A v \in session'.units : v \in session.units \/ v.prompt = u.prompt
      /\ \A v \in session.units : v \in session'.units \/ v.key = u.prompt
  BY UnitMoves
<1>4. BeforeRound'
  <2>1. Dry(session, used, round, streak)'
    BY <1>1, <1>3, Numbers DEF BeforeRound, Dry
  <2> QED  BY <1>1, <2>1 DEF BeforeRound
<1>5. UpTo(round)' /\ AllAsked(round)' /\ Adopted(round)'
  <2>1. Taken => Taken'
    <3>1. \A v \in session.units : v.prompt.type = "epics" => v \in session'.units
      BY <1>1, <1>3 DEF Rounds, Drafts, UnitsOk
    <3> QED  BY <1>1, <3>1 DEF Taken, CatchAllTaken
  <2>2. Gaps(draft.stories)' = Gaps(draft.stories)
    BY <1>1 DEF Gaps
  <2>3. UpTo(round)'
    BY <1>1 DEF Gapless, UpTo
  <2>4. AllAsked(round)'
    BY <1>1, <2>1, <2>2 DEF Gapless, AllAsked, AskedFor
  <2>5. Adopted(round)'
    BY <1>1, <2>1, <2>2 DEF Gapless, Adopted
  <2> QED  BY <2>3, <2>4, <2>5
<1>6. \A a \in asked' : \E b \in asked : b.prompt = a.prompt
  BY <1>2
<1>7. \A b \in asked : \E a \in asked' : a.prompt = b.prompt
  BY <1>2
<1> QED  BY <1>1, <1>4, <1>5, <1>6, <1>7 DEF Gapless, Gaps

(* A round ends: what is covered now needs no more rounds, and a round     *)
(* that covered nothing lengthens the streak.                              *)
LEMMA EndRoundGaps ==
    ASSUME Typing, IInv, Drafts, Rounds, Gapless, EndRound, Typing'
    PROVE  Gapless'
<1> DEFINE news == CoveredRequirements(RoundStories) \cap Gaps(draft.stories)
           dry  == IF round = 0 \/ news # {} THEN 0 ELSE streak + 1
<1>1. /\ pc = "units" /\ pc' \in {"not ok", "round", "save"}
      /\ draft' = [draft EXCEPT !.stories = draft.stories \cup RoundStories]
      /\ streak' = dry /\ UNCHANGED <<used, session, input>>
      /\ pc' = "round" => round' = round + 1
      /\ pc' = "save" => round' = round /\ ~MoreToAsk(draft.stories \cup RoundStories, dry)
  BY Zenon DEF EndRound
<1>2. /\ BeforeRound /\ UpTo(round) /\ AllAsked(round) /\ Adopted(round)
      /\ round > 0 => \A a \in asked : a.prompt.reqs \subseteq Gaps(draft.stories)
      /\ \A p \in used : p.type = "stories" /\ p.round = round => \E a \in asked : a.prompt = p
      /\ IsPayload(draft)
  BY <1>1 DEF Gapless, Rounds
<1>3. draft' = [epics |-> draft.epics, stories |-> draft.stories \cup RoundStories]
  BY <1>1, <1>2 DEF IsPayload
<1>4. Gaps(draft.stories)' \subseteq Gaps(draft.stories)
  <2>1. Gaps(draft.stories)' = Gaps(draft.stories \cup RoundStories)
    BY <1>1, <1>3 DEF Gaps
  <2> QED  BY <2>1 DEF Gaps, CoveredRequirements
<1>5. \A r \in Gaps(draft.stories)', k \in 1..round : (k = 1 /\ Taken') \/ AskedFor(r, k)'
  <2>1. \A r \in Gaps(draft.stories), k \in 1..round : (k = 1 /\ Taken) \/ AskedFor(r, k)
    BY <1>2 DEF AllAsked
  <2>2. \A r, k : AskedFor(r, k) => AskedFor(r, k)'
    BY <1>1, <1>3 DEF AskedFor
  <2>3. Taken' = Taken
    BY <1>1 DEF Taken, CatchAllTaken
  <2> QED  BY <1>4, <2>1, <2>2, <2>3
<1>6. TopUp \in IdsIn(draft.epics)' =>
          (round < 1 /\ Taken') \/ Orphans(draft.epics, Gaps(draft.stories))' = {}
  <2> DEFINE gaps == Gaps(draft.stories)
  <2>1. IdsIn(draft.epics)' = IdsIn(draft.epics)
    BY <1>3 DEF IdsIn
  <2>2. TopUp \in IdsIn(draft.epics) => (round < 1 /\ Taken) \/ Orphans(draft.epics, gaps) = {}
    BY <1>2 DEF Adopted
  <2>3. Orphans(draft.epics, gaps)' = Orphans(draft.epics, gaps')
    BY <1>3 DEF Orphans
  <2>4. gaps' \subseteq gaps
    BY <1>4
  <2> HIDE DEF gaps
  <2>5. Orphans(draft.epics, gaps') \subseteq Orphans(draft.epics, gaps)
    BY <2>4 DEF Orphans
  <2>6. Taken' = Taken
    BY <1>1 DEF Taken, CatchAllTaken
  <2>7. TopUp \in IdsIn(draft.epics)' => (round < 1 /\ Taken') \/ Orphans(draft.epics, gaps)' = {}
    BY <2>1, <2>2, <2>3, <2>5, <2>6
  <2> QED  BY <2>7 DEF gaps
<1>7. /\ round \in Nat /\ streak \in Nat /\ streak <= round /\ (round > 0 => streak < round)
      /\ streak' \in Nat /\ streak' <= NoProgressLimit /\ NoProgressLimit \in Nat /\ MaxTopUps \in Nat
      /\ round <= MaxTopUps
  <2>1. streak' \in 0..NoProgressLimit
    BY DEF Typing, TypeOK
  <2>2. streak <= round /\ (round > 0 => streak < round)
    BY <1>2 DEF BeforeRound
  <2> QED  BY <2>1, <2>2, Numbers
<1>8. /\ streak' <= round
      /\ streak' > 0 => round > 0 /\ news = {} /\ streak' = streak + 1
  <2>1. streak' = IF round = 0 \/ news # {} THEN 0 ELSE streak + 1
    BY <1>1
  <2> HIDE DEF news
  <2>2. CASE round = 0 \/ news # {}
    BY <1>7, <2>1, <2>2
  <2>3. CASE round # 0 /\ news = {}
    BY <1>7, <2>1, <2>3
  <2> QED  BY <2>2, <2>3
<1>9. Dry(session, used, round + 1, streak')
  <2> SUFFICES ASSUME NEW u \in session.units, u.prompt \in used, u.prompt.type = "stories",
                      u.prompt.round < round + 1, u.prompt.round + streak' >= round + 1,
                      NEW r \in u.prompt.reqs \cap CoveredRequirements(u.payload.stories)
               PROVE  FALSE
    BY DEF Dry
  <2>1. u.prompt.round \in Nat
    BY <1>2 DEF UpTo
  <2>2. round > 0 /\ news = {} /\ streak' = streak + 1
    <3>1. streak' > 0
      BY <1>7, <2>1
    <3> QED  BY <1>8, <3>1
  <2>3. CASE u.prompt.round = round
    <3>1. PICK a \in asked : a.prompt = u.prompt
      BY <1>2, <2>3
    <3>2. u.payload.stories \subseteq RoundStories
      <4>1. RoundStories = DraftedBy(session, {b.prompt : b \in asked})
        BY RoundIsDrafted DEF Drafts
      <4> QED  BY <3>1, <4>1 DEF DraftedBy, UnitsFor
    <3>3. r \in news
      BY <1>2, <2>2, <3>1, <3>2 DEF CoveredRequirements
    <3> QED  BY <2>2, <3>3
  <2>4. CASE u.prompt.round # round
    <3>1. u.prompt.round < round /\ u.prompt.round + streak >= round
      BY <1>7, <2>1, <2>2, <2>4
    <3> QED  BY <1>2, <3>1 DEF BeforeRound, Dry
  <2> QED  BY <2>3, <2>4
<1>10. CASE pc' = "round"
  <2>1. round' = round + 1 /\ round' - 1 = round
    BY <1>1, <1>7, <1>10
  <2>2. Dry(session, used, round, streak)'
    BY <1>1, <1>9, <2>1
  <2>3. streak' < round'
    BY <1>7, <1>8, <2>1
  <2>4. BeforeRound' /\ Adopted(round - 1)'
    BY <1>6, <1>7, <2>2, <2>3, <2>1 DEF BeforeRound, Adopted
  <2>5. UpTo(round - 1)'
    BY <1>1, <1>2, <2>1 DEF UpTo
  <2>6. AllAsked(round - 1)'
    BY <1>2, <1>5, <2>1, <1>3, <1>1 DEF AllAsked, Gaps
  <2> QED  BY <1>10, <2>4, <2>5, <2>6 DEF Gapless
<1>11. CASE pc' = "save"
  <2>1. round' = round /\ ~MoreToAsk(draft.stories \cup RoundStories, dry)
    BY <1>1, <1>11
  <2>2. UpTo(round)'
    BY <1>1, <1>2, <2>1 DEF UpTo
  <2>3. AllAsked(round)'
    BY <1>1, <1>2, <1>3, <1>5, <2>1 DEF AllAsked, Gaps
  <2>4. Dry(session, used, round + 1, streak)'
    BY <1>1, <1>9, <2>1
  <2>5. Gaps(draft.stories)' # {} => round = MaxTopUps \/ streak' = NoProgressLimit
    <3>1. Gaps(draft.stories)' = Gaps(draft.stories \cup RoundStories)
      BY <1>1, <1>3 DEF Gaps
    <3>2. Gaps(draft.stories)' # {} => ~(round < MaxTopUps) \/ ~(dry < NoProgressLimit)
      BY <2>1, <3>1 DEF MoreToAsk
    <3>3. streak' = dry
      BY <1>1
    <3> HIDE DEF dry
    <3> QED  BY <1>7, <3>2, <3>3
  <2> QED  BY <1>8, <1>11, <2>1, <2>2, <2>3, <2>4, <2>5 DEF Gapless
<1>12. CASE pc' = "not ok"
  BY <1>12 DEF Gapless
<1> QED  BY <1>1, <1>10, <1>11, <1>12

(* The parser keeps what is known of a story's requirements. *)
LEMMA ParsedCovers ==
    ASSUME NEW backlog, IsPayload(backlog), NEW i
    PROVE  /\ CoveredRequirements(Parse(backlog, i).stories)
                = CoveredRequirements(backlog.stories) \cap RequirementIds(i)
           /\ IdsIn(Parse(backlog, i).epics) = IdsIn(backlog.epics)
<1>1. \A s \in backlog.stories : ParsedStory(s, i).reqs = s.reqs \cap RequirementIds(i)
  <2> SUFFICES ASSUME NEW s, IsStory(s) PROVE ParsedStory(s, i).reqs = s.reqs \cap RequirementIds(i)
    BY DEF IsPayload
  <2> QED  BY DEF IsStory, ParsedStory, Ground
<1>2. \A e \in backlog.epics : ParsedEpic(e, i).id = e.id
  <2> SUFFICES ASSUME NEW e, IsEpic(e) PROVE ParsedEpic(e, i).id = e.id
    BY DEF IsPayload
  <2> QED  BY DEF IsEpic, ParsedEpic
<1>3. /\ Parse(backlog, i).stories = {ParsedStory(s, i) : s \in backlog.stories}
      /\ Parse(backlog, i).epics = {ParsedEpic(e, i) : e \in backlog.epics}
  BY DEF Parse
<1>4. CoveredRequirements(Parse(backlog, i).stories)
        = CoveredRequirements(backlog.stories) \cap RequirementIds(i)
  BY <1>1, <1>3 DEF CoveredRequirements
<1>5. IdsIn(Parse(backlog, i).epics) = IdsIn(backlog.epics)
  BY <1>2, <1>3 DEF IdsIn
<1> QED  BY <1>4, <1>5

(* What is saved misses only what was asked for in vain. *)
LEMMA SaveExplores ==
    ASSUME Typing, Drafts, Gapless, Save
    PROVE  Explored(session)'
<1>1. /\ pc = "save" /\ UNCHANGED session
      /\ latest' = [run |-> runs, input |-> input, rounds |-> round, used |-> used,
                    backlog |-> Parse(draft, input)]
  BY DEF Save
<1>2. /\ IsPayload(draft) /\ Settled(session, used) /\ draft.stories = DraftedBy(session, used)
  BY <1>1 DEF Drafts, Drawn
<1> SUFFICES ASSUME ByRounds(used), NEW r \in RequirementIds(input) \ CoveredRequirements(Parse(draft, input).stories)
             PROVE  /\ round = MaxTopUps \/ round >= NoProgressLimit
                    /\ \A n \in 1..round :
                          \/ n = 1 /\ Taken
                          \/ \E u \in session.units :
                                /\ u.prompt \in used /\ u.prompt.type = "stories"
                                /\ u.prompt.round = n /\ r \in u.prompt.reqs
                                /\ u.prompt.epic \in {e.id : e \in Parse(draft, input).epics}
                                /\ r \notin CoveredRequirements(u.payload.stories)
                    /\ round < MaxTopUps =>
                          \A u \in session.units :
                              /\ u.prompt \in used /\ u.prompt.type = "stories"
                              /\ u.prompt.round + NoProgressLimit > round
                              => u.prompt.reqs \cap CoveredRequirements(u.payload.stories) = {}
  BY <1>1 DEF Explored, InRounds, ByRounds, Taken
<1>3. r \in Gaps(draft.stories)
  BY <1>2, ParsedCovers DEF Gaps
<1>4. /\ UpTo(round) /\ AllAsked(round) /\ Dry(session, used, round + 1, streak) /\ streak <= round
      /\ round = MaxTopUps \/ streak = NoProgressLimit
  BY <1>1, <1>3 DEF Gapless
<1>5. round \in Nat /\ streak \in Nat /\ MaxTopUps \in Nat /\ NoProgressLimit \in Nat
  BY Numbers
<1>6. round = MaxTopUps \/ round >= NoProgressLimit
  BY <1>4, <1>5
<1>7. ASSUME NEW n \in 1..round, ~(n = 1 /\ Taken)
      PROVE  \E u \in session.units :
                /\ u.prompt \in used /\ u.prompt.type = "stories"
                /\ u.prompt.round = n /\ r \in u.prompt.reqs
                /\ u.prompt.epic \in {e.id : e \in Parse(draft, input).epics}
                /\ r \notin CoveredRequirements(u.payload.stories)
  <2>1. PICK p \in used : /\ p.type = "stories" /\ p.round = n /\ r \in p.reqs
                          /\ p.epic \in IdsIn(draft.epics)
    BY <1>3, <1>4, <1>7 DEF AllAsked, AskedFor
  <2>2. PICK u \in session.units : u.prompt = p
    BY <1>2, <2>1 DEF Settled
  <2>3. u.payload.stories \subseteq draft.stories
    BY <1>2, <2>1, <2>2 DEF DraftedBy, UnitsFor
  <2>4. r \notin CoveredRequirements(u.payload.stories)
    BY <1>3, <2>3 DEF Gaps, CoveredRequirements
  <2>5. p.epic \in {e.id : e \in Parse(draft, input).epics}
    BY <1>2, <2>1, ParsedCovers DEF IdsIn
  <2> QED  BY <2>1, <2>2, <2>4, <2>5
<1>8. ASSUME round < MaxTopUps, NEW u \in session.units,
             u.prompt \in used, u.prompt.type = "stories", u.prompt.round + NoProgressLimit > round
      PROVE  u.prompt.reqs \cap CoveredRequirements(u.payload.stories) = {}
  <2>1. u.prompt.round \in Nat /\ u.prompt.round <= round
    BY <1>4, <1>8 DEF UpTo
  <2>2. u.prompt.round < round + 1 /\ u.prompt.round + streak >= round + 1
    BY <1>4, <1>5, <1>8, <2>1
  <2> QED  BY <1>4, <1>8, <2>2 DEF Dry
<1> QED  BY <1>6, <1>7, <1>8

LEMMA StepGaps ==
    ASSUME IInv, Typing, Drafts, Rounds, Gapless, [Next]_vars, Typing'
    PROVE  Gapless'
<1>1. CASE \E i \in Inputs, s \in Settings : Begin(i, s)
  BY <1>1 DEF Begin, Gapless
<1>2. CASE Deterministic
  <2>1. /\ pc = "begun" /\ pc' \in {"save", "not ok", "route"}
        /\ pc' = "save" => used' = {WholePrompt("deterministic")}
    BY <1>2 DEF Deterministic
  <2>2. pc' = "save" => ~ByRounds(used')
    BY <2>1 DEF ByRounds, WholePrompt
  <2> QED  BY <2>1, <2>2 DEF Gapless
<1>3. CASE Route
  BY <1>3, RouteGaps
<1>4. CASE \E answer \in WholeAnswers : AnswerWhole(answer)
  BY <1>4, AnswerWholeGaps
<1>5. CASE StartRound
  BY <1>5, StartRoundGaps
<1>6. CASE \E u \in asked : \/ Enter(u) \/ Fail(u)
                            \/ \E stories \in StoryAnswers[u.prompt.epic] : Answer(u, stories)
  BY <1>6, UnitGaps
<1>7. CASE EndRound
  BY <1>7, EndRoundGaps
<1>8. CASE FailWhole \/ Save \/ Commit \/ Refuse \/ Raise \/ Restart
  BY <1>8 DEF FailWhole, Save, Commit, Refuse, Raise, Restart, Gapless
<1>9. CASE UNCHANGED vars
  <2>1. UNCHANGED <<pc, round, streak, input, draft, asked, used, session>>
    BY <1>9 DEF vars
  <2>2. BeforeRound' = BeforeRound /\ Taken' = Taken
    BY <2>1 DEF BeforeRound, Dry, Taken, CatchAllTaken
  <2>3. Gaps(draft.stories)' = Gaps(draft.stories)
    BY <2>1 DEF Gaps
  <2>4. /\ Adopted(round)' = Adopted(round) /\ Adopted(round - 1)' = Adopted(round - 1)
        /\ AllAsked(round)' = AllAsked(round) /\ AllAsked(round - 1)' = AllAsked(round - 1)
    BY <2>1, <2>2, <2>3 DEF Adopted, AllAsked, AskedFor
  <2> QED  BY <2>1, <2>2, <2>3, <2>4 DEF Gapless, UpTo, Dry
<1> QED  BY <1>1, <1>2, <1>3, <1>4, <1>5, <1>6, <1>7, <1>8, <1>9 DEF Next, Work

LEMMA StepRemembered ==
    ASSUME IInv, Typing, Drafts, Gapless, Remembered, [Next]_vars
    PROVE  Remembered'
<1>1. ASSUME UNCHANGED <<saved, latest>>, pc' # "commit" PROVE Remembered'
  <2>1. Landed' = Landed /\ Explored(saved)' = Explored(saved)
    BY <1>1 DEF Landed, Explored, InRounds, CatchAllTaken
  <2> QED  BY <1>1, <2>1 DEF Remembered
<1>2. CASE \E i \in Inputs, s \in Settings : Begin(i, s)
  BY <1>1, <1>2 DEF Begin
<1>3. CASE \/ Deterministic \/ Route \/ FailWhole \/ StartRound \/ EndRound
           \/ \E answer \in WholeAnswers : AnswerWhole(answer)
           \/ \E u \in asked : \/ Enter(u) \/ Fail(u)
                               \/ \E stories \in StoryAnswers[u.prompt.epic] : Answer(u, stories)
  BY <1>1, <1>3, ActionsDraft DEF Drafting
<1>4. CASE Save
  <2>1. pc = "save" /\ latest'.run = runs /\ UNCHANGED <<runs, saved>>
    BY <1>4 DEF Save
  <2>2. ~Landed'
    BY <2>1 DEF Landed, Drafts, Kept
  <2>3. Explored(session)'
    BY <1>4, SaveExplores
  <2> QED  BY <2>2, <2>3 DEF Remembered
<1>5. CASE Commit
  <2>1. pc = "commit" /\ pc' = "idle" /\ saved' = session /\ UNCHANGED <<session, latest>>
    BY <1>5 DEF Commit
  <2>2. Explored(saved)'
    BY <2>1 DEF Remembered, Explored, InRounds, CatchAllTaken
  <2> QED  BY <2>1, <2>2 DEF Remembered
<1>6. CASE Refuse \/ Raise \/ Restart
  BY <1>1, <1>6 DEF Refuse, Raise, Restart
<1>7. CASE UNCHANGED vars
  <2>1. UNCHANGED <<pc, session, saved, latest>>
    BY <1>7 DEF vars
  <2> QED  BY <2>1 DEF Remembered, Landed, Explored, InRounds, CatchAllTaken
<1> QED  BY <1>2, <1>3, <1>4, <1>5, <1>6, <1>7 DEF Next, Work

LEMMA GapsInvariance == Spec => [](IInv /\ Typing /\ Drafts /\ Rounds /\ Gapless /\ Remembered)
<1>1. Init => Gapless /\ Remembered
  BY DEF Init, Gapless, Remembered, Landed, NoBacklog
<1>2. (IInv /\ Typing /\ Drafts /\ Rounds) /\ (IInv /\ Typing)' /\ (Gapless /\ Remembered) /\ [Next]_vars
      => (Gapless /\ Remembered)'
  BY StepGaps, StepRemembered
<1> QED  BY <1>1, <1>2, DraftsInvariance, PTL DEF Spec
----------------------------------------------------------------------------
(* Without a model.  What a deterministic prompt shows of an input decides *)
(* what every requirement is known to be evidenced by.                     *)
Shown(i) ==
    [type |-> "deterministic", round |-> 0, epic |-> None, reqs |-> RequirementIds(i),
     sections |-> i.cites, refs |-> BrdRelevant(i)]

(* When the backlog made without a model is ready. *)
Evidenced(i) ==
    /\ \A r \in RequirementIds(i) : Cited(i, {r}) # {}
    /\ 100 * Cardinality(Cited(i, RequirementIds(i)) \cap i.logic)
          >= i.min * Cardinality(i.logic)

LEMMA SameEvidence ==
    ASSUME NEW i, NEW j, Shown(i) = Shown(j)
    PROVE  /\ RequirementIds(i) = RequirementIds(j)
           /\ \A R \in SUBSET RequirementIds(i) : Cited(i, R) = Cited(j, R)
<1>1. RequirementIds(i) = RequirementIds(j) /\ i.cites = j.cites /\ BrdRelevant(i) = BrdRelevant(j)
  BY DEF Shown
<1> DEFINE all(R) == UNION {i.cites[r] : r \in R}
           whole == RequirementIds(i)
<1>2. \A R : Cited(i, R) = all(R) \cap i.known /\ Cited(j, R) = all(R) \cap j.known
  BY <1>1 DEF Cited, Ground
<1>3. \A R \in SUBSET whole : all(R) \subseteq all(whole)
  OBVIOUS
<1>4. /\ BrdRelevant(i) = IF Cited(i, whole) = {} THEN i.known ELSE Cited(i, whole)
      /\ BrdRelevant(j) = IF Cited(j, whole) = {} THEN j.known ELSE Cited(j, whole)
  BY <1>1 DEF BrdRelevant
<1> HIDE DEF all, whole
<1>5. \A x \in all(whole) : x \in i.known <=> x \in j.known
  BY <1>1, <1>2, <1>4
<1>6. \A R \in SUBSET whole : Cited(i, R) = Cited(j, R)
  BY <1>2, <1>3, <1>5
<1> QED  BY <1>1, <1>6 DEF whole

(* The n-th story of a slug is numbered n: no two stories share an id. *)
LEMMA StoryIdsDiffer ==
    ASSUME NEW i \in Inputs, NEW m \in DOMAIN i.reqs, NEW n \in DOMAIN i.reqs,
           StoryId(i, m) = StoryId(i, n)
    PROVE  m = n
<1>1. DOMAIN i.reqs \subseteq Nat
  BY BacklogAssumption DEF BacklogAssumption
<1> DEFINE slug(k) == IdPart[i.reqs[k]]
           same(k) == {l \in 1..k : slug(l) = slug(k)}
<1>2. slug(m) = slug(n) /\ Cardinality(same(m)) = Cardinality(same(n))
  BY DEF StoryId
<1>3. ASSUME NEW k \in Nat, NEW l \in Nat, k < l, k # 0, slug(k) = slug(l),
             Cardinality(same(k)) = Cardinality(same(l))
      PROVE  FALSE
  <2>1. IsFiniteSet(1..l)
    BY FS_Interval
  <2>2. IsFiniteSet(same(l))
    BY <2>1, FS_Subset
  <2>3. same(k) \subseteq same(l)
    BY <1>3
  <2>4. same(k) = same(l)
    <3> HIDE DEF same
    <3> QED  BY <1>3, <2>2, <2>3, FS_Subset
  <2>5. l \in same(l) /\ l \notin same(k)
    BY <1>3
  <2> QED  BY <2>4, <2>5
<1>4. m # 0 /\ n # 0 /\ m \in Nat /\ n \in Nat
  BY <1>1, BacklogAssumption DEF BacklogAssumption
<1> HIDE DEF slug, same
<1>5. ~(m < n) /\ ~(n < m)
  BY <1>2, <1>3, <1>4
<1> QED  BY <1>4, <1>5

(* The n-th story drawn from the input j as it is read back for i. *)
ReadStory(i, j, n) ==
    [unit |-> "deterministic", id |-> StoryId(j, n), epic |-> IdPart[j.title[j.reqs[n]]],
     reqs |-> {j.reqs[n]}, refs |-> Cited(i, {j.reqs[n]}), acs |-> {Cited(i, {j.reqs[n]})}]

(* Where no two stories share an id, the evidence is that of all.          *)
LEMMA EvidenceOfAll ==
    ASSUME NEW stories, \A s, t \in stories : s.id = t.id => s = t
    PROVE  Evidence(stories) = {s.refs : s \in stories}
<1>1. ASSUME NEW s \in stories PROVE (CHOOSE t \in stories : t.id = s.id) = s
  OBVIOUS
<1>2. ASSUME NEW x \in Evidence(stories) PROVE \E s \in stories : x = s.refs
  <2>1. PICK id \in {s.id : s \in stories} : x = (CHOOSE s \in stories : s.id = id).refs
    BY <1>2 DEF Evidence
  <2>2. PICK s \in stories : id = s.id
    BY <2>1
  <2> QED  BY <1>1, <2>1, <2>2
<1>3. ASSUME NEW s \in stories PROVE s.refs \in Evidence(stories)
  <2>1. s.refs = (CHOOSE t \in stories : t.id = s.id).refs
    BY <1>1
  <2> QED  BY <2>1 DEF Evidence
<1> QED  BY <1>2, <1>3

(* Parsed for an input that shows the same, the backlog made without a     *)
(* model is ready exactly if every requirement is evidenced and the whole  *)
(* covers enough of the logic.                                             *)
LEMMA DeterministicReady ==
    ASSUME NEW i \in Inputs, NEW j \in Inputs, Shown(i) = Shown(j)
    PROVE  Ready(Parse(DeterministicBacklog(j), i), i) <=> Evidenced(i)
<1> DEFINE backlog == Parse(DeterministicBacklog(j), i)
           ids == {StoryId(j, n) : n \in DOMAIN j.reqs}
<1>1. /\ RequirementIds(i) = RequirementIds(j)
      /\ \A R \in SUBSET RequirementIds(i) : Cited(i, R) = Cited(j, R)
  BY SameEvidence
<1>2. \A n \in DOMAIN j.reqs : j.reqs[n] \in RequirementIds(j)
  BY DEF RequirementIds
<1>3. \A R : Cited(i, R) \subseteq i.known
  BY DEF Cited, Ground
<1>4. ASSUME NEW n \in DOMAIN j.reqs
      PROVE  ParsedStory(DeterministicStory(j, n), i) = ReadStory(i, j, n)
  <2> DEFINE r == j.reqs[n]
             refs == Ground(j.cites[r], j.known)
             s == [unit |-> "deterministic", id |-> StoryId(j, n), epic |-> IdPart[j.title[r]],
                   reqs |-> {r}, refs |-> refs, acs |-> {refs}]
  <2>1. DeterministicStory(j, n) = s
    BY DEF DeterministicStory
  <2>2. refs = Cited(j, {r})
    BY DEF Cited
  <2>3. refs = Cited(i, {r}) /\ r \in RequirementIds(i)
    BY <1>1, <1>2, <2>2
  <2>4. ParsedStory(s, i) =
          [unit |-> "deterministic", id |-> StoryId(j, n), epic |-> IdPart[j.title[r]],
           reqs |-> Ground({r}, RequirementIds(i)), refs |-> Ground(refs, i.known),
           acs |-> {Ground(x, i.known) : x \in {refs}}]
    <3> HIDE DEF refs
    <3> QED  BY DEF ParsedStory
  <2> HIDE DEF refs
  <2>5. /\ Ground({r}, RequirementIds(i)) = {r} /\ Ground(refs, i.known) = refs
        /\ {Ground(x, i.known) : x \in {refs}} = {refs}
    BY <1>3, <2>3 DEF Ground
  <2> QED  BY <2>1, <2>3, <2>4, <2>5 DEF ReadStory
<1>5. backlog.stories = {ParsedStory(DeterministicStory(j, n), i) : n \in DOMAIN j.reqs}
  BY DEF Parse, DeterministicBacklog
<1>6. ASSUME NEW title
      PROVE  LET e == ParsedEpic(DeterministicEpic(j, title), i)
             IN  /\ e.id = IdPart[title] /\ e.stories \subseteq ids /\ e.refs \subseteq i.known
  <2> DEFINE own == {n \in DOMAIN j.reqs : j.title[j.reqs[n]] = title}
             e == [id |-> IdPart[title], reqs |-> {j.reqs[n] : n \in own},
                   stories |-> {StoryId(j, n) : n \in own}, refs |-> Cited(j, {j.reqs[n] : n \in own})]
  <2>1. DeterministicEpic(j, title) = e
    BY DEF DeterministicEpic
  <2>2. e.id = IdPart[title] /\ e.stories \subseteq ids
    OBVIOUS
  <2>3. IsEpic(e)
    BY DEF IsEpic
  <2> HIDE DEF e
  <2>4. /\ ParsedEpic(e, i).id = e.id /\ ParsedEpic(e, i).stories = e.stories
        /\ ParsedEpic(e, i).refs \subseteq i.known
    BY <2>3 DEF ParsedEpic, IsEpic, Ground
  <2> QED  BY <2>1, <2>2, <2>4
<1>7. backlog.epics = {ParsedEpic(DeterministicEpic(j, j.title[r]), i) : r \in RequirementIds(j)}
  BY DEF Parse, DeterministicBacklog
<1>8. \A n \in DOMAIN j.reqs :
        /\ ReadStory(i, j, n).id = StoryId(j, n) /\ ReadStory(i, j, n).epic = IdPart[j.title[j.reqs[n]]]
        /\ ReadStory(i, j, n).reqs = {j.reqs[n]} /\ ReadStory(i, j, n).refs = Cited(i, {j.reqs[n]})
        /\ ReadStory(i, j, n).acs = {Cited(i, {j.reqs[n]})}
  BY DEF ReadStory
<1>9. backlog.stories = {ReadStory(i, j, n) : n \in DOMAIN j.reqs}
  <2> HIDE DEF backlog
  <2> QED  BY <1>4, <1>5
<1> HIDE DEF backlog
<1>10. /\ \A s \in backlog.stories : \E n \in DOMAIN j.reqs : s = ReadStory(i, j, n)
       /\ \A n \in DOMAIN j.reqs : ReadStory(i, j, n) \in backlog.stories
  BY <1>9
<1>11. /\ \A s \in backlog.stories : \E n \in DOMAIN j.reqs :
             s.reqs = {j.reqs[n]} /\ s.refs = Cited(i, {j.reqs[n]})
       /\ \A n \in DOMAIN j.reqs : \E s \in backlog.stories :
             s.reqs = {j.reqs[n]} /\ s.refs = Cited(i, {j.reqs[n]})
  <2>1. \A n \in DOMAIN j.reqs :
          ReadStory(i, j, n).reqs = {j.reqs[n]} /\ ReadStory(i, j, n).refs = Cited(i, {j.reqs[n]})
    BY <1>8
  <2> QED  BY <1>10, <2>1
<1>12. {s.id : s \in backlog.stories} = ids
  <2>1. \A n \in DOMAIN j.reqs : ReadStory(i, j, n).id = StoryId(j, n)
    BY <1>8
  <2>2. \A s \in backlog.stories : s.id \in ids
    BY <1>10, <2>1
  <2>3. \A x \in ids : \E s \in backlog.stories : x = s.id
    BY <1>10, <2>1
  <2> QED  BY <2>2, <2>3
<1>13. CoveredRequirements(backlog.stories) = RequirementIds(i)
  <2>1. ASSUME NEW r \in CoveredRequirements(backlog.stories) PROVE r \in RequirementIds(j)
    <3>1. PICK s \in backlog.stories : r \in s.reqs
      BY <2>1 DEF CoveredRequirements
    <3>2. PICK n \in DOMAIN j.reqs : s.reqs = {j.reqs[n]}
      BY <1>11
    <3>3. r = j.reqs[n]
      BY <3>1, <3>2
    <3> QED  BY <3>3 DEF RequirementIds
  <2>2. ASSUME NEW r \in RequirementIds(j) PROVE r \in CoveredRequirements(backlog.stories)
    <3>1. PICK n \in DOMAIN j.reqs : r = j.reqs[n]
      BY <2>2 DEF RequirementIds
    <3>2. PICK s \in backlog.stories : s.reqs = {j.reqs[n]}
      BY <1>11
    <3> QED  BY <3>1, <3>2 DEF CoveredRequirements
  <2> QED  BY <1>1, <2>1, <2>2
<1>15. \A s, t \in backlog.stories : s.id = t.id => s = t
  <2> SUFFICES ASSUME NEW m \in DOMAIN j.reqs, NEW n \in DOMAIN j.reqs,
                      ReadStory(i, j, m).id = ReadStory(i, j, n).id
               PROVE  ReadStory(i, j, m) = ReadStory(i, j, n)
    BY <1>10
  <2>1. StoryId(j, m) = StoryId(j, n)
    BY <1>8
  <2> QED  BY <2>1, StoryIdsDiffer
<1>14. CoverageOk(backlog, i) <=> 100 * Cardinality(Cited(i, RequirementIds(i)) \cap i.logic)
                                    >= i.min * Cardinality(i.logic)
  <2>1. UNION {s.refs : s \in backlog.stories} = UNION {Cited(i, {j.reqs[n]}) : n \in DOMAIN j.reqs}
    <3> DEFINE cited(n) == Cited(i, {j.reqs[n]})
    <3>1. /\ \A s \in backlog.stories : \E n \in DOMAIN j.reqs : s.refs = cited(n)
          /\ \A n \in DOMAIN j.reqs : \E s \in backlog.stories : s.refs = cited(n)
      BY <1>11
    <3>2. {s.refs : s \in backlog.stories} = {cited(n) : n \in DOMAIN j.reqs}
      BY <3>1, Zenon
    <3> QED  BY <3>2, Zenon
  <2>2. @ = UNION {Cited(i, {r}) : r \in RequirementIds(i)}
    BY <1>1 DEF RequirementIds
  <2>3. @ = Cited(i, RequirementIds(i))
    BY DEF Cited, Ground
  <2>7. Evidence(backlog.stories) = {s.refs : s \in backlog.stories}
    BY <1>15, EvidenceOfAll
  <2>4. UNION Evidence(backlog.stories) = Cited(i, RequirementIds(i))
    BY <2>1, <2>2, <2>3, <2>7
  <2> DEFINE covered == (UNION Evidence(backlog.stories)) \cap i.logic
  <2>5. covered = Cited(i, RequirementIds(i)) \cap i.logic
    BY <2>4
  <2>6. CoverageOk(backlog, i) = (100 * Cardinality(covered) >= i.min * Cardinality(i.logic))
    BY DEF CoverageOk
  <2> HIDE DEF covered
  <2> QED  BY <2>5, <2>6
<1>16. \A s \in backlog.stories :
         /\ s.epic \in {e.id : e \in backlog.epics} /\ s.reqs # {}
         /\ s.refs \subseteq i.known /\ s.acs = {s.refs}
  <2> SUFFICES ASSUME NEW n \in DOMAIN j.reqs
               PROVE  LET s == ReadStory(i, j, n)
                      IN  /\ s.epic \in {e.id : e \in backlog.epics} /\ s.reqs # {}
                          /\ s.refs \subseteq i.known /\ s.acs = {s.refs}
    BY <1>10
  <2> DEFINE e == ParsedEpic(DeterministicEpic(j, j.title[j.reqs[n]]), i)
  <2>1. e \in backlog.epics
    BY <1>2, <1>7
  <2>2. e.id = IdPart[j.title[j.reqs[n]]]
    BY <1>6
  <2> HIDE DEF e
  <2> DEFINE s == ReadStory(i, j, n)
  <2>3. /\ s.epic = IdPart[j.title[j.reqs[n]]] /\ s.reqs = {j.reqs[n]}
        /\ s.refs = Cited(i, {j.reqs[n]}) /\ s.acs = {Cited(i, {j.reqs[n]})}
    BY DEF ReadStory
  <2>4. s.epic \in {f.id : f \in backlog.epics}
    BY <2>1, <2>2, <2>3
  <2>5. s.refs \subseteq i.known
    BY <1>3, <2>3
  <2> HIDE DEF s
  <2>6. s.reqs # {} /\ s.acs = {s.refs}
    BY <2>3
  <2> QED  BY <2>4, <2>5, <2>6 DEF s
<1>17. \A e \in backlog.epics : e.stories \subseteq ids /\ e.refs \subseteq i.known
  BY <1>6, <1>7
<1>18. (\A s \in backlog.stories : s.refs # {}) <=> \A r \in RequirementIds(i) : Cited(i, {r}) # {}
  <2>1. (\A s \in backlog.stories : s.refs # {}) <=> \A n \in DOMAIN j.reqs : Cited(i, {j.reqs[n]}) # {}
    BY <1>11
  <2> QED  BY <1>1, <2>1 DEF RequirementIds
<1> HIDE DEF ids
<1>19. Ready(backlog, i) <=>
         /\ CoverageOk(backlog, i)
         /\ \A s \in backlog.stories : s.refs # {}
  BY <1>12, <1>13, <1>15, <1>16, <1>17 DEF Ready
<1> QED  BY <1>14, <1>18, <1>19 DEF Evidenced, backlog

(* A unit that succeeded without a model has the backlog of an input that  *)
(* shows what its prompt shows.                                            *)
DrawnUnits(l) ==
    \A u \in l.units : u.prompt.type = "deterministic" /\ u.status = "succeeded" =>
        \E j \in Inputs : u.prompt = Shown(j) /\ u.payload = DeterministicBacklog(j)

Asked(prompts) == \E p \in prompts : p.type = "deterministic"

(* The backlog is the one drawn from an input that shows the same as i. *)
DrawnAs(backlog, i) ==
    i \in Inputs /\ \E j \in Inputs : Shown(i) = Shown(j) /\ backlog = Parse(DeterministicBacklog(j), i)

(* Where the draft, the version on top and its verdict came from. *)
Sources ==
    /\ DrawnUnits(session) /\ DrawnUnits(saved)
    /\ pc # "idle" => input \in Inputs
    /\ pc \in {"begun", "route"} => used = {}
    /\ Asked(used) /\ pc = "save" =>
          \E j \in Inputs : Shown(input) = Shown(j) /\ draft = DeterministicBacklog(j)
    /\ pc \in {"whole", "round", "units"} => ~Asked(used)
    /\ pc = "commit" => latest.input = input
    /\ Asked(latest.used) => DrawnAs(latest.backlog, latest.input)
    /\ Landed /\ latest.run # 0 =>
          gates["backlog_readiness"].verdict = Ready(latest.backlog, latest.input)

LEMMA InitSources == Init => Sources
BY DEF Init, Sources, DrawnUnits, Asked, Landed, NoBacklog

LEMMA MarkedDrawn ==
    ASSUME IInv, Drafts, DrawnUnits(session), NEW prompts, NEW status, NEW payload,
           session' = Marked(prompts, status, payload),
           \A p \in prompts : PayloadFor(p.type, status, payload),
           \A p \in prompts : p.type = "deterministic" /\ status = "succeeded" =>
               \E j \in Inputs : p = Shown(j) /\ payload = DeterministicBacklog(j)
    PROVE  DrawnUnits(session')
<1>1. session' = Marked(prompts, status, payload) /\ IsLedger(session) /\ UnitsOk(session)
  BY DEF IInv, Transaction, Drafts
<1>2. \A u \in session'.units : \/ u \in session.units /\ u.prompt \notin prompts
                                \/ u.prompt \in prompts /\ u.status = status /\ u.payload = payload
  BY <1>1, MarkedUnits
<1> QED  BY <1>2 DEF DrawnUnits

(* What is not this job's stays. *)
LEMMA SourcesSteady ==
    ASSUME Sources, UNCHANGED <<saved, gates, latest>>
    PROVE  /\ DrawnUnits(saved') /\ (Asked(latest.used) => DrawnAs(latest.backlog, latest.input))'
           /\ (Landed /\ latest.run # 0 =>
                 gates["backlog_readiness"].verdict = Ready(latest.backlog, latest.input))'
BY DEF Sources, DrawnUnits, Landed

LEMMA DeterministicSources ==
    ASSUME IInv, Drafts, Sources, Deterministic
    PROVE  Sources'
<1> DEFINE prompt == WholePrompt("deterministic")
           fresh  == DeterministicBacklog(input)
<1>1. /\ pc = "begun" /\ pc' \in {"save", "not ok", "route"} /\ input \in Inputs /\ used = {}
      /\ UNCHANGED <<input, saved, gates, latest>>
      /\ UnitsOk(session) /\ DrawnUnits(session)
  BY DEF Deterministic, Sources, Drafts
<1>2. prompt = Shown(input) /\ prompt.type = "deterministic"
  BY DEF WholePrompt, Shown
<1>3. \/ /\ Cached(prompt) /\ draft' = PayloadOf(prompt) /\ used' = {prompt}
         /\ pc' = "save" /\ session' = session
      \/ /\ draft' = fresh /\ used' = {prompt} /\ pc' = "save"
         /\ session' = Marked({prompt}, "succeeded", fresh)
      \/ pc' # "save" /\ used' = used /\ session' = Marked({prompt}, "failed", NoDraft)
      \/ pc' # "save" /\ UNCHANGED <<used, session>>
  BY DEF Deterministic
<1>4. PayloadFor(prompt.type, "succeeded", fresh) /\ PayloadFor(prompt.type, "failed", NoDraft)
  BY <1>2, DeterministicPayload, EmptyPayload DEF PayloadFor
<1> HIDE DEF prompt, fresh
<1>5. DrawnUnits(session')
  <2>1. CASE session' = session
    BY <1>1, <2>1
  <2>2. CASE session' = Marked({prompt}, "succeeded", fresh)
    <3>1. fresh = DeterministicBacklog(input)
      BY DEF fresh
    <3>2. \E j \in Inputs : prompt = Shown(j) /\ fresh = DeterministicBacklog(j)
      BY <1>1, <1>2, <3>1
    <3>3. \A p \in {prompt} : p.type = "deterministic" /\ "succeeded" = "succeeded" =>
            \E j \in Inputs : p = Shown(j) /\ fresh = DeterministicBacklog(j)
      BY <3>2
    <3>4. DrawnUnits(session) /\ session' = Marked({prompt}, "succeeded", fresh)
      BY <1>1, <2>2
    <3>5. \A p \in {prompt} : PayloadFor(p.type, "succeeded", fresh)
      BY <1>4
    <3> QED  BY <3>3, <3>4, <3>5, MarkedDrawn
  <2>3. CASE session' = Marked({prompt}, "failed", NoDraft)
    <3>1. DrawnUnits(session) /\ \A p \in {prompt} : PayloadFor(p.type, "failed", NoDraft)
      BY <1>1, <1>4
    <3> QED  BY <2>3, <3>1, MarkedDrawn
  <2> QED  BY <1>3, <2>1, <2>2, <2>3
<1>6. pc' = "save" => \E j \in Inputs : Shown(input) = Shown(j) /\ draft' = DeterministicBacklog(j)
  <2>1. CASE draft' = fresh
    BY <1>1, <2>1 DEF fresh
  <2>2. CASE Cached(prompt) /\ draft' = PayloadOf(prompt)
    <3>1. PICK u \in session.units : /\ u.prompt = prompt /\ u.status = "succeeded"
                                     /\ u.payload = PayloadOf(prompt)
      BY <1>1, <2>2, PayloadIsDrafted
    <3>2. PICK j \in Inputs : u.prompt = Shown(j) /\ u.payload = DeterministicBacklog(j)
      BY <1>1, <1>2, <3>1 DEF DrawnUnits
    <3> QED  BY <1>2, <2>2, <3>1, <3>2
  <2> QED  BY <1>3, <2>1, <2>2
<1>7. pc' = "route" => used' = {}
  BY <1>1, <1>3
<1> QED  BY <1>1, <1>5, <1>6, <1>7, SourcesSteady DEF Sources

(* The prompts a model answers are of another type, and so are their       *)
(* units.                                                                  *)
LEMMA ModelSources ==
    ASSUME IInv, Typing, Drafts, Rounds, Sources,
           \/ Route \/ FailWhole \/ StartRound \/ EndRound
           \/ \E answer \in WholeAnswers : AnswerWhole(answer)
           \/ \E u \in asked : \/ Enter(u) \/ Fail(u)
                               \/ \E stories \in StoryAnswers[u.prompt.epic] : Answer(u, stories)
    PROVE  Sources'
<1>1. UNCHANGED <<input, saved, gates, latest>> /\ DrawnUnits(session)
  BY Zenon DEF Route, FailWhole, StartRound, EndRound, AnswerWhole, Enter, Fail, Answer, Sources
<1>2. pc # "idle" /\ pc' \notin {"begun", "route", "commit", "idle"} /\ input \in Inputs
  <2>1. pc # "idle" /\ pc' \notin {"begun", "route", "commit", "idle"}
    <3>1. CASE Route
      <4>1. pc = "route" /\ pc' \in {"save", "round", "whole"}
        BY <3>1 DEF Route
      <4> QED  BY <4>1
    <3>2. CASE EndRound
      <4>1. pc = "units" /\ pc' \in {"not ok", "round", "save"}
        BY <3>2 DEF EndRound
      <4> QED  BY <4>1
    <3>3. CASE StartRound
      <4>1. pc = "round" /\ pc' = "units"
        BY <3>3 DEF StartRound
      <4> QED  BY <4>1
    <3> QED  BY <3>1, <3>2, <3>3 DEF FailWhole, AnswerWhole, Enter, Fail, Answer
  <2> QED  BY <2>1 DEF Sources
<1>3. ~Asked(used') /\ DrawnUnits(session')
  <2>1. CASE Route
    <3>1. PICK prompt :
            /\ prompt = WholePrompt(IF Decompose THEN "epics" ELSE "oneshot") /\ used' = {prompt}
            /\ session' = session \/ session' = Marked({prompt}, "running", NoDraft)
      BY <2>1, Zenon DEF Route
    <3>2. prompt.type # "deterministic"
      BY <3>1 DEF WholePrompt
    <3>3. DrawnUnits(session')
      BY <1>1, <3>1, EmptyPayload, MarkedDrawn
    <3> QED  BY <3>1, <3>2, <3>3 DEF Asked
  <2>2. CASE StartRound
    <3>1. pc = "round" /\ IsPayload(draft)
      BY <2>2 DEF StartRound, Rounds
    <3>2. \A p \in RoundPrompts : p.type = "stories"
      BY DEF RoundPrompts, StoriesPrompt
    <3>3. DrawnUnits(session')
      <4> DEFINE prompts == {p \in RoundPrompts : ~Cached(p)}
      <4>1. session' = Marked(prompts, "running", NoDraft)
        BY <2>2, <3>1, RoundStarted
      <4> HIDE DEF prompts
      <4> QED  BY <1>1, <4>1, EmptyPayload, MarkedDrawn
    <3>4. used' = used \cup RoundPrompts
      BY <2>2, <3>1, RoundStarted
    <3> QED  BY <3>1, <3>2, <3>3, <3>4 DEF Asked, Sources
  <2>3. CASE EndRound
    <3>1. pc = "units" /\ UNCHANGED <<used, session>>
      BY <2>3 DEF EndRound
    <3> QED  BY <1>1, <3>1 DEF Sources, Asked
  <2>4. CASE FailWhole \/ \E answer \in WholeAnswers : AnswerWhole(answer)
    <3>1. PICK status, payload :
            /\ pc = "whole" /\ used' = used /\ session' = Marked(used, status, payload)
            /\ (\A p \in used : PayloadFor(p.type, status, payload))
      <4>1. CASE FailWhole
        BY <4>1, EmptyPayload DEF FailWhole
      <4>2. ASSUME NEW answer \in WholeAnswers, AnswerWhole(answer)
            PROVE  /\ pc = "whole" /\ used' = used /\ session' = Marked(used, "succeeded", answer)
                   /\ (\A p \in used : PayloadFor(p.type, "succeeded", answer))
        <5>1. IsPayload(answer) /\ AnsweredEpics(answer.epics)
          BY BacklogAssumption DEF BacklogAssumption, AnsweredEpics, IdsIn
        <5> QED  BY <4>2, <5>1 DEF AnswerWhole, PayloadFor
      <4> QED  BY <2>4, <4>1, <4>2
    <3>2. ~Asked(used)
      BY <3>1 DEF Sources
    <3> QED  BY <1>1, <3>1, <3>2, MarkedDrawn DEF Asked
  <2>5. ASSUME NEW u \in asked, Enter(u) \/ Fail(u)
                                \/ \E stories \in StoryAnswers[u.prompt.epic] : Answer(u, stories)
        PROVE  ~Asked(used') /\ DrawnUnits(session')
    <3>1. pc = "units" /\ used' = used /\ u.prompt.type = "stories"
      BY <2>5 DEF Enter, Fail, Answer, Rounds
    <3>2. \A v \in session'.units : v \in session.units \/ v.prompt.type = "stories"
      BY <2>5, <3>1, UnitMoves
    <3> QED  BY <1>1, <3>1, <3>2 DEF Sources, Asked, DrawnUnits
  <2> QED  BY <2>1, <2>2, <2>3, <2>4, <2>5
<1> QED  BY <1>1, <1>2, <1>3, SourcesSteady DEF Sources

(* The gates are judged from the version that is on top. *)
LEMMA StepSources ==
    ASSUME IInv, Typing, Drafts, Rounds, Sources, [Next]_vars
    PROVE  Sources'
<1>1. ASSUME NEW i \in Inputs, NEW s \in Settings, Begin(i, s) PROVE Sources'
  <2>1. /\ pc = "idle" /\ pc' = "begun" /\ input' = i /\ UNCHANGED <<used, saved, gates, latest>>
        /\ session' = [saved EXCEPT !.runs = @ \cup {runs + 1}]
    BY <1>1 DEF Begin
  <2>2. session' = [runs |-> saved.runs \cup {runs + 1}, units |-> saved.units]
    BY <2>1 DEF IInv, Transaction, IsLedger
  <2>3. DrawnUnits(session') /\ used = {}
    BY <2>1, <2>2 DEF Sources, DrawnUnits, Drafts, Drawn
  <2> QED  BY <2>1, <2>3, SourcesSteady DEF Sources, Asked
<1>2. CASE Deterministic
  BY <1>2, DeterministicSources
<1>3. CASE \/ Route \/ FailWhole \/ StartRound \/ EndRound
           \/ \E answer \in WholeAnswers : AnswerWhole(answer)
           \/ \E u \in asked : \/ Enter(u) \/ Fail(u)
                               \/ \E stories \in StoryAnswers[u.prompt.epic] : Answer(u, stories)
  BY <1>3, ModelSources
<1>4. CASE Save
  <2>1. /\ pc = "save" /\ pc' = "commit" /\ UNCHANGED <<runs, input, used, session, saved, gates>>
        /\ latest' = [run |-> runs, input |-> input, rounds |-> round, used |-> used,
                      backlog |-> Parse(draft, input)]
    BY <1>4 DEF Save
  <2>2. input \in Inputs
    BY <2>1 DEF Sources
  <2>3. Asked(used) => DrawnAs(Parse(draft, input), input)
    BY <2>1, <2>2 DEF Sources, DrawnAs
  <2>4. (Asked(latest.used) => DrawnAs(latest.backlog, latest.input))'
    BY <2>1, <2>3
  <2>5. ~Landed'
    BY <2>1 DEF Landed, Drafts, Kept
  <2> QED  BY <2>1, <2>2, <2>4, <2>5 DEF Sources, DrawnUnits
<1>5. CASE Commit
  <2>1. /\ pc = "commit" /\ pc' = "idle" /\ saved' = session /\ UNCHANGED <<session, latest>>
        /\ gates' = [k \in GateKeys |->
                       Upsert(gates[k], gates[k].status, Verdicts(latest.backlog, input)[k])]
        /\ used' = {}
    BY <1>5, Zenon DEF Commit, Forget
  <2>2. latest.input = input /\ DrawnUnits(session)
    BY <2>1 DEF Sources
  <2>3. "backlog_readiness" \in GateKeys
    BY DEF GateKeys
  <2>4. Verdicts(latest.backlog, input)["backlog_readiness"] = Ready(latest.backlog, input)
    BY <2>3 DEF Verdicts
  <2>5. ASSUME NEW g \in GateRow, NEW passed PROVE Upsert(g, g.status, passed).verdict = passed
    BY DEF Upsert, GateRow
  <2>6. gates["backlog_readiness"] \in GateRow
    BY <2>3 DEF Typing, TypeOK
  <2>7. gates'["backlog_readiness"].verdict = Ready(latest.backlog, latest.input)
    BY <2>1, <2>2, <2>3, <2>4, <2>5, <2>6
  <2>8. (Asked(latest.used) => DrawnAs(latest.backlog, latest.input))'
    BY <2>1 DEF Sources
  <2> QED  BY <2>1, <2>2, <2>7, <2>8 DEF Sources, Asked, DrawnUnits
<1>6. CASE Refuse \/ Raise \/ Restart
  <2>1. pc' = "idle" /\ session' = saved /\ used' = {} /\ UNCHANGED <<saved, gates, latest>>
    BY <1>6 DEF Refuse, Raise, Restart, Forget
  <2>2. DrawnUnits(session')
    BY <2>1 DEF Sources, DrawnUnits
  <2> QED  BY <2>1, <2>2, SourcesSteady DEF Sources, Asked
<1>7. CASE UNCHANGED vars
  <2>1. UNCHANGED <<pc, input, draft, used, session, saved, gates, latest>>
    BY <1>7 DEF vars
  <2>2. DrawnUnits(session')
    BY <2>1 DEF Sources, DrawnUnits
  <2> QED  BY <2>1, <2>2, SourcesSteady DEF Sources, Asked
<1> QED  BY <1>1, <1>2, <1>3, <1>4, <1>5, <1>6, <1>7 DEF Next, Work

(* No requirement of the BRD is lost in silence on the way to a landed     *)
(* backlog: by rounds, what it misses was asked for in vain in every       *)
(* top-up round, of an epic of the backlog, and the rounds went on until   *)
(* their number or the dry ones ran out; without a model, the readiness    *)
(* gate says exactly whether each requirement is evidenced and enough of   *)
(* the logic covered.                                                      *)
THEOREM RequirementsKept == Spec => []RequirementsAreKept
<1>1. Init => Sources
  BY InitSources
<1>2. (IInv /\ Typing /\ Drafts /\ Rounds) /\ Sources /\ [Next]_vars => Sources'
  BY StepSources
<1>3. Remembered => EveryGapWasAsked
  BY DEF Remembered, Explored, EveryGapWasAsked
<1>4. IInv /\ Sources => DeterministicIsReady
  <2> SUFFICES ASSUME IInv, Sources, Landed, ~ByModel
               PROVE  gates["backlog_readiness"].verdict <=> Evidenced(latest.input)
    BY DEF DeterministicIsReady, Evidenced
  <2>1. latest.run # 0
    BY DEF Landed, IInv, Transaction
  <2>2. Asked(latest.used)
    BY DEF ByModel, Asked
  <2>3. PICK j \in Inputs : /\ latest.input \in Inputs /\ Shown(latest.input) = Shown(j)
                            /\ latest.backlog = Parse(DeterministicBacklog(j), latest.input)
    BY <2>2 DEF Sources, DrawnAs
  <2>4. gates["backlog_readiness"].verdict = Ready(latest.backlog, latest.input)
    BY <2>1 DEF Sources
  <2>5. Ready(latest.backlog, latest.input) <=> Evidenced(latest.input)
    BY <2>3, DeterministicReady
  <2> QED  BY <2>4, <2>5
<1>5. IInv /\ Remembered /\ Sources => RequirementsAreKept
  BY <1>3, <1>4 DEF RequirementsAreKept
<1> QED  BY <1>1, <1>2, <1>5, GapsInvariance, PTL DEF Spec
=============================================================================
