------------------------- MODULE DomainStageProofs -------------------------
(***************************************************************************)
(* Proofs about DomainStage for any inputs, contexts, number of runs and   *)
(* width of the semaphore.                                                 *)
(***************************************************************************)
EXTENDS DomainStage, TLAPS

(* The job's transaction: the committed ledger, its own run and more units *)
(* that succeeded; no transaction is open while no job is active.          *)
Transaction ==
    /\ pc = "idle" => session = saved
    /\ saved.runs \subseteq 1..runs
    /\ pc \in Active => /\ session.runs = saved.runs \cup {runs}
                        /\ runs \notin saved.runs /\ runs \in Runs
                        /\ job = "running"
    /\ \A u \in Units : saved.unit[u] = "succeeded" => session.unit[u] = "succeeded"
    /\ \A h \in Heads : saved.unit[h] = "succeeded" => session.found[h] = saved.found[h]

(* The units a context has behind it. *)
Behind(k) ==
    CASE k \in {"queued", "aggregate", "dropped"} -> {}
      [] k = "contract" -> {"aggregate"}
      [] k = "mapping"  -> {"aggregate", "contract"}
      [] OTHER          -> Tactical

(* A context awaits a unit that has not succeeded, and those behind it did. *)
Progress ==
    /\ pc = "head" => pos = Queued /\ busy = {}
    /\ pc = "tactical" => head[1] = "decomposition"
    /\ pc \in Active /\ pc # "head" /\ head[1] = "decomposition" =>
         \A c \in plan : \A k \in Behind(pos[c]) : session.unit[<<k, c>>] = "succeeded"
    /\ pc = "tactical" => \A c \in busy :
         pos[c] \in Tactical /\ session.unit[<<pos[c], c>>] # "succeeded"

(* What was saved last is this run's design, or an earlier run's. *)
SavedDesign ==
    /\ pc \in {"head", "tactical", "save"} => latest.run # runs
    /\ pc \in {"judge", "mark"} =>
         latest = [run |-> runs, contexts |-> plan, designed |-> Designed,
                   llm |-> head[1] = "decomposition"]
    /\ pc = "mark" /\ quality => MayPass(plan, Designed)
    /\ latest.run \in 0..runs

(* The gate's row exists before it is decided or loaded with a status. *)
GateShape ==
    /\ gate.status = "none" => gate.decision = "none"
    /\ pc = "mark" /\ loaded = "none" => gate.status = "none"

(* The inductive invariant. *)
IInv ==
    /\ TypeOK
    /\ Transaction
    /\ Progress
    /\ SavedDesign
    /\ GateShape
    /\ GreenIsWhole
    /\ DesignIsBacked
    /\ StatusSurvives

LEMMA Constants == MaxConcurrency \in Nat \ {0} /\ MaxRuns \in Nat
BY StageAssumption DEF StageAssumption

USE Constants

(* The units of a context are units, and none of them is a head. *)
LEMMA UnitNames ==
    /\ \A h \in Heads : h \in Units
    /\ \A k \in Tactical, c \in Contexts : <<k, c>> \in Units /\ <<k, c>> \notin Heads
BY DEF Units, Heads, Tactical

(* Marking a unit changes the status of that unit and nothing else. *)
LEMMA MarkOne ==
    ASSUME session \in Ledger, NEW u \in Units, NEW status \in UnitStatus
    PROVE  /\ Mark(u, status) \in Ledger
           /\ Mark(u, status).runs = session.runs
           /\ Mark(u, status).found = session.found
           /\ \A v \in Units : Mark(u, status).unit[v] =
                IF v = u THEN status ELSE session.unit[v]
BY DEF Mark, Ledger

(* Answering a head changes its status and its payload. *)
LEMMA AnswerOne ==
    ASSUME session \in Ledger, NEW h \in Heads, NEW found \in SUBSET Contexts
    PROVE  /\ Answered(h, found) \in Ledger
           /\ Answered(h, found).runs = session.runs
           /\ \A v \in Units : Answered(h, found).unit[v] =
                IF v = h THEN "succeeded" ELSE session.unit[v]
           /\ \A g \in Heads : Answered(h, found).found[g] =
                IF g = h THEN found ELSE session.found[g]
BY UnitNames DEF Answered, Ledger, UnitStatus

LEMMA InitInv == Init => IInv
<1> SUFFICES ASSUME Init PROVE IInv
  OBVIOUS
<1>1. TypeOK
  <2>1. saved \in Ledger /\ session \in Ledger
    BY DEF Init, Ledger, UnitStatus
  <2>2. gate \in GateRow /\ latest \in Design
    BY DEF Init, GateRow, NoGate, Design, NoDesign
  <2>3. pos \in [Contexts -> Positions]
    BY DEF Init, Queued, Positions
  <2>4. runs \in 0..MaxRuns
    BY DEF Init
  <2>5. plan \subseteq Contexts /\ busy \subseteq plan
    BY DEF Init
  <2>6. quality \in BOOLEAN
    BY DEF Init
  <2> QED  BY <2>1, <2>2, <2>3, <2>4, <2>5, <2>6 DEF Init, TypeOK
<1>2. Transaction /\ Progress /\ SavedDesign /\ GateShape
  BY <1>1 DEF Init, Transaction, Progress, SavedDesign, GateShape, Active, NoGate, NoDesign,
              Ledger, Units, Heads, TypeOK
<1>3. GreenIsWhole /\ DesignIsBacked /\ StatusSurvives
  BY DEF Init, GreenIsWhole, DesignIsBacked, StatusSurvives, Landed, NoDesign
<1> QED  BY <1>1, <1>2, <1>3 DEF IInv

(* A new job: its transaction starts from the committed ledger. *)
LEMMA BeginInv ==
    ASSUME IInv, NEW h \in Heads, Begin(h) PROVE IInv'
<1> USE DEF IInv
<1>1. runs + 1 \in Runs /\ runs + 1 \notin saved.runs /\ runs \in Nat
  BY DEF Begin, TypeOK, Transaction, Runs
<1>2. /\ session' \in Ledger /\ session'.runs = saved.runs \cup {runs + 1}
      /\ session'.unit = saved.unit /\ session'.found = saved.found
  BY <1>1 DEF Begin, TypeOK, Ledger
<1>3. TypeOK'
  BY <1>1, <1>2 DEF Begin, TypeOK, storeVars, Active, Queued, Positions, Runs
<1>4. Transaction'
  BY <1>1, <1>2 DEF Begin, Transaction, storeVars, Active, Runs
<1>5. Progress' /\ SavedDesign' /\ GateShape'
  BY <1>1 DEF Begin, Progress, SavedDesign, GateShape, storeVars, TypeOK
<1>6. GreenIsWhole' /\ DesignIsBacked' /\ StatusSurvives'
  BY DEF Begin, GreenIsWhole, DesignIsBacked, StatusSurvives, Landed, storeVars
<1> QED  BY <1>3, <1>4, <1>5, <1>6

(* The steps inside the transaction: they leave everything committed as it *)
(* is and only add succeeded units.                                        *)
LEMMA InsideInv ==
    ASSUME IInv, pc \in Active, pc' \in Active,
           UNCHANGED <<runs, head, job, latest, saved, gate, stage>>,
           session' \in Ledger, session'.runs = session.runs,
           \A u \in Units : session.unit[u] = "succeeded" =>
               /\ session'.unit[u] = "succeeded"
               /\ u \in Heads => session'.found[u] = session.found[u]
    PROVE  Transaction' /\ GreenIsWhole' /\ DesignIsBacked' /\ StatusSurvives'
<1> USE DEF IInv
<1>1. pc # "idle" /\ pc' # "idle"
  BY DEF Active
<1>2. Transaction'
  BY <1>1, UnitNames DEF Transaction
<1>3. GreenIsWhole' /\ DesignIsBacked' /\ StatusSurvives'
  BY DEF GreenIsWhole, DesignIsBacked, StatusSurvives, Landed, Persisted
<1> QED  BY <1>2, <1>3

LEMMA AnswerInv ==
    ASSUME IInv, NEW found \in SUBSET Contexts, Answer(found) PROVE IInv'
<1> USE DEF IInv
<1>1. session \in Ledger /\ head \in Heads
  BY DEF TypeOK
<1>2. /\ session' \in Ledger /\ session'.runs = session.runs /\ plan' \in SUBSET Contexts
      /\ \A u \in Units : session.unit[u] = "succeeded" =>
           /\ session'.unit[u] = "succeeded"
           /\ u \in Heads => session'.found[u] = session.found[u]
  <2>1. CASE Cached(head)
    BY <1>1, <2>1 DEF Answer, Ledger
  <2>2. CASE ~Cached(head)
    BY <1>1, <2>2, AnswerOne, UnitNames DEF Answer, Cached
  <2> QED  BY <2>1, <2>2
<1>3. plan' \subseteq Contexts /\ busy' \subseteq plan' /\ pos' \in [Contexts -> Positions]
  <2>1. pc = "head" /\ busy = {} /\ busy' = busy
    BY DEF Answer, Progress
  <2>2. pos' = pos \/ pos' = [c \in Contexts |-> "designed"]
    BY DEF Answer
  <2>3. pos' \in [Contexts -> Positions]
    BY <2>2 DEF TypeOK, Positions
  <2> QED  BY <1>2, <2>1, <2>3
<1>4. pc = "head" /\ pc' \in {"save", "tactical"}
  BY DEF Answer
<1>5. UNCHANGED <<runs, head, job, latest, saved, gate, stage, quality, loaded>>
  BY DEF Answer, jobVars, storeVars
<1>6. TypeOK'
  BY <1>2, <1>3, <1>4, <1>5 DEF TypeOK, Active
<1>7. Progress'
  <2>1. CASE head[1] = "deterministic"
    BY <1>4, <1>5, <2>1 DEF Answer, Progress
  <2>2. CASE head[1] = "decomposition"
    <3>1. pos' = Queued /\ busy' = {} /\ pc' = "tactical"
      BY <2>2, <1>4 DEF Answer, Progress
    <3>2. \A c \in plan' : Behind(pos'[c]) = {}
      BY <3>1, <1>3 DEF Queued, Behind
    <3> QED  BY <3>1, <3>2, <2>2, <1>5 DEF Progress
  <2> QED  BY <2>1, <2>2, <1>1 DEF Heads
<1>8. SavedDesign' /\ GateShape'
  BY <1>4, <1>5 DEF SavedDesign, GateShape
<1>9. Transaction' /\ GreenIsWhole' /\ DesignIsBacked' /\ StatusSurvives'
  BY <1>2, <1>4, <1>5, InsideInv DEF Active
<1> QED  BY <1>6, <1>7, <1>8, <1>9

(* A step of one context in the fan-out: whatever it does, its units stay  *)
(* behind its position and the other contexts are left alone.              *)
LEMMA FanOutInv ==
    ASSUME IInv, pc = "tactical", NEW c \in plan, NEW p \in Positions,
           UNCHANGED <<pc, runs, head, job, latest, saved, gate, stage, quality, loaded, plan>>,
           pos' = [pos EXCEPT ![c] = p],
           busy' \subseteq busy \cup {c},
           c \in busy' => p \in Tactical /\ session'.unit[<<p, c>>] # "succeeded",
           session' \in Ledger, session'.runs = session.runs, session'.found = session.found,
           \A h \in Heads : session'.unit[h] = session.unit[h],
           \A k \in Tactical : session.unit[<<k, c>>] = "succeeded" =>
               session'.unit[<<k, c>>] = "succeeded",
           \A k \in Behind(p) : session'.unit[<<k, c>>] = "succeeded",
           \A d \in Contexts \ {c}, k \in Tactical :
               session'.unit[<<k, d>>] = session.unit[<<k, d>>]
    PROVE  IInv'
<1> USE DEF IInv
<1>1. plan \subseteq Contexts /\ busy' \subseteq plan /\ pos' \in [Contexts -> Positions]
  BY DEF TypeOK
<1>2. /\ pos'[c] = p
      /\ \A d \in plan \ {c} : pos'[d] = pos[d]
  BY <1>1 DEF TypeOK
<1>3. \A u \in Units : session.unit[u] = "succeeded" =>
         /\ session'.unit[u] = "succeeded"
         /\ u \in Heads => session'.found[u] = session.found[u]
  <2> SUFFICES ASSUME NEW u \in Units, session.unit[u] = "succeeded"
               PROVE  session'.unit[u] = "succeeded"
    OBVIOUS
  <2>1. CASE u \in Heads
    BY <2>1
  <2>2. CASE u \in Tactical \X Contexts
    <3>1. PICK k \in Tactical, d \in Contexts : u = <<k, d>>
      BY <2>2
    <3> QED  BY <3>1
  <2> QED  BY <2>1, <2>2 DEF Units
<1>4. TypeOK'
  BY <1>1 DEF TypeOK
<1>5. Progress'
  <2>1. \A d \in Positions : Behind(d) \subseteq Tactical
    BY DEF Behind, Positions, Tactical
  <2>2. \A d \in plan, k \in Tactical :
           k \in Behind(pos'[d]) => session'.unit[<<k, d>>] = "succeeded"
    BY <1>1, <1>2 DEF Progress, Active
  <2>3. \A d \in plan : \A k \in Behind(pos'[d]) : session'.unit[<<k, d>>] = "succeeded"
    BY <2>1, <2>2, <1>1
  <2>4. \A d \in busy' : pos'[d] \in Tactical /\ session'.unit[<<pos'[d], d>>] # "succeeded"
    BY <1>1, <1>2 DEF Progress
  <2> QED  BY <2>3, <2>4 DEF Progress
<1>6. SavedDesign' /\ GateShape'
  BY DEF SavedDesign, GateShape
<1>7. Transaction' /\ GreenIsWhole' /\ DesignIsBacked' /\ StatusSurvives'
  BY <1>3, InsideInv DEF Active
<1> QED  BY <1>4, <1>5, <1>6, <1>7

LEMMA ContextStepInv ==
    ASSUME IInv, NEW c \in Contexts,
           \/ Enter(c) \/ Reuse(c) \/ Open(c) \/ Succeed(c) \/ Fail(c)
           \/ \E well \in BOOLEAN : Parse(c, well)
    PROVE  IInv'
<1> USE DEF IInv
<1>1. session \in Ledger /\ pos[c] \in Positions /\ busy \subseteq plan
  BY DEF TypeOK
<1>2. \A k \in Tactical : <<k, c>> \in Units /\ <<k, c>> \notin Heads
  BY UnitNames
<1>3. c \in plan /\ pc = "tactical"
  BY <1>1 DEF Enter, Reuse, Open, Succeed, Fail, Parse, Inside
<1>4. head[1] = "decomposition" /\
      \A k \in Behind(pos[c]) : session.unit[<<k, c>>] = "succeeded"
  BY <1>3 DEF Progress, Active
<1>5. \A k \in Tactical : NextPos(k) \in Positions /\ Behind(NextPos(k)) = Behind(k) \cup {k}
  BY DEF Tactical, Positions, NextPos, Behind
<1>6. CASE Enter(c)
  <2>1. Behind("aggregate") = {} /\ "aggregate" \in Positions /\ c \notin busy
    BY <1>3, <1>6 DEF Behind, Positions, Tactical, Enter, Progress
  <2> QED  BY <1>1, <1>3, <1>6, <2>1, FanOutInv DEF Enter, jobVars, storeVars
<1>7. CASE Reuse(c)
  <2>1. pos[c] \in Tactical /\ c \notin busy /\ session.unit[<<pos[c], c>>] = "succeeded"
    BY <1>7 DEF Reuse, Inside, Cached
  <2> QED  BY <1>1, <1>3, <1>4, <1>5, <1>7, <2>1, FanOutInv DEF Reuse, jobVars, storeVars
<1>8. CASE Open(c)
  <2>1. /\ pos[c] \in Tactical /\ c \notin busy /\ session.unit[<<pos[c], c>>] # "succeeded"
        /\ session' = Mark(<<pos[c], c>>, "running")
    BY <1>8 DEF Open, Inside, Cached
  <2>2. /\ session' \in Ledger /\ session'.runs = session.runs /\ session'.found = session.found
        /\ \A v \in Units : session'.unit[v] =
             IF v = <<pos[c], c>> THEN "running" ELSE session.unit[v]
    BY <1>1, <1>2, <2>1, MarkOne DEF UnitStatus
  <2>3. pos[c] \notin Behind(pos[c])
    BY <2>1 DEF Tactical, Behind
  <2>4. \A k \in Behind(pos[c]) : session'.unit[<<k, c>>] = "succeeded"
    BY <1>2, <1>4, <2>2, <2>1, <2>3 DEF Behind, Tactical
  <2>5. pos' = [pos EXCEPT ![c] = pos[c]]
    BY <1>8 DEF Open, TypeOK
  <2>6. /\ \A h \in Heads : session'.unit[h] = session.unit[h]
        /\ \A k \in Tactical : session.unit[<<k, c>>] = "succeeded" =>
               session'.unit[<<k, c>>] = "succeeded"
        /\ \A d \in Contexts \ {c}, k \in Tactical :
               session'.unit[<<k, d>>] = session.unit[<<k, d>>]
    BY <1>2, <2>1, <2>2, UnitNames
  <2>7. session'.unit[<<pos[c], c>>] # "succeeded"
    BY <1>2, <2>1, <2>2
  <2>8. /\ UNCHANGED <<pc, runs, head, job, latest, saved, gate, stage, quality, loaded, plan>>
        /\ busy' = busy \cup {c}
    BY <1>8 DEF Open, jobVars, storeVars
  <2> QED  BY <1>1, <1>3, <2>1, <2>2, <2>4, <2>5, <2>6, <2>7, <2>8, FanOutInv
<1>9. CASE Succeed(c)
  <2>1. pos[c] \in Tactical /\ session' = Mark(<<pos[c], c>>, "succeeded")
    BY <1>3, <1>9 DEF Succeed, Progress
  <2>2. /\ session' \in Ledger /\ session'.runs = session.runs /\ session'.found = session.found
        /\ \A v \in Units : session'.unit[v] =
             IF v = <<pos[c], c>> THEN "succeeded" ELSE session.unit[v]
    BY <1>1, <1>2, <2>1, MarkOne DEF UnitStatus
  <2>3. \A k \in Behind(NextPos(pos[c])) : session'.unit[<<k, c>>] = "succeeded"
    BY <1>2, <1>4, <1>5, <2>1, <2>2 DEF Behind, Tactical
  <2>4. /\ \A h \in Heads : session'.unit[h] = session.unit[h]
        /\ \A k \in Tactical : session.unit[<<k, c>>] = "succeeded" =>
               session'.unit[<<k, c>>] = "succeeded"
        /\ \A d \in Contexts \ {c}, k \in Tactical :
               session'.unit[<<k, d>>] = session.unit[<<k, d>>]
    BY <1>2, <2>1, <2>2, UnitNames
  <2>5. /\ UNCHANGED <<pc, runs, head, job, latest, saved, gate, stage, quality, loaded, plan>>
        /\ busy' = busy \ {c} /\ pos' = [pos EXCEPT ![c] = NextPos(pos[c])]
    BY <1>9 DEF Succeed, jobVars, storeVars, TypeOK
  <2> QED  BY <1>1, <1>3, <1>5, <2>1, <2>2, <2>3, <2>4, <2>5, FanOutInv
<1>10. CASE Fail(c)
  <2>1. /\ pos[c] \in Tactical /\ session.unit[<<pos[c], c>>] # "succeeded"
        /\ session' = Mark(<<pos[c], c>>, "failed")
    BY <1>3, <1>10 DEF Fail, Progress
  <2>2. /\ session' \in Ledger /\ session'.runs = session.runs /\ session'.found = session.found
        /\ \A v \in Units : session'.unit[v] =
             IF v = <<pos[c], c>> THEN "failed" ELSE session.unit[v]
    BY <1>1, <1>2, <2>1, MarkOne DEF UnitStatus
  <2>3. "dropped" \in Positions /\ Behind("dropped") = {}
    BY DEF Positions, Behind
  <2>4. /\ \A h \in Heads : session'.unit[h] = session.unit[h]
        /\ \A k \in Tactical : session.unit[<<k, c>>] = "succeeded" =>
               session'.unit[<<k, c>>] = "succeeded"
        /\ \A d \in Contexts \ {c}, k \in Tactical :
               session'.unit[<<k, d>>] = session.unit[<<k, d>>]
    BY <1>2, <2>1, <2>2, UnitNames
  <2>5. /\ UNCHANGED <<pc, runs, head, job, latest, saved, gate, stage, quality, loaded, plan>>
        /\ busy' = busy \ {c} /\ pos' = [pos EXCEPT ![c] = "dropped"]
    BY <1>10 DEF Fail, jobVars, storeVars
  <2> QED  BY <1>1, <1>3, <2>2, <2>3, <2>4, <2>5, FanOutInv
<1>11. ASSUME NEW well \in BOOLEAN, Parse(c, well) PROVE IInv'
  <2>1. c \notin busy /\ pos[c] = "parse"
    BY <1>3, <1>11 DEF Parse, Progress, Tactical
  <2>2. PICK p \in {"designed", "dropped"} : pos' = [pos EXCEPT ![c] = p]
    BY <1>11 DEF Parse
  <2>3. p \in Positions /\ Behind(p) \subseteq Behind("parse")
    BY <2>2 DEF Positions, Behind
  <2>4. \A k \in Behind(p) : session.unit[<<k, c>>] = "succeeded"
    BY <1>4, <2>1, <2>3
  <2>5. UNCHANGED <<pc, runs, head, job, latest, saved, gate, stage, quality, loaded, plan, session, busy>>
    BY <1>11 DEF Parse, jobVars, storeVars
  <2>6. busy' = busy /\ session' \in Ledger /\ session'.runs = session.runs /\ session'.found = session.found
    BY <1>1, <2>5
  <2> QED  BY <1>1, <1>3, <2>1, <2>2, <2>3, <2>4, <2>5, <2>6, FanOutInv
<1> QED  BY <1>6, <1>7, <1>8, <1>9, <1>10, <1>11

LEMMA AssembleInv == ASSUME IInv, Assemble PROVE IInv'
<1> USE DEF IInv
<1>1. /\ pc = "tactical" /\ pc' = "save"
      /\ UNCHANGED <<runs, head, job, latest, saved, gate, stage, quality, loaded, plan,
                     pos, busy, session>>
  BY DEF Assemble, jobVars, storeVars
<1>2. TypeOK' /\ session \in Ledger
  BY <1>1 DEF TypeOK, Active
<1>3. Progress' /\ SavedDesign' /\ GateShape'
  BY <1>1 DEF Progress, SavedDesign, GateShape, Active
<1>4. Transaction' /\ GreenIsWhole' /\ DesignIsBacked' /\ StatusSurvives'
  BY <1>1, <1>2, InsideInv DEF Active
<1> QED  BY <1>2, <1>3, <1>4

(* A design that is saved belongs to a run that has not landed. *)
LEMMA SaveInv == ASSUME IInv, Save PROVE IInv'
<1> USE DEF IInv
<1>1. /\ pc = "save" /\ pc' = "judge"
      /\ UNCHANGED <<runs, head, job, saved, gate, stage, quality, loaded, plan, pos, busy,
                     session>>
      /\ latest' = [run |-> runs, contexts |-> plan, designed |-> Designed,
                    llm |-> head[1] = "decomposition"]
  BY DEF Save, jobVars, storeVars
<1>2. runs \in Runs /\ runs \notin saved.runs /\ runs \in Nat
  BY <1>1 DEF Transaction, Active, TypeOK, Runs
<1>3. latest' \in Design /\ latest'.run = runs
  BY <1>1, <1>2 DEF Design, TypeOK, Designed
<1>4. TypeOK'
  BY <1>1, <1>3 DEF TypeOK, Active
<1>5. Transaction' /\ Progress' /\ GateShape'
  BY <1>1 DEF Transaction, Progress, GateShape, Active
<1>6. SavedDesign'
  BY <1>1, <1>2, <1>3 DEF SavedDesign, Designed
<1>7. ~Landed'
  BY <1>1, <1>2, <1>3 DEF Landed
<1>8. GreenIsWhole' /\ DesignIsBacked' /\ StatusSurvives'
  BY <1>1, <1>7 DEF GreenIsWhole, DesignIsBacked, StatusSurvives
<1> QED  BY <1>4, <1>5, <1>6, <1>8

LEMMA JudgeInv == ASSUME IInv, NEW passed \in BOOLEAN, Judge(passed) PROVE IInv'
<1> USE DEF IInv
<1>1. /\ pc = "judge" /\ pc' = "mark" /\ quality' = passed /\ loaded' = gate.status
      /\ passed => MayPass(plan, Designed)
      /\ UNCHANGED <<runs, head, job, latest, saved, gate, stage, plan, pos, busy, session>>
  BY DEF Judge, storeVars
<1>2. gate.status \in {"none", "open"} \cup Resolved /\ session \in Ledger
  BY DEF TypeOK, GateRow
<1>3. quality' \in BOOLEAN
  BY <1>1
<1>4. TypeOK'
  BY <1>1, <1>2, <1>3 DEF TypeOK, Active
<1>5. Progress' /\ GateShape'
  BY <1>1 DEF Progress, GateShape, Active
<1>6. SavedDesign'
  BY <1>1 DEF SavedDesign, Designed
<1>7. Transaction' /\ GreenIsWhole' /\ DesignIsBacked' /\ StatusSurvives'
  BY <1>1, <1>2, InsideInv DEF Active
<1> QED  BY <1>4, <1>5, <1>6, <1>7

(* The run lands: ledger, gate and stage become durable together. *)
LEMMA CommitInv == ASSUME IInv, Commit PROVE IInv'
<1> USE DEF IInv
<1>1. /\ pc = "mark" /\ pc' = "idle" /\ saved' = session
      /\ gate' = Upsert(gate, loaded, quality)
      /\ job' \in {Outcome(Blocked, quality), "failed"}
      /\ stage' = IF Outcome(Blocked, quality) = "done" THEN "passed" ELSE "incomplete"
      /\ UNCHANGED <<runs, head, plan, pos, busy, quality, loaded, session, latest>>
  BY DEF Commit
<1>2. /\ latest = [run |-> runs, contexts |-> plan, designed |-> Designed,
                   llm |-> head[1] = "decomposition"]
      /\ quality => MayPass(plan, Designed)
      /\ runs \in Runs /\ session.runs = saved.runs \cup {runs} /\ runs \in Nat
  BY <1>1 DEF SavedDesign, Transaction, Active, TypeOK
<1>3. gate' \in GateRow /\ (gate'.status = "none" => gate'.decision = "none")
  BY <1>1 DEF Upsert, GateRow, Resolved, Decisions, TypeOK, GateShape
<1>4. TypeOK'
  BY <1>1, <1>3 DEF TypeOK, Outcome
<1>5. Transaction'
  BY <1>1, <1>2 DEF Transaction, Active, Runs
<1>6. Progress' /\ SavedDesign'
  BY <1>1 DEF Progress, SavedDesign, Active
<1>7. GateShape'
  BY <1>1, <1>3 DEF GateShape
<1>8. GreenIsWhole'
  BY <1>1, <1>2 DEF GreenIsWhole, Outcome, Blocked, MayPass
<1>9. DesignIsBacked'
  <2>1. \A c \in Designed : c \in plan /\ Behind(pos[c]) = Tactical
    BY ONLY DEF Designed, Behind
  <2>2. ASSUME head[1] = "decomposition"
        PROVE  \A c \in Designed, k \in Tactical : session.unit[<<k, c>>] = "succeeded"
    <3>1. \A c \in plan : \A k \in Behind(pos[c]) : session.unit[<<k, c>>] = "succeeded"
      BY <1>1, <2>2 DEF Progress, Active
    <3>2. \A c \in Designed : c \in plan /\ Tactical = Behind(pos[c])
      BY ONLY <2>1
    <3> QED  BY ONLY <3>1, <3>2
  <2>3. /\ saved' = session /\ latest' = latest /\ latest.designed = Designed
        /\ latest.llm => head[1] = "decomposition"
    BY <1>1, <1>2
  <2>4. ASSUME latest.llm, NEW c \in Designed, NEW k \in Tactical
        PROVE  session.unit[<<k, c>>] = "succeeded"
    BY ONLY <2>2, <2>3, <2>4
  <2>5. latest'.llm => \A c \in latest'.designed, k \in Tactical : saved'.unit[<<k, c>>] = "succeeded"
    BY ONLY <2>3, <2>4
  <2> QED  BY ONLY <2>5 DEF DesignIsBacked
<1>10. StatusSurvives'
  BY <1>1, <1>2 DEF StatusSurvives, Persisted, Outcome, Runs
<1> QED  BY <1>3, <1>4, <1>5, <1>6, <1>7, <1>8, <1>9, <1>10

(* Losing the transaction leaves what was committed. *)
LEMMA LossInv ==
    ASSUME IInv, pc' = "idle", session' = saved,
           UNCHANGED <<runs, head, plan, pos, busy, quality, loaded, latest, saved, gate, stage>>,
           job' \in {"none", "done", "incomplete", "failed"},
           job' \in {"done", "incomplete"} => pc = "mark"
    PROVE  IInv'
<1> USE DEF IInv
<1>1. TypeOK'
  BY DEF TypeOK
<1>2. Transaction'
  BY DEF Transaction, Active
<1>3. Progress' /\ SavedDesign' /\ GateShape'
  BY DEF Progress, SavedDesign, GateShape, Active
<1>4. GreenIsWhole' /\ DesignIsBacked'
  BY DEF GreenIsWhole, DesignIsBacked, Landed
<1>5. StatusSurvives'
  <2>1. pc = "mark" => latest.run = runs /\ runs \notin saved.runs
    BY DEF SavedDesign, Transaction, Active
  <2> QED  BY <2>1 DEF StatusSurvives, Landed
<1> QED  BY <1>1, <1>2, <1>3, <1>4, <1>5

LEMMA ApproveInv == ASSUME IInv, NEW decision \in Decisions, Approve(decision) PROVE IInv'
<1> USE DEF IInv
<1>1. /\ gate' = Decide(gate, decision) /\ gate.status # "none"
      /\ UNCHANGED <<pc, runs, head, job, latest, saved, stage, quality, loaded, plan, pos,
                     busy, session>>
  BY DEF Approve, jobVars
<1>2. gate' \in GateRow /\ gate'.status # "none"
  BY <1>1 DEF Decide, GateRow, Decisions, Resolved, TypeOK
<1>3. TypeOK' /\ GateShape'
  BY <1>1, <1>2 DEF TypeOK, GateShape
<1>4. Transaction' /\ Progress' /\ SavedDesign'
  BY <1>1 DEF Transaction, Progress, SavedDesign, Designed
<1>5. GreenIsWhole' /\ DesignIsBacked' /\ StatusSurvives'
  BY <1>1 DEF GreenIsWhole, DesignIsBacked, StatusSurvives, Landed, Persisted
<1> QED  BY <1>3, <1>4, <1>5

LEMMA StepInv == IInv /\ [Next]_vars => IInv'
<1> SUFFICES ASSUME IInv, [Next]_vars PROVE IInv'
  OBVIOUS
<1>1. ASSUME NEW h \in Heads, Begin(h) PROVE IInv'
  BY <1>1, BeginInv
<1>2. ASSUME NEW found \in SUBSET Contexts, Answer(found) PROVE IInv'
  BY <1>2, AnswerInv
<1>3. ASSUME NEW c \in Contexts,
             \/ Enter(c) \/ Reuse(c) \/ Open(c) \/ Succeed(c) \/ Fail(c)
             \/ \E well \in BOOLEAN : Parse(c, well)
      PROVE  IInv'
  BY <1>3, ContextStepInv
<1>4. ASSUME NEW passed \in BOOLEAN, Judge(passed) PROVE IInv'
  BY <1>4, JudgeInv
<1>5. ASSUME NEW blocked \in BOOLEAN, CommitLost(blocked) PROVE IInv'
  BY <1>5, LossInv DEF CommitLost, Outcome, storeVars
<1>6. CASE Raise
  BY <1>6, LossInv DEF Raise, storeVars
<1>7. CASE Restart
  BY <1>7, LossInv DEF Restart, storeVars
<1>8. ASSUME NEW decision \in Decisions, Approve(decision) PROVE IInv'
  BY <1>8, ApproveInv
<1>9. CASE UNCHANGED vars
  BY <1>9 DEF vars, IInv, TypeOK, Transaction, Progress, SavedDesign, GateShape, GreenIsWhole,
     DesignIsBacked, StatusSurvives, Landed, Persisted, Designed
<1> QED
  BY <1>1, <1>2, <1>3, <1>4, <1>5, <1>6, <1>7, <1>8, <1>9, AssembleInv, SaveInv, CommitInv
     DEF Next, Work

LEMMA Invariance == Spec => []IInv
BY InitInv, StepInv, PTL DEF Spec

(* The state of the stage is well typed. *)
THEOREM TypeCorrect == Spec => []TypeOK
<1>1. IInv => TypeOK
  BY DEF IInv
<1> QED  BY <1>1, Invariance, PTL

(* _domain_run_and_persist: a stage marked passed is earned, whatever      *)
(* failed, raised, crashed or was refined before.                          *)
THEOREM GreenIsEarned == Spec => []GreenIsWhole
<1>1. IInv => GreenIsWhole
  BY DEF IInv
<1> QED  BY <1>1, Invariance, PTL

(* Every context of an LLM design that landed has its units in the ledger. *)
THEOREM DesignBacked == Spec => []DesignIsBacked
<1>1. IInv => DesignIsBacked
  BY DEF IInv
<1> QED  BY <1>1, Invariance, PTL

(* domain_design_status answers the same after a restart. *)
THEOREM StatusIsDurable == Spec => []StatusSurvives
<1>1. IInv => StatusSurvives
  BY DEF IInv
<1> QED  BY <1>1, Invariance, PTL

(* No step loses, restarts or replaces committed unit output. *)
THEOREM CacheIsKept == Spec => CacheKept
<1>1. ASSUME IInv, [Next]_vars,
             saved' = saved \/ (pc = "mark" /\ saved' = session)
      PROVE  \A u \in Units : saved.unit[u] = "succeeded" =>
               /\ saved'.unit[u] = "succeeded"
               /\ u \in Heads => saved'.found[u] = saved.found[u]
  BY <1>1 DEF IInv, Transaction
<1>2. [Next]_vars => saved' = saved \/ (pc = "mark" /\ saved' = session)
  BY DEF Next, Work, vars, storeVars, Begin, Answer, Enter, Reuse, Open, Succeed, Fail, Parse,
     Assemble, Save, Judge, Commit, CommitLost, Raise, Restart, Approve
<1>3. IInv /\ [Next]_vars =>
        [\A u \in Units : saved.unit[u] = "succeeded" =>
           /\ saved'.unit[u] = "succeeded"
           /\ u \in Heads => saved'.found[u] = saved.found[u]]_vars
  BY <1>1, <1>2
<1> QED  BY <1>3, Invariance, PTL DEF Spec, CacheKept

(* A person's decision on the gate stands; upsert_gate respects it. *)
THEOREM DecisionIsKept == Spec => DecisionStands
<1>1. IInv /\ [Next]_vars =>
        [gate.decision # "none" /\ gate'.status # gate.status =>
           \/ gate'.status = gate'.decision
           \/ pc = "mark" /\ loaded = "open"]_vars
  <2> SUFFICES ASSUME IInv, [Next]_vars, gate.decision # "none", gate'.status # gate.status
               PROVE  gate'.status = gate'.decision \/ (pc = "mark" /\ loaded = "open")
    OBVIOUS
  <2>1. gate \in GateRow /\ loaded \in {"none", "open"} \cup Resolved
    BY DEF IInv, TypeOK
  <2>2. CASE Commit
    BY <2>1, <2>2 DEF Commit, Upsert, GateRow, IInv, GateShape
  <2>3. ASSUME NEW decision \in Decisions, Approve(decision)
        PROVE  gate'.status = gate'.decision
    BY <2>1, <2>3 DEF Approve, Decide, GateRow
  <2>4. Commit \/ (\E decision \in Decisions : Approve(decision)) \/ UNCHANGED gate
    BY DEF Next, Work, vars, storeVars, Begin, Answer, Enter, Reuse, Open, Succeed, Fail, Parse,
       Assemble, Save, Judge, CommitLost, Raise, Restart
  <2> QED  BY <2>2, <2>3, <2>4
<1> QED  BY <1>1, Invariance, PTL DEF Spec, DecisionStands

(* Both together: later runs undo neither paid output nor a decision.      *)
THEOREM SettledIsKept == Spec => SettledStands
BY CacheIsKept, DecisionIsKept DEF SettledStands
=============================================================================
