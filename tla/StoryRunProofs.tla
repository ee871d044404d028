--------------------------- MODULE StoryRunProofs ---------------------------
(***************************************************************************)
(* Proofs about StoryRun for any settings of the backend, caps and bounds, *)
(* failing commits and crashes included.                                   *)
(***************************************************************************)
EXTENDS StoryRun, TLAPS

(* run_story is at work on the story. *)
Working == Phases \cup {"loop", "handler"}

(* Where the phases stand in the count of the implementation passes. *)
Place ==
    /\ inside => pc \in Phases
    /\ pc \in {"tests", "llmtests", "red", "impl"} => attempts = 0
    /\ pc \in {"green", "retest"} => attempts >= 1
    /\ pc = "repair" => inside /\ attempts \in 1..MaxRepair
    /\ pc # "idle" => outcome = "none"
    /\ VerdictIsFresh

(* What can have been drawn on the way to a phase. *)
Spending ==
    /\ pc \in {"tests", "llmtests"} => tokens = 0
    /\ pc \in {"red", "impl"} => tokens <= MaxDraw
    /\ pc = "green" => tokens <= 2 * MaxDraw
    /\ pc = "repair" => MaxTokens = 0 \/ tokens <= MaxTokens
    /\ TokenOverrun

(* In a restart-fresh backend an accepted record is one of this build. *)
Fresh ==
    ~Resume =>
        /\ outcome # "skipped"
        /\ \/ pc = "raised"
           \/ outcome \in Accepted
           \/ session.rec \notin Accepted /\ saved.rec \notin Accepted

(* A terminal record and the story's row go together, in what is durable   *)
(* and, but for the moment after a failed first commit and for a story     *)
(* whose row was rolled back, in what the session holds.                   *)
Agreeing(db) == db.rec \in Outcomes => db.unit[StoryRow] = LedgerOf(db.rec)
Together ==
    /\ Agreeing(saved)
    /\ (pc = "tests" /\ ~inside) \/ pc = "raised" \/ Agreeing(session)

(* With reliable commits the record and the story's row are running while  *)
(* it is worked on, and no other row of the call is left running, but that *)
(* of an implementation that was given up before its call.                 *)
Told ==
    /\ pc \in Working => session.rec = "running" /\ session.unit[StoryRow] = "running"
    /\ Returned => session.rec = outcome /\ session.unit[StoryRow] = LedgerOf(outcome)
    /\ \A r \in mine \ {StoryRow} :
          session.unit[r] = "running" =>
              \/ pc \in Phases /\ r = Row(pc) /\ (inside \/ pc = "llmtests")
              \/ pc \in {"handler", "idle", "raised"} /\ LeftOpen(r)
    /\ InFlightVisible
Reliable == ~FlakyCommits => Told

(* The inductive invariant. *)
IInv ==
    /\ TypeOK
    /\ Place
    /\ Spending
    /\ Fresh
    /\ Together
    /\ Reliable

----------------------------------------------------------------------------
LEMMA Constants ==
    /\ MaxRepair \in Nat /\ MaxTokens \in Nat /\ MaxDraw \in Nat
    /\ MaxPasses \in Nat /\ MaxBuilds \in Nat \ {0}
    /\ \A m \in Modes : m.resume \in BOOLEAN /\ m.flaky \in BOOLEAN
BY RunAssumption DEF RunAssumption, Mode

LEMMA StoryRowIsRow == StoryRow \in Rows
BY DEF StoryRow, Rows

(* Every phase has a row of its own, apart from the story's. *)
LEMMA RowIsRow ==
    ASSUME NEW k \in Phases, attempts \in Nat,
           k \in Numbered => attempts \in 1..(MaxRepair + 1)
    PROVE  Row(k) \in Rows /\ Row(k) # StoryRow
BY Constants DEF Row, Rows, StoryRow, Phases, Numbered

(* What the writes to the store change, and leave alone. *)
LEMMA MarkStore ==
    ASSUME NEW db \in Store, NEW r \in Rows, NEW status \in UnitStatus
    PROVE  /\ Mark(db, r, status) \in Store
           /\ Mark(db, r, status).rec = db.rec
           /\ \A q \in Rows : Mark(db, r, status).unit[q] = IF q = r THEN status ELSE db.unit[q]
BY DEF Mark, Store

LEMMA RecordStore ==
    ASSUME NEW db \in Store, NEW status \in RecStatus
    PROVE  /\ [db EXCEPT !.rec = status] \in Store
           /\ [db EXCEPT !.rec = status].rec = status
           /\ [db EXCEPT !.rec = status].unit = db.unit
BY DEF Store

LEMMA CreateStore ==
    ASSUME NEW db \in Store, NEW r \in Rows
    PROVE  /\ Create(db, r) \in Store
           /\ Create(db, r).rec = db.rec
           /\ \A q \in Rows : q # r => Create(db, r).unit[q] = db.unit[q]
BY DEF Create, Store, UnitStatus

LEMMA OpenStore ==
    ASSUME NEW db \in Store, NEW r \in Rows
    PROVE  /\ Open(db, r) \in Store
           /\ Open(db, r).rec = db.rec
           /\ \A q \in Rows : Open(db, r).unit[q] = IF q = r THEN "running" ELSE db.unit[q]
<1>1. "running" \in UnitStatus
  BY DEF UnitStatus
<1> DEFINE new == Create(db, r)
<1>2. new \in Store /\ new.rec = db.rec /\ \A q \in Rows : q # r => new.unit[q] = db.unit[q]
  BY ONLY db \in Store, r \in Rows, CreateStore
<1> HIDE DEF new
<1>3. /\ Mark(new, r, "running") \in Store /\ Mark(new, r, "running").rec = new.rec
      /\ \A q \in Rows : Mark(new, r, "running").unit[q] = IF q = r THEN "running" ELSE new.unit[q]
  BY ONLY r \in Rows, <1>1, <1>2, MarkStore
<1>4. Open(db, r) = Mark(new, r, "running")
  BY DEF Open, new
<1> QED  BY ONLY <1>2, <1>3, <1>4

LEMMA LedgerStatus ==
    ASSUME NEW o \in Outcomes
    PROVE  LedgerOf(o) \in UnitStatus \ {"running", "absent"}
BY DEF LedgerOf, Outcomes, Accepted, UnitStatus

LEMMA SettleStore ==
    ASSUME NEW db \in Store, NEW o \in Outcomes
    PROVE  /\ Settle(db, o) \in Store
           /\ Settle(db, o).rec = o
           /\ Settle(db, o).unit[StoryRow] = LedgerOf(o)
           /\ \A q \in Rows : q # StoryRow => Settle(db, o).unit[q] = db.unit[q]
           /\ Agreeing(Settle(db, o))
<1>1. o \in RecStatus /\ LedgerOf(o) \in UnitStatus
  BY LedgerStatus DEF RecStatus
<1> QED  BY <1>1, StoryRowIsRow DEF Settle, Store, Agreeing

----------------------------------------------------------------------------
LEMMA InitInv == Init => IInv
<1> SUFFICES ASSUME Init PROVE IInv
  OBVIOUS
<1> USE Constants
<1>1. session \in Store /\ saved \in Store /\ session.rec = "absent" /\ saved.rec = "absent"
  BY DEF Init, Store, RecStatus, UnitStatus
<1>2. TypeOK
  <2>1. 1 \in 1..MaxBuilds /\ 0 \in 0..MaxPasses /\ 0 \in 0..(MaxRepair + 1)
    OBVIOUS
  <2> QED  BY <1>1, <2>1 DEF Init, TypeOK
<1>3. Place /\ Spending
  BY DEF Init, Place, Spending, VerdictIsFresh, TokenOverrun, Phases
<1>4. Fresh /\ Together
  BY <1>1 DEF Init, Fresh, Together, Agreeing, Accepted, Outcomes
<1>5. Reliable
  BY DEF Init, Reliable, Told, Working, Phases, Returned, InFlightVisible, Awaiting
<1> QED  BY <1>2, <1>3, <1>4, <1>5 DEF IInv

(* The story is skipped: only in a backend that resumes. *)
LEMMA SkipInv == ASSUME IInv, Skip, UNCHANGED mode PROVE IInv'
<1> USE Constants
<1>1. /\ pc = "idle" /\ outcome \in {"none", "failed"} /\ session.rec \in Accepted
      /\ session' = Settle(Create(session, StoryRow), "skipped")
      /\ outcome' = "skipped" /\ passes' = passes + 1 /\ passes < MaxPasses /\ mine' = {StoryRow}
      /\ UNCHANGED <<mode, pc, inside, saved, attempts, tested, result, tokens, builds>>
  BY DEF Skip, MayEnter, MaySkip
<1>2. Create(session, StoryRow) \in Store /\ "skipped" \in Outcomes
  BY StoryRowIsRow, CreateStore DEF IInv, TypeOK, Outcomes, Accepted
<1>3. /\ session' \in Store /\ session'.rec = "skipped"
      /\ session'.unit[StoryRow] = LedgerOf("skipped") /\ Agreeing(session')
  BY <1>1, <1>2, SettleStore
<1>4. TypeOK'
  BY <1>1, <1>2, <1>3, StoryRowIsRow DEF IInv, TypeOK
<1>5. Place' /\ Spending'
  BY <1>1 DEF IInv, Place, Spending, VerdictIsFresh, TokenOverrun
<1>6. Fresh'
  BY <1>1 DEF IInv, Fresh, Resume, Accepted
<1>7. Together'
  BY <1>1, <1>3 DEF IInv, Together, Agreeing
<1>8. Reliable'
  BY <1>1, <1>3 DEF IInv, TypeOK, Place, Reliable, Told, Working, Phases, Returned, InFlightVisible, Awaiting,
                    FlakyCommits
<1> QED  BY <1>4, <1>5, <1>6, <1>7, <1>8 DEF IInv

(* run_story begins, with its first commit made or lost. *)
LEMMA BeginInv == ASSUME IInv, Begin, UNCHANGED mode PROVE IInv'
<1> USE Constants
<1> DEFINE opened == [Create(session, StoryRow) EXCEPT !.rec = "running"]
<1>1. /\ pc = "idle" /\ outcome \in {"none", "failed"} /\ passes < MaxPasses /\ passes' = passes + 1
      /\ inside' = FALSE /\ mine' = {StoryRow} /\ outcome' = "none"
      /\ attempts' = 0 /\ tested' = 0 /\ result' = "none" /\ tokens' = 0
      /\ UNCHANGED <<mode, builds>>
  BY DEF Begin, MayEnter
<1>2. \/ /\ saved' = opened /\ session' = Mark(opened, StoryRow, "running") /\ pc' = "tests"
      \/ /\ FlakyCommits /\ saved' = saved /\ pc' = "tests"
         /\ session' = Mark(saved, StoryRow, "running")
      \/ FlakyCommits /\ saved' = saved /\ session' = saved /\ pc' = "raised"
  <2>1. \/ saved' = opened /\ session' = Mark(opened, StoryRow, "running") /\ pc' = "tests"
        \/ /\ FlakyCommits /\ saved' = saved
           /\ IF Known(saved, StoryRow)
              THEN session' = Mark(saved, StoryRow, "running") /\ pc' = "tests"
              ELSE session' = saved /\ pc' = "raised"
    BY ONLY Begin DEF Begin
  <2> HIDE DEF opened
  <2> QED  BY ONLY <2>1
<1>3. opened \in Store /\ opened.rec = "running"
  <2>1. session \in Store /\ "running" \in RecStatus
    BY DEF IInv, TypeOK, RecStatus
  <2> DEFINE db == Create(session, StoryRow)
  <2>2. db \in Store
    BY ONLY <2>1, StoryRowIsRow, CreateStore
  <2> HIDE DEF db
  <2>3. [db EXCEPT !.rec = "running"] \in Store /\ [db EXCEPT !.rec = "running"].rec = "running"
    BY ONLY <2>1, <2>2, RecordStore
  <2> QED  BY ONLY <2>3 DEF db, opened
<1> HIDE DEF opened
<1>4. "running" \in UnitStatus /\ saved \in Store /\ session \in Store
  BY DEF UnitStatus, IInv, TypeOK
<1>5. /\ session' \in Store /\ saved' \in Store
      /\ session'.rec \in {"running", saved.rec} /\ saved'.rec \in {"running", saved.rec}
      /\ ~FlakyCommits => session'.rec = "running" /\ session'.unit[StoryRow] = "running"
  BY <1>2, <1>3, <1>4, MarkStore, StoryRowIsRow
<1>6. TypeOK'
  <2>1. pc' \in {"tests", "raised"} /\ mine' \subseteq Rows
    BY <1>1, <1>2, StoryRowIsRow
  <2>2. passes' \in 0..MaxPasses /\ attempts' \in 0..(MaxRepair + 1) /\ tokens' \in Nat
    BY <1>1 DEF IInv, TypeOK
  <2> QED  BY <1>1, <1>5, <2>1, <2>2 DEF IInv, TypeOK, Phases
<1>7. Place' /\ Spending'
  BY <1>1, <1>2 DEF Place, Spending, VerdictIsFresh, TokenOverrun, Phases
<1>8. Fresh'
  BY <1>1, <1>2, <1>5 DEF IInv, Fresh, Resume, Accepted
<1>9. Together'
  BY <1>1, <1>2, <1>3 DEF IInv, Together, Agreeing, Outcomes, Accepted
<1>10. Reliable'
  BY <1>1, <1>2, <1>5 DEF Reliable, Told, Working, Returned, InFlightVisible, Awaiting, FlakyCommits
<1> QED  BY <1>6, <1>7, <1>8, <1>9, <1>10 DEF IInv

(* What the start of a phase does to the stores: its row is opened, the    *)
(* record says running, and the commit is made or lost.                    *)
Started(k) ==
    /\ session' \in Store /\ saved' \in Store
    /\ session'.rec \in {"running", session.rec, saved.rec} /\ saved'.rec \in {"running", saved.rec}
    /\ Agreeing(session') /\ Agreeing(saved')
    /\ ~FlakyCommits =>
          /\ session'.rec = "running" /\ session'.unit[StoryRow] = "running"
          /\ \A q \in Rows \ {Row(k)} : session'.unit[q] = session.unit[q]

Starting(k) ==
    /\ (pc = k /\ ~inside) \/ (pc = "loop" /\ k = "repair" /\ MayRepair)
    /\ pc' = k /\ inside' = TRUE /\ mine' \subseteq mine \cup {Row(k)}
    /\ Started(k)
    /\ ~FlakyCommits /\ k \in {"llmtests", "impl", "repair"} =>
          saved'.rec = "running" /\ saved'.unit[StoryRow] = "running"
    /\ UNCHANGED <<attempts, tested, result, tokens, outcome, passes, builds>>

LEMMA StartedInv == ASSUME IInv, NEW k \in Phases, Starting(k), UNCHANGED mode PROVE IInv'
<1> USE Constants DEF Starting
<1>0. attempts \in Nat /\ (k \in Numbered => attempts \in 1..(MaxRepair + 1))
  BY DEF IInv, TypeOK, Place, VerdictIsFresh, MayRepair, Numbered
<1>1. Row(k) \in Rows /\ Row(k) # StoryRow /\ Row(k)' = Row(k)
  BY <1>0, RowIsRow DEF Row
<1>2. TypeOK'
  BY <1>1 DEF IInv, TypeOK, Started
<1>3. Place'
  BY DEF IInv, TypeOK, Place, VerdictIsFresh, MayRepair, Phases
<1>4. Spending'
  BY DEF IInv, TypeOK, Spending, TokenOverrun, MayRepair, Phases
<1>5. Fresh'
  BY DEF IInv, Fresh, Started, Resume, Accepted, Phases
<1>6. Together'
  BY DEF Started, Together
<1>7. Reliable'
  <2> SUFFICES ASSUME ~FlakyCommits' PROVE Told'
    BY DEF Reliable
  <2>1. ~FlakyCommits
    BY DEF FlakyCommits
  <2>2. \A r \in mine' \ {StoryRow} : session'.unit[r] = "running" => r = Row(k)
    BY <1>0, <1>1, <2>1 DEF IInv, TypeOK, Reliable, Told, Started, Place, Row, Phases
  <2> QED  BY <1>1, <2>1, <2>2 DEF Started, Told, Returned, InFlightVisible, Awaiting, Phases
<1> QED  BY <1>2, <1>3, <1>4, <1>5, <1>6, <1>7 DEF IInv

LEMMA RunningAgrees == ASSUME NEW db, db.rec = "running" PROVE Agreeing(db)
BY DEF Agreeing, Outcomes, Accepted

LEMMA OpenAgrees ==
    ASSUME NEW db \in Store, NEW r \in Rows, r # StoryRow, Agreeing(db)
    PROVE  Agreeing(Open(db, r))
BY OpenStore, StoryRowIsRow DEF Agreeing

LEMMA StartInv == ASSUME IInv, NEW k \in Phases, Start(k), UNCHANGED mode PROVE IInv'
<1> DEFINE opened == [Open(session, Row(k)) EXCEPT !.rec = "running"]
<1>1. /\ pc = k /\ ~inside /\ k \in {"tests", "red", "impl", "green"}
      /\ inside' = TRUE /\ mine' = mine \cup {Row(k)} /\ Commit(opened)
      /\ UNCHANGED <<mode, pc, attempts, tested, result, tokens, outcome, passes, builds>>
  BY DEF Start
<1>2. Row(k) \in Rows /\ Row(k) # StoryRow /\ session \in Store /\ saved \in Store
  BY <1>1, RowIsRow DEF IInv, TypeOK, Numbered
<1>3. /\ opened \in Store /\ opened.rec = "running"
      /\ \A q \in Rows \ {Row(k)} : opened.unit[q] = session.unit[q]
  <2>1. /\ Open(session, Row(k)) \in Store
        /\ \A q \in Rows \ {Row(k)} : Open(session, Row(k)).unit[q] = session.unit[q]
    BY <1>2, OpenStore
  <2> QED  BY <2>1, RecordStore DEF RecStatus
<1> HIDE DEF opened
<1>4. \/ session' = opened /\ saved' = opened
      \/ FlakyCommits /\ session' = saved /\ saved' = saved
  BY <1>1 DEF Commit
<1>5. ~FlakyCommits => session.unit[StoryRow] = "running"
  BY <1>1 DEF IInv, Reliable, Told, Working
<1>6. Started(k)
  <2>1. Agreeing(opened) /\ Agreeing(saved)
    BY <1>3, RunningAgrees DEF IInv, Together
  <2> QED  BY <1>2, <1>3, <1>4, <1>5, <2>1, StoryRowIsRow DEF Started
<1>7. ~FlakyCommits => saved'.rec = "running" /\ saved'.unit[StoryRow] = "running"
  BY <1>4, <1>6 DEF Started
<1>8. Starting(k)
  BY <1>1, <1>6, <1>7 DEF Starting
<1> QED  BY <1>8, StartedInv

LEMMA StartLlmTestsInv == ASSUME IInv, StartLlmTests, UNCHANGED mode PROVE IInv'
<1> DEFINE k == "llmtests"
           recorded == [session EXCEPT !.rec = "running"]
<1>1. /\ pc = k /\ ~inside /\ inside' = TRUE /\ Commit(recorded)
      /\ UNCHANGED <<mode, pc, mine, attempts, tested, result, tokens, outcome, passes, builds>>
  BY DEF StartLlmTests
<1>2. session \in Store /\ saved \in Store /\ k \in Phases
  BY DEF IInv, TypeOK, Phases
<1>3. recorded \in Store /\ recorded.rec = "running" /\ recorded.unit = session.unit
  BY <1>2, RecordStore DEF RecStatus
<1> HIDE DEF recorded
<1>4. \/ session' = recorded /\ saved' = recorded
      \/ FlakyCommits /\ session' = saved /\ saved' = saved
  BY <1>1 DEF Commit
<1>5. ~FlakyCommits => session.unit[StoryRow] = "running"
  BY <1>1 DEF IInv, Reliable, Told, Working, Phases
<1>6. Started(k)
  <2>1. Agreeing(recorded) /\ Agreeing(saved)
    BY <1>3, RunningAgrees DEF IInv, Together
  <2> QED  BY <1>2, <1>3, <1>4, <1>5, <2>1 DEF Started
<1>7. ~FlakyCommits => saved'.rec = "running" /\ saved'.unit[StoryRow] = "running"
  BY <1>4, <1>6 DEF Started
<1>8. Starting(k)
  BY <1>1, <1>6, <1>7 DEF Starting
<1> QED  BY <1>2, <1>8, StartedInv

LEMMA StartRepairInv == ASSUME IInv, StartRepair, UNCHANGED mode PROVE IInv'
<1> USE Constants
<1> DEFINE k == "repair"
           recorded == [session EXCEPT !.rec = "running"]
<1>1. /\ pc = "loop" /\ MayRepair /\ pc' = k /\ inside' = TRUE /\ mine' = mine \cup {Row(k)}
      /\ \/ saved' = recorded /\ session' = Open(recorded, Row(k))
         \/ FlakyCommits /\ saved' = saved /\ session' = Open(saved, Row(k))
      /\ UNCHANGED <<mode, attempts, tested, result, tokens, outcome, passes, builds>>
  BY DEF StartRepair
<1>2. attempts \in 1..(MaxRepair + 1) /\ k \in Phases
  BY <1>1 DEF IInv, TypeOK, Place, VerdictIsFresh, Phases
<1>3. Row(k) \in Rows /\ Row(k) # StoryRow /\ session \in Store /\ saved \in Store
  BY <1>2, RowIsRow DEF IInv, TypeOK
<1>4. recorded \in Store /\ recorded.rec = "running" /\ recorded.unit = session.unit
  BY <1>3, RecordStore DEF RecStatus
<1> HIDE DEF recorded
<1>5. ~FlakyCommits => session.unit[StoryRow] = "running"
  BY <1>1 DEF IInv, Reliable, Told, Working
<1>6. Started(k)
  <2>1. Agreeing(recorded) /\ Agreeing(saved)
    BY <1>4, RunningAgrees DEF IInv, Together
  <2>2. CASE saved' = recorded /\ session' = Open(recorded, Row(k))
    <3>1. /\ session' \in Store /\ session'.rec = "running" /\ Agreeing(session')
          /\ \A q \in Rows \ {Row(k)} : session'.unit[q] = session.unit[q]
      BY <1>3, <1>4, <2>1, <2>2, OpenAgrees, OpenStore
    <3> QED  BY <1>3, <1>4, <1>5, <2>1, <2>2, <3>1, StoryRowIsRow DEF Started
  <2>3. CASE FlakyCommits /\ saved' = saved /\ session' = Open(saved, Row(k))
    BY <1>3, <2>1, <2>3, OpenAgrees, OpenStore DEF Started
  <2> QED  BY <1>1, <2>2, <2>3
<1>7. ~FlakyCommits => saved'.rec = "running" /\ saved'.unit[StoryRow] = "running"
  BY <1>1, <1>4, <1>5
<1>8. Starting(k)
  BY <1>1, <1>6, <1>7 DEF Starting
<1> QED  BY <1>2, <1>8, StartedInv

LEMMA StartRetestInv == ASSUME IInv, StartRetest, UNCHANGED mode PROVE IInv'
<1> DEFINE k == "retest"
<1>1. /\ pc = k /\ ~inside /\ inside' = TRUE /\ mine' = mine \cup {Row(k)}
      /\ session' = Open(session, Row(k))
      /\ UNCHANGED <<mode, pc, saved, attempts, tested, result, tokens, outcome, passes, builds>>
  BY DEF StartRetest
<1>2. Row(k) \in Rows /\ Row(k) # StoryRow /\ session \in Store /\ saved \in Store /\ k \in Phases
  BY <1>1, RowIsRow DEF IInv, TypeOK, Place, Phases
<1>3. ~FlakyCommits => session.rec = "running" /\ session.unit[StoryRow] = "running"
  BY <1>1 DEF IInv, Reliable, Told, Working, Phases
<1>4. Agreeing(session) /\ Agreeing(saved)
  BY <1>1 DEF IInv, Together
<1>5. Agreeing(session')
  BY <1>1, <1>2, <1>4, OpenAgrees
<1>6. Started(k)
  BY <1>1, <1>2, <1>3, <1>4, <1>5, OpenStore, StoryRowIsRow DEF Started
<1>7. Starting(k)
  BY <1>1, <1>6 DEF Starting
<1> QED  BY <1>2, <1>7, StartedInv

----------------------------------------------------------------------------
(* The end of a phase: its row is settled or left, at most a draw is made, *)
(* and the story goes on or is handed to the handler.                      *)
Ended(k) ==
    /\ session' \in Store /\ session'.rec = session.rec
    /\ \A q \in Rows \ {Row(k)} : session'.unit[q] = session.unit[q]
    /\ session'.unit[Row(k)] = "running" =>
          k = "tests" /\ pc' = "llmtests" /\ session.unit[Row(k)] = "running"

Ending(k, draw) ==
    /\ pc = k /\ inside /\ draw \in Draws
    /\ inside' = FALSE /\ tokens' = tokens + draw
    /\ Ended(k)
    /\ \/ /\ pc' = "handler" /\ attempts' = attempts
          /\ result' \in TestResults \cup {"none"} /\ tested' \in {tested, attempts}
       \/ /\ pc' = After(k)
          /\ attempts' = IF Counts(k) THEN attempts + 1 ELSE attempts
          /\ \/ k \in {"green", "retest"} /\ result' \in TestResults /\ tested' = attempts
             \/ k \notin {"green", "retest"} /\ UNCHANGED <<result, tested>>
    /\ UNCHANGED <<saved, mine, outcome, passes, builds>>

LEMMA AfterPhase ==
    ASSUME NEW k \in Phases
    PROVE  /\ After(k) \in Phases \cup {"loop"}
           /\ After(k) \in {"tests", "repair"} => FALSE
           /\ After(k) = "llmtests" => k = "tests"
           /\ After(k) = "red" => k \in {"tests", "llmtests"}
           /\ After(k) = "impl" => k = "red"
           /\ After(k) = "green" => k = "impl"
           /\ After(k) = "retest" => k = "repair"
           /\ After(k) = "loop" => k \in {"green", "retest"}
BY DEF After, Phases

(* Only the calls of a generator draw tokens. *)
LEMMA DrawsBounded ==
    ASSUME NEW draw \in Draws
    PROVE  /\ draw \in 0..MaxDraw
           /\ pc \in {"tests", "red", "green", "retest"} => draw = 0
BY Constants DEF Draws, Awaiting

LEMMA EndedInv ==
    ASSUME IInv, NEW k \in Phases, NEW draw, Ending(k, draw), UNCHANGED mode
    PROVE  IInv'
<1> USE Constants DEF Ending
<1>1. attempts \in Nat /\ (k \in Numbered => attempts \in 1..(MaxRepair + 1))
  BY DEF IInv, TypeOK, Place, Numbered
<1>2. Row(k) \in Rows /\ Row(k) # StoryRow
  BY <1>1, RowIsRow
<1>3. /\ draw \in 0..MaxDraw /\ (k \in {"tests", "red", "green", "retest"} => draw = 0)
      /\ tokens \in Nat /\ tokens' \in Nat
  BY DrawsBounded DEF IInv, TypeOK
<1>4. Counts(k) <=> k \in {"impl", "repair"}
  BY DEF Counts
<1>5. TypeOK'
  <2>1. pc' \in Phases \cup {"loop", "handler"}
    BY AfterPhase
  <2>2. attempts' \in 0..(MaxRepair + 1) /\ tested' \in 0..(MaxRepair + 1)
    BY <1>4 DEF IInv, TypeOK, Place
  <2>3. result' \in TestResults \cup {"none"}
    BY DEF IInv, TypeOK
  <2> QED  BY <1>3, <2>1, <2>2, <2>3 DEF IInv, TypeOK, Ended
<1>6. Place'
  <2>1. outcome' = "none"
    BY DEF IInv, Place, Phases
  <2>2. CASE pc' = "handler"
    BY <2>1, <2>2 DEF Place, VerdictIsFresh, Phases
  <2>3. CASE pc' = After(k)
    BY <1>4, <2>1, <2>3, AfterPhase DEF IInv, TypeOK, Place, VerdictIsFresh
  <2> QED  BY <2>2, <2>3
<1>7. Spending'
  <2>1. TokenOverrun'
    BY <1>3 DEF IInv, Spending, TokenOverrun, Phases
  <2>2. CASE pc' = "handler"
    BY <2>1, <2>2 DEF Spending
  <2>3. CASE pc' = After(k)
    BY <1>3, <2>1, <2>3, AfterPhase DEF IInv, Spending
  <2> QED  BY <2>2, <2>3
<1>8. Fresh'
  BY AfterPhase DEF IInv, Fresh, Ended, Resume, Phases
<1>9. Together'
  <2>1. Agreeing(session) /\ Agreeing(saved)
    BY DEF IInv, Together, Phases
  <2> QED  BY <1>2, <2>1, StoryRowIsRow DEF Together, Agreeing, Ended
<1>10. Reliable'
  <2> SUFFICES ASSUME ~FlakyCommits PROVE Told'
    BY DEF Reliable, FlakyCommits
  <2>1. session'.rec = "running" /\ session'.unit[StoryRow] = "running"
    BY <1>2, StoryRowIsRow DEF IInv, Reliable, Told, Working, Ended
  <2>2. \A r \in mine \ {StoryRow} :
           session'.unit[r] = "running" => r = Row(k) /\ k = "tests" /\ pc' = "llmtests"
    BY <1>2 DEF IInv, TypeOK, Reliable, Told, Ended, Phases
  <2>3. k = "tests" /\ pc' = "llmtests" => Row(k) = Row(pc)'
    BY DEF Row, Numbered
  <2>4. pc' # "idle"
    BY AfterPhase DEF Phases
  <2> QED  BY <2>1, <2>2, <2>3, <2>4 DEF Told, Returned, InFlightVisible, Awaiting, Phases
<1> QED  BY <1>5, <1>6, <1>7, <1>8, <1>9, <1>10 DEF IInv

LEMMA FinishInv ==
    ASSUME IInv, NEW k \in Phases, NEW draw \in 0..MaxDraw, UNCHANGED mode,
           Finish(k, draw) \/ Fail(k, draw) \/ FailWriting(k, draw)
    PROVE  IInv'
<1>1. pc = k /\ inside /\ session \in Store
  BY DEF Finish, Fail, FailWriting, IInv, TypeOK
<1>2. Row(k) \in Rows
  BY <1>1, RowIsRow, Constants DEF IInv, TypeOK, Place, Numbered
<1>3. "succeeded" \in UnitStatus /\ "failed" \in UnitStatus
  BY DEF UnitStatus
<1>4. CASE Finish(k, draw)
  <2>1. CASE LeavesRow(k)
    <3>1. k = "tests" /\ After(k) = "llmtests" /\ session' = session /\ pc' = After(k)
      BY <1>4, <2>1 DEF Finish, LeavesRow, SettleRow, After
    <3>2. Ended(k)
      BY <1>1, <3>1 DEF Ended
    <3>3. Ending(k, draw)
      BY <1>4, <2>1, <3>2 DEF Finish, Ending
    <3> QED  BY <3>3, EndedInv
  <2>2. CASE ~LeavesRow(k) /\ Known(session, Row(k))
    <3>1. session' = Mark(session, Row(k), "succeeded")
      BY <1>4, <2>2 DEF Finish, SettleRow
    <3>2. Ended(k)
      BY <1>1, <1>2, <1>3, <3>1, MarkStore DEF Ended
    <3>3. Ending(k, draw)
      BY <1>4, <2>2, <3>2 DEF Finish, Ending
    <3> QED  BY <3>3, EndedInv
  <2>3. CASE ~LeavesRow(k) /\ ~Known(session, Row(k))
    <3>1. session' = session /\ session.unit[Row(k)] = "absent" /\ pc' = "handler" /\ attempts' = attempts
      BY <1>4, <2>3 DEF Finish, Known
    <3>2. Ended(k)
      BY <1>1, <3>1 DEF Ended
    <3>3. result \in TestResults \cup {"none"}
      BY DEF IInv, TypeOK
    <3>4. Ending(k, draw)
      BY <1>4, <3>1, <3>2, <3>3 DEF Finish, Ending
    <3> QED  BY <3>4, EndedInv
  <2> QED  BY <2>1, <2>2, <2>3
<1>5. CASE Fail(k, draw)
  <2>1. session' = FailedRow(session, Row(k)) /\ pc' = "handler"
    BY <1>5 DEF Fail
  <2>2. Ended(k)
    BY <1>1, <1>2, <1>3, <2>1, MarkStore DEF Ended, FailedRow, Known
  <2>3. result \in TestResults \cup {"none"}
    BY DEF IInv, TypeOK
  <2>4. Ending(k, draw)
    BY <1>5, <2>2, <2>3 DEF Fail, Ending
  <2> QED  BY <2>4, EndedInv
<1>6. CASE FailWriting(k, draw)
  <2>1. session' = Mark(session, Row(k), "succeeded") /\ pc' = "handler"
    BY <1>6 DEF FailWriting, SettleRow
  <2>2. Ended(k)
    BY <1>1, <1>2, <1>3, <2>1, MarkStore DEF Ended
  <2>3. result \in TestResults \cup {"none"}
    BY DEF IInv, TypeOK
  <2>4. Ending(k, draw)
    BY <1>6, <2>2, <2>3 DEF FailWriting, Ending
  <2> QED  BY <2>4, EndedInv
<1> QED  BY <1>4, <1>5, <1>6

(* The row of an implementation whose inputs cannot be read stays open.    *)
LEMMA FailReadingInv == ASSUME IInv, FailReading, UNCHANGED mode PROVE IInv'
<1>1. /\ pc = "impl" /\ inside /\ inside' = FALSE /\ pc' = "handler"
      /\ UNCHANGED <<mode, session, saved, mine, attempts, tested, result, tokens, outcome, passes, builds>>
  BY DEF FailReading
<1>2. outcome = "none" /\ attempts = 0
  BY <1>1 DEF IInv, Place
<1>3. TypeOK'
  BY <1>1 DEF IInv, TypeOK
<1>4. Place' /\ Spending'
  BY <1>1, <1>2 DEF IInv, Place, Spending, VerdictIsFresh, TokenOverrun
<1>5. Fresh'
  BY <1>1 DEF IInv, Fresh, Resume
<1>6. Together'
  BY <1>1 DEF IInv, Together, Agreeing
<1>7. Reliable'
  <2> SUFFICES ASSUME ~FlakyCommits PROVE Told'
    BY DEF Reliable, FlakyCommits
  <2>1. session.rec = "running" /\ session.unit[StoryRow] = "running"
    BY <1>1 DEF IInv, Reliable, Told, Working, Phases
  <2>2. \A r \in mine \ {StoryRow} : session.unit[r] = "running" => LeftOpen(r)
    BY <1>1, <1>2 DEF IInv, Reliable, Told, LeftOpen, Accepted
  <2>3. \A r \in mine' \ {StoryRow} : session'.unit[r] = "running" => LeftOpen(r)'
    BY <1>1, <2>2 DEF LeftOpen, Row
  <2> QED  BY <1>1, <2>1, <2>3 DEF Told, Returned, InFlightVisible, Awaiting, Phases
<1> QED  BY <1>3, <1>4, <1>5, <1>6, <1>7 DEF IInv

----------------------------------------------------------------------------
(* The handler or the gate returns an outcome, with the story's row or,    *)
(* when a rollback took the row away, without it.                          *)
LEMMA ReturnInv ==
    ASSUME IInv, NEW o \in Outcomes, o # "skipped", Return(o),
           pc = "loop" \/ (pc = "handler" /\ o = "failed"),
           UNCHANGED <<mode, inside, saved, mine, attempts, tested, result, tokens, passes, builds>>
    PROVE  IInv'
<1>1. session \in Store /\ saved \in Store /\ ~inside /\ outcome = "none"
  BY DEF IInv, TypeOK, Place, Phases
<1>2. \/ /\ session' = Settle(session, o) /\ outcome' = o /\ pc' = "idle"
      \/ /\ ~Known(session, StoryRow) /\ outcome' = outcome /\ pc' = "raised"
         /\ session' = [session EXCEPT !.rec = o]
  BY DEF Return
<1>3. /\ session' \in Store /\ session'.rec = o
      /\ \A q \in Rows \ {StoryRow} : session'.unit[q] = session.unit[q]
      /\ pc' = "idle" => session'.unit[StoryRow] = LedgerOf(o) /\ Agreeing(session')
  <2>1. CASE session' = Settle(session, o)
    BY <1>1, <2>1, SettleStore
  <2>2. CASE session' = [session EXCEPT !.rec = o] /\ pc' = "raised"
    BY <1>1, <2>2, RecordStore DEF RecStatus
  <2> QED  BY <1>2, <2>1, <2>2
<1>4. TypeOK'
  BY <1>2, <1>3 DEF IInv, TypeOK
<1>5. Place' /\ Spending'
  BY <1>1, <1>2 DEF IInv, Place, Spending, VerdictIsFresh, TokenOverrun
<1>6. Fresh'
  <2>1. ~Resume => saved.rec \notin Accepted
    BY <1>1 DEF IInv, Fresh, Accepted
  <2> QED  BY <1>1, <1>2, <1>3, <2>1 DEF Fresh, Resume
<1>7. Together'
  BY <1>2, <1>3 DEF IInv, Together, Agreeing
<1>8. Reliable'
  <2> SUFFICES ASSUME ~FlakyCommits PROVE Told'
    BY DEF Reliable, FlakyCommits
  <2>1. \A r \in mine \ {StoryRow} :
           session.unit[r] = "running" => pc = "handler" /\ LeftOpen(r)
    BY DEF IInv, Reliable, Told, Phases
  <2>2. \A r \in mine' \ {StoryRow} : session'.unit[r] = "running" => LeftOpen(r)'
    <3> SUFFICES ASSUME NEW r \in mine \ {StoryRow}, session'.unit[r] = "running"
                 PROVE  LeftOpen(r)'
      OBVIOUS
    <3>1. pc = "handler" /\ r = Row("impl") /\ attempts = 0
      BY <1>3, <2>1 DEF IInv, TypeOK, LeftOpen
    <3>2. outcome' \notin Accepted
      BY <1>1, <1>2, <3>1 DEF Accepted
    <3> QED  BY <3>1, <3>2 DEF LeftOpen, Row
  <2> QED  BY <1>1, <1>2, <1>3, <2>2 DEF Told, Working, Phases, Returned, InFlightVisible, Awaiting
<1> QED  BY <1>4, <1>5, <1>6, <1>7, <1>8 DEF IInv

LEMMA DeferInv == ASSUME IInv, Defer, UNCHANGED mode PROVE IInv'
<1>1. /\ pc = "idle" /\ outcome = "failed" /\ outcome' = "deferred"
      /\ session' = Settle(Create(session, StoryRow), "deferred")
      /\ UNCHANGED <<mode, pc, inside, saved, mine, attempts, tested, result, tokens, passes, builds>>
  BY DEF Defer
<1>2. session \in Store /\ "deferred" \in Outcomes
  BY DEF IInv, TypeOK, Outcomes
<1>3. /\ session' \in Store /\ session'.rec = "deferred" /\ Agreeing(session')
      /\ session'.unit[StoryRow] = LedgerOf("deferred")
      /\ \A q \in Rows \ {StoryRow} : session'.unit[q] = session.unit[q]
  BY <1>1, <1>2, StoryRowIsRow, CreateStore, SettleStore
<1>4. TypeOK'
  BY <1>1, <1>2, <1>3 DEF IInv, TypeOK
<1>5. Place' /\ Spending'
  BY <1>1 DEF IInv, Place, Spending, VerdictIsFresh, TokenOverrun
<1>6. Fresh'
  BY <1>1, <1>3 DEF IInv, Fresh, Resume, Accepted
<1>7. Together'
  BY <1>1, <1>3 DEF IInv, Together, Agreeing
<1>8. Reliable'
  <2> SUFFICES ASSUME ~FlakyCommits PROVE Told'
    BY DEF Reliable, FlakyCommits
  <2>1. \A r \in mine \ {StoryRow} : session.unit[r] = "running" => LeftOpen(r)
    BY <1>1 DEF IInv, Reliable, Told, Phases
  <2>2. \A r \in mine' \ {StoryRow} : session'.unit[r] = "running" => LeftOpen(r)'
    BY <1>1, <1>3, <2>1 DEF IInv, TypeOK, LeftOpen, Row, Accepted
  <2>3. ~inside
    BY <1>1 DEF IInv, Place, Phases
  <2> QED  BY <1>1, <1>3, <2>2, <2>3 DEF Told, Working, Phases, Returned, InFlightVisible, Awaiting
<1> QED  BY <1>4, <1>5, <1>6, <1>7, <1>8 DEF IInv

(* While this story waits, others commit what it wrote, or take it back to *)
(* what was committed.                                                     *)
LEMMA OthersInv ==
    ASSUME IInv, OthersCommit \/ OthersRollback, UNCHANGED mode
    PROVE  IInv'
<1>1. /\ Suspended
      /\ \/ saved' = session /\ session' = session
         \/ FlakyCommits /\ session' = saved /\ saved' = saved
      /\ UNCHANGED <<mode, pc, inside, mine, attempts, tested, result, tokens, outcome, passes, builds>>
  BY DEF OthersCommit, OthersRollback
<1>2. inside \/ Returned
  BY <1>1 DEF Suspended, Awaiting
<1>3. TypeOK'
  BY <1>1 DEF IInv, TypeOK
<1>4. Place' /\ Spending'
  BY <1>1 DEF IInv, Place, Spending, VerdictIsFresh, TokenOverrun
<1>5. Fresh'
  BY <1>1 DEF IInv, Fresh, Resume
<1>6. Together'
  <2>1. Agreeing(session) /\ Agreeing(saved)
    BY <1>2 DEF IInv, Place, Together, Returned, Phases
  <2> QED  BY <1>1, <2>1 DEF Together, Agreeing
<1>7. Reliable'
  <2> SUFFICES ASSUME ~FlakyCommits PROVE Told'
    BY DEF Reliable, FlakyCommits
  <2>1. saved' = session /\ session' = session /\ Told
    BY <1>1 DEF IInv, Reliable
  <2>2. Awaiting' => session.rec = "running" /\ session.unit[StoryRow] = "running"
    BY <1>1, <2>1 DEF Told, Working, Phases, Awaiting
  <2>3. Row(pc)' = Row(pc) /\ \A r : LeftOpen(r)' <=> LeftOpen(r)
    BY <1>1 DEF Row, LeftOpen
  <2> QED  BY <1>1, <2>1, <2>2, <2>3 DEF Told, Returned, InFlightVisible
<1> QED  BY <1>3, <1>4, <1>5, <1>6, <1>7 DEF IInv

LEMMA NextBuildInv ==
    ASSUME IInv, NEW kept \in BOOLEAN, NextBuild(kept), UNCHANGED mode
    PROVE  IInv'
<1> USE Constants
<1> DEFINE left == IF kept THEN session ELSE saved
<1>1. /\ builds < MaxBuilds /\ builds' = builds + 1 /\ (kept => pc = "idle")
      /\ saved' = IF Resume THEN left ELSE Reset(left)
      /\ session' = saved'
      /\ pc' = "idle" /\ inside' = FALSE /\ mine' = {}
      /\ attempts' = 0 /\ tested' = 0 /\ result' = "none" /\ tokens' = 0
      /\ outcome' = "none" /\ passes' = 0 /\ mode' = mode
  BY DEF NextBuild
<1>2. left \in Store /\ Agreeing(left)
  BY <1>1 DEF IInv, TypeOK, Together
<1> HIDE DEF left
<1>3. /\ Reset(left) \in Store /\ Reset(left).rec \in {"absent", "pending"}
  BY <1>2, RecordStore DEF Reset, RecStatus
<1>4. Agreeing(Reset(left))
  BY <1>3 DEF Agreeing, Outcomes, Accepted
<1>5. saved' \in Store /\ session' \in Store /\ Agreeing(saved') /\ Agreeing(session')
  BY <1>1, <1>2, <1>3, <1>4
<1>6. TypeOK'
  <2>1. builds' \in 1..MaxBuilds /\ passes' \in 0..MaxPasses /\ 0 \in 0..(MaxRepair + 1)
    BY <1>1 DEF IInv, TypeOK
  <2> QED  BY <1>1, <1>5, <2>1 DEF IInv, TypeOK
<1>7. Place' /\ Spending'
  BY <1>1 DEF Place, Spending, VerdictIsFresh, TokenOverrun, Phases
<1>8. Fresh'
  BY <1>1, <1>3 DEF Fresh, Resume, Accepted
<1>9. Together'
  BY <1>5 DEF Together, Agreeing
<1>10. Reliable'
  BY <1>1 DEF Reliable, Told, Working, Phases, Returned, InFlightVisible, Awaiting
<1> QED  BY <1>6, <1>7, <1>8, <1>9, <1>10 DEF IInv

LEMMA NextInv == IInv /\ [Next]_vars => IInv'
<1> SUFFICES ASSUME IInv, [Next]_vars PROVE IInv'
  OBVIOUS
<1>1. CASE Step
  <2> USE <1>1
  <2>1. UNCHANGED mode
    BY DEF Step
  <2>2. CASE StartLlmTests \/ StartRepair \/ StartRetest
    BY <2>1, <2>2, StartLlmTestsInv, StartRepairInv, StartRetestInv
  <2>7. CASE FailReading
    BY <2>1, <2>7, FailReadingInv
  <2>3. CASE Handle
    <3>1. "failed" \in Outcomes
      BY DEF Outcomes
    <3> QED  BY <2>1, <2>3, <3>1, ReturnInv DEF Handle
  <2>4. ASSUME NEW k \in Phases, Start(k) PROVE IInv'
    BY <2>1, <2>4, StartInv
  <2>5. ASSUME NEW k \in Phases, NEW draw \in 0..MaxDraw,
               Finish(k, draw) \/ Fail(k, draw) \/ FailWriting(k, draw)
        PROVE  IInv'
    BY <2>1, <2>5, FinishInv
  <2>6. ASSUME NEW o \in Outcomes, Gate(o) PROVE IInv'
    BY <2>1, <2>6, ReturnInv DEF Gate
  <2> QED  BY <2>2, <2>3, <2>4, <2>5, <2>6, <2>7 DEF Step
<1>2. CASE Around
  <2>1. UNCHANGED mode
    BY <1>2 DEF Around
  <2>2. ASSUME NEW kept \in BOOLEAN, NextBuild(kept) PROVE IInv'
    BY <2>1, <2>2, NextBuildInv
  <2> QED  BY <1>2, <2>1, <2>2, SkipInv, BeginInv, DeferInv, OthersInv DEF Around
<1>3. CASE UNCHANGED vars
  BY <1>3 DEF vars, IInv, TypeOK, Place, Spending, Fresh, Together, Reliable, Told, Agreeing,
              VerdictIsFresh, TokenOverrun, InFlightVisible, Awaiting, Returned, Row,
              Resume, FlakyCommits, LlmImpl, LeftOpen
<1> QED  BY <1>1, <1>2, <1>3 DEF Next

THEOREM Invariance == Spec => []IInv
BY InitInv, NextInv, PTL DEF Spec

(* Every variable of run_story keeps its type. *)
THEOREM TypeCorrect == Spec => []TypeOK
<1>1. IInv => TypeOK
  BY DEF IInv
<1> QED  BY Invariance, <1>1, PTL

(* For any caps and any number of passes and builds: what is written about *)
(* a story in its record and its ledger row is true, of the call that      *)
(* returned, of what is durable and of the call in flight.                 *)
THEOREM RecordsTrue == Spec => []RecordsAreTrue
<1>1. IInv => RecordsAreTrue
  <2> SUFFICES ASSUME IInv PROVE RecordsAreTrue
    OBVIOUS
  <2>1. DurableTogether
    BY DEF IInv, Together, Agreeing, DurableTogether
  <2>2. InFlightVisible
    BY DEF IInv, Reliable, Told, InFlightVisible
  <2>3. LedgerAgrees
    <3> SUFFICES ASSUME Returned, ~FlakyCommits PROVE LedgerAgrees
      BY DEF LedgerAgrees
    <3>1. Told /\ outcome \in Outcomes /\ pc = "idle"
      BY DEF IInv, TypeOK, Reliable, Returned
    <3>2. \A r \in mine : session.unit[r] = "running" => LeftOpen(r)
      BY <3>1, LedgerStatus DEF Told, Phases
    <3> QED  BY <3>1, <3>2 DEF Told, LedgerAgrees
  <2> QED  BY <2>1, <2>2, <2>3 DEF RecordsAreTrue
<1> QED  BY Invariance, <1>1, PTL

(* A story is judged on a test run of the implementation it has, and a     *)
(* restart-fresh backend never skips it on the record of an earlier build. *)
THEOREM NothingIsStale == Spec => []NothingStale
<1>1. IInv => NothingStale
  BY DEF IInv, Place, Fresh, NothingStale, FreshRebuild
<1> QED  BY Invariance, <1>1, PTL

(* The overrun of the token cap is bounded by one draw, or by the two that *)
(* precede the first look at the budget.                                   *)
THEOREM OverrunBounded == Spec => []TokenOverrun
<1>1. IInv => TokenOverrun
  BY DEF IInv, Spending
<1> QED  BY Invariance, <1>1, PTL
=============================================================================
