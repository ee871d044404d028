---------------------------- MODULE VerifyProofs ----------------------------
(***************************************************************************)
(* Proofs about Verify for any requests, stories, backlogs and bodies: the *)
(* requests write in turn, and what is reported green was measured.  After *)
(* them, about the verdicts of Lab and DarkLaunch for any records, rules   *)
(* and answers, and about the records the mimic writes for any copybook.   *)
(***************************************************************************)
EXTENDS Verify, LabInputs, FiniteSetTheorems, FunctionTheorems, SequenceTheorems,
        WellFoundedInduction, TLAPS

(* The checks of the stories are inserted, if there are stories. *)
Checked == {"stage", "equivalence", "behaviour", "report", "commit"}

(* Every answered request had stories to compare. *)
OnStories == \A r \in Requests : pc[r] = "answered" => job[r].scope # {}

(* What holds of a request that is at a point with its locals j and rows.  *)
Typed(at, j, rows) ==
    /\ at \in Active \cup {"new", "answered", "failed"}
    /\ j \in Job
    /\ rows \subseteq Units \cup Others

(* Which rows it holds where it is. *)
Holding(at, j, rows) ==
    /\ at \notin Active => rows = {}
    /\ Row("check") \in rows <=> at \in Checked /\ j.scope # {}
    /\ Row("report") \in rows <=> at = "commit"
    /\ at \in {"narrow", "check", "equivalence", "behaviour"} => j.scope # {}
    /\ at \in {"behaviour", "report", "commit"} /\ j.scope # {} => Row("equivalence") \in rows

(* What it read is still so: the newest version of the kinds it inserted,  *)
(* and the status of the stage, as long as only stories were verified.     *)
Current(at, j, rows) ==
    /\ \A k \in Kinds : Row(k) \in rows => j.newest[k] = Newest(k)
    /\ OnStories /\ at \in Checked /\ j.scope # {} => j.status = stage
    /\ at \in Checked \ {"stage"} /\ j.scope # {} =>
          Row("stage") \in rows \/ j.status = Status(j.passed)

(* Its verdict is that of its records, which a repair does not change. *)
Measured(at, j, wrote) ==
    /\ j.passed => j.body \in Matching
    /\ j.kind = "repair" => j.scope # {}
    /\ at = "repair" => j.body \notin Matching /\ j.attempts < MaxRepair
    /\ wrote => at = "failed" \/ (at # "new" /\ j.body \notin Matching)

Good(r) ==
    /\ Typed(pc[r], job[r], locks[r])
    /\ Holding(pc[r], job[r], locks[r])
    /\ Current(pc[r], job[r], locks[r])
    /\ Measured(pc[r], job[r], r \in rewritten)

(* No row is written by two open transactions. *)
Exclusive == \A r, q \in Requests : r # q => locks[r] \cap locks[q] = {}

(* The versions of a kind have a last one. *)
HasTop(k) ==
    \E t \in Nat :
        /\ \A a \in artifacts[k] : a.after + a.rows <= t
        /\ t = 0 \/ \E a \in artifacts[k] : a.after + a.rows = t

History ==
    /\ \A k \in Kinds : HasTop(k)
    /\ HistoryIsTotal
    /\ \A a \in artifacts["report"] : a.rows = 1

LastVerdict ==
    OnStories /\ artifacts["report"] # {} =>
        LET passed == job[Latest(artifacts["report"]).by].passed
        IN  stage = Status(passed) /\ gates["equivalence"].verdict = passed

StoreTyped ==
    /\ units \subseteq Units
    /\ DOMAIN artifacts = Kinds /\ artifacts = [k \in Kinds |-> artifacts[k]]
    /\ \A k \in Kinds : artifacts[k] \subseteq Artifact
    /\ stage \in {"pending", "passed", "failed"}
    /\ gates \in [GateKeys -> GateRow]
    /\ rewritten \subseteq Requests
    /\ pc = [r \in Requests |-> pc[r]] /\ job = [r \in Requests |-> job[r]]
    /\ locks = [r \in Requests |-> locks[r]]

(* The inductive invariant. *)
IInv ==
    /\ StoreTyped
    /\ \A r \in Requests : Good(r)
    /\ Exclusive
    /\ History
    /\ LastVerdict

----------------------------------------------------------------------------
(* The rows of the ledger are no others. *)
LEMMA RowsApart == ASSUME NEW u \in Units, NEW k PROVE u # Row(k)
BY DEF Units, Row

LEMMA RowsOfJobs == ASSUME NEW j \in Job PROVE RowsOf(j) \subseteq Units
BY DEF RowsOf, Job, Units

LEMMA SubsliceRowsOfJobs == ASSUME NEW j \in Job PROVE SubsliceRows(j) \subseteq Units
<1>1. j.scope \subseteq Stories /\ j.body \in Bodies
  BY DEF Job
<1>2. Range(Parts[j.body]) \subseteq Slices
  <2>1. Parts[j.body] \in Seq(Slices)
    BY <1>1, VerifyAssumption DEF VerifyAssumption
  <2> QED  BY <2>1 DEF Range
<1>3. ASSUME NEW s \in j.scope, NEW p \in Range(Parts[j.body])
      PROVE  <<"subslice", {s}, p>> \in Units
  BY <1>1, <1>2 DEF Units
<1> QED  BY <1>3 DEF SubsliceRows

(* Looking for a row, reading versions and going over to other rows leave  *)
(* the verdict as it is.                                                   *)
SameRequest(j, i) ==
    /\ j \in Job /\ j.kind = i.kind /\ j.scope = i.scope /\ j.body = i.body
    /\ j.passed = i.passed /\ j.attempts = i.attempts /\ j.status = i.status

LEMMA LookKeeps ==
    ASSUME NEW j \in Job, units \subseteq Units, NEW todo \in SUBSET Units
    PROVE  LET i == [j EXCEPT !.todo = todo]
           IN  SameRequest(i, j) /\ SameRequest(Look(i), j)
<1> DEFINE i == [j EXCEPT !.todo = todo]
           seen == {u \in i.todo : IsNext(i, u)} \cap units
<1>1. SameRequest(i, j)
  BY DEF Job, SameRequest
<1>2. seen \in SUBSET Units /\ Look(i) = [i EXCEPT !.seen = seen]
  BY DEF Look
<1> HIDE DEF i, seen
<1>3. SameRequest(Look(i), i)
  BY <1>1, <1>2 DEF Job, SameRequest
<1>4. SameRequest(Look(i), j)
  BY <1>1, <1>3 DEF SameRequest
<1> QED  BY <1>1, <1>4 DEF i

LEMMA ReadChecksKeeps ==
    ASSUME NEW j \in Job, Newest("check") \in Nat
    PROVE  SameRequest(ReadChecks(j), j)
BY DEF ReadChecks, Job, Kinds, SameRequest

LEMMA RowNames ==
    /\ \A k, m : Row(k) = Row(m) => k = m
    /\ \A k \in Kinds \cup GateKeys \cup {"stage"} : Row(k) \in Others
BY DEF Row, Others

(* The last version is what Newest says. *)
LEMMA NewestIsTop ==
    ASSUME NEW k \in Kinds, HasTop(k), artifacts[k] \subseteq Artifact
    PROVE  /\ Newest(k) \in Nat
           /\ \A a \in artifacts[k] : a.after + a.rows <= Newest(k)
           /\ Newest(k) = 0 \/ \E a \in artifacts[k] : a.after + a.rows = Newest(k)
<1> DEFINE S == {a.after + a.rows : a \in artifacts[k]} \cup {0}
<1>1. PICK t \in Nat : /\ \A a \in artifacts[k] : a.after + a.rows <= t
                       /\ t = 0 \/ \E a \in artifacts[k] : a.after + a.rows = t
  BY DEF HasTop
<1>2. t \in S /\ \A s \in S : t >= s
  BY <1>1
<1>3. S \subseteq Nat
  BY DEF Artifact
<1>4. Newest(k) = CHOOSE x \in S : \A s \in S : x >= s
  BY DEF Newest, Max
<1> HIDE DEF S
<1> DEFINE IsTop(x) == x \in S /\ \A s \in S : x >= s
<1>5. IsTop(Newest(k))
  <2>1. Newest(k) = CHOOSE x : IsTop(x)
    BY <1>4
  <2>2. IsTop(t)
    BY <1>2
  <2> HIDE DEF IsTop
  <2> QED  BY <2>1, <2>2
<1>6. Newest(k) = t
  <2>1. Newest(k) \in Nat /\ t \in Nat /\ Newest(k) >= t /\ t >= Newest(k)
    BY <1>2, <1>3, <1>5
  <2> HIDE DEF IsTop
  <2> QED  BY <2>1
<1> QED  BY <1>1, <1>6

(* Nothing is known of a request that has no locals. *)
LEMMA NoJobIsJob == /\ NoJob \in Job /\ ~NoJob.passed /\ NoJob.kind = "verify"
                    /\ \A kind \in {"verify", "repair"}, list \in Seq(Stories), body \in Bodies :
                          /\ NewJob(kind, list, body) \in Job
                          /\ NewJob(kind, list, body).kind = kind
                          /\ NewJob(kind, list, body).scope = Range(list)
                          /\ NewJob(kind, list, body).body = body
                          /\ ~NewJob(kind, list, body).passed
<1> USE VerifyAssumption DEF VerifyAssumption
<1>1. (CHOOSE b \in Bodies : TRUE) \in Bodies
  OBVIOUS
<1>2. \A kind \in {"verify", "repair"}, list \in Seq(Stories), body \in Bodies :
         /\ NewJob(kind, list, body) \in Job
         /\ NewJob(kind, list, body).kind = kind
         /\ NewJob(kind, list, body).scope = Range(list)
         /\ NewJob(kind, list, body).body = body
         /\ ~NewJob(kind, list, body).passed
  <2> SUFFICES ASSUME NEW kind \in {"verify", "repair"}, NEW list \in Seq(Stories),
                      NEW body \in Bodies
               PROVE  /\ NewJob(kind, list, body) \in Job
                      /\ NewJob(kind, list, body).kind = kind
                      /\ NewJob(kind, list, body).scope = Range(list)
                      /\ NewJob(kind, list, body).body = body
                      /\ ~NewJob(kind, list, body).passed
    OBVIOUS
  <2>1. Range(list) \in SUBSET Stories
    BY DEF Range
  <2> QED  BY <2>1 DEF NewJob, Job
<1>3. <<>> \in Seq(Stories)
  OBVIOUS
<1>4. NoJob \in Job /\ ~NoJob.passed /\ NoJob.kind = "verify"
  <2> DEFINE b == CHOOSE x \in Bodies : TRUE
             none == <<>>
  <2>1. b \in Bodies /\ none \in Seq(Stories) /\ NoJob = NewJob("verify", none, b)
    BY <1>1, <1>3 DEF NoJob
  <2> HIDE DEF b, none
  <2> QED  BY ONLY <1>2, <2>1, Zenon
<1> QED  BY <1>2, <1>4

LEMMA InitInv == Init => IInv
<1> SUFFICES ASSUME Init PROVE IInv
  OBVIOUS
<1>1. StoreTyped
  BY DEF Init, StoreTyped, Kinds, GateKeys, NoGate, GateRow, Decisions
<1>2. ASSUME NEW r \in Requests PROVE Good(r)
  <2>1. pc[r] = "new" /\ job[r] = NoJob /\ locks[r] = {} /\ r \notin rewritten
    BY <1>2 DEF Init
  <2> QED  BY <2>1, NoJobIsJob DEF Good, Typed, Holding, Current, Measured, Active, Opening, Checked
<1>3. Exclusive
  BY DEF Init, Exclusive
<1>4. History
  <2>1. \A k \in Kinds : artifacts[k] = {}
    BY DEF Init
  <2>2. \A k \in Kinds : HasTop(k)
    BY <2>1 DEF HasTop
  <2> QED  BY <2>1, <2>2 DEF Init, History, HistoryIsTotal, Kinds
<1>5. LastVerdict
  BY DEF Init, LastVerdict, Kinds
<1> QED  BY <1>1, <1>2, <1>3, <1>4, <1>5 DEF IInv

----------------------------------------------------------------------------
(* The newest report is one of an answered request. *)
LEMMA LastReport ==
    ASSUME IInv, artifacts["report"] # {}
    PROVE  /\ Latest(artifacts["report"]) \in artifacts["report"]
           /\ Latest(artifacts["report"]).by \in Requests
           /\ pc[Latest(artifacts["report"]).by] = "answered"
<1> DEFINE S == artifacts["report"]
           IsLast(a) == a \in S /\ \A b \in S : b.after <= a.after
<1>1. "report" \in Kinds /\ S \subseteq Artifact
  BY DEF Kinds, IInv, StoreTyped
<1>2. \A a \in S : a.rows = 1 /\ a.after \in Nat /\ a.by \in Requests
  BY <1>1 DEF IInv, History, Artifact
<1>3. HasTop("report")
  BY <1>1 DEF IInv, History
<1>4. PICK t \in Nat : /\ \A a \in S : a.after + a.rows <= t
                       /\ t = 0 \/ \E a \in S : a.after + a.rows = t
  BY <1>3 DEF HasTop
<1>5. PICK a \in S : a.after + 1 = t
  BY <1>2, <1>4
<1>6. IsLast(a)
  BY <1>2, <1>4, <1>5
<1>7. Latest(S) = CHOOSE x : IsLast(x)
  BY DEF Latest
<1>8. IsLast(Latest(S))
  <2> HIDE DEF IsLast
  <2> QED  BY <1>6, <1>7
<1>9. Latest(S) \in S
  BY <1>8
<1>10. \A b \in S : pc[b.by] = "answered"
  BY <1>2 DEF IInv, History, HistoryIsTotal
<1> QED  BY <1>2, <1>9, <1>10

(* A step of one request that commits nothing and leaves it at a point     *)
(* with locals j and rows.                                                 *)
Quiet(r, at, j, rows) ==
    /\ pc[r] \notin {"answered", "failed"} /\ at # "answered"
    /\ pc' = [pc EXCEPT ![r] = at]
    /\ job' = [job EXCEPT ![r] = j]
    /\ locks' = [locks EXCEPT ![r] = rows]
    /\ \A q \in Requests \ {r} : rows \cap locks[q] = {}
    /\ UNCHANGED store
    /\ rewritten' \in {rewritten, rewritten \cup {r}}

LEMMA QuietStep ==
    ASSUME IInv, NEW r \in Requests, NEW at, NEW j, NEW rows, Quiet(r, at, j, rows),
           Typed(at, j, rows), Holding(at, j, rows), Current(at, j, rows),
           Measured(at, j, r \in rewritten')
    PROVE  IInv'
<1> USE DEF Quiet
<1>0. pc'[r] = at /\ job'[r] = j /\ locks'[r] = rows
  BY DEF IInv, StoreTyped
<1>1. /\ \A q \in Requests \ {r} : pc'[q] = pc[q] /\ job'[q] = job[q] /\ locks'[q] = locks[q]
      /\ UNCHANGED <<units, artifacts, stage, gates>>
      /\ \A q \in Requests \ {r} : q \in rewritten' <=> q \in rewritten
  BY DEF IInv, StoreTyped, store
<1>2. \A k : Newest(k)' = Newest(k)
  BY <1>1 DEF Newest
<1>3. OnStories' <=> OnStories
  BY <1>0, <1>1 DEF OnStories
<1>4. StoreTyped'
  BY <1>1 DEF IInv, StoreTyped
<1>5. ASSUME NEW q \in Requests PROVE Good(q)'
  <2>1. CASE q = r
    <3>1. Current(pc[r], job[r], locks[r])'
      BY <1>0, <1>1, <1>2, <1>3 DEF Current
    <3> QED  BY <1>0, <2>1, <3>1 DEF Good, Typed, Holding, Measured
  <2>2. CASE q # r
    <3>1. Good(q)
      BY DEF IInv
    <3>2. Current(pc[q], job[q], locks[q])'
      BY <1>1, <1>2, <1>3, <2>2, <3>1 DEF Good, Current
    <3> QED  BY <1>1, <2>2, <3>1, <3>2 DEF Good, Typed, Holding, Measured
  <2> QED  BY <2>1, <2>2
<1>6. Exclusive'
  <2>1. \A q \in Requests \ {r} : locks'[r] \cap locks[q] = {}
    BY DEF IInv, StoreTyped
  <2> QED  BY <1>0, <1>1, <2>1 DEF IInv, Exclusive
<1>7. History'
  <2>1. \A k \in Kinds : HasTop(k)'
    BY <1>1 DEF IInv, History, HasTop
  <2>2. \A q \in Requests : pc[q] = "answered" <=> pc'[q] = "answered"
    BY <1>0, <1>1
  <2>3. \A q \in Requests : pc[q] = "answered" => job'[q] = job[q]
    BY <1>0, <1>1
  <2>4. HistoryIsTotal'
    BY <1>1, <2>2, <2>3 DEF IInv, History, HistoryIsTotal
  <2> QED  BY <1>1, <2>1, <2>4 DEF IInv, History
<1>8. LastVerdict'
  <2> DEFINE last == Latest(artifacts["report"])
  <2> SUFFICES ASSUME OnStories, artifacts["report"] # {}
               PROVE  /\ stage = Status(job'[last.by].passed)
                      /\ gates["equivalence"].verdict = job'[last.by].passed
    BY <1>1, <1>3 DEF LastVerdict, Latest, Status
  <2>1. job'[last.by] = job[last.by]
    BY <1>1, LastReport
  <2> QED  BY <2>1 DEF IInv, LastVerdict
<1> QED  BY <1>4, <1>5, <1>6, <1>7, <1>8 DEF IInv

----------------------------------------------------------------------------
LEMMA RequestFacts ==
    ASSUME IInv, NEW r \in Requests
    PROVE  /\ Typed(pc[r], job[r], locks[r]) /\ Holding(pc[r], job[r], locks[r])
           /\ Current(pc[r], job[r], locks[r]) /\ Measured(pc[r], job[r], r \in rewritten)
           /\ \A k \in Kinds : Newest(k) \in Nat
           /\ stage \in {"pending", "passed", "failed"}
<1>1. \A k \in Kinds : Newest(k) \in Nat
  BY NewestIsTop DEF IInv, StoreTyped, History
<1> QED  BY <1>1 DEF IInv, Good, StoreTyped

(* The handler raises: nothing is left of the request. *)
LEMMA FailStep ==
    ASSUME IInv, NEW r \in Requests, pc[r] \in Active, Fail(r), UNCHANGED <<store, rewritten>>
    PROVE  IInv'
<1>1. Quiet(r, "failed", NoJob, {})
  BY DEF Fail, Quiet, Active, Opening
<1>2. Typed("failed", NoJob, {}) /\ Holding("failed", NoJob, {}) /\ Current("failed", NoJob, {})
  BY NoJobIsJob DEF Typed, Holding, Current, Active, Opening, Checked
<1>3. Measured("failed", NoJob, r \in rewritten')
  BY NoJobIsJob DEF Measured
<1> QED  BY <1>1, <1>2, <1>3, QuietStep

(* The rows that are free are nobody else's. *)
LEMMA ProceedQuiet ==
    ASSUME IInv, NEW r \in Requests, NEW rows, NEW j, NEW at, Proceed(r, rows, j, at),
           Free(r, rows), pc[r] \notin {"answered", "failed"}, at # "answered",
           UNCHANGED store, rewritten' \in {rewritten, rewritten \cup {r}}
    PROVE  Quiet(r, at, j, locks[r] \cup rows)
BY DEF Proceed, Quiet, Free, IInv, Exclusive

LEMMA NoRowsFree == ASSUME NEW r \in Requests PROVE Free(r, {})
BY DEF Free

LEMMA BeginStep ==
    ASSUME IInv, NEW r \in Requests, NEW kind \in {"verify", "repair"}, NEW list \in Seq(Stories),
           NEW body \in Bodies, kind = "repair" => Range(list) # {}, Begin(r, kind, list, body)
    PROVE  IInv'
<1> DEFINE n == NewJob(kind, list, body)
           j == Look([n EXCEPT !.todo = RowsOf(n)])
<1>1. pc[r] = "new" /\ Proceed(r, {}, j, "open") /\ UNCHANGED <<store, rewritten>>
  BY DEF Begin
<1>2. Quiet(r, "open", j, locks[r] \cup {})
  BY <1>1, ProceedQuiet, NoRowsFree
<1>3. n \in Job /\ n.kind = kind /\ n.scope = Range(list) /\ ~n.passed
  BY NoJobIsJob
<1>4. j \in Job /\ j.kind = kind /\ j.scope = Range(list) /\ ~j.passed
  <2>1. RowsOf(n) \in SUBSET Units
    BY <1>3, RowsOfJobs
  <2>2. SameRequest(j, n)
    <3> HIDE DEF n
    <3> QED  BY <1>3, <2>1, LookKeeps DEF IInv, StoreTyped
  <2> HIDE DEF n, j
  <2> QED  BY <1>3, <2>2 DEF SameRequest
<1>5. locks[r] = {} /\ r \notin rewritten
  BY <1>1, RequestFacts DEF Holding, Measured, Active, Opening
<1> HIDE DEF j
<1>6. Typed("open", j, {}) /\ Holding("open", j, {}) /\ Current("open", j, {})
  BY <1>4 DEF Typed, Holding, Current, Active, Opening, Checked
<1>7. Measured("open", j, r \in rewritten')
  BY <1>1, <1>4, <1>5 DEF Measured
<1> QED  BY <1>2, <1>5, <1>6, <1>7, QuietStep

(* Another row of the ledger is written. *)
LEMMA RowStep ==
    ASSUME IInv, NEW r \in Requests, pc[r] \in Opening, NEW u \in Units, NEW j, NEW at,
           Proceed(r, {u}, j, at), Free(r, {u}), UNCHANGED <<store, rewritten>>,
           SameRequest(j, job[r]), at \in {"open", "narrow", "compare", "check"},
           at \in {"narrow", "check"} => j.scope # {}
    PROVE  IInv'
<1> USE DEF SameRequest
<1>1. Quiet(r, at, j, locks[r] \cup {u})
  BY ProceedQuiet DEF Opening
<1>2. {u} \subseteq Units /\ \A k : Row(k) # u
  BY RowsApart
<1>3. Typed(at, j, locks[r] \cup {u})
  BY <1>2, RequestFacts DEF Typed, Active, Opening
<1>4. Holding(at, j, locks[r] \cup {u})
  BY <1>2, RequestFacts DEF Holding, Active, Opening, Checked
<1>5. Current(at, j, locks[r] \cup {u})
  <2>1. \A k \in Kinds : Row(k) \notin locks[r] \cup {u}
    BY <1>2, RequestFacts DEF Holding, Opening, Checked, Kinds
  <2> QED  BY <2>1 DEF Current, Checked
<1>6. Measured(at, j, r \in rewritten')
  BY RequestFacts DEF Measured, Opening
<1> QED  BY <1>1, <1>3, <1>4, <1>5, <1>6, QuietStep

LEMMA OpenStep == ASSUME IInv, NEW r \in Requests, Open(r) PROVE IInv'
<1>1. PICK u \in job[r].todo :
         /\ Free(r, {u})
         /\ Opened(r, u, [job[r] EXCEPT !.todo = @ \ {u}]) \/ Fail(r)
  BY DEF Open
<1>2. pc[r] \in Opening /\ UNCHANGED <<store, rewritten>>
  BY DEF Open
<1>3. job[r] \in Job /\ units \subseteq Units /\ Newest("check") \in Nat
  BY RequestFacts DEF Typed, Kinds, IInv, StoreTyped
<1>4. u \in Units /\ job[r].todo \ {u} \in SUBSET Units
  BY <1>3 DEF Job
<1>5. CASE Fail(r)
  BY <1>2, <1>5, FailStep DEF Active
<1>6. CASE Opened(r, u, [job[r] EXCEPT !.todo = @ \ {u}])
  <2> DEFINE j == [job[r] EXCEPT !.todo = job[r].todo \ {u}]
  <2>1. SameRequest(j, job[r]) /\ SameRequest(Look(j), job[r])
    BY <1>3, <1>4, LookKeeps
  <2>2. Opened(r, u, j)
    BY <1>6
  <2> HIDE DEF j
  <2>3. CASE Proceed(r, {u}, Look(j), pc[r])
    <3>1. pc[r] \in {"open", "narrow"} /\ (pc[r] = "narrow" => Look(j).scope # {})
      BY <1>2, <2>1, RequestFacts DEF SameRequest, Holding, Opening
    <3> QED  BY <1>1, <1>2, <1>4, <2>1, <2>3, <3>1, RowStep
  <2>4. CASE Proceed(r, {u}, j, "compare")
    BY <1>1, <1>2, <1>4, <2>1, <2>4, RowStep
  <2>5. CASE pc[r] = "narrow" /\ Proceed(r, {u}, ReadChecks(j), "check")
    <3> DEFINE c == ReadChecks(j)
    <3>1. SameRequest(c, job[r])
      BY <1>3, <2>1, ReadChecksKeeps DEF SameRequest
    <3>2. c.scope # {}
      BY <2>5, <3>1, RequestFacts DEF SameRequest, Holding
    <3>3. Proceed(r, {u}, c, "check")
      BY <2>5
    <3> HIDE DEF c
    <3> QED  BY <1>1, <1>2, <1>4, <3>1, <3>2, <3>3, RowStep
  <2> QED  BY <2>2, <2>3, <2>4, <2>5 DEF Opened
<1> QED  BY <1>1, <1>5, <1>6

(* The comparisons decide the verdict: of matching records only. *)
LEMMA CompareStep ==
    ASSUME IInv, NEW r \in Requests, NEW partial \in SUBSET Stories, Compare(r, partial)
    PROVE  IInv'
<1> DEFINE ok == OkStories(job[r], partial)
           verdict == IF job[r].scope = {} THEN job[r].body \in Matching ELSE ok = job[r].scope
           j == [job[r] EXCEPT !.ok = ok, !.passed = verdict]
           jc == ReadChecks(j)
           jn == Look([j EXCEPT !.todo = SubsliceRows(j)])
           js == [j EXCEPT !.status = stage]
<1>1. /\ pc[r] = "compare" /\ (partial # {} => j.kind = "verify")
      /\ UNCHANGED <<store, rewritten>>
      /\ \/ j.kind = "repair" /\ ~j.passed /\ j.attempts < MaxRepair /\ Proceed(r, {}, j, "repair")
         \/ j.scope # {} /\ Proceed(r, {}, jc, "check")
         \/ j.scope # {} /\ Proceed(r, {}, jn, "narrow")
         \/ j.scope = {} /\ Proceed(r, {}, js, "stage")
  BY DEF Compare
<1>2. job[r] \in Job /\ locks[r] \subseteq Units \cup Others /\ Newest("check") \in Nat
  BY RequestFacts DEF Typed, Kinds
<1>3. /\ ok \in SUBSET Stories /\ verdict \in BOOLEAN
      /\ verdict => job[r].body \in Matching
      /\ job[r].body \in Matching /\ partial = {} => verdict
  <2>1. job[r].scope \in SUBSET Stories
    BY <1>2 DEF Job
  <2>2. CASE job[r].body \in Matching
    BY <2>1, <2>2 DEF OkStories
  <2>3. CASE job[r].body \notin Matching
    <3>1. ok = {}
      BY <2>3 DEF OkStories
    <3> HIDE DEF ok
    <3>2. verdict = FALSE
      BY <2>3, <3>1
    <3> QED  BY <2>3, <3>1, <3>2
  <2> QED  BY <2>2, <2>3
<1> HIDE DEF ok, verdict
<1>4. /\ j \in Job /\ j.kind = job[r].kind /\ j.scope = job[r].scope /\ j.body = job[r].body
      /\ j.passed = verdict
  BY <1>2, <1>3 DEF Job
<1> HIDE DEF j
<1>5. /\ jc \in Job /\ jc.kind = j.kind /\ jc.scope = j.scope /\ jc.body = j.body
      /\ jc.passed = j.passed
  BY <1>2, <1>4, ReadChecksKeeps DEF SameRequest
<1>6. /\ jn \in Job /\ jn.kind = j.kind /\ jn.scope = j.scope /\ jn.body = j.body
       /\ jn.passed = j.passed
  <2>1. SubsliceRows(j) \in SUBSET Units /\ units \subseteq Units
    BY <1>4, SubsliceRowsOfJobs DEF IInv, StoreTyped
  <2> QED  BY <1>4, <2>1, LookKeeps DEF SameRequest
<1>7. /\ js \in Job /\ js.kind = j.kind /\ js.scope = j.scope /\ js.body = j.body
      /\ js.passed = j.passed /\ js.status = stage
  BY <1>4, RequestFacts DEF Job
<1> HIDE DEF jc, jn, js
<1>8. /\ Row("check") \notin locks[r] /\ Row("report") \notin locks[r]
      /\ r \in rewritten => job[r].body \notin Matching
      /\ job[r].kind = "repair" => job[r].scope # {}
      /\ \A k \in Kinds : Row(k) \notin locks[r]
  BY <1>1, RequestFacts DEF Holding, Measured, Checked, Kinds
<1>9. CASE j.kind = "repair" /\ ~j.passed /\ j.attempts < MaxRepair /\ Proceed(r, {}, j, "repair")
  <2>1. Quiet(r, "repair", j, locks[r] \cup {})
    BY <1>1, <1>9, ProceedQuiet, NoRowsFree
  <2>2. j.body \notin Matching
    BY <1>1, <1>3, <1>4, <1>9
  <2>3. Typed("repair", j, locks[r]) /\ Holding("repair", j, locks[r]) /\ Current("repair", j, locks[r])
    BY <1>2, <1>4, <1>8 DEF Typed, Holding, Current, Active, Opening, Checked
  <2>4. Measured("repair", j, r \in rewritten')
    BY <1>1, <1>4, <1>8, <1>9, <2>2 DEF Measured
  <2> QED  BY <2>1, <2>3, <2>4, QuietStep
<1>10. CASE j.scope # {} /\ Proceed(r, {}, jc, "check")
  <2>1. Quiet(r, "check", jc, locks[r] \cup {})
    BY <1>1, <1>10, ProceedQuiet, NoRowsFree
  <2>2. Typed("check", jc, locks[r]) /\ Holding("check", jc, locks[r]) /\ Current("check", jc, locks[r])
    BY <1>2, <1>5, <1>8, <1>10 DEF Typed, Holding, Current, Active, Opening, Checked
  <2>3. Measured("check", jc, r \in rewritten')
    BY <1>1, <1>3, <1>4, <1>5, <1>8 DEF Measured
  <2> QED  BY <2>1, <2>2, <2>3, QuietStep
<1>11. CASE j.scope # {} /\ Proceed(r, {}, jn, "narrow")
  <2>1. Quiet(r, "narrow", jn, locks[r] \cup {})
    BY <1>1, <1>11, ProceedQuiet, NoRowsFree
  <2>2. Typed("narrow", jn, locks[r]) /\ Holding("narrow", jn, locks[r]) /\ Current("narrow", jn, locks[r])
    BY <1>2, <1>8, <1>6, <1>11 DEF Typed, Holding, Current, Active, Opening, Checked
  <2>3. Measured("narrow", jn, r \in rewritten')
    BY <1>1, <1>3, <1>4, <1>8, <1>6 DEF Measured
  <2> QED  BY <2>1, <2>2, <2>3, QuietStep
<1>12. CASE j.scope = {} /\ Proceed(r, {}, js, "stage")
  <2>1. Quiet(r, "stage", js, locks[r] \cup {})
    BY <1>1, <1>12, ProceedQuiet, NoRowsFree
  <2>2. Typed("stage", js, locks[r]) /\ Holding("stage", js, locks[r]) /\ Current("stage", js, locks[r])
    BY <1>2, <1>7, <1>8, <1>12 DEF Typed, Holding, Current, Active, Opening, Checked
  <2>3. Measured("stage", js, r \in rewritten')
    BY <1>1, <1>3, <1>4, <1>7, <1>8 DEF Measured
  <2> QED  BY <2>1, <2>2, <2>3, QuietStep
<1> QED  BY <1>1, <1>9, <1>10, <1>12, <1>11

LEMMA RepairStep == ASSUME IInv, NEW r \in Requests, Repair(r) PROVE IInv'
<1> DEFINE j == [job[r] EXCEPT !.attempts = @ + 1]
<1>1. /\ pc[r] = "repair" /\ Proceed(r, {}, j, "compare") /\ rewritten' = rewritten \cup {r}
      /\ UNCHANGED store
  BY DEF Repair
<1>2. Quiet(r, "compare", j, locks[r] \cup {})
  BY <1>1, ProceedQuiet, NoRowsFree
<1>3. job[r] \in Job /\ job[r].attempts < MaxRepair /\ MaxRepair \in Nat
  BY <1>1, RequestFacts, VerifyAssumption DEF Typed, Measured, VerifyAssumption
<1>4. j \in Job /\ j.kind = job[r].kind /\ j.scope = job[r].scope /\ j.body = job[r].body
      /\ j.passed = job[r].passed
  <2> DEFINE n == job[r].attempts + 1
  <2>1. n \in 0..MaxRepair /\ j = [job[r] EXCEPT !.attempts = n]
    BY <1>3 DEF Job
  <2> HIDE DEF n, j
  <2> QED  BY <1>3, <2>1 DEF Job
<1> HIDE DEF j
<1>5. /\ Row("check") \notin locks[r] /\ Row("report") \notin locks[r]
      /\ locks[r] \subseteq Units \cup Others
  BY <1>1, RequestFacts DEF Typed, Holding, Checked
<1>6. /\ Typed("compare", j, locks[r]) /\ Holding("compare", j, locks[r])
      /\ Current("compare", j, locks[r])
  BY <1>4, <1>5 DEF Typed, Holding, Current, Active, Opening, Checked, Kinds
<1>7. Measured("compare", j, r \in rewritten')
  BY <1>1, <1>4, RequestFacts DEF Measured
<1> QED  BY <1>2, <1>6, <1>7, QuietStep

(* An insert is made under the newest version. *)
LEMMA ChecksStep == ASSUME IInv, NEW r \in Requests, Checks(r) PROVE IInv'
<1> DEFINE j == [job[r] EXCEPT !.status = stage]
           rows == {Row("check")}
<1>1. /\ pc[r] = "check" /\ Free(r, rows) /\ UNCHANGED <<store, rewritten>>
      /\ \/ Newest("check") = job[r].newest["check"] /\ Proceed(r, rows, j, "stage")
         \/ Fail(r)
  BY DEF Checks, Insert
<1>2. CASE Fail(r)
  BY <1>1, <1>2, FailStep DEF Active, Opening
<1>3. CASE Newest("check") = job[r].newest["check"] /\ Proceed(r, rows, j, "stage")
  <2>1. Quiet(r, "stage", j, locks[r] \cup rows)
    BY <1>1, <1>3, ProceedQuiet
  <2>2. j \in Job /\ j.kind = job[r].kind /\ j.scope = job[r].scope /\ j.body = job[r].body
        /\ j.passed = job[r].passed /\ j.newest = job[r].newest /\ j.status = stage
    BY RequestFacts DEF Typed, Job
  <2> HIDE DEF j
  <2>3. /\ Row("report") \notin locks[r] /\ Row("report") # Row("check") /\ j.scope # {}
        /\ \A k \in Kinds : Row(k) \in locks[r] \cup rows => j.newest[k] = Newest(k)
    BY <1>1, <1>3, <2>2, RequestFacts, RowNames DEF Holding, Current
  <2>4. Typed("stage", j, locks[r] \cup rows)
    BY <2>2, RequestFacts, RowNames DEF Typed, Active, Opening, Kinds
  <2>5. Holding("stage", j, locks[r] \cup rows) /\ Current("stage", j, locks[r] \cup rows)
    BY <2>2, <2>3 DEF Holding, Current, Active, Opening, Checked
  <2>6. Measured("stage", j, r \in rewritten')
    BY <1>1, <2>2, RequestFacts DEF Measured
  <2> QED  BY <2>1, <2>4, <2>5, <2>6, QuietStep
<1> QED  BY <1>1, <1>2, <1>3

LEMMA ReportStep == ASSUME IInv, NEW r \in Requests, Report(r) PROVE IInv'
<1> DEFINE rows == {Row("report")}
<1>1. /\ pc[r] = "report" /\ Free(r, rows) /\ UNCHANGED <<store, rewritten>>
      /\ \/ Newest("report") = job[r].newest["report"] /\ Proceed(r, rows, job[r], "commit")
         \/ Fail(r)
  BY DEF Report, Insert
<1>2. CASE Fail(r)
  BY <1>1, <1>2, FailStep DEF Active, Opening
<1>3. CASE Newest("report") = job[r].newest["report"] /\ Proceed(r, rows, job[r], "commit")
  <2>1. Quiet(r, "commit", job[r], locks[r] \cup rows)
    BY <1>1, <1>3, ProceedQuiet
  <2>2. Typed("commit", job[r], locks[r] \cup rows)
    BY RequestFacts, RowNames DEF Typed, Active, Opening, Kinds
  <2>3. Holding("commit", job[r], locks[r] \cup rows)
    BY <1>1, RequestFacts, RowNames DEF Holding, Active, Opening, Checked
  <2>4. Current("commit", job[r], locks[r] \cup rows)
    BY <1>1, <1>3, RequestFacts, RowNames DEF Current, Checked
  <2>5. Measured("commit", job[r], r \in rewritten')
    BY <1>1, RequestFacts DEF Measured
  <2> QED  BY <2>1, <2>2, <2>3, <2>4, <2>5, QuietStep
<1> QED  BY <1>1, <1>2, <1>3

(* A change of locals that keeps what the invariant reads of them. *)
SameVerdict(j, i) ==
    /\ j \in Job /\ j.kind = i.kind /\ j.scope = i.scope /\ j.body = i.body
    /\ j.passed = i.passed /\ j.status = i.status /\ j.newest["check"] = i.newest["check"]

(* The steps between the checks and the report take rows and go on. *)
LEMMA WriteStep ==
    ASSUME IInv, NEW r \in Requests, NEW rows, NEW j, NEW at,
           pc[r] \in {"stage", "equivalence", "behaviour"}, Proceed(r, rows, j, at), Free(r, rows),
           SameVerdict(j, job[r]), rows \subseteq {Row(k) : k \in GateKeys \cup {"stage"}},
           at \in {"equivalence", "behaviour", "report"},
           at \in {"equivalence", "behaviour"} => j.scope # {},
           at \in {"behaviour", "report"} /\ j.scope # {} => Row("equivalence") \in locks[r] \cup rows,
           j.scope # {} => Row("stage") \in locks[r] \cup rows \/ j.status = Status(j.passed),
           UNCHANGED <<store, rewritten>>
    PROVE  IInv'
<1> USE DEF SameVerdict
<1>1. Quiet(r, at, j, locks[r] \cup rows)
  BY ProceedQuiet
<1>2. /\ Row("report") \notin rows /\ Row("check") \notin rows /\ rows \subseteq Others
  BY RowNames DEF GateKeys
<1>3. Typed(at, j, locks[r] \cup rows)
  BY <1>2, RequestFacts DEF Typed, Active, Opening
<1>4. Holding(at, j, locks[r] \cup rows)
  BY <1>2, RequestFacts DEF Holding, Active, Opening, Checked
<1>5. Current(at, j, locks[r] \cup rows)
  BY <1>2, RequestFacts DEF Current, Holding, Checked, Kinds
<1>6. Measured(at, j, r \in rewritten')
  BY RequestFacts DEF Measured
<1> QED  BY <1>1, <1>3, <1>4, <1>5, <1>6, QuietStep

LEMMA SetStageStep == ASSUME IInv, NEW r \in Requests, SetStage(r) PROVE IInv'
<1> DEFINE rows == IF job[r].status = Status(job[r].passed) THEN {} ELSE {Row("stage")}
           jn == [job[r] EXCEPT !.newest["report"] = Newest("report")]
<1>1. /\ pc[r] = "stage" /\ Free(r, rows) /\ UNCHANGED <<store, rewritten>>
      /\ \/ job[r].scope = {} /\ Proceed(r, rows, jn, "report")
         \/ job[r].scope # {} /\ Proceed(r, rows, job[r], "equivalence")
  BY DEF SetStage
<1>2. /\ rows \subseteq {Row(k) : k \in GateKeys \cup {"stage"}}
      /\ Row("stage") \in locks[r] \cup rows \/ job[r].status = Status(job[r].passed)
  OBVIOUS
<1>3. SameVerdict(jn, job[r]) /\ SameVerdict(job[r], job[r])
  BY RequestFacts DEF Typed, SameVerdict, Job, Kinds
<1> HIDE DEF rows, jn
<1>4. CASE job[r].scope = {} /\ Proceed(r, rows, jn, "report")
  <2>1. jn.scope = {}
    BY <1>3, <1>4 DEF SameVerdict
  <2> QED  BY <1>1, <1>2, <1>3, <1>4, <2>1, WriteStep
<1>5. CASE job[r].scope # {} /\ Proceed(r, rows, job[r], "equivalence")
  BY <1>1, <1>2, <1>3, <1>5, WriteStep
<1> QED  BY <1>1, <1>4, <1>5

LEMMA GateStep ==
    ASSUME IInv, NEW r \in Requests, Equivalence(r) \/ \E covered \in BOOLEAN : Behaviour(r, covered)
    PROVE  IInv'
<1> DEFINE jn == [job[r] EXCEPT !.newest["report"] = Newest("report")]
<1>1. UNCHANGED <<store, rewritten>> /\ pc[r] \in {"equivalence", "behaviour"}
  BY DEF Equivalence, Behaviour
<1>2. /\ job[r] \in Job /\ job[r].scope # {} /\ Newest("report") \in Nat
      /\ Row("stage") \in locks[r] \/ job[r].status = Status(job[r].passed)
      /\ pc[r] = "behaviour" => Row("equivalence") \in locks[r]
  BY <1>1, RequestFacts DEF Typed, Holding, Current, Checked, Kinds
<1>3. /\ SameVerdict(jn, job[r]) /\ SameVerdict(job[r], job[r])
      /\ \A covered \in BOOLEAN :
            SameVerdict([job[r] EXCEPT !.covered = covered, !.newest["report"] = Newest("report")],
                        job[r])
  BY <1>2 DEF SameVerdict, Job, Kinds
<1> HIDE DEF jn
<1>4. /\ {Row("equivalence")} \subseteq {Row(k) : k \in GateKeys \cup {"stage"}}
      /\ {Row("behaviour")} \subseteq {Row(k) : k \in GateKeys \cup {"stage"}}
  BY DEF GateKeys
<1>5. CASE Equivalence(r)
  <2>1. /\ Free(r, {Row("equivalence")})
        /\ \/ Proceed(r, {Row("equivalence")}, jn, "report")
           \/ Proceed(r, {Row("equivalence")}, job[r], "behaviour")
    BY <1>5 DEF Equivalence, jn
  <2>2. CASE Proceed(r, {Row("equivalence")}, jn, "report")
    <3>1. /\ jn.scope # {} /\ jn.status = job[r].status /\ jn.passed = job[r].passed
          /\ SameVerdict(jn, job[r])
      BY <1>2, <1>3 DEF SameVerdict
    <3>2. /\ Row("equivalence") \in locks[r] \cup {Row("equivalence")}
          /\ Row("stage") \in locks[r] \cup {Row("equivalence")} \/ jn.status = Status(jn.passed)
      BY <1>2, <3>1
    <3>3. Free(r, {Row("equivalence")})
      BY <2>1
    <3> QED  BY <1>1, <1>4, <2>2, <3>1, <3>2, <3>3, WriteStep
  <2>3. CASE Proceed(r, {Row("equivalence")}, job[r], "behaviour")
    BY <1>1, <1>2, <1>3, <1>4, <2>1, <2>3, WriteStep
  <2> QED  BY <2>1, <2>2, <2>3
<1>6. ASSUME NEW covered \in BOOLEAN, Behaviour(r, covered) PROVE IInv'
  <2> DEFINE jb == [job[r] EXCEPT !.covered = covered, !.newest["report"] = Newest("report")]
  <2>1. /\ pc[r] = "behaviour" /\ Free(r, {Row("behaviour")})
        /\ Proceed(r, {Row("behaviour")}, jb, "report")
    BY <1>6 DEF Behaviour
  <2>2. SameVerdict(jb, job[r])
    BY <1>3
  <2> HIDE DEF jb
  <2> QED  BY <1>1, <1>2, <1>4, <2>1, <2>2, WriteStep DEF SameVerdict
<1> QED  BY <1>5, <1>6
(* A request that has written a kind's rows appends to that kind. *)
Ordered(k) ==
    /\ \A a, b \in artifacts[k] :
         a # b => a.after + a.rows <= b.after \/ b.after + b.rows <= a.after
    /\ \A a \in artifacts[k] : a.after = 0 \/ \E b \in artifacts[k] : b.after + b.rows = a.after

LEMMA Appended ==
    ASSUME NEW k \in Kinds, HasTop(k), artifacts[k] \subseteq Artifact, Ordered(k),
           NEW n \in Nat, NEW r \in Requests,
           artifacts'[k] = artifacts[k] \cup {[after |-> Newest(k), rows |-> n, by |-> r]}
    PROVE  HasTop(k)' /\ Ordered(k)' /\ artifacts'[k] \subseteq Artifact
<1> DEFINE new == [after |-> Newest(k), rows |-> n, by |-> r]
<1>1. /\ Newest(k) \in Nat
      /\ \A a \in artifacts[k] : a.after + a.rows <= Newest(k)
      /\ Newest(k) = 0 \/ \E a \in artifacts[k] : a.after + a.rows = Newest(k)
  BY NewestIsTop
<1>2. /\ new \in Artifact /\ new.after = Newest(k) /\ new.rows = n
      /\ artifacts'[k] = artifacts[k] \cup {new}
  BY <1>1 DEF Artifact
<1> HIDE DEF new
<1>3. artifacts'[k] \subseteq Artifact
  BY <1>2
<1>4. \A a \in artifacts'[k] : a.after \in Nat /\ a.rows \in Nat
  BY <1>3 DEF Artifact
<1>5. HasTop(k)'
  <2>1. Newest(k) + n \in Nat /\ new.after + new.rows = Newest(k) + n /\ new \in artifacts'[k]
    BY <1>1, <1>2
  <2>2. \A a \in artifacts'[k] : a.after + a.rows <= Newest(k) + n
    BY <1>1, <1>2, <1>4
  <2> QED  BY <2>1, <2>2 DEF HasTop
<1>6. \A a, b \in artifacts'[k] :
        a # b => a.after + a.rows <= b.after \/ b.after + b.rows <= a.after
  BY <1>1, <1>2 DEF Ordered
<1>7. \A a \in artifacts'[k] : a.after = 0 \/ \E b \in artifacts'[k] : b.after + b.rows = a.after
  BY <1>1, <1>2 DEF Ordered
<1> QED  BY <1>3, <1>5, <1>6, <1>7 DEF Ordered
(* The other kinds stay as they are. *)
LEMMA Kept ==
    ASSUME NEW k \in Kinds, HasTop(k), artifacts[k] \subseteq Artifact, Ordered(k),
           artifacts'[k] = artifacts[k]
    PROVE  /\ HasTop(k)' /\ Ordered(k)' /\ artifacts'[k] \subseteq Artifact
           /\ Newest(k)' = Newest(k)
BY DEF HasTop, Ordered, Newest

LEMMA CommitStep == ASSUME IInv, NEW r \in Requests, Commit(r) PROVE IInv'
<1> DEFINE j == job[r]
           n == Cardinality(j.scope)
           check == [after |-> Newest("check"), rows |-> n, by |-> r]
           report == [after |-> Newest("report"), rows |-> 1, by |-> r]
           told == IF Row("equivalence") \in locks[r]
                   THEN Upsert(gates["equivalence"], gates["equivalence"].status, j.passed)
                   ELSE gates["equivalence"]
           covered == IF Row("behaviour") \in locks[r]
                      THEN Upsert(gates["behaviour"], gates["behaviour"].status, j.covered)
                      ELSE gates["behaviour"]
<1>1. /\ pc[r] = "commit" /\ j \in Job
      /\ Row("report") \in locks[r] /\ (Row("check") \in locks[r] <=> j.scope # {})
      /\ j.newest["report"] = Newest("report")
      /\ j.scope # {} => j.newest["check"] = Newest("check")
      /\ j.scope # {} => Row("equivalence") \in locks[r]
      /\ j.scope # {} => Row("stage") \in locks[r] \/ j.status = Status(j.passed)
      /\ OnStories /\ j.scope # {} => j.status = stage
  <2>1. pc[r] = "commit"
    BY DEF Commit
  <2> QED  BY <2>1, RequestFacts DEF Typed, Holding, Current, Checked, Kinds
<1>2. /\ pc' = [pc EXCEPT ![r] = "answered"] /\ locks' = [locks EXCEPT ![r] = {}]
      /\ UNCHANGED <<job, rewritten>> /\ units' = units \cup (locks[r] \cap Units)
      /\ stage' = IF Row("stage") \in locks[r] THEN Status(j.passed) ELSE stage
      /\ gates' = [gates EXCEPT !["equivalence"] = told, !["behaviour"] = covered]
  BY DEF Commit
<1>3. n \in Nat
  BY <1>1, VerifyAssumption, FS_Subset, FS_CardinalityType DEF Job, VerifyAssumption
<1>4. artifacts' = [artifacts EXCEPT
                      !["check"] = @ \cup IF j.scope # {} THEN {check} ELSE {},
                      !["report"] = @ \cup {report}]
  BY <1>1 DEF Commit
<1>5. /\ Kinds = {"check", "report"} /\ "check" \in Kinds /\ "report" \in Kinds
      /\ artifacts'["report"] = artifacts["report"] \cup {report}
      /\ j.scope # {} => artifacts'["check"] = artifacts["check"] \cup {check}
      /\ j.scope = {} => artifacts'["check"] = artifacts["check"]
      /\ DOMAIN artifacts' = Kinds /\ artifacts' = [k \in Kinds |-> artifacts'[k]]
  <2>1. Kinds = {"check", "report"} /\ artifacts = [k \in Kinds |-> artifacts[k]]
    BY DEF IInv, StoreTyped, Kinds
  <2> HIDE DEF check, report
  <2> QED  BY <1>4, <2>1
<1>6. \A k \in Kinds : HasTop(k) /\ artifacts[k] \subseteq Artifact /\ Ordered(k) /\ Newest(k) \in Nat
  BY NewestIsTop DEF IInv, StoreTyped, History, HistoryIsTotal, Ordered
<1>7. \A k \in Kinds : HasTop(k)' /\ artifacts'[k] \subseteq Artifact /\ Ordered(k)'
  <2>1. HasTop("report")' /\ artifacts'["report"] \subseteq Artifact /\ Ordered("report")'
    BY <1>5, <1>6, Appended
  <2>2. HasTop("check")' /\ artifacts'["check"] \subseteq Artifact /\ Ordered("check")'
    <3>1. CASE j.scope # {}
      BY <1>3, <1>5, <1>6, <3>1, Appended
    <3>2. CASE j.scope = {}
      BY <1>5, <1>6, <3>2, Kept
    <3> QED  BY <3>1, <3>2
  <2> QED  BY <1>5, <2>1, <2>2
<1>8. /\ check.by = r /\ report.by = r /\ report.after = Newest("report") /\ report.rows = 1
  OBVIOUS
<1>9. /\ pc'[r] = "answered" /\ locks'[r] = {} /\ job' = job
      /\ \A q \in Requests \ {r} : pc'[q] = pc[q] /\ locks'[q] = locks[q]
  BY <1>2 DEF IInv, StoreTyped
<1> HIDE DEF check, report
<1>10. StoreTyped'
  <2>1. units' \subseteq Units
    BY <1>2 DEF IInv, StoreTyped
  <2>2. stage' \in {"pending", "passed", "failed"}
    BY <1>2 DEF IInv, StoreTyped, Status
  <2>3. j.passed \in BOOLEAN /\ j.covered \in BOOLEAN
    BY <1>1 DEF Job
  <2>4. ASSUME NEW g \in GateRow, NEW passed \in BOOLEAN PROVE Upsert(g, g.status, passed) \in GateRow
    BY DEF Upsert, GateRow, Decisions, Resolved
  <2>5. gates["equivalence"] \in GateRow /\ gates["behaviour"] \in GateRow
    BY DEF IInv, StoreTyped, GateKeys
  <2>6. told \in GateRow /\ covered \in GateRow
    BY <2>3, <2>4, <2>5
  <2> HIDE DEF told, covered
  <2>7. gates' \in [GateKeys -> GateRow]
    BY <1>2, <2>6 DEF IInv, StoreTyped, GateKeys
  <2> QED  BY <1>2, <1>5, <1>7, <2>1, <2>2, <2>7 DEF IInv, StoreTyped
<1>11. OnStories' => OnStories /\ j.scope # {}
  BY <1>1, <1>9 DEF OnStories
<1>12. ASSUME NEW q \in Requests PROVE Good(q)'
  <2>1. CASE q = r
    <3>1. Typed(pc[q], job[q], locks[q])' /\ Holding(pc[q], job[q], locks[q])'
      BY <1>1, <1>9, <2>1 DEF Typed, Holding, Active, Opening, Checked
    <3>2. Current(pc[q], job[q], locks[q])'
      BY <1>9, <2>1 DEF Current, Checked
    <3>3. Measured(pc[q], job[q], q \in rewritten)'
      BY <1>1, <1>2, <1>9, <2>1, RequestFacts DEF Measured
    <3> QED  BY <3>1, <3>2, <3>3 DEF Good
  <2>2. CASE q # r
    <3>1. /\ Typed(pc[q], job[q], locks[q]) /\ Holding(pc[q], job[q], locks[q])
          /\ Current(pc[q], job[q], locks[q]) /\ Measured(pc[q], job[q], q \in rewritten)
          /\ locks[q] \cap locks[r] = {}
      BY <2>2, RequestFacts DEF IInv, Exclusive
    <3>2. pc'[q] = pc[q] /\ job'[q] = job[q] /\ locks'[q] = locks[q]
      BY <1>9, <2>2
    <3>3. \A k \in Kinds : Row(k) \in locks[q] => Newest(k)' = Newest(k)
      <4>1. ASSUME Row("check") \in locks[q] PROVE Newest("check")' = Newest("check")
        <5>1. artifacts'["check"] = artifacts["check"]
          BY <1>1, <1>5, <3>1, <4>1
        <5> QED  BY <1>5, <1>6, <5>1, Kept
      <4>2. Row("report") \notin locks[q]
        BY <1>1, <3>1
      <4> QED  BY <1>5, <4>1, <4>2
    <3>4. ASSUME OnStories' PROVE ~(pc[q] \in Checked /\ job[q].scope # {})
      BY <1>1, <1>11, <3>1, <3>4 DEF Holding
    <3>5. Current(pc[q], job[q], locks[q])'
      BY <3>1, <3>2, <3>3, <3>4 DEF Current
    <3>6. q \in rewritten' <=> q \in rewritten
      BY <1>2
    <3> QED  BY <3>1, <3>2, <3>5, <3>6 DEF Good, Typed, Holding, Measured
  <2> QED  BY <2>1, <2>2
<1>13. Exclusive'
  BY <1>9 DEF IInv, Exclusive
<1>14. History'
  <2>1. ASSUME NEW q \in Requests
        PROVE  /\ pc'[q] = "answered" <=> \E a \in artifacts'["report"] : a.by = q
               /\ pc'[q] = "answered" /\ job'[q].scope # {}
                    <=> \E a \in artifacts'["check"] : a.by = q
    <3>1. /\ pc[q] = "answered" <=> \E a \in artifacts["report"] : a.by = q
          /\ pc[q] = "answered" /\ job[q].scope # {} <=> \E a \in artifacts["check"] : a.by = q
      BY DEF IInv, History, HistoryIsTotal
    <3>2. CASE q = r
      BY <1>1, <1>5, <1>8, <1>9, <3>1, <3>2
    <3>3. CASE q # r
      BY <1>5, <1>8, <1>9, <3>1, <3>3
    <3> QED  BY <3>2, <3>3
  <2>2. HistoryIsTotal'
    BY <1>7, <2>1 DEF HistoryIsTotal, Ordered
  <2>3. \A a \in artifacts'["report"] : a.rows = 1
    BY <1>5, <1>8 DEF IInv, History
  <2> QED  BY <1>7, <2>2, <2>3 DEF History
<1>15. LastVerdict'
  <2> SUFFICES ASSUME OnStories'
               PROVE  LET passed == job'[Latest(artifacts'["report"]).by].passed
                      IN  stage' = Status(passed) /\ gates'["equivalence"].verdict = passed
    BY DEF LastVerdict, Latest, Status
  <2>1. j.scope # {} /\ OnStories
    BY <1>11
  <2>2. \A a \in artifacts["report"] : a.after \in Nat /\ a.after + 1 <= Newest("report")
    BY <1>5, <1>6, NewestIsTop DEF Artifact, IInv, History
  <2>3. Latest(artifacts'["report"]) = report
    <3> DEFINE IsLast(a) == a \in artifacts'["report"] /\ \A b \in artifacts'["report"] : b.after <= a.after
    <3>1. IsLast(report)
      BY <1>5, <1>6, <1>8, <2>2
    <3>2. \A a : IsLast(a) => a = report
      BY <1>5, <1>6, <1>8, <2>2
    <3>3. Latest(artifacts'["report"]) = CHOOSE a : IsLast(a)
      BY DEF Latest
    <3> HIDE DEF IsLast
    <3> QED  BY <3>1, <3>2, <3>3
  <2>4. stage' = Status(j.passed)
    BY <1>1, <1>2, <2>1
  <2>5. gates'["equivalence"].verdict = j.passed
    <3>1. told.verdict = j.passed
      <4>1. gates["equivalence"] \in GateRow /\ Row("equivalence") \in locks[r]
        BY <1>1, <2>1 DEF IInv, StoreTyped, GateKeys
      <4> QED  BY <4>1 DEF Upsert, GateRow
    <3>2. gates = [k \in GateKeys |-> gates[k]] /\ GateKeys = {"equivalence", "behaviour"}
      BY DEF IInv, StoreTyped, GateKeys
    <3> HIDE DEF told, covered
    <3> QED  BY <1>2, <3>1, <3>2
  <2> QED  BY <1>8, <1>9, <2>3, <2>4, <2>5
<1> QED  BY <1>10, <1>12, <1>13, <1>14, <1>15 DEF IInv

----------------------------------------------------------------------------
LEMMA NextStep == ASSUME IInv, [Next]_vars PROVE IInv'
<1>1. CASE UNCHANGED vars
  <2>1. /\ UNCHANGED <<pc, job, locks, units, artifacts, stage, gates, rewritten>>
    BY <1>1 DEF vars, store
  <2>2. \A k : Newest(k)' = Newest(k) /\ (HasTop(k)' <=> HasTop(k))
    BY <2>1 DEF Newest, HasTop
  <2>3. StoreTyped' /\ Exclusive'
    BY <2>1 DEF IInv, StoreTyped, Exclusive
  <2>4. \A r \in Requests : Good(r)'
    <3>1. OnStories' <=> OnStories
      BY <2>1 DEF OnStories
    <3> TAKE r \in Requests
    <3>2. Current(pc[r], job[r], locks[r])'
      BY <2>1, <2>2, <3>1, RequestFacts DEF Current
    <3> QED  BY <2>1, <3>2, RequestFacts DEF Good, Typed, Holding, Measured
  <2>5. HistoryIsTotal' /\ History'
    BY <2>1, <2>2 DEF IInv, History, HistoryIsTotal
  <2>6. LastVerdict'
    BY <2>1 DEF IInv, LastVerdict, OnStories
  <2> QED  BY <2>3, <2>4, <2>5, <2>6 DEF IInv
<1>2. ASSUME NEW r \in Requests, NEW body \in Bodies, NEW list \in Backlogs,
             Begin(r, "verify", list, body)
      PROVE  IInv'
  BY <1>2, BeginStep, VerifyAssumption DEF VerifyAssumption
<1>3. ASSUME NEW r \in Requests, NEW body \in Bodies, NEW s \in Stories,
             Begin(r, "repair", <<s>>, body)
      PROVE  IInv'
  <2>1. <<s>> \in Seq(Stories) /\ Range(<<s>>) # {}
    BY DEF Range
  <2> QED  BY <1>3, <2>1, BeginStep
<1>4. ASSUME NEW r \in Requests, Raise(r) PROVE IInv'
  BY <1>4, FailStep DEF Raise
<1>5. ASSUME NEW r \in Requests, Step(r) PROVE IInv'
  BY <1>5, OpenStep, CompareStep, RepairStep, ChecksStep, SetStageStep, GateStep, ReportStep,
     CommitStep DEF Step
<1> QED  BY <1>1, <1>2, <1>3, <1>4, <1>5 DEF Next

LEMMA Invariance == Spec => []IInv
<1>1. Init => IInv
  BY InitInv
<1>2. IInv /\ [Next]_vars => IInv'
  BY NextStep
<1> QED  BY <1>1, <1>2, PTL DEF Spec

(* The variables keep their types (run_verify, run_verify_repair). *)
THEOREM TypeCorrect == Spec => []TypeOK
<1>1. IInv => TypeOK
  BY DEF IInv, StoreTyped, Good, Typed, TypeOK
<1> QED  BY <1>1, Invariance, PTL

(* The requests write in turn, although nothing but the rows they write    *)
(* keeps them apart: the histories have neither ties nor gaps, and stage   *)
(* and gate tell the verdict of the newest report.                         *)
THEOREM WritesInTurnAlways == Spec => []WritesInTurn
<1>1. ASSUME IInv PROVE StageIsLastVerdict
  <2>1. (\A r \in Requests : pc[r] \notin {"new", "failed"} => job[r].scope # {}) => OnStories
    BY DEF OnStories
  <2> QED  BY <1>1, <2>1 DEF IInv, LastVerdict, StageIsLastVerdict
<1>2. IInv => WritesInTurn
  BY <1>1 DEF IInv, History, WritesInTurn
<1> QED  BY <1>2, Invariance, PTL

(* A green report is of records that match, by a request that wrote no     *)
(* Java (run_verify_repair compares what it was given before).             *)
THEOREM GreenMeasuredAlways == Spec => []GreenIsMeasured
<1>1. ASSUME IInv, NEW a \in artifacts["report"], job[a.by].passed
      PROVE  job[a.by].body \in Matching /\ a.by \notin rewritten
  <2>1. a.by \in Requests
    BY <1>1 DEF IInv, StoreTyped, Artifact, Kinds
  <2>2. pc[a.by] = "answered"
    BY <1>1, <2>1 DEF IInv, History, HistoryIsTotal
  <2> QED  BY <1>1, <2>1, <2>2, RequestFacts DEF Measured
<1>2. IInv => GreenIsMeasured
  BY <1>1 DEF GreenIsMeasured
<1> QED  BY <1>2, Invariance, PTL

----------------------------------------------------------------------------
(* Numbers, and functions of them. *)

(* A set of numbers that 0 is in, and with each its successor, is all.     *)
LEMMA EveryNumber ==
    ASSUME NEW S \in SUBSET Nat, 0 \in S, \A n \in S : n + 1 \in S
    PROVE  S = Nat
<1> DEFINE U == {0..n : n \in Nat \ S}
           R == StrictSubsetOrdering(Nat)
<1>1. \A T \in U : T \subseteq Nat /\ IsFiniteSet(T)
  <2> SUFFICES ASSUME NEW n \in Nat PROVE 0..n \subseteq Nat /\ IsFiniteSet(0..n)
    OBVIOUS
  <2>1. 0 \in Int /\ n \in Int
    OBVIOUS
  <2> QED  BY <2>1, FS_Interval
<1>2. U \subseteq FiniteSubsetsOf(Nat)
  BY <1>1 DEF FiniteSubsetsOf
<1>3. IsWellFoundedOn(R, FiniteSubsetsOf(Nat))
  BY FS_StrictSubsetOrderingWellFounded
<1>4. ASSUME S # Nat PROVE FALSE
  <2>1. U # {}
    BY <1>4
  <2>2. PICK T \in U : \A V \in U : <<V, T>> \notin R
    <3> HIDE DEF U, R
    <3> QED  BY <1>2, <1>3, <2>1, WFMin
  <2>3. PICK n \in Nat \ S : T = 0..n
    OBVIOUS
  <2>4. n # 0 /\ n - 1 \in Nat
    OBVIOUS
  <2>5. n - 1 \notin S
    BY <2>3, <2>4
  <2>6. 0..(n - 1) \in U /\ 0..(n - 1) \subseteq T /\ 0..(n - 1) # T
    BY <2>3, <2>4, <2>5
  <2>7. <<0..(n - 1), T>> \in R
    BY <1>1, <2>6 DEF StrictSubsetOrdering
  <2> QED  BY <2>2, <2>6, <2>7
<1> QED  BY <1>4

(* What is computed step by step from a start exists. *)
LEMMA Iteration ==
    ASSUME NEW X, NEW x \in X, NEW step \in [X -> X]
    PROVE  \E f \in [Nat -> X] : f[0] = x /\ \A n \in Nat : f[n + 1] = step[f[n]]
<1> DEFINE Upto(n, h) == h \in [0..n -> X] /\ h[0] = x /\ \A i \in 0..(n - 1) : h[i + 1] = step[h[i]]
           Some == {n \in Nat : \E h : Upto(n, h)}
           Alike(h, k, n) == \A i \in 0..n : h[i] = k[i]
<1>1. Some = Nat
  <2>1. 0 \in Some
    <3>1. Upto(0, [i \in 0..0 |-> x])
      OBVIOUS
    <3> QED  BY <3>1
  <2>2. ASSUME NEW n \in Some PROVE n + 1 \in Some
    <3>1. PICK h : Upto(n, h)
      OBVIOUS
    <3> DEFINE g == [i \in 0..(n + 1) |-> IF i = n + 1 THEN step[h[n]] ELSE h[i]]
    <3>2. h[n] \in X /\ n \in Nat
      BY <3>1
    <3>3. g \in [0..(n + 1) -> X]
      BY <3>1, <3>2
    <3>4. g[0] = x
      BY <3>1, <3>2
    <3>5. \A i \in 0..n : g[i + 1] = step[g[i]]
      BY <3>1, <3>2
    <3>6. Upto(n + 1, g)
      <4>1. n + 1 \in Nat /\ (n + 1) - 1 = n
        BY <3>2
      <4> HIDE DEF g
      <4> QED  BY <3>3, <3>4, <3>5, <4>1
    <3> HIDE DEF g, Upto
    <3> QED  BY <3>2, <3>6
  <2>3. Some \in SUBSET Nat
    OBVIOUS
  <2> HIDE DEF Some
  <2> QED  BY <2>1, <2>2, <2>3, EveryNumber
<1>2. ASSUME NEW n \in Nat, NEW m \in Nat, NEW h, NEW k, Upto(n, h), Upto(m, k), NEW i \in Nat, i <= n, i <= m
      PROVE  h[i] = k[i]
  <2> DEFINE Agree == {j \in Nat : j <= n /\ j <= m => h[j] = k[j]}
  <2>1. 0 \in Agree
    BY <1>2
  <2>2. ASSUME NEW j \in Agree PROVE j + 1 \in Agree
    <3> SUFFICES ASSUME j + 1 <= n, j + 1 <= m PROVE h[j + 1] = k[j + 1]
      OBVIOUS
    <3>1. j \in Nat /\ j \in 0..(n - 1) /\ j \in 0..(m - 1) /\ h[j] = k[j]
      OBVIOUS
    <3> QED  BY <1>2, <3>1
  <2>3. Agree \in SUBSET Nat
    OBVIOUS
  <2>4. Agree = Nat
    <3> HIDE DEF Agree
    <3> QED  BY <2>1, <2>2, <2>3, EveryNumber
  <2>5. i \in Agree
    BY <2>4
  <2> QED  BY <1>2, <2>5
<1> DEFINE H == [n \in Nat |-> CHOOSE h : Upto(n, h)]
           f == [n \in Nat |-> H[n][n]]
<1>3. ASSUME NEW n \in Nat PROVE Upto(n, H[n])
  <2>1. \E h : Upto(n, h)
    BY <1>1
  <2> HIDE DEF Upto
  <2> QED  BY <2>1
<1>4. \A n \in Nat : f[n] \in X
  <2> SUFFICES ASSUME NEW n \in Nat PROVE H[n][n] \in X
    OBVIOUS
  <2>1. H[n] \in [0..n -> X] /\ n \in 0..n
    <3>1. Upto(n, H[n])
      BY <1>3
    <3> HIDE DEF H
    <3> QED  BY <3>1
  <2> HIDE DEF H
  <2> QED  BY <2>1
<1>5. f[0] = x
  BY <1>3
<1>6. ASSUME NEW n \in Nat PROVE f[n + 1] = step[f[n]]
  <2>1. Upto(n, H[n]) /\ Upto(n + 1, H[n + 1]) /\ n + 1 \in Nat
    <3>1. n + 1 \in Nat
      OBVIOUS
    <3> HIDE DEF Upto, H
    <3> QED  BY <1>3, <3>1
  <2>2. H[n + 1][n] = H[n][n]
    <3> HIDE DEF Upto, H
    <3>1. n <= n /\ n <= n + 1
      OBVIOUS
    <3> QED  BY <1>2, <2>1, <3>1
  <2>3. H[n + 1][n + 1] = step[H[n + 1][n]]
    <3>1. n \in 0..((n + 1) - 1)
      OBVIOUS
    <3> HIDE DEF H
    <3> QED  BY <2>1, <3>1
  <2>4. f[n] = H[n][n] /\ f[n + 1] = H[n + 1][n + 1]
    OBVIOUS
  <2> QED  BY <2>2, <2>3, <2>4
<1>7. f \in [Nat -> X]
  <2>1. f = [n \in Nat |-> f[n]]
    OBVIOUS
  <2> HIDE DEF f
  <2> QED  BY <1>4, <2>1
<1> HIDE DEF f
<1> QED  BY <1>5, <1>6, <1>7

(* The least of finitely many numbers. *)
LEMMA LeastOfNumbers ==
    ASSUME NEW S \in SUBSET Int, IsFiniteSet(S), S # {}
    PROVE  Min(S) \in S /\ Min(S) \in Int /\ \A y \in S : Min(S) <= y
<1> DEFINE Under(x) == {y \in S : y < x}
           U == {Under(x) : x \in S}
           R == StrictSubsetOrdering(S)
<1>1. \A T \in U : T \subseteq S /\ IsFiniteSet(T)
  <2> SUFFICES ASSUME NEW x \in S PROVE Under(x) \subseteq S /\ IsFiniteSet(Under(x))
    OBVIOUS
  <2>1. Under(x) \in SUBSET S
    OBVIOUS
  <2> QED  BY <2>1, FS_Subset
<1>2. U \subseteq FiniteSubsetsOf(S) /\ U # {}
  <2> HIDE DEF Under
  <2>1. U # {}
    OBVIOUS
  <2> HIDE DEF U
  <2> QED  BY <1>1, <2>1 DEF FiniteSubsetsOf
<1>3. IsWellFoundedOn(R, FiniteSubsetsOf(S))
  BY FS_StrictSubsetOrderingWellFounded
<1>4. PICK T \in U : \A V \in U : <<V, T>> \notin R
  <2> HIDE DEF U, R
  <2> QED  BY <1>2, <1>3, WFMin
<1>5. PICK x \in S : T = Under(x)
  OBVIOUS
<1>6. ASSUME NEW y \in S, y < x PROVE FALSE
  <2>1. Under(y) \subseteq T /\ y \in T /\ y \notin Under(y)
    <3>1. x \in Int /\ y \in Int /\ \A z \in S : z \in Int
      OBVIOUS
    <3>2. \A z \in S : z < y => z < x
      BY <1>6, <3>1
    <3>3. ~(y < y)
      BY <3>1
    <3> HIDE DEF U
    <3> QED  BY <1>5, <1>6, <3>2, <3>3
  <2>2. Under(y) \in U
    <3> HIDE DEF Under
    <3> QED  OBVIOUS
  <2> HIDE DEF Under, U
  <2>3. <<Under(y), T>> \in R
    BY <1>1, <2>1, <2>2 DEF StrictSubsetOrdering
  <2> QED  BY <1>4, <2>3, <2>2
<1>7. \E z \in S : \A y \in S : z <= y
  BY <1>6
<1> QED  BY <1>7 DEF Min

(* The image of finitely many things. *)
LEMMA FiniteImage ==
    ASSUME NEW A, IsFiniteSet(A), NEW f, DOMAIN f = A
    PROVE  IsFiniteSet({f[a] : a \in A})
<1> DEFINE T == {f[a] : a \in A}
           g == [a \in A |-> f[a]]
<1>1. g \in [A -> T] /\ \A t \in T : \E a \in A : g[a] = t
  OBVIOUS
<1> HIDE DEF g, T
<1>2. g \in Surjection(A, T)
  BY <1>1 DEF Surjection
<1>3. IsFiniteSet(T)
  BY <1>2, FS_Surjection
<1> QED  BY <1>3 DEF T

(* The greatest of them. *)
LEMMA GreatestOfNumbers ==
    ASSUME NEW S \in SUBSET Int, IsFiniteSet(S), S # {}
    PROVE  Max(S) \in S /\ \A y \in S : Max(S) >= y
<1> DEFINE f == [x \in S |-> 0 - x]
           T == {f[x] : x \in S}
<1>1. IsFiniteSet(T) /\ T \in SUBSET Int /\ T # {}
  <2>1. IsFiniteSet(T)
    <3> HIDE DEF f
    <3>1. DOMAIN f = S
      BY DEF f
    <3> QED  BY <3>1, FiniteImage
  <2>2. \A x \in S : f[x] \in Int
    OBVIOUS
  <2> HIDE DEF f
  <2>3. T \in SUBSET Int /\ T # {}
    BY <2>2
  <2> QED  BY <2>1, <2>3
<1>2. Min(T) \in T /\ \A t \in T : Min(T) <= t
  <2> HIDE DEF T
  <2> QED  BY <1>1, LeastOfNumbers
<1>3. PICK x \in S : Min(T) = 0 - x
  BY <1>2
<1>4. \A y \in S : x >= y
  <2> SUFFICES ASSUME NEW y \in S PROVE x >= y
    OBVIOUS
  <2>1. 0 - y \in T /\ x \in Int /\ y \in Int
    OBVIOUS
  <2>2. Min(T) <= 0 - y
    BY <1>2, <2>1
  <2> HIDE DEF T
  <2> QED  BY <1>3, <2>1, <2>2
<1> QED  BY <1>4 DEF Max

(* All of a set once, in a sequence. *)
Lists(s, S) ==
    /\ s \in Seq(S) /\ Range(s) = S
    /\ \A j, k \in 1..Len(s) : s[j] = s[k] => j = k

(* What is computed in so many steps exists, and stays where each of the   *)
(* steps stays.                                                            *)
Stepped(u, N, x, step) == u = [k \in 0..N |-> IF k = 0 THEN x ELSE step[k][u[k - 1]]]

LEMMA StepByStep ==
    ASSUME NEW N \in Nat, NEW X, NEW x, x \in X, NEW step, step \in [1..N -> [X -> X]]
    PROVE  /\ \E u : Stepped(u, N, x, step)
           /\ \A u : Stepped(u, N, x, step) => u \in [0..N -> X]
<1> DEFINE Y == Nat \X X
           next == [y \in Y |-> <<y[1] + 1, IF y[1] + 1 \in 1..N THEN step[y[1] + 1][y[2]] ELSE x>>]
           start == <<0, x>>
           Rec(h) == h = [k \in 0..N |-> IF k = 0 THEN x ELSE step[k][h[k - 1]]]
<1>1. next \in [Y -> Y] /\ start \in Y
  <2> SUFFICES ASSUME NEW y \in Y
               PROVE  y[1] + 1 \in Nat /\ (IF y[1] + 1 \in 1..N THEN step[y[1] + 1][y[2]] ELSE x) \in X
    OBVIOUS
  <2>1. y[1] \in Nat /\ y[2] \in X
    OBVIOUS
  <2> QED  BY <2>1
<1>2. PICK f \in [Nat -> Y] : f[0] = start /\ \A n \in Nat : f[n + 1] = next[f[n]]
  <2> HIDE DEF Y, next, start
  <2>1. \E f \in [Nat -> Y] : f[0] = start /\ \A n \in Nat : f[n + 1] = next[f[n]]
    BY ONLY <1>1, Iteration
  <2> QED  BY <2>1
<1>3. \A n \in Nat : f[n][1] = n
  <2> DEFINE Even == {n \in Nat : f[n][1] = n}
  <2>1. 0 \in Even
    BY <1>2
  <2>2. ASSUME NEW n \in Even PROVE n + 1 \in Even
    <3>1. f[n + 1] = next[f[n]] /\ f[n] \in Y /\ f[n][1] = n
      BY <1>2
    <3> QED  BY <3>1
  <2>3. Even \in SUBSET Nat
    OBVIOUS
  <2>4. Even = Nat
    <3> HIDE DEF Even
    <3> QED  BY <2>1, <2>2, <2>3, EveryNumber
  <2> QED  BY <2>4
<1> DEFINE g == [k \in 0..N |-> f[k][2]]
<1>4. Rec(g)
  <2>1. ASSUME NEW k \in 0..N PROVE g[k] = IF k = 0 THEN x ELSE step[k][g[k - 1]]
    <3>1. CASE k = 0
      BY <1>2, <3>1
    <3>2. CASE k # 0
      <4>1. k - 1 \in Nat /\ (k - 1) + 1 = k /\ k - 1 \in 0..N /\ k \in 1..N
        BY <3>2
      <4>2. f[k] = next[f[k - 1]] /\ f[k - 1] \in Y /\ f[k - 1][1] = k - 1
        BY <1>2, <1>3, <4>1
      <4>3. f[k - 1][1] + 1 = k
        BY <4>1, <4>2
      <4>4. next[f[k - 1]] = <<f[k - 1][1] + 1, step[k][f[k - 1][2]]>>
        BY <4>1, <4>2, <4>3
      <4> QED  BY <3>2, <4>1, <4>2, <4>4
    <3> QED  BY <3>1, <3>2
  <2>2. g = [k \in 0..N |-> g[k]]
    OBVIOUS
  <2> QED  BY <2>1, <2>2
<1>5. ASSUME NEW u, Rec(u) PROVE u \in [0..N -> X]
  <2>1. \A k \in 0..N : u[k] = IF k = 0 THEN x ELSE step[k][u[k - 1]]
    BY <1>5
  <2> DEFINE In == {k \in Nat : k <= N => u[k] \in X}
  <2>2. 0 \in In
    <3>1. 0 \in 0..N
      OBVIOUS
    <3>2. u[0] = x
      BY <2>1, <3>1
    <3> QED  BY <3>2
  <2>3. ASSUME NEW k \in In PROVE k + 1 \in In
    <3> SUFFICES ASSUME k + 1 <= N PROVE u[k + 1] \in X
      OBVIOUS
    <3>1. k \in Nat /\ k + 1 \in 0..N /\ k + 1 # 0 /\ (k + 1) - 1 = k /\ k + 1 \in 1..N /\ k <= N
      OBVIOUS
    <3>2. u[k + 1] = step[k + 1][u[k]] /\ u[k] \in X
      BY <2>1, <3>1
    <3> QED  BY <3>1, <3>2
  <2>4. In \in SUBSET Nat
    OBVIOUS
  <2>5. In = Nat
    <3> HIDE DEF In
    <3> QED  BY <2>2, <2>3, <2>4, EveryNumber
  <2>6. ASSUME NEW k \in 0..N PROVE u[k] \in X
    <3>1. k \in Nat /\ k <= N
      OBVIOUS
    <3>2. k \in In
      BY <2>5, <3>1
    <3> QED  BY <3>1, <3>2
  <2> QED  BY <1>5, <2>6
<1> QED  BY <1>4, <1>5 DEF Stepped

(* Induction up to a number. *)
LEMMA UpToNumber ==
    ASSUME NEW N \in Nat, NEW S, 0 \in S, \A k \in 1..N : k - 1 \in S => k \in S
    PROVE  \A k \in 0..N : k \in S
<1> DEFINE T == {k \in Nat : k <= N => k \in S}
<1>1. 0 \in T
  OBVIOUS
<1>2. ASSUME NEW k \in T PROVE k + 1 \in T
  <2> SUFFICES ASSUME k + 1 <= N PROVE k + 1 \in S
    OBVIOUS
  <2>1. k \in S /\ k + 1 \in 1..N /\ (k + 1) - 1 = k
    OBVIOUS
  <2> QED  BY <2>1
<1>3. T = Nat
  <2>1. T \in SUBSET Nat
    OBVIOUS
  <2> HIDE DEF T
  <2> QED  BY <1>1, <1>2, <2>1, EveryNumber
<1>4. \A k \in 0..N : k \in Nat /\ k <= N
  OBVIOUS
<1> QED  BY <1>3, <1>4

(* What is defined step by step is defined, and what each step keeps is    *)
(* kept.                                                                   *)
Stepwise(u, N, X, x, step) ==
    /\ u = [k \in 0..N |-> IF k = 0 THEN x ELSE step[k][u[k - 1]]]
    /\ \A k \in 1..N : u[k - 1] \in X

LEMMA StepsExist ==
    ASSUME NEW N \in Nat, NEW X, NEW x, x \in X, NEW step, step \in [1..N -> [X -> X]]
    PROVE  \E u : Stepwise(u, N, X, x, step)
<1>1. PICK u : Stepped(u, N, x, step) /\ u \in [0..N -> X]
  <2>1. (\E u : Stepped(u, N, x, step)) /\ \A u : Stepped(u, N, x, step) => u \in [0..N -> X]
    BY ONLY StepByStep, N \in Nat, x \in X, step \in [1..N -> [X -> X]]
  <2> QED  BY <2>1
<1>2. \A k \in 1..N : k - 1 \in 0..N
  OBVIOUS
<1> QED  BY <1>1, <1>2 DEF Stepped, Stepwise

LEMMA StepsKeep ==
    ASSUME NEW N \in Nat, NEW X, NEW u, u[0] \in X, \A k \in 1..N : u[k - 1] \in X => u[k] \in X
    PROVE  \A k \in 0..N : u[k] \in X
<1> DEFINE S == {k \in 0..N : u[k] \in X}
<1>1. 0 \in S
  OBVIOUS
<1>2. \A k \in 1..N : k - 1 \in S => k \in S
  OBVIOUS
<1> HIDE DEF S
<1>3. \A k \in 0..N : k \in S
  BY <1>1, <1>2, UpToNumber
<1> QED  BY <1>3 DEF S

(* Lists put together one after the other: a list of what they list.       *)
Joins(f, ll, S) ==
    /\ f[1] = ll[1]
    /\ \A i \in 2..Len(ll) : f[i] = f[i - 1] \o ll[i]
    /\ \A i \in 1..Len(ll) : f[i] \in Seq(S)

LEMMA JoinSteps ==
    ASSUME NEW S, NEW ll, ll \in Seq(Seq(S)), Len(ll) # 0
    PROVE  \E f : FlattenSeq(ll) = f[Len(ll)] /\ Joins(f, ll, S)
<1> DEFINE X == Seq(S)
           n == Len(ll)
           N == n - 1
           step == [k \in 1..N |-> [y \in X |-> y \o ll[k + 1]]]
           Joining(h) == h = [i \in 1..n |-> IF i = 1 THEN ll[i] ELSE h[i - 1] \o ll[i]]
           f == CHOOSE h : Joining(h)
<1>1. n \in Nat /\ \A k \in 1..n : ll[k] \in X
  <2>1. ll \in Seq(X)
    OBVIOUS
  <2> HIDE DEF X
  <2> QED  BY <2>1
<1>2. N \in Nat /\ 1 \in 1..n /\ \A k \in 1..N : k + 1 \in 1..n
  BY <1>1
<1>3. \A y, w \in X : y \o w \in X
  OBVIOUS
<1>4. step \in [1..N -> [X -> X]]
  <2>1. \A y \in X, k \in 1..N : y \o ll[k + 1] \in X
    BY <1>1, <1>2, <1>3
  <2> HIDE DEF X, N
  <2> QED  BY <2>1
<1>5. PICK u : /\ u = [k \in 0..N |-> IF k = 0 THEN ll[1] ELSE step[k][u[k - 1]]]
               /\ \A k \in 1..N : u[k - 1] \in X
  <2>1. ll[1] \in X
    BY <1>1, <1>2
  <2>2. \E h : Stepwise(h, N, X, ll[1], step)
    <3> HIDE DEF N, X, step
    <3> QED  BY ONLY <1>2, <1>4, <2>1, StepsExist
  <2> HIDE DEF N, X, step
  <2> QED  BY <2>2 DEF Stepwise
<1>6. \A i \in 1..n : i - 1 \in 0..N /\ (i - 1 # 0 <=> i # 1) /\ (i # 1 => i - 1 \in 1..N /\ (i - 1) + 1 = i /\ i - 1 \in 1..n)
  BY <1>1
<1>7. \A i \in 1..n : u[i - 1] = IF i = 1 THEN ll[i] ELSE u[(i - 1) - 1] \o ll[i]
  <2> SUFFICES ASSUME NEW i \in 1..n PROVE u[i - 1] = IF i = 1 THEN ll[i] ELSE u[(i - 1) - 1] \o ll[i]
    OBVIOUS
  <2>1. u[i - 1] = IF i = 1 THEN ll[1] ELSE step[i - 1][u[(i - 1) - 1]]
    <3> HIDE DEF N, X, step
    <3> QED  BY <1>5, <1>6
  <2>2. ASSUME i # 1 PROVE step[i - 1][u[(i - 1) - 1]] = u[(i - 1) - 1] \o ll[i]
    <3>1. i - 1 \in 1..N /\ (i - 1) + 1 = i
      BY <1>6, <2>2
    <3>2. u[(i - 1) - 1] \in X
      <4> HIDE DEF N, X, step
      <4> QED  BY <1>5, <3>1
    <3> HIDE DEF X
    <3> QED  BY <3>1, <3>2
  <2> HIDE DEF step
  <2> QED  BY <2>1, <2>2
<1>8. Joining(f)
  <2> DEFINE g == [i \in 1..n |-> u[i - 1]]
  <2>1. Joining(g)
    <3> HIDE DEF N, X, step
    <3> QED  BY <1>6, <1>7
  <2> HIDE DEF Joining, g
  <2> QED  BY <2>1
<1>9. FlattenSeq(ll) = f[n]
  BY DEF FlattenSeq
<1> HIDE DEF f, step
<1>10. \A i \in 1..n : f[i] = IF i = 1 THEN ll[i] ELSE f[i - 1] \o ll[i]
  BY <1>8
<1>11. \A i \in 1..n : f[i] \in X
  <2> DEFINE In == {k \in 0..N : f[k + 1] \in X}
  <2>1. 0 \in In
    <3> HIDE DEF X
    <3>1. f[0 + 1] \in X
      BY <1>1, <1>2, <1>10
    <3> QED  BY <1>2, <3>1
  <2>2. ASSUME NEW k \in 1..N, k - 1 \in In PROVE k \in In
    <3>1. k + 1 \in 1..n /\ k + 1 # 1 /\ (k + 1) - 1 = k /\ (k - 1) + 1 = k /\ k \in 0..N
      BY <1>2
    <3>2. f[k] \in X
      BY <2>2, <3>1
    <3>3. f[k + 1] = f[k] \o ll[k + 1]
      <4> DEFINE i == k + 1
      <4>1. i \in 1..n /\ i # 1 /\ i - 1 = k
        BY <3>1
      <4> HIDE DEF i
      <4>2. f[i] = f[i - 1] \o ll[i]
        BY <1>10, <4>1
      <4> QED  BY <4>1, <4>2 DEF i
    <3>4. f[k + 1] \in X
      <4> HIDE DEF X
      <4> QED  BY <1>1, <1>3, <3>1, <3>2, <3>3
    <3> QED  BY <3>1, <3>4
  <2> HIDE DEF In
  <2>3. \A k \in 0..N : k \in In
    <3> HIDE DEF N
    <3> QED  BY <1>2, <2>1, <2>2, UpToNumber
  <2>4. \A i \in 1..n : i - 1 \in 0..N /\ (i - 1) + 1 = i
    BY <1>1
  <2> HIDE DEF X
  <2> QED  BY <2>3, <2>4 DEF In
<1>12. f[1] = ll[1] /\ \A i \in 2..n : f[i] = f[i - 1] \o ll[i]
  <2>1. \A i \in 2..n : i \in 1..n /\ i # 1
    BY <1>1
  <2> QED  BY <1>2, <1>10, <2>1
<1>13. Joins(f, ll, S)
  BY <1>11, <1>12 DEF Joins
<1> HIDE DEF n
<1> QED  BY <1>9, <1>13 DEF n

LEMMA TwoJoined ==
    ASSUME NEW S, NEW a, a \in Seq(S), NEW b, b \in Seq(S)
    PROVE  /\ Len(a \o b) = Len(a) + Len(b)
           /\ \A x \in 1..Len(a) : (a \o b)[x] = a[x]
           /\ \A p \in 1..Len(b) : (a \o b)[Len(a) + p] = b[p]
<1>1. Len(a) \in Nat /\ Len(b) \in Nat
  OBVIOUS
<1>2. ASSUME NEW p \in 1..Len(b) PROVE (a \o b)[Len(a) + p] = b[p]
  <2>1. Len(a) + p \in 1..(Len(a) + Len(b)) /\ ~(Len(a) + p <= Len(a)) /\ (Len(a) + p) - Len(a) = p
    BY <1>1
  <2> QED  BY <2>1
<1> QED  BY <1>1, <1>2

LEMMA PairBounds ==
    ASSUME NEW a \in Int, NEW b \in Int
    PROVE  /\ Min({a, b}) \in {a, b} /\ Min({a, b}) <= a /\ Min({a, b}) <= b
           /\ Max({a, b}) \in {a, b} /\ Max({a, b}) >= a /\ Max({a, b}) >= b
<1> DEFINE S == {a, b}
<1>1. IsFiniteSet(S)
  <2>1. S = {a} \cup {b}
    OBVIOUS
  <2> HIDE DEF S
  <2> QED  BY <2>1, FS_Singleton, FS_Union
<1>2. S \in SUBSET Int /\ a \in S /\ b \in S
  OBVIOUS
<1>3. Min(S) \in S /\ (\A y \in S : Min(S) <= y) /\ Max(S) \in S /\ \A y \in S : Max(S) >= y
  <2> HIDE DEF S
  <2> QED  BY <1>1, <1>2, LeastOfNumbers, GreatestOfNumbers
<1> QED  BY <1>2, <1>3

----------------------------------------------------------------------------
(* The lab and the dark launch (Lab, DarkLaunch): verdicts.                *)

(* A comparison passes exactly if every record is there and every field    *)
(* compares ok.                                                            *)
LEMMA PassMeans ==
    ASSUME NEW golden, NEW candidate, NEW rs, NEW key
    PROVE  RunEquivalence(golden, candidate, rs, key) = "pass" <=>
              /\ KeysOf(golden, key) = KeysOf(candidate, key)
              /\ \A x \in Compared(golden, candidate, rs, key) : x.result \notin {"raises", "differs"}
<1> DEFINE diff == DiffRecords(golden, candidate, rs, key)
           compared == Compared(golden, candidate, rs, key)
           bad == {x \in compared : x.result = "differs"}
<1>1. RunEquivalence(golden, candidate, rs, key) = "pass" <=> ~diff.raises /\ diff.mismatches = {}
  BY DEF RunEquivalence
<1>2. diff.raises <=> \E x \in compared : x.result = "raises"
  BY DEF DiffRecords
<1>3. diff.mismatches = Missing(golden, candidate, key) \cup Extra(golden, candidate, key) \cup bad
  BY DEF DiffRecords
<1>4. Missing(golden, candidate, key) = {} <=> KeysOf(golden, key) \subseteq KeysOf(candidate, key)
  <2>1. Missing(golden, candidate, key) = {} <=> {i \in DOMAIN golden : golden[i][key] \notin KeysOf(candidate, key)} = {}
    BY DEF Missing
  <2>2. \A k : k \in KeysOf(golden, key) <=> \E i \in DOMAIN golden : golden[i][key] = k
    BY DEF KeysOf, Range
  <2> QED  BY <2>1, <2>2
<1>5. Extra(golden, candidate, key) = {} <=> KeysOf(candidate, key) \subseteq KeysOf(golden, key)
  BY DEF Extra
<1> HIDE DEF diff, compared
<1>6. bad = {} <=> \A x \in compared : x.result # "differs"
  OBVIOUS
<1> HIDE DEF bad
<1>7. diff.mismatches = {} <=> /\ KeysOf(golden, key) = KeysOf(candidate, key)
                               /\ bad = {}
  BY <1>3, <1>4, <1>5
<1> QED  BY <1>1, <1>2, <1>6, <1>7 DEF compared

(* The fields compared, one by one.                                        *)
LEMMA FieldsCompared ==
    ASSUME NEW golden, NEW candidate, NEW rs, NEW key, NEW bad
    PROVE  (\E x \in Compared(golden, candidate, rs, key) : x.result \in bad) <=>
              \E i \in DOMAIN golden : /\ golden[i][key] \in KeysOf(candidate, key)
                 /\ \E f \in DOMAIN golden[i] :
                       CompareField(RuleFor(rs, f), golden[i][f],
                                    FieldOf(ByKey(candidate, golden[i][key], key), f)) \in bad
<1> DEFINE Result(i, f) == CompareField(RuleFor(rs, f), golden[i][f],
                                        FieldOf(ByKey(candidate, golden[i][key], key), f))
           Found == {i \in DOMAIN golden : golden[i][key] \in KeysOf(candidate, key)}
<1>1. Compared(golden, candidate, rs, key) =
          UNION {{[at |-> k, field |-> f, result |-> Result(k, f)] : f \in DOMAIN golden[k]} : k \in Found}
  BY DEF Compared
<1> DEFINE Cell(k, f) == [at |-> k, field |-> f, result |-> Result(k, f)]
           Cells(k) == {Cell(k, f) : f \in DOMAIN golden[k]}
<1>2. \A x : x \in Compared(golden, candidate, rs, key) <=>
          \E k \in Found : \E f \in DOMAIN golden[k] : x = Cell(k, f)
  <2>1. \A k, x : x \in Cells(k) <=> \E f \in DOMAIN golden[k] : x = Cell(k, f)
    <3> HIDE DEF Cell
    <3> QED  OBVIOUS
  <2>2. Compared(golden, candidate, rs, key) = UNION {Cells(k) : k \in Found}
    BY <1>1
  <2> HIDE DEF Cells, Cell, Found
  <2>3. \A x : x \in UNION {Cells(k) : k \in Found} <=> \E k \in Found : x \in Cells(k)
    OBVIOUS
  <2> QED  BY <2>1, <2>2, <2>3
<1>3. \A k, f : Cell(k, f).result = Result(k, f)
  OBVIOUS
<1> HIDE DEF Cell, Result, Found
<1>4. (\E x \in Compared(golden, candidate, rs, key) : x.result \in bad) <=>
          \E k \in Found : \E f \in DOMAIN golden[k] : Result(k, f) \in bad
  BY <1>2, <1>3
<1> QED  BY <1>4 DEF Result, Found

(* The record a key is compared with is one of that key.                   *)
LEMMA ByKeyFinds ==
    ASSUME NEW records, AnyList(records), NEW key, NEW k \in KeysOf(records, key)
    PROVE  \E j \in DOMAIN records : records[j][key] = k /\ ByKey(records, k, key) = records[j]
<1> DEFINE its == {i \in DOMAIN records : records[i][key] = k}
<1>1. its \subseteq Int /\ IsFiniteSet(its)
  BY FS_Subset DEF AnyList
<1>2. its # {}
  BY DEF KeysOf, Range
<1>3. its \in SUBSET Int
  BY <1>1
<1> HIDE DEF its
<1>4. Max(its) \in its
  BY <1>1, <1>2, <1>3, GreatestOfNumbers
<1> QED  BY <1>4 DEF ByKey, its

LEMMA ByKeyOnly ==
    ASSUME NEW records, AnyList(records), NEW key, Once(records, key), NEW j \in DOMAIN records
    PROVE  ByKey(records, records[j][key], key) = records[j]
<1>1. records[j][key] \in KeysOf(records, key)
  BY DEF KeysOf, Range
<1> QED  BY <1>1, ByKeyFinds DEF Once

(* A sub-slice is a part of the list, and of a list with unique keys one   *)
(* with unique keys.                                                       *)
LEMMA PartOfList ==
    ASSUME NEW records, AnyList(records), NEW name, NEW key
    PROVE  LET part == SubsliceOf(records, name) IN
           /\ AnyList(part)
           /\ DOMAIN part = {k \in DOMAIN records : SubsliceKeyOf(records[k]) = name}
           /\ \A k \in DOMAIN part : part[k] = records[k]
           /\ KeysOf(part, key) \subseteq KeysOf(records, key)
           /\ \A k \in DOMAIN part : records[k][key] \in KeysOf(part, key)
           /\ Once(records, key) => Once(part, key)
<1> DEFINE part == SubsliceOf(records, name)
           its == {k \in DOMAIN records : SubsliceKeyOf(records[k]) = name}
<1>1. DOMAIN part = its /\ \A k \in its : part[k] = records[k]
  BY DEF SubsliceOf, Restrict
<1>2. its \subseteq DOMAIN records
  OBVIOUS
<1> HIDE DEF part, its
<1>3. AnyList(part)
  BY <1>1, <1>2, FS_Subset DEF AnyList
<1>4. KeysOf(part, key) \subseteq KeysOf(records, key)
  BY <1>1, <1>2 DEF KeysOf, Range
<1>6. \A k \in its : records[k][key] \in KeysOf(part, key)
  BY <1>1 DEF KeysOf, Range
<1>5. Once(records, key) => Once(part, key)
  BY <1>1, <1>2 DEF Once
<1> QED  BY <1>1, <1>3, <1>4, <1>5, <1>6 DEF part, its

(* A failing story of several sub-slices is brought down to one of them    *)
(* (story_failures and split_by_subslice of controlplane/verify.py).       *)
THEOREM FailuresAreBroughtDown ==
    ASSUME NEW golden, AnyList(golden), NEW candidate, AnyList(candidate), NEW rs, NEW key
    PROVE  FailureIsLocalised(golden, candidate, rs, key)
<1> DEFINE leaves == Leaves(golden, candidate, rs, key)
           G(name) == SubsliceOf(golden, name)
           C(name) == SubsliceOf(candidate, name)
<1> SUFFICES ASSUME Once(golden, key), Once(candidate, key),
                    Subslices(golden) \subseteq Subslices(candidate),
                    Cardinality(Subslices(candidate)) > 1,
                    RunEquivalence(golden, candidate, rs, key) # "pass"
             PROVE  \E name \in DOMAIN leaves : leaves[name] # "pass"
  BY DEF FailureIsLocalised
<1>1. ~(Cardinality(Subslices(candidate)) <= 1)
  <2>1. CASE Cardinality(Subslices(candidate)) \in Int
    BY <2>1
  <2>2. IsFiniteSet(Subslices(candidate))
    <3>1. Range(candidate) = {candidate[i] : i \in DOMAIN candidate}
      BY DEF Range
    <3>2. Subslices(candidate) = {SubsliceKeyOf(candidate[i]) : i \in DOMAIN candidate}
      BY <3>1 DEF Subslices
    <3> DEFINE h == [i \in DOMAIN candidate |-> SubsliceKeyOf(candidate[i])]
    <3>3. Subslices(candidate) = {h[i] : i \in DOMAIN candidate}
      BY <3>2
    <3>4. DOMAIN h = DOMAIN candidate /\ IsFiniteSet(DOMAIN candidate)
      BY DEF AnyList
    <3> HIDE DEF h
    <3> QED  BY <3>3, <3>4, FiniteImage
  <2> QED  BY <2>1, <2>2, FS_CardinalityType
<1>2. DOMAIN leaves = Subslices(candidate)
  BY <1>1 DEF Leaves
<1>3. \A name \in Subslices(candidate) : leaves[name] = RunEquivalence(G(name), C(name), rs, key)
  BY <1>1 DEF Leaves, GoldenOf
<1> SUFFICES \E name \in Subslices(candidate) : RunEquivalence(G(name), C(name), rs, key) # "pass"
  BY <1>2, <1>3
<1> HIDE DEF leaves
<1>4. CASE KeysOf(golden, key) # KeysOf(candidate, key)
  <2>1. CASE \E i \in DOMAIN golden : golden[i][key] \notin KeysOf(candidate, key)
    <3>1. PICK i \in DOMAIN golden : golden[i][key] \notin KeysOf(candidate, key)
      BY <2>1
    <3> DEFINE name == SubsliceKeyOf(golden[i])
    <3>2. name \in Subslices(candidate)
      BY DEF Subslices, Range
    <3>3. golden[i][key] \in KeysOf(G(name), key)
      BY PartOfList
    <3>4. golden[i][key] \notin KeysOf(C(name), key)
      BY <3>1, PartOfList
    <3> HIDE DEF name
    <3> QED  BY <3>2, <3>3, <3>4, PassMeans
  <2>2. CASE \E i \in DOMAIN candidate : candidate[i][key] \notin KeysOf(golden, key)
    <3>1. PICK i \in DOMAIN candidate : candidate[i][key] \notin KeysOf(golden, key)
      BY <2>2
    <3> DEFINE name == SubsliceKeyOf(candidate[i])
    <3>2. name \in Subslices(candidate)
      BY DEF Subslices, Range
    <3>3. candidate[i][key] \in KeysOf(C(name), key)
      BY PartOfList
    <3>4. candidate[i][key] \notin KeysOf(G(name), key)
      BY <3>1, PartOfList
    <3> HIDE DEF name
    <3> QED  BY <3>2, <3>3, <3>4, PassMeans
  <2> QED  BY <1>4, <2>1, <2>2 DEF KeysOf, Range
<1>5. CASE KeysOf(golden, key) = KeysOf(candidate, key)
  <2> DEFINE Bad == {"raises", "differs"}
  <2>1. \E x \in Compared(golden, candidate, rs, key) : x.result \in Bad
    BY <1>5, PassMeans
  <2>2. PICK i \in DOMAIN golden :
            /\ golden[i][key] \in KeysOf(candidate, key)
            /\ \E f \in DOMAIN golden[i] :
                  CompareField(RuleFor(rs, f), golden[i][f],
                               FieldOf(ByKey(candidate, golden[i][key], key), f)) \in Bad
    <3> HIDE DEF Bad
    <3> QED  BY <2>1, FieldsCompared
  <2>7. PICK f \in DOMAIN golden[i] :
            CompareField(RuleFor(rs, f), golden[i][f],
                         FieldOf(ByKey(candidate, golden[i][key], key), f)) \in Bad
    BY <2>2
  <2> DEFINE name == SubsliceKeyOf(golden[i])
             k == golden[i][key]
  <2>3. name \in Subslices(candidate)
    BY DEF Subslices, Range
  <2>4. i \in DOMAIN G(name) /\ G(name)[i] = golden[i] /\ k \in KeysOf(G(name), key)
    BY PartOfList
  <2>5. CASE k \notin KeysOf(C(name), key)
    BY <2>3, <2>4, <2>5, PassMeans
  <2>6. CASE k \in KeysOf(C(name), key)
    <3>1. ByKey(C(name), k, key) = ByKey(candidate, k, key)
      <4>1. PICK j \in DOMAIN C(name) : C(name)[j][key] = k /\ ByKey(C(name), k, key) = C(name)[j]
        <5>1. AnyList(C(name))
          BY PartOfList
        <5> HIDE DEF C, name, k
        <5> QED  BY <2>6, <5>1, ByKeyFinds
      <4>2. j \in DOMAIN candidate /\ C(name)[j] = candidate[j]
        BY <4>1, PartOfList
      <4>3. ByKey(candidate, candidate[j][key], key) = candidate[j]
        BY <4>2, ByKeyOnly
      <4> QED  BY <4>1, <4>2, <4>3
    <3>2. CompareField(RuleFor(rs, f), G(name)[i][f], FieldOf(ByKey(C(name), G(name)[i][key], key), f)) \in Bad
      BY <2>7, <2>4, <3>1
    <3>3. \E x \in Compared(G(name), C(name), rs, key) : x.result \in Bad
      <4>1. G(name)[i][key] \in KeysOf(C(name), key) /\ f \in DOMAIN G(name)[i] /\ i \in DOMAIN G(name)
        BY <2>4, <2>6
      <4> HIDE DEF Bad, G, C, name, k
      <4> QED  BY <4>1, <3>2, FieldsCompared
    <3> HIDE DEF name, k
    <3> QED  BY <2>3, <3>3, PassMeans
  <2> QED  BY <2>5, <2>6
<1> QED  BY <1>4, <1>5

LEMMA RuleIsRule ==
    ASSUME NEW rs, IsRuleset(rs), NEW f
    PROVE  IsRule(RuleFor(rs, f))
<1> DEFINE its == {k \in DOMAIN rs.rules : rs.rules[k].field = f}
           plain == [field |-> f, matcher |-> rs.default, scale |-> 0, tolerance |-> 0,
                     representation |-> "display"]
<1>1. CASE its # {}
  <2>1. its \in SUBSET Int /\ IsFiniteSet(its)
    BY FS_Subset DEF IsRuleset, AnyList
  <2>2. Min(its) \in its
    <3> HIDE DEF its
    <3> QED  BY <1>1, <2>1, LeastOfNumbers
  <2>3. RuleFor(rs, f) = rs.rules[Min(its)]
    BY <1>1 DEF RuleFor
  <2> QED  BY <2>2, <2>3 DEF IsRuleset
<1>2. CASE its = {}
  <2>1. RuleFor(rs, f) = plain
    BY <1>2 DEF RuleFor
  <2>2. plain.matcher = rs.default /\ plain.scale = 0 /\ plain.tolerance = 0
    OBVIOUS
  <2> HIDE DEF plain
  <2> QED  BY <2>1, <2>2 DEF IsRuleset, IsRule, Places
<1> QED  BY <1>1, <1>2

(* What rounding half up moves a number by, a tie away from zero; and that *)
(* what is rounded stays.                                                  *)
LEMMA UnitOf == ASSUME NEW s \in 0..3 PROVE Unit(s) \in {1000, 100, 10, 1}
  BY DEF Unit

LEMMA RoundedNear ==
    ASSUME NEW v \in Int, NEW s \in 0..3
    PROVE  /\ Canonicalize(v, s) \in Int
           /\ v >= 0 => /\ Canonicalize(v, s) >= 0
                        /\ 2 * (Canonicalize(v, s) - v) <= Unit(s)
                        /\ 2 * (v - Canonicalize(v, s)) < Unit(s)
           /\ v < 0  => /\ Canonicalize(v, s) <= 0
                        /\ 2 * (Canonicalize(v, s) - v) < Unit(s)
                        /\ 2 * (v - Canonicalize(v, s)) <= Unit(s)
<1>1. CASE Unit(s) = 1000
  BY <1>1 DEF Canonicalize, Signed, Magnitude
<1>2. CASE Unit(s) = 100
  BY <1>2 DEF Canonicalize, Signed, Magnitude
<1>3. CASE Unit(s) = 10
  BY <1>3 DEF Canonicalize, Signed, Magnitude
<1>4. CASE Unit(s) = 1
  BY <1>4 DEF Canonicalize, Signed, Magnitude
<1> QED  BY <1>1, <1>2, <1>3, <1>4, UnitOf

LEMMA RoundedStays ==
    ASSUME NEW v \in Int, NEW s \in 0..3
    PROVE  Canonicalize(Canonicalize(v, s), s) = Canonicalize(v, s)
<1>1. CASE Unit(s) = 1000
  BY <1>1 DEF Canonicalize, Signed, Magnitude
<1>2. CASE Unit(s) = 100
  BY <1>2 DEF Canonicalize, Signed, Magnitude
<1>3. CASE Unit(s) = 10
  BY <1>3 DEF Canonicalize, Signed, Magnitude
<1>4. CASE Unit(s) = 1
  BY <1>4 DEF Canonicalize, Signed, Magnitude
<1> QED  BY <1>1, <1>2, <1>3, <1>4, UnitOf

(* Digits make a number.                                                   *)
LEMMA DigitByDigit ==
    ASSUME NEW N \in Nat, NEW digits, \A k \in 1..N : digits[k] \in Int
    PROVE  \E u : u = [k \in 0..N |-> IF k = 0 THEN 0 ELSE 10 * u[k - 1] + digits[k]]
<1> DEFINE X == Nat \X Int
           step == [x \in X |-> <<x[1] + 1, 10 * x[2] + (IF x[1] + 1 \in 1..N THEN digits[x[1] + 1] ELSE 0)>>]
           start == <<0, 0>>
           Rec(u) == u = [k \in 0..N |-> IF k = 0 THEN 0 ELSE 10 * u[k - 1] + digits[k]]
<1>1. step \in [X -> X] /\ start \in X
  <2> SUFFICES ASSUME NEW x \in X
               PROVE  x[1] + 1 \in Nat /\ 10 * x[2] + (IF x[1] + 1 \in 1..N THEN digits[x[1] + 1] ELSE 0) \in Int
    OBVIOUS
  <2>1. x[1] \in Nat /\ x[2] \in Int
    OBVIOUS
  <2>2. \A i \in 1..N : digits[i] \in Int
    OBVIOUS
  <2> QED  BY <2>1, <2>2
<1>2. PICK f \in [Nat -> X] : f[0] = start /\ \A n \in Nat : f[n + 1] = step[f[n]]
  <2> HIDE DEF X, step, start
  <2>1. \E f \in [Nat -> X] : f[0] = start /\ \A n \in Nat : f[n + 1] = step[f[n]]
    BY <1>1, Iteration
  <2> QED  BY <2>1
<1>3. \A n \in Nat : f[n][1] = n
  <2> DEFINE Even == {n \in Nat : f[n][1] = n}
  <2>1. 0 \in Even
    BY <1>2
  <2>2. ASSUME NEW n \in Even PROVE n + 1 \in Even
    <3>1. f[n + 1] = step[f[n]] /\ f[n] \in X /\ f[n][1] = n
      BY <1>2
    <3> QED  BY <3>1
  <2>3. Even \in SUBSET Nat
    OBVIOUS
  <2>4. Even = Nat
    <3> HIDE DEF Even
    <3> QED  BY <2>1, <2>2, <2>3, EveryNumber
  <2> QED  BY <2>4
<1> DEFINE g == [k \in 0..N |-> f[k][2]]
<1>4. Rec(g)
  <2>1. ASSUME NEW k \in 0..N PROVE g[k] = IF k = 0 THEN 0 ELSE 10 * g[k - 1] + digits[k]
    <3>1. CASE k = 0
      BY <1>2, <3>1
    <3>2. CASE k # 0
      <4>1. k - 1 \in Nat /\ (k - 1) + 1 = k /\ k - 1 \in 0..N /\ k \in 1..N
        BY <3>2
      <4>2. f[k] = step[f[k - 1]] /\ f[k - 1] \in X /\ f[k - 1][1] = k - 1
        BY <1>2, <1>3, <4>1
      <4>3. f[k][2] = 10 * f[k - 1][2] + digits[k]
        <5>1. f[k - 1][1] + 1 = k
          BY <4>1, <4>2
        <5>2. step[f[k - 1]] = <<f[k - 1][1] + 1, 10 * f[k - 1][2] + digits[k]>>
          BY <4>1, <4>2, <5>1
        <5> QED  BY <4>2, <5>2
      <4> QED  BY <3>2, <4>1, <4>3
    <3> QED  BY <3>1, <3>2
  <2>2. g = [k \in 0..N |-> g[k]]
    OBVIOUS
  <2> QED  BY <2>1, <2>2
<1> QED  BY <1>4

LEMMA NumberIsWhole ==
    ASSUME NEW digits \in Seq(Int)
    PROVE  Number(digits) \in Int
<1> DEFINE N == Len(digits)
           Rec(u) == u = [k \in 0..N |-> IF k = 0 THEN 0 ELSE 10 * u[k - 1] + digits[k]]
           upto == CHOOSE u : Rec(u)
<1>0. N \in Nat
  OBVIOUS
<1>5. Rec(upto)
  <2>1. \E u : Rec(u)
    <3>1. \A k \in 1..N : digits[k] \in Int
      OBVIOUS
    <3> HIDE DEF N
    <3> QED  BY <1>0, <3>1, DigitByDigit
  <2> HIDE DEF Rec
  <2> QED  BY <2>1
<1>6. Number(digits) = upto[N]
  BY DEF Number
<1> HIDE DEF upto
<1>7. \A k \in 0..N : upto[k] = IF k = 0 THEN 0 ELSE 10 * upto[k - 1] + digits[k]
  BY <1>5
<1>9. N = Len(digits) /\ \A k \in 1..N : digits[k] \in Int
  OBVIOUS
<1> HIDE DEF N
<1> DEFINE Ints == {k \in Nat : k <= N => upto[k] \in Int}
<1>8. Ints = Nat
  <2>1. 0 \in Ints
    <3>1. 0 \in 0..N
      BY <1>0
    <3>2. upto[0] = 0
      BY <1>7, <3>1
    <3>3. upto[0] \in Int
      BY <3>2
    <3> QED  BY <3>3
  <2>2. ASSUME NEW k \in Ints PROVE k + 1 \in Ints
    <3> SUFFICES ASSUME k + 1 <= N PROVE upto[k + 1] \in Int
      OBVIOUS
    <3>1. k \in Nat /\ k + 1 \in 0..N /\ k + 1 # 0 /\ (k + 1) - 1 = k /\ k + 1 \in 1..N /\ k <= N
      BY <1>0
    <3>3. digits[k + 1] \in Int /\ upto[k] \in Int
      BY <1>9, <3>1
    <3>2. upto[k + 1] = 10 * upto[k] + digits[k + 1]
      BY <1>7, <3>1
    <3>4. \A a, b \in Int : 10 * a + b \in Int
      OBVIOUS
    <3> QED  BY <3>2, <3>3, <3>4
  <2>3. Ints \in SUBSET Nat
    OBVIOUS
  <2> HIDE DEF Ints
  <2> QED  BY <2>1, <2>2, <2>3, EveryNumber
<1>10. N \in Ints
  BY <1>0, <1>8
<1> QED  BY <1>6, <1>10

LEMMA ZonedIsWhole ==
    ASSUME NEW cell \in Seq(Int), cell # <<>>, NEW s \in 0..3
    PROVE  LabZoned(cell, s) \in Int /\ Canonicalize(LabZoned(cell, s), s) = LabZoned(cell, s)
<1> DEFINE digits == Append(Front(cell), Last(cell) % 100)
           v == Signed(Number(digits) * Unit(s), Last(cell) \div 100 = 2)
<1>1. digits \in Seq(Int)
  <2>1. Len(cell) \in Nat \ {0} /\ Last(cell) \in Int
    BY DEF Last
  <2>2. Front(cell) \in Seq(Int)
    BY <2>1 DEF Front
  <2>3. Last(cell) % 100 \in Int
    BY <2>1
  <2> QED  BY <2>2, <2>3
<1>2. LabZoned(cell, s) = Canonicalize(v, s)
  BY DEF LabZoned, LabScaled
<1>3. v \in Int
  <2>1. Number(digits) \in Int
    <3> HIDE DEF digits
    <3> QED  BY <1>1, NumberIsWhole
  <2>2. Unit(s) \in Int
    BY UnitOf
  <2>3. Number(digits) * Unit(s) \in Int /\ -(Number(digits) * Unit(s)) \in Int
    <3> HIDE DEF digits
    <3> QED  BY <2>1, <2>2
  <2> QED  BY <2>3 DEF Signed
<1> HIDE DEF v
<1> QED  BY <1>2, <1>3, RoundedNear, RoundedStays

LEMMA PackedIsWhole ==
    ASSUME NEW cell \in Seq(Int), cell # <<>>, NEW s \in 0..3
    PROVE  LabComp3(cell, s) \in Int /\ Canonicalize(LabComp3(cell, s), s) = LabComp3(cell, s)
<1> DEFINE n == AllNibbles(cell)
           digits == Front(n)
           v == Signed(Number(digits) * Unit(s), Last(n) = 13)
<1>1. n \in Seq(Int) /\ Len(n) = 2 * Len(cell) /\ Len(cell) \in Nat \ {0}
  <2>1. Len(cell) \in Nat \ {0} /\ \A k \in 1..Len(cell) : cell[k] \in Int
    OBVIOUS
  <2>2. \A c \in Int : \A i \in {1, 2} : Nibbles(c)[i] \in Int
    BY DEF Nibbles, Blank
  <2>3. ASSUME NEW k \in 1..(2 * Len(cell)) PROVE Nibbles(cell[(k + 1) \div 2])[2 - (k % 2)] \in Int
    <3> DEFINE N == Len(cell)
    <3>1. N \in Nat /\ k \in 1..(2 * N)
      BY <2>1
    <3> HIDE DEF N
    <3>2. (k + 1) \div 2 \in 1..N
      BY <3>1
    <3>3. 2 - (k % 2) \in {1, 2}
      BY <3>1
    <3>4. cell[(k + 1) \div 2] \in Int
      BY <2>1, <3>2 DEF N
    <3> QED  BY <2>2, <3>3, <3>4
  <2>4. n = [k \in 1..(2 * Len(cell)) |-> Nibbles(cell[(k + 1) \div 2])[2 - (k % 2)]]
    BY DEF AllNibbles
  <2> HIDE DEF n
  <2> DEFINE N == 2 * Len(cell)
  <2>5. N \in Nat /\ n \in [1..N -> Int]
    BY <2>1, <2>3, <2>4
  <2> HIDE DEF N
  <2>6. n \in Seq(Int) /\ Len(n) = N
    BY <2>5
  <2> QED  BY <2>1, <2>6 DEF N
<1> HIDE DEF n
<1>2. digits \in Seq(Int)
  BY <1>1 DEF Front
<1>3. LabComp3(cell, s) = Canonicalize(v, s)
  BY DEF LabComp3, LabScaled, n
<1>4. v \in Int
  <2>1. Number(digits) \in Int
    <3> HIDE DEF digits
    <3> QED  BY <1>2, NumberIsWhole
  <2>2. Unit(s) \in Int
    BY UnitOf
  <2>3. Number(digits) * Unit(s) \in Int /\ -(Number(digits) * Unit(s)) \in Int
    <3> HIDE DEF digits
    <3> QED  BY <2>1, <2>2
  <2> QED  BY <2>3 DEF Signed
<1> HIDE DEF v
<1> QED  BY <1>3, <1>4, RoundedNear, RoundedStays

(* A golden number of its own form, as the lab reads it: what its text     *)
(* says, or that rounded.                                                  *)
LEMMA GoldenNumber ==
    ASSUME NEW rule, IsRule(rule), rule.matcher \in Numeric,
           NEW g, IsValue(g), g.kind = FormOf(rule)
    PROVE  /\ ValueOf(rule, g) \in Int
           /\ ToDecimal(g, rule) = Canonicalize(ValueOf(rule, g), rule.scale)
<1>1. rule.matcher \in {"numeric_abs", "numeric_scale"} /\ rule.scale \in 0..3
  BY DEF Numeric, IsRule, Places
<1>2. CASE rule.representation = "packed"
  <2>1. g.kind = "packed" /\ g.v \in Seq(Int) /\ g.v # <<>>
    BY <1>2 DEF FormOf, IsValue
  <2>2. ValueOf(rule, g) = LabComp3(g.v, rule.scale) /\ ToDecimal(g, rule) = LabComp3(g.v, rule.scale)
    BY <1>1, <1>2, <2>1 DEF ValueOf, ToDecimal
  <2> QED  BY <1>1, <2>1, <2>2, PackedIsWhole
<1>3. CASE rule.representation = "zoned"
  <2>1. g.kind = "zoned" /\ g.v \in Seq(Int) /\ g.v # <<>>
    BY <1>3 DEF FormOf, IsValue
  <2>2. ValueOf(rule, g) = LabZoned(g.v, rule.scale) /\ ToDecimal(g, rule) = LabZoned(g.v, rule.scale)
    BY <1>1, <1>3, <2>1 DEF ValueOf, ToDecimal
  <2> QED  BY <1>1, <2>1, <2>2, ZonedIsWhole
<1>4. CASE rule.representation \notin {"packed", "zoned"}
  <2>1. g.kind = "decimal" /\ g.v \in Int
    BY <1>4 DEF FormOf, IsValue
  <2>2. ValueOf(rule, g) = g.v /\ ToDecimal(g, rule) = Canonicalize(g.v, rule.scale)
    BY <1>1, <1>4, <2>1 DEF ValueOf, ToDecimal
  <2> QED  BY <2>1, <2>2
<1> QED  BY <1>2, <1>3, <1>4

(* Two numbers whose rounded ones differ by at most t differ by less than  *)
(* t and a unit.                                                           *)
LEMMA NearWhenRoundedNear ==
    ASSUME NEW x \in Int, NEW y \in Int, NEW s \in 0..3, NEW t \in Nat,
           Magnitude(Canonicalize(x, s) - Canonicalize(y, s)) <= t
    PROVE  Magnitude(x - y) < t + Unit(s)
<1> DEFINE cx == Canonicalize(x, s)
           cy == Canonicalize(y, s)
           u  == Unit(s)
<1>1. /\ cx \in Int /\ cy \in Int /\ u \in Nat
      /\ x >= 0 => cx >= 0 /\ 2 * (cx - x) <= u /\ 2 * (x - cx) < u
      /\ x < 0  => cx <= 0 /\ 2 * (cx - x) < u /\ 2 * (x - cx) <= u
      /\ y >= 0 => cy >= 0 /\ 2 * (cy - y) <= u /\ 2 * (y - cy) < u
      /\ y < 0  => cy <= 0 /\ 2 * (cy - y) < u /\ 2 * (y - cy) <= u
  <2>1. u \in Nat
    BY UnitOf
  <2>2. /\ cx \in Int
        /\ x >= 0 => cx >= 0 /\ 2 * (cx - x) <= u /\ 2 * (x - cx) < u
        /\ x < 0  => cx <= 0 /\ 2 * (cx - x) < u /\ 2 * (x - cx) <= u
    BY RoundedNear
  <2>3. /\ cy \in Int
        /\ y >= 0 => cy >= 0 /\ 2 * (cy - y) <= u /\ 2 * (y - cy) < u
        /\ y < 0  => cy <= 0 /\ 2 * (cy - y) < u /\ 2 * (y - cy) <= u
    BY RoundedNear
  <2> HIDE DEF cx, cy, u
  <2> QED  BY <2>1, <2>2, <2>3
<1>2. cx - cy <= t /\ cy - cx <= t
  BY <1>1 DEF Magnitude
<1> HIDE DEF cx, cy, u
<1>3. x - y < t + u /\ y - x < t + u
  BY <1>1, <1>2
<1> QED  BY <1>3 DEF Magnitude, u

(* The verdict on one field.                                               *)
LEMMA OkIsNear ==
    ASSUME NEW rule, IsRule(rule), NEW g, IsValue(g), NEW c, IsValue(c),
           CompareField(rule, g, c) \notin {"raises", "differs"}
    PROVE  Near(rule, g, c)
<1>1. CASE rule.matcher = "ignore"
  BY <1>1 DEF Near
<1>2. CASE rule.matcher = "exact"
  BY <1>2 DEF CompareField, Differs, Near
<1>3. CASE rule.matcher = "date"
  BY <1>3, Zenon DEF CompareField, Differs, Near
<1>4. CASE rule.matcher \in Numeric
  <2>1. rule.matcher \in {"numeric_abs", "numeric_scale"} /\ rule.scale \in 0..3 /\ rule.tolerance \in Nat
    BY <1>4 DEF Numeric, IsRule, Places
  <2>2. CompareField(rule, g, c) = NumbersWithin(rule, g, c)
    BY <2>1 DEF CompareField
  <2>3. c.kind = "decimal" /\ g.kind = FormOf(rule)
    BY <2>2 DEF NumbersWithin
  <2>4. Magnitude(ToDecimal(g, rule) - Canonicalize(c.v, rule.scale))
            <= IF rule.matcher = "numeric_abs" THEN rule.tolerance ELSE 0
    BY <2>2, <2>3 DEF NumbersWithin, Differs
  <2>5. ValueOf(rule, c) = c.v /\ c.v \in Int
    BY <2>1, <2>3 DEF ValueOf, IsValue
  <2>6. /\ ValueOf(rule, g) \in Int
        /\ ToDecimal(g, rule) = Canonicalize(ValueOf(rule, g), rule.scale)
    BY <1>4, <2>3, GoldenNumber
  <2>7. Magnitude(Canonicalize(ValueOf(rule, g), rule.scale) - Canonicalize(c.v, rule.scale)) <= rule.tolerance
    <3> DEFINE d == Magnitude(Canonicalize(ValueOf(rule, g), rule.scale) - Canonicalize(c.v, rule.scale))
    <3>1. d \in Int
      <4>1. Canonicalize(ValueOf(rule, g), rule.scale) \in Int /\ Canonicalize(c.v, rule.scale) \in Int
        BY <2>1, <2>5, <2>6, RoundedNear
      <4> QED  BY <4>1 DEF Magnitude
    <3>2. d <= IF rule.matcher = "numeric_abs" THEN rule.tolerance ELSE 0
      BY <2>4, <2>6
    <3> HIDE DEF d
    <3>3. d <= rule.tolerance
      BY <2>1, <3>1, <3>2
    <3> QED  BY <3>3 DEF d
  <2>8. Magnitude(ValueOf(rule, g) - c.v) < rule.tolerance + Unit(rule.scale)
    BY <2>1, <2>5, <2>6, <2>7, NearWhenRoundedNear
  <2> QED  BY <2>1, <2>3, <2>5, <2>8 DEF Near
<1> QED  BY <1>1, <1>2, <1>3, <1>4 DEF IsRule, Matchers

LEMMA SameIsOk ==
    ASSUME NEW rule, IsRule(rule), NEW g, IsValue(g), NEW c, IsValue(c), OwnForm(rule, g),
           Same(rule, g, c)
    PROVE  CompareField(rule, g, c) = "ok"
<1>1. CASE rule.matcher = "ignore"
  BY <1>1 DEF CompareField
<1>2. CASE rule.matcher = "exact"
  BY <1>2 DEF CompareField, Differs, Near, Same
<1>3. CASE rule.matcher = "date"
  BY <1>3 DEF CompareField, Differs, Near, Same, OwnForm
<1>4. CASE rule.matcher \in Numeric
  <2>1. rule.matcher \in {"numeric_abs", "numeric_scale"} /\ rule.scale \in 0..3 /\ rule.tolerance \in Nat
    BY <1>4 DEF Numeric, IsRule, Places
  <2>2. CompareField(rule, g, c) = NumbersWithin(rule, g, c)
    BY <2>1 DEF CompareField
  <2>3. c.kind = "decimal" /\ g.kind = FormOf(rule) /\ ValueOf(rule, g) = ValueOf(rule, c)
    BY <1>4, <2>1 DEF Near, Same, OwnForm
  <2>4. ValueOf(rule, c) = c.v /\ c.v \in Int
    BY <2>1, <2>3 DEF ValueOf, IsValue
  <2>5. ToDecimal(g, rule) = Canonicalize(c.v, rule.scale)
    BY <1>4, <2>3, <2>4, GoldenNumber
  <2>6. Magnitude(ToDecimal(g, rule) - Canonicalize(c.v, rule.scale)) = 0
    <3>1. Canonicalize(c.v, rule.scale) \in Int
      BY <2>1, <2>4, RoundedNear
    <3> QED  BY <2>5, <3>1 DEF Magnitude
  <2>7. Magnitude(ToDecimal(g, rule) - Canonicalize(c.v, rule.scale))
            <= IF rule.matcher = "numeric_abs" THEN rule.tolerance ELSE 0
    BY <2>1, <2>6
  <2> QED  BY <2>2, <2>3, <2>7 DEF NumbersWithin, Differs
<1> QED  BY <1>1, <1>2, <1>3, <1>4 DEF IsRule, Matchers

LEMMA FieldIsValue ==
    ASSUME NEW records, AreRecords(records), NEW k \in DOMAIN records, NEW f
    PROVE  IsValue(FieldOf(records[k], f))
<1>1. IsValue(NoText)
  BY DEF NoText, Text, IsValue
<1> QED  BY <1>1 DEF AreRecords, FieldOf

(* A pass of the lab means what it says, and equal records pass            *)
(* (equivalence/tolerance.py, differ.py).                                  *)
THEOREM VerdictsAreSound ==
    ASSUME NEW golden, AreRecords(golden), NEW candidate, AreRecords(candidate),
           NEW rs, IsRuleset(rs), Readable(golden, rs), NEW key
    PROVE  VerdictIsSound(golden, candidate, rs, key)
<1> DEFINE verdict == RunEquivalence(golden, candidate, rs, key)
           keys == KeysOf(golden, key) = KeysOf(candidate, key)
           Bad == {"raises", "differs"}
           Result(i, f) == CompareField(RuleFor(rs, f), golden[i][f],
                                        FieldOf(ByKey(candidate, golden[i][key], key), f))
<1>1. verdict = "pass" <=>
          keys /\ \A i \in DOMAIN golden : golden[i][key] \in KeysOf(candidate, key) =>
                     \A f \in DOMAIN golden[i] : Result(i, f) \notin Bad
  <2> HIDE DEF Bad
  <2>1. (\E x \in Compared(golden, candidate, rs, key) : x.result \in Bad) <=>
            \E i \in DOMAIN golden : golden[i][key] \in KeysOf(candidate, key)
               /\ \E f \in DOMAIN golden[i] : Result(i, f) \in Bad
    BY FieldsCompared
  <2>2. verdict = "pass" <=> keys /\ \A x \in Compared(golden, candidate, rs, key) : x.result \notin Bad
    BY PassMeans DEF Bad
  <2> HIDE DEF verdict, keys, Result
  <2> QED  BY <2>1, <2>2
<1>2. \A i \in DOMAIN golden : golden[i] \in Range(golden) /\ golden[i][key] \in KeysOf(golden, key)
  BY DEF KeysOf, Range
<1>3. ASSUME NEW i \in DOMAIN golden, keys
      PROVE  \E j \in DOMAIN candidate : candidate[j][key] = golden[i][key]
                /\ ByKey(candidate, golden[i][key], key) = candidate[j]
  BY <1>2, <1>3, ByKeyFinds DEF AreRecords
<1>4. ASSUME verdict = "pass", NEW g \in Range(golden)
      PROVE  \E c \in Range(candidate) : c[key] = g[key] /\ Parity(rs, g, c, Near)
  <2>1. PICK i \in DOMAIN golden : g = golden[i]
    BY DEF Range
  <2>2. keys /\ \A f \in DOMAIN golden[i] : Result(i, f) \notin Bad
    BY <1>1, <1>2, <1>4
  <2>3. PICK j \in DOMAIN candidate : candidate[j][key] = golden[i][key]
                /\ ByKey(candidate, golden[i][key], key) = candidate[j]
    BY <1>3, <2>2
  <2>4. ASSUME NEW f \in DOMAIN golden[i]
        PROVE  Near(RuleFor(rs, f), golden[i][f], FieldOf(candidate[j], f))
    <3>1. IsRule(RuleFor(rs, f)) /\ IsValue(golden[i][f]) /\ IsValue(FieldOf(candidate[j], f))
      BY RuleIsRule, FieldIsValue DEF AreRecords
    <3>2. CompareField(RuleFor(rs, f), golden[i][f], FieldOf(candidate[j], f)) \notin {"raises", "differs"}
      BY <2>2, <2>3
    <3> QED  BY <3>1, <3>2, OkIsNear
  <2>5. Parity(rs, g, candidate[j], Near)
    BY <2>1, <2>4 DEF Parity
  <2>6. candidate[j] \in Range(candidate)
    BY DEF Range
  <2> QED  BY <2>1, <2>3, <2>5, <2>6
<1>5. ASSUME keys, \A g \in Range(golden) : \A c \in Range(candidate) :
                       c[key] = g[key] => Parity(rs, g, c, Same)
      PROVE  verdict = "pass"
  <2>1. ASSUME NEW i \in DOMAIN golden, NEW f \in DOMAIN golden[i] PROVE Result(i, f) \notin Bad
    <3>1. PICK j \in DOMAIN candidate : candidate[j][key] = golden[i][key]
                /\ ByKey(candidate, golden[i][key], key) = candidate[j]
      BY <1>3, <1>5
    <3>2. candidate[j] \in Range(candidate)
      BY DEF Range
    <3>3. Parity(rs, golden[i], candidate[j], Same)
      BY <1>2, <1>5, <3>1, <3>2
    <3>4. Same(RuleFor(rs, f), golden[i][f], FieldOf(candidate[j], f))
      BY <3>3 DEF Parity
    <3>5. IsRule(RuleFor(rs, f)) /\ IsValue(golden[i][f]) /\ IsValue(FieldOf(candidate[j], f))
      BY RuleIsRule, FieldIsValue DEF AreRecords
    <3>6. OwnForm(RuleFor(rs, f), golden[i][f])
      BY DEF Readable
    <3>7. CompareField(RuleFor(rs, f), golden[i][f], FieldOf(candidate[j], f)) = "ok"
      BY <3>4, <3>5, <3>6, SameIsOk
    <3> QED  BY <3>1, <3>7
  <2> HIDE DEF verdict, keys, Result, Bad
  <2> QED  BY <1>1, <1>5, <2>1
<1>6. verdict = "pass" => keys
  <2> HIDE DEF verdict, keys, Result, Bad
  <2> QED  BY <1>1
<1> QED  BY <1>4, <1>5, <1>6 DEF VerdictIsSound

LEMMA TheRules ==
    /\ {r.field : r \in Range(DefaultRules)} = {"accountId", "currentBalance", "customerLastName"}
    /\ \A r \in Range(DefaultRules) :
          \/ r.field = "accountId" /\ r.kind = "exact"
          \/ r.field = "currentBalance" /\ r.kind = "numeric" /\ r.scale = 2
          \/ r.field = "customerLastName" /\ r.kind = "text"
<1> DEFINE a == [field |-> "accountId", kind |-> "exact", scale |-> 0]
           b == [field |-> "currentBalance", kind |-> "numeric", scale |-> 2]
           c == [field |-> "customerLastName", kind |-> "text", scale |-> 0]
<1>1. DefaultRules = <<a, b, c>>
  BY DEF DefaultRules
<1>2. /\ a.field = "accountId" /\ a.kind = "exact"
      /\ b.field = "currentBalance" /\ b.kind = "numeric" /\ b.scale = 2
      /\ c.field = "customerLastName" /\ c.kind = "text"
  OBVIOUS
<1> HIDE DEF a, b, c
<1>3. Range(DefaultRules) = {a, b, c}
  BY <1>1 DEF Range
<1> QED  BY <1>2, <1>3

(* A launch passes exactly if every field of every input is equal.         *)
LEMMA LaunchPasses ==
    ASSUME NEW inputs, NEW golden, NEW actual
    PROVE  RunDarkLaunch(inputs, golden, actual) = "passed" <=>
              \A k \in DOMAIN inputs : \A r \in Range(DefaultRules) :
                  Judged(Given(golden, inputs[k]), Given(actual, inputs[k]), r) = "equal"
<1> DEFINE report == [k \in DOMAIN inputs |-> DiffOutputs(Given(golden, inputs[k]), Given(actual, inputs[k]))]
           matched == {k \in DOMAIN inputs : \A x \in report[k] : x.reason = "equal"}
           J(k, r) == Judged(Given(golden, inputs[k]), Given(actual, inputs[k]), r)
<1>1. \A k \in DOMAIN inputs :
          (\A x \in report[k] : x.reason = "equal") <=> \A r \in Range(DefaultRules) : J(k, r) = "equal"
  <2> SUFFICES ASSUME NEW k \in DOMAIN inputs
               PROVE  (\A x \in report[k] : x.reason = "equal") <=> \A r \in Range(DefaultRules) : J(k, r) = "equal"
    OBVIOUS
  <2>1. report[k] = {[field |-> r.field, reason |-> J(k, r)] : r \in Range(DefaultRules)}
    BY DEF DiffOutputs
  <2>2. \A r : [field |-> r.field, reason |-> J(k, r)].reason = J(k, r)
    OBVIOUS
  <2> HIDE DEF report, J
  <2> QED  BY <2>1, <2>2
<1>2. RunDarkLaunch(inputs, golden, actual) = "passed" <=>
          ~(\E k \in DOMAIN inputs : \E x \in report[k] : x.reason = "raises") /\ matched = DOMAIN inputs
  BY DEF RunDarkLaunch
<1> HIDE DEF report, J
<1>3. matched = DOMAIN inputs <=> \A k \in DOMAIN inputs : \A x \in report[k] : x.reason = "equal"
  OBVIOUS
<1>4. RunDarkLaunch(inputs, golden, actual) = "passed" <=>
          \A k \in DOMAIN inputs : \A r \in Range(DefaultRules) : J(k, r) = "equal"
  <2> HIDE DEF matched
  <2> QED  BY <1>1, <1>2, <1>3
<1> QED  BY <1>4 DEF J

(* Numbers rounded to the same number of units are within a unit.          *)
LEMMA CloseWhenQuantized ==
    ASSUME NEW x, x.v \in Int, NEW y, y.v \in Int, Quantized(x, 2) = Quantized(y, 2)
    PROVE  Magnitude(x.v - y.v) <= Unit(2)
<1>1. Unit(2) = 10
  BY DEF Unit
<1>2. \A n \in Nat : /\ HalfEven(n, 10) \in Nat
                     /\ 2 * (10 * HalfEven(n, 10) - n) <= 10 /\ 2 * (n - 10 * HalfEven(n, 10)) <= 10
  BY DEF HalfEven
<1> DEFINE m == Magnitude(x.v)
           n == Magnitude(y.v)
           p == HalfEven(m, 10)
           q == HalfEven(n, 10)
<1>3. m \in Nat /\ n \in Nat /\ m = (IF x.v < 0 THEN -x.v ELSE x.v) /\ n = IF y.v < 0 THEN -y.v ELSE y.v
  BY DEF Magnitude
<1>4. (IF x.v < 0 THEN -p ELSE p) = IF y.v < 0 THEN -q ELSE q
  BY <1>1 DEF Quantized, Signed
<1> HIDE DEF m, n
<1>5. /\ p \in Nat /\ 2 * (10 * p - m) <= 10 /\ 2 * (m - 10 * p) <= 10
      /\ q \in Nat /\ 2 * (10 * q - n) <= 10 /\ 2 * (n - 10 * q) <= 10
  BY <1>2, <1>3
<1> HIDE DEF p, q
<1>6. x.v - y.v <= 10 /\ y.v - x.v <= 10
  BY <1>3, <1>4, <1>5
<1> QED  BY <1>1, <1>6 DEF Magnitude

(* A pass of a dark launch means what it says, and a service that answers  *)
(* what was captured passes (darklaunch/diff.py, tolerance.py, runner.py). *)
THEOREM LaunchesAreSound ==
    ASSUME NEW inputs, NEW golden, AreAnswers(golden), NEW actual, AreAnswers(actual)
    PROVE  LaunchIsSound(inputs, golden, actual)
<1> DEFINE verdict == RunDarkLaunch(inputs, golden, actual)
           fields == {r.field : r \in Range(DefaultRules)}
           Rules == Range(DefaultRules)
<1>1. ASSUME verdict = "passed", NEW a \in Range(inputs)
      PROVE  /\ a \in DOMAIN golden /\ a \in DOMAIN actual
             /\ \A r \in Rules : /\ r.field \in DOMAIN actual[a]
                                 /\ Agrees(r, Expected(golden[a], r.field), actual[a][r.field])
  <2>1. \A r \in Rules : Judged(Given(golden, a), Given(actual, a), r) = "equal"
    <3>1. PICK k \in DOMAIN inputs : a = inputs[k]
      BY DEF Range
    <3> QED  BY <1>1, <3>1, LaunchPasses
  <2>2. \A r \in Rules : /\ r.field \in DOMAIN Given(actual, a)
                         /\ FieldsEqual(Expected(Given(golden, a), r.field), Given(actual, a)[r.field], r) = "equal"
    BY <2>1 DEF Judged
  <2>3. PICK b \in Rules : b.field = "currentBalance" /\ b.kind = "numeric" /\ b.scale = 2
    BY TheRules
  <2>4. a \in DOMAIN actual
    BY <2>2, <2>3 DEF Given
  <2>5. a \in DOMAIN golden
    <3> SUFFICES ASSUME a \notin DOMAIN golden PROVE FALSE
      OBVIOUS
    <3>1. Expected(Given(golden, a), b.field) = Null
      BY <2>3 DEF Given, Expected
    <3>2. Null.kind # "decimal"
      BY DEF Null
    <3> QED  BY <2>2, <2>3, <3>1, <3>2 DEF FieldsEqual
  <2>6. Given(actual, a) = actual[a] /\ Given(golden, a) = golden[a]
    BY <2>4, <2>5 DEF Given
  <2>7. ASSUME NEW r \in Rules
        PROVE  r.field \in DOMAIN actual[a] /\ Agrees(r, Expected(golden[a], r.field), actual[a][r.field])
    <3> DEFINE e == Expected(golden[a], r.field)
               x == actual[a][r.field]
    <3>1. r.field \in DOMAIN actual[a] /\ FieldsEqual(e, x, r) = "equal"
      BY <2>2, <2>6
    <3>2. CASE r.kind = "numeric" /\ r.scale = 2
      <4>1. e.kind = "decimal" /\ x.kind = "decimal" /\ Quantized(e, 2) = Quantized(x, 2)
        BY <3>1, <3>2 DEF FieldsEqual
      <4>2. x.v \in Int
        BY <2>4, <3>1, <4>1 DEF AreAnswers
      <4>3. e.v \in Int
        <5>1. e # Null
          BY <4>1 DEF Null
        <5> QED  BY <2>5, <4>1, <5>1 DEF AreAnswers, Expected
      <4> HIDE DEF e, x
      <4>4. Magnitude(e.v - x.v) <= Unit(2)
        BY <4>1, <4>2, <4>3, CloseWhenQuantized
      <4> QED  BY <3>1, <3>2, <4>4 DEF Agrees, e, x
    <3>3. CASE r.kind = "exact"
      BY <3>1, <3>3 DEF FieldsEqual, Agrees
    <3>4. CASE r.kind = "text"
      BY <3>1, <3>4 DEF FieldsEqual, Agrees
    <3> QED  BY <3>2, <3>3, <3>4, TheRules
  <2> QED  BY <2>4, <2>5, <2>7
<1>2. ASSUME \A a \in Range(inputs) :
                /\ a \in DOMAIN golden \cap DOMAIN actual
                /\ fields \subseteq DOMAIN golden[a] \cap DOMAIN actual[a]
                /\ golden[a]["currentBalance"].kind = "decimal" /\ actual[a]["currentBalance"].kind = "decimal"
                /\ golden[a]["currentBalance"].v = actual[a]["currentBalance"].v
                /\ \A f \in fields \ {"currentBalance"} : SameString(golden[a][f], actual[a][f])
                /\ golden[a]["accountId"] = actual[a]["accountId"]
      PROVE  verdict = "passed"
  <2>1. ASSUME NEW k \in DOMAIN inputs, NEW r \in Rules
        PROVE  Judged(Given(golden, inputs[k]), Given(actual, inputs[k]), r) = "equal"
    <3> DEFINE a == inputs[k]
               e == golden[a][r.field]
               x == actual[a][r.field]
    <3>1. a \in Range(inputs) /\ r.field \in fields
      BY DEF Range
    <3>2. Given(golden, a) = golden[a] /\ Given(actual, a) = actual[a]
      BY <1>2, <3>1 DEF Given
    <3>3. /\ r.field \in DOMAIN golden[a] /\ r.field \in DOMAIN actual[a]
          /\ r.field # "currentBalance" => SameString(e, x)
      BY <1>2, <3>1
    <3>4. Judged(golden[a], actual[a], r) = FieldsEqual(e, x, r)
      BY <3>3 DEF Judged, Expected
    <3>5. FieldsEqual(e, x, r) = "equal"
      <4>1. CASE r.field = "accountId" /\ r.kind = "exact"
        BY <1>2, <3>1, <4>1 DEF FieldsEqual
      <4>2. CASE r.field = "currentBalance" /\ r.kind = "numeric" /\ r.scale = 2
        <5>1. e.kind = "decimal" /\ x.kind = "decimal" /\ e.v = x.v
          BY <1>2, <3>1, <4>2
        <5>2. Quantized(e, r.scale) = Quantized(x, r.scale)
          BY <5>1 DEF Quantized
        <5> QED  BY <4>2, <5>1, <5>2 DEF FieldsEqual
      <4>3. CASE r.field = "customerLastName" /\ r.kind = "text"
        BY <3>3, <4>3 DEF FieldsEqual
      <4> QED  BY <4>1, <4>2, <4>3, TheRules
    <3> QED  BY <3>2, <3>4, <3>5
  <2> QED  BY <2>1, LaunchPasses
<1> QED  BY <1>1, <1>2 DEF LaunchIsSound

----------------------------------------------------------------------------
(* The records of the mimic (Lab): where a field begins.                   *)
Widths(w) == DOMAIN w = 1..Len(w) /\ Len(w) \in Nat /\ \A k \in 1..Len(w) : w[k] \in Nat

LEMMA OffsetsAdd ==
    ASSUME NEW w, Widths(w)
    PROVE  /\ Offset(w, 1) = 0
           /\ \A k \in 1..Len(w) : Offset(w, k + 1) = Offset(w, k) + w[k]
           /\ \A k \in 1..(Len(w) + 1) : Offset(w, k) \in Nat
<1> DEFINE N == Len(w)
           Adding(h) == h = [j \in 0..N |-> IF j = 0 THEN 0 ELSE h[j - 1] + w[j]]
           u == CHOOSE h : Adding(h)
           X == Nat
           step == [k \in 1..N |-> [y \in X |-> y + w[k]]]
<1>1. N \in Nat /\ \A k \in 1..N : w[k] \in Nat
  BY DEF Widths
<1>2. Adding(u)
  <2>1. step \in [1..N -> [X -> X]]
    <3>1. \A k \in 1..N, y \in Nat : y + w[k] \in Nat
      BY <1>1
    <3> HIDE DEF N
    <3> QED  BY <3>1
  <2>2. PICK h : /\ h = [k \in 0..N |-> IF k = 0 THEN 0 ELSE step[k][h[k - 1]]]
                 /\ \A k \in 1..N : h[k - 1] \in X
    <3>1. 0 \in X
      OBVIOUS
    <3>2. \E h : Stepwise(h, N, X, 0, step)
      <4> HIDE DEF N, X, step
      <4> QED  BY ONLY <1>1, <2>1, <3>1, StepsExist
    <3> HIDE DEF N, X, step
    <3> QED  BY <3>2 DEF Stepwise
  <2>3. \A k \in 0..N : k # 0 => k \in 1..N
    BY <1>1
  <2>4. \A k \in 1..N : step[k][h[k - 1]] = h[k - 1] + w[k]
    <3> HIDE DEF N
    <3> QED  BY <2>2
  <2>5. Adding(h)
    <3> HIDE DEF N, step
    <3> QED  BY <2>2, <2>3, <2>4
  <2> HIDE DEF Adding
  <2> QED  BY <2>5
<1>3. \A k : Offset(w, k) = u[k - 1]
  BY DEF Offset
<1> HIDE DEF u
<1>4. u[0] = 0 /\ \A k \in 1..N : u[k] = u[k - 1] + w[k]
  <2>1. 0 \in 0..N /\ \A k \in 1..N : k \in 0..N /\ k # 0
    BY <1>1
  <2> HIDE DEF N
  <2> QED  BY <1>2, <2>1
<1>5. \A k \in 0..N : u[k] \in Nat
  <2>1. \A k \in 1..N : u[k - 1] \in Nat => u[k] \in Nat
    BY <1>1, <1>4
  <2>2. u[0] \in Nat
    BY <1>4
  <2> HIDE DEF N
  <2> QED  BY <1>1, <2>1, <2>2, StepsKeep
<1>6. /\ 1 - 1 = 0
      /\ \A k \in 1..N : (k + 1) - 1 = k
      /\ \A k \in 1..(N + 1) : k - 1 \in 0..N
  BY <1>1
<1> HIDE DEF N
<1>7. Offset(w, 1) = 0
  <2>1. Offset(w, 1) = u[1 - 1]
    BY <1>3
  <2> QED  BY <1>4, <1>6, <2>1
<1>8. \A k \in 1..N : Offset(w, k + 1) = Offset(w, k) + w[k]
  BY <1>3, <1>4, <1>6
<1>9. \A k \in 1..(N + 1) : Offset(w, k) \in Nat
  BY <1>3, <1>5, <1>6
<1> QED  BY <1>7, <1>8, <1>9 DEF N

(* Where a field begins depends on the widths before it.                   *)
LEMMA OffsetsAgree ==
    ASSUME NEW w, Widths(w), NEW v, Widths(v), Len(v) = Len(w), NEW n \in 1..(Len(w) + 1),
           \A j \in 1..(n - 1) : v[j] = w[j]
    PROVE  Offset(v, n) = Offset(w, n)
<1> DEFINE m == n - 1
           S == {k \in 0..m : Offset(v, k + 1) = Offset(w, k + 1)}
<1>1. m \in Nat /\ m + 1 = n /\ Len(w) \in Nat /\ \A k \in 1..m : k \in 1..Len(w)
  BY DEF Widths
<1>2. 0 \in S
  BY <1>1, OffsetsAdd
<1>3. ASSUME NEW k \in 1..m, k - 1 \in S PROVE k \in S
  <2>1. Offset(v, k) = Offset(w, k)
    <3>1. (k - 1) + 1 = k
      OBVIOUS
    <3> QED  BY <1>3, <3>1
  <2>2. Offset(v, k + 1) = Offset(v, k) + v[k] /\ Offset(w, k + 1) = Offset(w, k) + w[k]
    BY <1>1, OffsetsAdd
  <2>3. v[k] = w[k] /\ k \in 0..m
    OBVIOUS
  <2> QED  BY <2>1, <2>2, <2>3
<1> HIDE DEF S
<1>4. \A k \in 0..m : k \in S
  <2> HIDE DEF m
  <2> QED  BY <1>1, <1>2, <1>3, UpToNumber
<1>5. m \in S
  BY <1>1, <1>4
<1> QED  BY <1>1, <1>5 DEF S

(* Powers of ten, the numbers a number leaves when its last digits are     *)
(* dropped, and the numbers its first digits make.                         *)
Tens(u, d) == u[0] = 1 /\ (\A k \in 1..d : u[k] = 10 * u[k - 1]) /\ \A k \in 0..d : u[k] \in Nat

Drops(u, n, d) == u[0] = n /\ (\A k \in 1..d : u[k] = u[k - 1] \div 10) /\ \A k \in 0..d : u[k] \in Nat

Makes(u, digits, d) == u[0] = 0 /\ \A k \in 1..d : u[k] = 10 * u[k - 1] + digits[k]

LEMMA PowerSteps ==
    ASSUME NEW d \in Nat
    PROVE  \E u : Power(d) = u[d] /\ Tens(u, d)
<1> DEFINE X == Nat
           Rec(h) == h = [j \in 0..d |-> IF j = 0 THEN 1 ELSE 10 * h[j - 1]]
           u == CHOOSE h : Rec(h)
           step == [k \in 1..d |-> [y \in X |-> 10 * y]]
<1>1. Rec(u)
  <2>1. step \in [1..d -> [X -> X]]
    OBVIOUS
  <2>2. PICK h : /\ h = [k \in 0..d |-> IF k = 0 THEN 1 ELSE step[k][h[k - 1]]]
                 /\ \A k \in 1..d : h[k - 1] \in X
    <3>1. 1 \in X
      OBVIOUS
    <3>2. \E h : Stepwise(h, d, X, 1, step)
      <4> HIDE DEF X, step
      <4> QED  BY ONLY d \in Nat, <2>1, <3>1, StepsExist
    <3> HIDE DEF X, step
    <3> QED  BY <3>2 DEF Stepwise
  <2>3. \A k \in 0..d : k # 0 => k \in 1..d
    OBVIOUS
  <2>4. \A k \in 1..d : step[k][h[k - 1]] = 10 * h[k - 1]
    BY <2>2
  <2>5. Rec(h)
    <3> HIDE DEF step
    <3> QED  BY <2>2, <2>3, <2>4
  <2> HIDE DEF Rec
  <2> QED  BY <2>5
<1>2. Power(d) = u[d]
  BY DEF Power
<1> HIDE DEF u
<1>3. u[0] = 1 /\ \A k \in 1..d : u[k] = 10 * u[k - 1]
  <2>1. 0 \in 0..d /\ \A k \in 1..d : k \in 0..d /\ k # 0
    OBVIOUS
  <2> QED  BY <1>1, <2>1
<1>4. \A k \in 0..d : u[k] \in X
  <2>1. u[0] \in X /\ \A k \in 1..d : u[k - 1] \in X => u[k] \in X
    BY <1>3
  <2> HIDE DEF X
  <2> QED  BY <2>1, StepsKeep
<1> QED  BY <1>2, <1>3, <1>4 DEF Tens

Dropping(u, v, d, s) ==
    /\ Drops(u, HalfEven(Magnitude(v), Unit(s)), d)
    /\ DigitString(v, d, s) = [k \in 1..d |-> u[d - k] % 10]

LEMMA DigitSteps ==
    ASSUME NEW v \in Int, NEW d \in Nat, NEW s, HalfEven(Magnitude(v), Unit(s)) \in Nat
    PROVE  \E u : Dropping(u, v, d, s)
<1> DEFINE n == HalfEven(Magnitude(v), Unit(s))
           X == Nat
           Rec(h) == h = [j \in 0..d |-> IF j = 0 THEN n ELSE h[j - 1] \div 10]
           u == CHOOSE h : Rec(h)
           step == [k \in 1..d |-> [y \in X |-> y \div 10]]
<1>1. Rec(u)
  <2>1. step \in [1..d -> [X -> X]]
    <3> HIDE DEF n
    <3> QED  OBVIOUS
  <2>2. PICK h : /\ h = [k \in 0..d |-> IF k = 0 THEN n ELSE step[k][h[k - 1]]]
                 /\ \A k \in 1..d : h[k - 1] \in X
    <3>1. n \in X
      OBVIOUS
    <3>2. \E h : Stepwise(h, d, X, n, step)
      <4> HIDE DEF X, step, n
      <4> QED  BY ONLY d \in Nat, <2>1, <3>1, StepsExist
    <3> HIDE DEF X, step, n
    <3> QED  BY <3>2 DEF Stepwise
  <2> HIDE DEF n
  <2>3. \A k \in 0..d : k # 0 => k \in 1..d
    OBVIOUS
  <2>4. \A k \in 1..d : step[k][h[k - 1]] = h[k - 1] \div 10
    BY <2>2
  <2>5. Rec(h)
    <3> HIDE DEF step
    <3> QED  BY <2>2, <2>3, <2>4
  <2> HIDE DEF Rec
  <2> QED  BY <2>5
<1>2. DigitString(v, d, s) = [k \in 1..d |-> u[d - k] % 10]
  BY DEF DigitString
<1> HIDE DEF u, n
<1>3. u[0] = n /\ \A k \in 1..d : u[k] = u[k - 1] \div 10
  <2>1. 0 \in 0..d /\ \A k \in 1..d : k \in 0..d /\ k # 0
    OBVIOUS
  <2> QED  BY <1>1, <2>1
<1>4. \A k \in 0..d : u[k] \in X
  <2>1. u[0] \in X /\ \A k \in 1..d : u[k - 1] \in X => u[k] \in X
    BY <1>3 DEF n
  <2> HIDE DEF X
  <2> QED  BY <2>1, StepsKeep
<1> QED  BY <1>2, <1>3, <1>4 DEF Drops, Dropping, n

LEMMA NumberSteps ==
    ASSUME NEW digits, DOMAIN digits = 1..Len(digits), Len(digits) \in Nat, \A k \in 1..Len(digits) : digits[k] \in Int
    PROVE  \E u : Number(digits) = u[Len(digits)] /\ Makes(u, digits, Len(digits))
<1> DEFINE N == Len(digits)
           Rec(h) == h = [k \in 0..N |-> IF k = 0 THEN 0 ELSE 10 * h[k - 1] + digits[k]]
           u == CHOOSE h : Rec(h)
<1>1. Rec(u)
  <2>1. \E h : Rec(h)
    <3> HIDE DEF N
    <3> QED  BY DigitByDigit DEF N
  <2> HIDE DEF Rec
  <2> QED  BY <2>1
<1>2. Number(digits) = u[N]
  BY DEF Number
<1> HIDE DEF u
<1>3. u[0] = 0 /\ \A k \in 1..N : u[k] = 10 * u[k - 1] + digits[k]
  <2>1. 0 \in 0..N /\ \A k \in 1..N : k \in 0..N /\ k # 0
    OBVIOUS
  <2> HIDE DEF N
  <2> QED  BY <1>1, <2>1
<1> QED  BY <1>2, <1>3 DEF Makes

(* A number that has no more digits than there are places is what its      *)
(* digits make.                                                            *)
LEMMA DigitsMakeIt ==
    ASSUME NEW v \in Int, NEW s, NEW d \in Nat, NEW D \in Nat, d <= D,
           HalfEven(Magnitude(v), Unit(s)) \in Nat, HalfEven(Magnitude(v), Unit(s)) < Power(d)
    PROVE  /\ Number(DigitString(v, D, s)) = HalfEven(Magnitude(v), Unit(s))
           /\ DigitString(v, D, s) \in Seq(0..9) /\ Len(DigitString(v, D, s)) = D
<1> DEFINE n == HalfEven(Magnitude(v), Unit(s))
           digits == DigitString(v, D, s)
<1>0. PICK r : Dropping(r, v, D, s)
  <2>1. \E r : Dropping(r, v, D, s)
    BY DigitSteps
  <2> QED  BY <2>1
<1>1. Drops(r, n, D) /\ digits = [k \in 1..D |-> r[D - k] % 10]
  BY <1>0 DEF Dropping
<1>2. PICK t : Power(d) = t[d] /\ Tens(t, d)
  BY PowerSteps
<1>3. n \in Nat /\ n < t[d]
  BY <1>2
<1> HIDE DEF n, digits
<1>4. ASSUME NEW k \in 1..D PROVE D - k \in 0..D /\ digits[k] = r[D - k] % 10 /\ r[D - k] \in Nat /\ digits[k] \in 0..9
  <2>1. D - k \in 0..D
    OBVIOUS
  <2>2. r[D - k] \in Nat /\ digits[k] = r[D - k] % 10
    BY <1>1, <2>1 DEF Drops
  <2>3. \A x \in Nat : x % 10 \in 0..9
    OBVIOUS
  <2> QED  BY <2>1, <2>2, <2>3
<1>5. digits \in Seq(0..9) /\ Len(digits) = D /\ DOMAIN digits = 1..D
  <2>1. DOMAIN digits = 1..D /\ digits = [k \in 1..D |-> digits[k]]
    BY <1>1
  <2>2. digits \in [1..D -> 0..9]
    BY <1>4, <2>1
  <2> QED  BY <2>2
<1>6. PICK u : Number(digits) = u[D] /\ Makes(u, digits, D)
  <2>1. \A k \in 1..D : digits[k] \in Int
    BY <1>4
  <2> QED  BY <1>5, <2>1, NumberSteps
<1>7. \A j \in 0..d : r[j] < t[d - j]
  <2> DEFINE S == {j \in 0..d : r[j] < t[d - j]}
  <2>1. 0 \in S
    BY <1>1, <1>3 DEF Drops
  <2>2. ASSUME NEW j \in 1..d, j - 1 \in S PROVE j \in S
    <3>1. r[j - 1] < t[d - (j - 1)]
      BY <2>2
    <3>2. d - (j - 1) \in 1..d /\ (d - (j - 1)) - 1 = d - j /\ d - j \in 0..d /\ j \in 1..D /\ j - 1 \in 0..D /\ j \in 0..d
      OBVIOUS
    <3>3. t[d - (j - 1)] = 10 * t[d - j] /\ t[d - j] \in Nat
      BY <1>2, <3>2 DEF Tens
    <3>4. r[j] = r[j - 1] \div 10 /\ r[j - 1] \in Nat
      BY <1>1, <3>2 DEF Drops
    <3>5. \A a, b \in Nat : a < 10 * b => a \div 10 < b
      OBVIOUS
    <3>6. r[j] < t[d - j]
      BY <3>1, <3>3, <3>4, <3>5
    <3> QED  BY <3>2, <3>6
  <2> HIDE DEF S
  <2>3. \A j \in 0..d : j \in S
    BY <2>1, <2>2, UpToNumber
  <2> QED  BY <2>3 DEF S
<1>8. r[d] = 0
  <2>1. r[d] < t[d - d]
    BY <1>7
  <2>2. t[d - d] = 1 /\ r[d] \in Nat
    BY <1>1, <1>2 DEF Drops, Tens
  <2> QED  BY <2>1, <2>2
<1>9. r[D] = 0
  <2> DEFINE S == {j \in 0..D : j >= d => r[j] = 0}
  <2>1. 0 \in S
    BY <1>8
  <2>2. ASSUME NEW j \in 1..D, j - 1 \in S PROVE j \in S
    <3>1. r[j] = r[j - 1] \div 10
      BY <1>1 DEF Drops
    <3>2. CASE j = d
      BY <1>8, <3>2
    <3>3. CASE j > d
      BY <2>2, <3>1, <3>3
    <3>4. CASE j < d
      BY <3>4
    <3> QED  BY <3>2, <3>3, <3>4
  <2> HIDE DEF S
  <2>3. \A j \in 0..D : j \in S
    BY <2>1, <2>2, UpToNumber
  <2> QED  BY <2>3 DEF S
<1>10. u[D] = r[0]
  <2> DEFINE S == {k \in 0..D : u[k] = r[D - k]}
  <2>1. 0 \in S
    BY <1>6, <1>9 DEF Makes
  <2>2. ASSUME NEW k \in 1..D, k - 1 \in S PROVE k \in S
    <3>1. u[k - 1] = r[D - (k - 1)]
      BY <2>2
    <3>2. D - (k - 1) \in 1..D /\ (D - (k - 1)) - 1 = D - k
      OBVIOUS
    <3>3. r[D - (k - 1)] = r[D - k] \div 10
      <4>1. \A j \in 1..D : r[j] = r[j - 1] \div 10
        BY <1>1 DEF Drops
      <4>2. r[D - (k - 1)] = r[(D - (k - 1)) - 1] \div 10
        BY <3>2, <4>1
      <4> QED  BY <3>2, <4>2
    <3>4. u[k] = 10 * u[k - 1] + (r[D - k] % 10)
      <4>1. u[k] = 10 * u[k - 1] + digits[k]
        BY <1>6 DEF Makes
      <4>2. digits[k] = r[D - k] % 10
        BY <1>4
      <4> QED  BY <4>1, <4>2
    <3>5. \A a \in Nat : 10 * (a \div 10) + (a % 10) = a
      OBVIOUS
    <3>6. u[k] = r[D - k]
      BY <1>4, <3>1, <3>3, <3>4, <3>5
    <3> QED  BY <3>6
  <2> HIDE DEF S
  <2>3. \A k \in 0..D : k \in S
    BY <2>1, <2>2, UpToNumber
  <2>4. u[D] = r[D - D]
    BY <2>3 DEF S
  <2> QED  BY <2>4
<1>11. r[0] = n
  BY <1>1 DEF Drops
<1> QED  BY <1>5, <1>6, <1>10, <1>11 DEF n, digits

(* Rounding half to even leaves alone what needs no rounding.              *)
LEMMA HalfEvenExact ==
    ASSUME NEW v \in Int, NEW s \in 0..3
    PROVE  /\ HalfEven(Magnitude(v), Unit(s)) \in Nat
           /\ v % Unit(s) = 0 =>
                 /\ Signed(HalfEven(Magnitude(v), Unit(s)) * Unit(s), v < 0) = v
                 /\ Canonicalize(v, s) = v
                 /\ \A P \in Nat : Magnitude(v) < P * Unit(s) => HalfEven(Magnitude(v), Unit(s)) < P
<1>1. CASE Unit(s) = 1000
  BY <1>1 DEF Canonicalize, Signed, Magnitude, HalfEven
<1>2. CASE Unit(s) = 100
  BY <1>2 DEF Canonicalize, Signed, Magnitude, HalfEven
<1>3. CASE Unit(s) = 10
  BY <1>3 DEF Canonicalize, Signed, Magnitude, HalfEven
<1>4. CASE Unit(s) = 1
  BY <1>4 DEF Canonicalize, Signed, Magnitude, HalfEven
<1> QED  BY <1>1, <1>2, <1>3, <1>4, UnitOf

(* Digits are digits, as many as there are places, of any number.          *)
LEMMA DigitsAreDigits ==
    ASSUME NEW v \in Int, NEW s \in 0..3, NEW D \in Nat
    PROVE  DigitString(v, D, s) \in Seq(0..9) /\ Len(DigitString(v, D, s)) = D
<1> DEFINE digits == DigitString(v, D, s)
<1>1. PICK r : Dropping(r, v, D, s)
  <2>1. \E r : Dropping(r, v, D, s)
    BY HalfEvenExact, DigitSteps
  <2> QED  BY <2>1
<1>2. (\A k \in 0..D : r[k] \in Nat) /\ digits = [k \in 1..D |-> r[D - k] % 10]
  BY <1>1 DEF Dropping, Drops
<1>3. \A k \in 1..D : D - k \in 0..D
  OBVIOUS
<1>4. \A x \in Nat : x % 10 \in 0..9
  OBVIOUS
<1> HIDE DEF digits
<1>5. digits \in [1..D -> 0..9]
  BY <1>2, <1>3, <1>4
<1>6. digits \in Seq(0..9) /\ Len(digits) = D
  BY <1>5
<1> QED  BY <1>6 DEF digits

(* A number fits a field of so many digits: it is written in them.         *)
FitsNumber(v, d, s, signed) ==
    v % Unit(s) = 0 /\ (v >= 0 \/ signed) /\ Magnitude(v) < Power(d) * Unit(s)

LEMMA FittingDigits ==
    ASSUME NEW v \in Int, NEW s \in 0..3, NEW d \in Nat, NEW D \in Nat, d <= D, NEW signed \in BOOLEAN,
           FitsNumber(v, d, s, signed)
    PROVE  /\ Signed(Number(DigitString(v, D, s)) * Unit(s), v < 0) = v
           /\ LabScaled(DigitString(v, D, s), s, v < 0) = v
<1>1. Power(d) \in Nat
  <2>1. PICK t : Power(d) = t[d] /\ Tens(t, d)
    BY PowerSteps
  <2> QED  BY <2>1 DEF Tens
<1>2. HalfEven(Magnitude(v), Unit(s)) \in Nat /\ HalfEven(Magnitude(v), Unit(s)) < Power(d)
  BY <1>1, HalfEvenExact DEF FitsNumber
<1>3. Number(DigitString(v, D, s)) = HalfEven(Magnitude(v), Unit(s))
  BY <1>2, DigitsMakeIt
<1>4. v % Unit(s) = 0
  BY DEF FitsNumber
<1>5. Signed(Number(DigitString(v, D, s)) * Unit(s), v < 0) = v
  BY <1>3, <1>4, HalfEvenExact
<1>6. Canonicalize(v, s) = v
  BY <1>4, HalfEvenExact
<1> QED  BY <1>5, <1>6 DEF LabScaled

(* Zoned: the last digit is overpunched with the sign.                     *)
Overpunch(cell, S, negative) == cell = IF negative THEN Append(Front(S), Minus(Last(S))) ELSE S

LEMMA Overpunched ==
    ASSUME NEW S, S \in Seq(0..9), S # <<>>, NEW negative \in BOOLEAN, NEW cell, Overpunch(cell, S, negative)
    PROVE  /\ cell \in Seq(Int) /\ Len(cell) = Len(S)
           /\ [k \in DOMAIN cell |-> cell[k] % 100] = S
           /\ Append(Front(cell), Last(cell) % 100) = S
           /\ (Last(cell) \div 100 = 2) = negative
<1> DEFINE D == Len(S)
<1>1. D \in Nat \ {0} /\ \A k \in 1..D : S[k] \in 0..9
  OBVIOUS
<1>2. S = [k \in 1..D |-> S[k]]
  OBVIOUS
<1>3. /\ Len(cell) = D /\ DOMAIN cell = 1..D
      /\ \A k \in 1..D : cell[k] = IF k = D /\ negative THEN 200 + S[k] ELSE S[k]
  <2>1. CASE negative
    <3>1. Front(S) = [k \in 1..(D - 1) |-> S[k]]
      BY <1>1 DEF Front
    <3>2. Front(S) \in Seq(0..9) /\ Len(Front(S)) = D - 1
      <4> HIDE DEF D
      <4>1. D - 1 \in Nat /\ \A k \in 1..(D - 1) : k \in 1..D
        BY <1>1
      <4>2. Front(S) \in [1..(D - 1) -> 0..9]
        BY <1>1, <3>1, <4>1
      <4> QED  BY <4>1, <4>2
    <3>3. cell = Append(Front(S), 200 + S[D])
      BY <2>1 DEF Minus, Last, Overpunch
    <3> HIDE DEF D
    <3>4. DOMAIN cell = 1..D /\ Len(cell) = D /\ \A k \in 1..D : cell[k] = IF k = D THEN 200 + S[D] ELSE Front(S)[k]
      BY <1>1, <3>2, <3>3
    <3>5. \A k \in 1..D : k # D => k \in 1..(D - 1)
      BY <1>1
    <3>6. \A k \in 1..D : cell[k] = IF k = D THEN 200 + S[k] ELSE S[k]
      BY ONLY <3>1, <3>4, <3>5
    <3> QED  BY ONLY <2>1, <3>4, <3>6
  <2>2. CASE ~negative
    BY <1>2, <2>2 DEF Overpunch
  <2> QED  BY <2>1, <2>2
<1> HIDE DEF D
<1>4. ASSUME NEW k \in 1..D PROVE cell[k] \in Int /\ cell[k] % 100 = S[k]
  <2>1. S[k] \in 0..9 /\ cell[k] \in {S[k], 200 + S[k]}
    BY <1>1, <1>3
  <2> QED  BY <2>1
<1>5. cell \in Seq(Int)
  <2>1. cell = [k \in 1..D |-> cell[k]]
    <3>1. CASE negative
      <4>1. cell = Append(Front(S), 200 + S[D])
        BY <3>1 DEF Minus, Last, D, Overpunch
      <4>2. Front(S) \in Seq(0..9)
        BY <1>1 DEF Front, D
      <4>3. cell \in Seq(Int)
        <5>1. Front(S) \in Seq(Int)
          BY <4>2
        <5>2. S[D] \in 0..9
          BY <1>1
        <5>3. 200 + S[D] \in Int
          BY <5>2
        <5> QED  BY <4>1, <5>1, <5>3
      <4> QED  BY <1>3, <4>3
    <3>2. CASE ~negative
      BY <1>2, <3>2 DEF Overpunch
    <3> QED  BY <3>1, <3>2
  <2>2. cell \in [1..D -> Int]
    BY <1>4, <2>1
  <2> QED  BY <1>1, <2>2
<1>6. [k \in DOMAIN cell |-> cell[k] % 100] = S
  BY <1>2, <1>3, <1>4
<1>7. Last(cell) = cell[D] /\ D \in 1..D
  BY <1>1, <1>3 DEF Last
<1>8. Append(Front(cell), Last(cell) % 100) = S
  <2>1. Front(cell) = [k \in 1..(D - 1) |-> S[k]]
    <3>1. Front(cell) = [k \in 1..(D - 1) |-> cell[k]]
      BY <1>1, <1>3, <1>5 DEF Front
    <3>2. \A k \in 1..(D - 1) : k \in 1..D /\ k # D
      BY <1>1
    <3> QED  BY <1>3, <3>1, <3>2
  <2>2. Last(cell) % 100 = S[D]
    BY <1>4, <1>7
  <2> DEFINE E == Front(cell)
  <2>3. E \in Seq(0..9) /\ Len(E) = D - 1
    <3>1. D - 1 \in Nat /\ \A k \in 1..(D - 1) : k \in 1..D
      BY <1>1
    <3>2. E \in [1..(D - 1) -> 0..9]
      BY <1>1, <2>1, <3>1
    <3> HIDE DEF E
    <3> QED  BY <3>1, <3>2
  <2> HIDE DEF E
  <2>4. Append(E, S[D]) \in Seq(0..9) /\ Len(Append(E, S[D])) = D /\ \A k \in 1..D : Append(E, S[D])[k] = IF k = D THEN S[D] ELSE E[k]
    BY <1>1, <2>3
  <2>5. \A k \in 1..D : Append(E, S[D])[k] = S[k]
    <3>1. \A k \in 1..D : k # D => k \in 1..(D - 1)
      BY <1>1
    <3>2. \A k \in 1..(D - 1) : E[k] = S[k]
      BY <2>1 DEF E
    <3> QED  BY <2>4, <3>1, <3>2
  <2>6. Append(E, S[D]) = S
    BY <2>4, <2>5 DEF D
  <2> QED  BY <2>2, <2>6 DEF E
<1>9. (Last(cell) \div 100 = 2) = negative
  <2>1. S[D] \in 0..9
    BY <1>1
  <2>2. CASE negative
    <3>1. Last(cell) = 200 + S[D]
      BY <1>3, <1>7, <2>2
    <3>2. Last(cell) \div 100 = 2
      BY <2>1, <3>1
    <3> QED  BY <2>2, <3>2
  <2>3. CASE ~negative
    <3>1. Last(cell) = S[D]
      BY <1>3, <1>7, <2>3
    <3>2. Last(cell) \div 100 # 2
      BY <2>1, <3>1
    <3> QED  BY <2>3, <3>2
  <2> QED  BY <2>2, <2>3
<1> QED  BY <1>3, <1>5, <1>6, <1>8, <1>9 DEF D

KeptZoned(cell, v, D, s, signed) ==
    /\ cell \in Seq(Int) /\ Len(cell) = D
    /\ \A d \in Nat : d <= D /\ FitsNumber(v, d, s, signed) =>
          DecodeZoned(cell, s, signed) = v /\ LabZoned(cell, s) = v

LEMMA ZonedSurvives ==
    ASSUME NEW v \in Int, NEW s \in 0..3, NEW D \in Nat \ {0}, NEW signed \in BOOLEAN
    PROVE  KeptZoned(EncodeZoned(v, D, s, signed), v, D, s, signed)
<1> DEFINE S == DigitString(v, D, s)
           cell == EncodeZoned(v, D, s, signed)
           negative == signed /\ v < 0
<1>1. S \in Seq(0..9) /\ Len(S) = D /\ S # <<>>
  <2>1. S \in Seq(0..9) /\ Len(S) = D
    BY DigitsAreDigits
  <2> QED  BY <2>1
<1>2. Overpunch(cell, S, negative)
  BY DEF EncodeZoned, Overpunch
<1>3. /\ cell \in Seq(Int) /\ Len(cell) = Len(S)
      /\ [k \in DOMAIN cell |-> cell[k] % 100] = S
      /\ Append(Front(cell), Last(cell) % 100) = S
      /\ (Last(cell) \div 100 = 2) = negative
  <2>1. negative \in BOOLEAN
    OBVIOUS
  <2> HIDE DEF S, cell, negative
  <2> QED  BY <1>1, <1>2, <2>1, Overpunched
<1>4. ASSUME NEW d \in Nat, d <= D, FitsNumber(v, d, s, signed)
      PROVE  DecodeZoned(cell, s, signed) = v /\ LabZoned(cell, s) = v
  <2>1. negative = (v < 0) /\ (signed /\ negative) = (v < 0)
    BY <1>4 DEF FitsNumber
  <2>2. Signed(Number(S) * Unit(s), v < 0) = v /\ LabScaled(S, s, v < 0) = v
    BY <1>4, FittingDigits
  <2> HIDE DEF S, cell, negative
  <2>3. DecodeZoned(cell, s, signed) = Signed(Number(S) * Unit(s), signed /\ Last(cell) \div 100 = 2)
    BY <1>3 DEF DecodeZoned
  <2>4. LabZoned(cell, s) = LabScaled(S, s, Last(cell) \div 100 = 2)
    BY <1>3 DEF LabZoned
  <2>5. (Last(cell) \div 100 = 2) = (v < 0) /\ (signed /\ Last(cell) \div 100 = 2) = (v < 0)
    BY <1>3, <2>1
  <2> QED  BY <2>2, <2>3, <2>4, <2>5
<1>5. Len(cell) = D
  BY <1>1, <1>3
<1> HIDE DEF cell
<1> QED  BY <1>3, <1>4, <1>5 DEF cell, KeptZoned

(* Packed: two nibbles a byte, the last one the sign.                      *)
IsPacked(cell, S, sign) ==
    LET n == S \o <<sign>>
    IN  cell = [k \in 1..(Len(n) \div 2) |-> Packed(n[2 * k - 1], n[2 * k])]

LEMMA PackedNibbles ==
    ASSUME NEW S, S \in Seq(0..9), NEW L \in Nat \ {0}, Len(S) = 2 * L - 1, NEW sign \in 12..13,
           NEW cell, IsPacked(cell, S, sign)
    PROVE  /\ cell \in Seq(Int) /\ Len(cell) = L
           /\ Front(AllNibbles(cell)) = S /\ Last(AllNibbles(cell)) = sign
<1> DEFINE n == S \o <<sign>>
           M == 2 * L
<1>1. n \in Seq(0..15) /\ Len(n) = M /\ M \in Nat
  <2>1. S \in Seq(0..15) /\ <<sign>> \in Seq(0..15) /\ Len(<<sign>>) = 1
    OBVIOUS
  <2>2. n \in Seq(0..15) /\ Len(n) = (2 * L - 1) + 1
    BY <2>1
  <2> QED  BY <2>2
<1>2. \A k \in 1..M : n[k] = IF k = M THEN sign ELSE S[k]
  OBVIOUS
<1>3. cell = [k \in 1..(Len(n) \div 2) |-> Packed(n[2 * k - 1], n[2 * k])]
  BY DEF IsPacked
<1> HIDE DEF n
<1>4. \A k \in 1..M : n[k] \in 0..15
  <2> HIDE DEF M
  <2> QED  BY ONLY <1>1
<1>5. Len(n) \div 2 = L
  BY <1>1
<1>6. cell = [k \in 1..L |-> Packed(n[2 * k - 1], n[2 * k])]
  BY <1>3, <1>5
<1>7. \A k \in 1..L : 2 * k - 1 \in 1..M /\ 2 * k \in 1..M
  OBVIOUS
<1>8. cell \in Seq(Int) /\ Len(cell) = L /\ DOMAIN cell = 1..L
  <2>1. ASSUME NEW k \in 1..L PROVE n[2 * k - 1] \in 0..15 /\ n[2 * k] \in 0..15
    <3>1. 2 * k - 1 \in 1..M /\ 2 * k \in 1..M
      BY <1>7
    <3> HIDE DEF M
    <3> QED  BY <1>4, <3>1
  <2>2. ASSUME NEW k \in 1..L PROVE Packed(n[2 * k - 1], n[2 * k]) \in Int
    <3> DEFINE hi == n[2 * k - 1]
               lo == n[2 * k]
    <3>1. hi \in 0..15 /\ lo \in 0..15
      BY <2>1
    <3> HIDE DEF hi, lo
    <3>2. Packed(hi, lo) \in Int
      BY <3>1 DEF Packed
    <3> QED  BY <3>2 DEF hi, lo
  <2>3. cell \in [1..L -> Int]
    BY <1>6, <2>2
  <2> QED  BY <2>3
<1> DEFINE all == AllNibbles(cell)
<1>9. all = [k \in 1..M |-> Nibbles(cell[(k + 1) \div 2])[2 - (k % 2)]]
  BY <1>8 DEF AllNibbles
<1>10. ASSUME NEW k \in 1..M PROVE Nibbles(cell[(k + 1) \div 2])[2 - (k % 2)] = n[k]
  <2> DEFINE j == (k + 1) \div 2
  <2>1. j \in 1..L /\ ((k % 2 = 1 /\ 2 * j - 1 = k) \/ (k % 2 = 0 /\ 2 * j = k))
    <3>1. k \in Nat /\ 1 <= k /\ k <= 2 * L
      OBVIOUS
    <3>2. CASE k % 2 = 1
      <4>1. 2 * j - 1 = k
        BY <3>1, <3>2
      <4> QED  BY <3>1, <3>2, <4>1
    <3>3. CASE k % 2 = 0
      <4>1. 2 * j = k
        BY <3>1, <3>3
      <4> QED  BY <3>1, <3>3, <4>1
    <3>4. k % 2 = 1 \/ k % 2 = 0
      BY <3>1
    <3> QED  BY <3>2, <3>3, <3>4
  <2> HIDE DEF j
  <2>2. n[2 * j - 1] \in 0..15 /\ n[2 * j] \in 0..15
    BY <1>4, <1>7, <2>1
  <2>3. cell[j] = Packed(n[2 * j - 1], n[2 * j])
    BY <1>6, <2>1
  <2>4. Nibbles(cell[j]) = <<n[2 * j - 1], n[2 * j]>>
    <3> DEFINE hi == n[2 * j - 1]
               lo == n[2 * j]
    <3>1. hi \in 0..15 /\ lo \in 0..15 /\ cell[j] = Packed(hi, lo)
      BY <2>2, <2>3
    <3> HIDE DEF hi, lo
    <3>2. cell[j] # Blank /\ (cell[j] - 1000) \div 16 = hi /\ (cell[j] - 1000) % 16 = lo
      BY <3>1 DEF Packed, Blank
    <3>3. Nibbles(cell[j]) = <<hi, lo>>
      BY <3>2 DEF Nibbles
    <3> QED  BY <3>3 DEF hi, lo
  <2>5. CASE k % 2 = 1
    <3>1. 2 * j - 1 = k
      BY ONLY <2>1, <2>5
    <3>2. 2 - (k % 2) = 1
      BY ONLY <2>5
    <3> QED  BY <2>4, <3>1, <3>2 DEF j
  <2>6. CASE k % 2 = 0
    <3>1. 2 * j = k
      BY ONLY <2>1, <2>6
    <3>2. 2 - (k % 2) = 2
      BY ONLY <2>6
    <3>3. Nibbles(cell[j])[2 - (k % 2)] = n[2 * j]
      BY ONLY <2>4, <3>2
    <3>4. n[2 * j] = n[k]
      BY ONLY <3>1
    <3> QED  BY ONLY <3>3, <3>4 DEF j
  <2> QED  BY <2>1, <2>5, <2>6
<1> HIDE DEF all
<1>11. all = n
  <2>1. n = [k \in 1..M |-> n[k]]
    BY <1>1
  <2> QED  BY <1>9, <1>10, <2>1
<1>12. Front(n) = S /\ Last(n) = sign
  <2>1. Last(n) = sign
    <3>1. M \in 1..M
      OBVIOUS
    <3> QED  BY <1>1, <1>2, <3>1 DEF Last
  <2>2. Front(n) = [k \in 1..(M - 1) |-> n[k]]
    BY <1>1 DEF Front
  <2>3. \A k \in 1..(M - 1) : n[k] = S[k]
    BY <1>2
  <2>4. S = [k \in 1..(M - 1) |-> S[k]]
    OBVIOUS
  <2> QED  BY <2>1, <2>2, <2>3, <2>4
<1> QED  BY <1>8, <1>11, <1>12 DEF all

KeptPacked(cell, v, L, s, signed) ==
    /\ cell \in Seq(Int) /\ Len(cell) = L
    /\ \A d \in Nat : d <= 2 * L - 1 /\ FitsNumber(v, d, s, signed) =>
          DecodeComp3(cell, s, signed) = v /\ LabComp3(cell, s) = v

LEMMA PackedSurvives ==
    ASSUME NEW v \in Int, NEW s \in 0..3, NEW L \in Nat \ {0}, NEW signed \in BOOLEAN
    PROVE  KeptPacked(EncodeComp3(v, 2 * L - 1, s, signed), v, L, s, signed)
<1> DEFINE D == 2 * L - 1
           S == DigitString(v, D, s)
           cell == EncodeComp3(v, D, s, signed)
           negative == signed /\ v < 0
           sign == IF negative THEN 13 ELSE 12
<1>1. D \in Nat /\ D % 2 # 0
  OBVIOUS
<1>2. S \in Seq(0..9) /\ Len(S) = D
  BY <1>1, DigitsAreDigits
<1>3. IsPacked(cell, S, sign)
  <2> DEFINE n == (IF Len(S) % 2 = 0 THEN <<0>> ELSE <<>>) \o S \o <<sign>>
  <2>1. cell = [k \in 1..(Len(n) \div 2) |-> Packed(n[2 * k - 1], n[2 * k])]
    BY DEF EncodeComp3
  <2>2. n = S \o <<sign>>
    <3>1. Len(S) % 2 # 0
      BY <1>1, <1>2
    <3>2. <<>> \o S = S
      <4> HIDE DEF S
      <4> QED  BY <1>2
    <3> HIDE DEF S, sign
    <3> QED  BY <3>1, <3>2
  <2> HIDE DEF n, cell, S, sign
  <2> QED  BY <2>1, <2>2 DEF IsPacked
<1>4. sign \in 12..13 /\ (sign = 13) = negative
  OBVIOUS
<1>5. /\ cell \in Seq(Int) /\ Len(cell) = L
      /\ Front(AllNibbles(cell)) = S /\ Last(AllNibbles(cell)) = sign
  <2>1. Len(S) = 2 * L - 1
    BY <1>2
  <2>2. S \in Seq(0..9) /\ sign \in 12..13 /\ L \in Nat \ {0}
    BY <1>2, <1>4
  <2> HIDE DEF S, cell, sign, D
  <2> QED  BY ONLY <1>3, <2>1, <2>2, PackedNibbles
<1>6. ASSUME NEW d \in Nat, d <= D, FitsNumber(v, d, s, signed)
      PROVE  DecodeComp3(cell, s, signed) = v /\ LabComp3(cell, s) = v
  <2>1. negative = (v < 0) /\ (signed /\ negative) = (v < 0)
    BY <1>6 DEF FitsNumber
  <2>2. Signed(Number(S) * Unit(s), v < 0) = v /\ LabScaled(S, s, v < 0) = v
    BY <1>1, <1>6, FittingDigits
  <2>3. (sign = 13) = (v < 0) /\ (signed /\ sign = 13) = (v < 0)
    BY <1>4, <2>1
  <2> HIDE DEF S, cell, negative, sign
  <2>4. DecodeComp3(cell, s, signed) = Signed(Number(S) * Unit(s), signed /\ sign = 13)
    BY <1>5 DEF DecodeComp3
  <2>5. LabComp3(cell, s) = LabScaled(S, s, sign = 13)
    BY <1>5 DEF LabComp3
  <2> QED  BY <2>2, <2>3, <2>4, <2>5
<1> HIDE DEF cell
<1> QED  BY <1>5, <1>6 DEF cell, D, KeptPacked

(* Text: padded with blanks to its field's length, which reading strips.   *)
LEMMA TextSurvives ==
    ASSUME NEW v, v \in Seq(Int), NEW L \in Nat
    PROVE  /\ Padded(v, L) \in Seq(Int) /\ Len(Padded(v, L)) = L
           /\ Len(v) <= L /\ (v # <<>> => Last(v) # Blank) => Stripped(Padded(v, L)) = v
<1> DEFINE cell == Padded(v, L)
           N == Len(v)
<1>1. N \in Nat /\ \A k \in 1..N : v[k] \in Int
  OBVIOUS
<1>2. v = [k \in 1..N |-> v[k]]
  OBVIOUS
<1>3. cell = [k \in 1..L |-> IF k <= N THEN v[k] ELSE Blank]
  BY DEF Padded
<1> HIDE DEF cell, N
<1>4. cell \in Seq(Int) /\ Len(cell) = L /\ DOMAIN cell = 1..L
  <2>1. \A k \in 1..L : (IF k <= N THEN v[k] ELSE Blank) \in Int
    BY <1>1 DEF Blank
  <2>2. cell \in [1..L -> Int]
    BY <1>3, <2>1
  <2> QED  BY <2>2
<1>5. ASSUME N <= L, v # <<>> => Last(v) # Blank PROVE Stripped(cell) = v
  <2> DEFINE S == {0} \cup {k \in DOMAIN cell : cell[k] # Blank}
  <2>1. Max(S) = N
    <3>1. N \in S /\ \A k \in S : k <= N
      <4>1. CASE N = 0
        BY <1>3, <1>4, <4>1
      <4>2. CASE N # 0
        <5>1. v # <<>> /\ Last(v) = v[N]
          BY <1>1, <4>2 DEF N, Last
        <5>2. N \in 1..L /\ cell[N] = v[N]
          BY <1>1, <1>3, <1>5, <4>2
        <5>3. N \in S
          BY <1>4, <1>5, <5>1, <5>2
        <5>4. \A k \in 1..L : cell[k] # Blank => k <= N
          BY <1>1, <1>3
        <5> QED  BY <1>1, <1>4, <5>3, <5>4
      <4> QED  BY <4>1, <4>2
    <3>2. IsFiniteSet(S) /\ S \in SUBSET Int /\ S # {}
      <4>1. IsFiniteSet(0..L)
        BY FS_Interval
      <4>2. S \subseteq 0..L
        BY <1>4
      <4>3. IsFiniteSet(S)
        BY <4>1, <4>2, FS_Subset
      <4> QED  BY <4>2, <4>3
    <3> HIDE DEF S
    <3>3. Max(S) \in S /\ \A y \in S : Max(S) >= y
      BY <3>2, GreatestOfNumbers
    <3>4. Max(S) \in Int
      BY <3>2, <3>3
    <3>5. N \in Int
      BY <1>1
    <3> QED  BY <3>1, <3>3, <3>4, <3>5
  <2>2. Stripped(cell) = SubSeq(cell, 1, N)
    BY <2>1 DEF Stripped
  <2>3. SubSeq(cell, 1, N) = [k \in 1..N |-> cell[k]]
    BY <1>1, <1>4, <1>5
  <2>4. \A k \in 1..N : cell[k] = v[k]
    BY <1>1, <1>3, <1>5
  <2> QED  BY <1>2, <2>2, <2>3, <2>4
<1> QED  BY <1>4, <1>5 DEF cell, N

(* What is not written is blank: empty text, and a zoned zero.             *)
Blanks(L) == [i \in 1..L |-> Blank]

LEMMA BlanksAreEmpty ==
    ASSUME NEW L \in Nat \ {0}, NEW s \in 0..3, NEW signed \in BOOLEAN
    PROVE  /\ Blanks(L) \in Seq(Int) /\ Len(Blanks(L)) = L
           /\ Stripped(Blanks(L)) = <<>>
           /\ DecodeZoned(Blanks(L), s, signed) = 0
<1> DEFINE cell == Blanks(L)
<1>1. cell \in Seq(Int) /\ Len(cell) = L /\ DOMAIN cell = 1..L /\ \A k \in 1..L : cell[k] = Blank
  <2>1. Blank \in Int
    BY DEF Blank
  <2> QED  BY <2>1 DEF Blanks
<1>2. Stripped(cell) = <<>>
  <2>1. cell = Padded(<<>>, L)
    <3>1. Len(<<>>) = 0 /\ \A k \in 1..L : ~(k <= 0)
      OBVIOUS
    <3> QED  BY <3>1 DEF Padded, Blanks
  <2>2. <<>> \in Seq(Int) /\ Len(<<>>) <= L
    OBVIOUS
  <2>3. Stripped(Padded(<<>>, L)) = <<>>
    <3> DEFINE e == <<>>
    <3>1. e \in Seq(Int) /\ Len(e) <= L /\ e = <<>>
      OBVIOUS
    <3> HIDE DEF e
    <3>2. Stripped(Padded(e, L)) = e
      BY <3>1, TextSurvives
    <3> QED  BY <3>2 DEF e
  <2> QED  BY <2>1, <2>3
<1>3. DecodeZoned(cell, s, signed) = 0
  <2> DEFINE digits == [k \in DOMAIN cell |-> cell[k] % 100]
  <2>1. digits = [k \in 1..L |-> 0]
    BY <1>1 DEF Blank
  <2>2. DOMAIN digits = 1..L /\ Len(digits) = L /\ \A k \in 1..L : digits[k] = 0
    BY <2>1
  <2> HIDE DEF digits
  <2>3. Number(digits) = 0
    <3>1. PICK u : Number(digits) = u[L] /\ Makes(u, digits, L)
      <4>1. \E u : Number(digits) = u[Len(digits)] /\ Makes(u, digits, Len(digits))
        BY <2>2, NumberSteps
      <4> QED  BY <2>2, <4>1
    <3> DEFINE S == {k \in 0..L : u[k] = 0}
    <3>2. 0 \in S
      BY <3>1 DEF Makes
    <3>3. ASSUME NEW k \in 1..L, k - 1 \in S PROVE k \in S
      <4>1. u[k] = 10 * u[k - 1] + digits[k] /\ u[k - 1] = 0 /\ digits[k] = 0
        BY <2>2, <3>1, <3>3 DEF Makes
      <4> QED  BY <4>1
    <3> HIDE DEF S
    <3>4. \A k \in 0..L : k \in S
      BY <3>2, <3>3, UpToNumber
    <3> QED  BY <3>1, <3>4 DEF S
  <2>4. Last(cell) \div 100 # 2
    <3>1. Last(cell) = 300
      BY <1>1 DEF Last, Blank
    <3> QED  BY <3>1
  <2>5. Unit(s) \in Int
    BY UnitOf
  <2> HIDE DEF cell
  <2>6. DecodeZoned(cell, s, signed) = Signed(0 * Unit(s), FALSE)
    BY <2>3, <2>4 DEF DecodeZoned, digits
  <2> QED  BY <2>5, <2>6 DEF Signed
<1> QED  BY <1>1, <1>2, <1>3

(* The fields of a record are where their offsets say.                     *)
LEMMA CellsJoin ==
    ASSUME NEW ll, ll \in Seq(Seq(Int)), NEW w, Widths(w), Len(w) = Len(ll),
           \A k \in 1..Len(ll) : Len(ll[k]) = w[k]
    PROVE  /\ Len(FlattenSeq(ll)) = Offset(w, Len(w) + 1)
           /\ \A k \in 1..Len(ll) :
                 SubSeq(FlattenSeq(ll), Offset(w, k) + 1, Offset(w, k) + w[k]) = ll[k]
<1> DEFINE n == Len(ll)
           X == Seq(Int)
<1>1. n \in Nat /\ \A k \in 1..n : ll[k] \in X /\ Len(ll[k]) = w[k] /\ w[k] \in Nat
  <2>1. ll \in Seq(X)
    OBVIOUS
  <2> HIDE DEF X
  <2> QED  BY <2>1 DEF Widths
<1>2. /\ Offset(w, 1) = 0
      /\ \A k \in 1..n : Offset(w, k + 1) = Offset(w, k) + w[k]
      /\ \A k \in 1..(n + 1) : Offset(w, k) \in Nat
  BY OffsetsAdd
<1>3. CASE n = 0
  <2>1. Len(FlattenSeq(ll)) = 0
    BY <1>3 DEF FlattenSeq
  <2>2. Len(w) + 1 = 1
    BY <1>3
  <2> QED  BY <1>1, <1>2, <1>3, <2>1, <2>2
<1>4. CASE n # 0
  <2>1. PICK f : FlattenSeq(ll) = f[n] /\ Joins(f, ll, Int)
    BY <1>4, JoinSteps
  <2>2. /\ f[1] = ll[1] /\ \A i \in 2..n : f[i] = f[i - 1] \o ll[i]
        /\ \A i \in 1..n : f[i] \in X
    BY <2>1 DEF Joins
  <2> DEFINE At(i, k) == \A p \in 1..w[k] : f[i][Offset(w, k) + p] = ll[k][p]
             S == {i \in 0..n : i # 0 => /\ Len(f[i]) = Offset(w, i + 1)
                                        /\ \A k \in 1..i : Offset(w, k) + w[k] <= Offset(w, i + 1) /\ At(i, k)}
  <2>3. 0 \in S
    BY <1>1
  <2>4. ASSUME NEW i \in 1..n, i - 1 \in S PROVE i \in S
    <3>1. CASE i = 1
      <4>1. Offset(w, 2) = w[1] /\ Offset(w, 1) = 0 /\ w[1] \in Nat
        <5>1. 1 \in 1..n /\ 1 + 1 = 2 /\ w[1] \in Nat /\ Offset(w, 1) = 0
          BY <1>1, <1>2, <1>4
        <5>2. Offset(w, 1 + 1) = Offset(w, 1) + w[1]
          BY <1>2, <5>1
        <5> QED  BY <5>1, <5>2
      <4>2. Len(f[1]) = Offset(w, 2)
        BY <1>1, <1>4, <2>2, <4>1
      <4>3. At(1, 1)
        <5> SUFFICES ASSUME NEW p \in 1..w[1] PROVE f[1][Offset(w, 1) + p] = ll[1][p]
          OBVIOUS
        <5>1. Offset(w, 1) + p = p
          BY <4>1
        <5> QED  BY <2>2, <5>1
      <4>4. Offset(w, 1) + w[1] <= Offset(w, 2)
        BY <4>1
      <4>5. 1..1 = {1} /\ 1 + 1 = 2
        OBVIOUS
      <4> HIDE DEF At
      <4> QED  BY <3>1, <4>2, <4>3, <4>4, <4>5
    <3>2. CASE i # 1
      <4> DEFINE j == i - 1
      <4>1. j \in 1..n /\ j # 0 /\ j + 1 = i /\ i \in 2..n /\ i \in 1..n /\ i \in 1..(n + 1) /\ i + 1 \in 1..(n + 1)
        BY <3>2
      <4>2. /\ Len(f[j]) = Offset(w, i)
            /\ \A k \in 1..j : Offset(w, k) + w[k] <= Offset(w, i) /\ At(j, k)
        BY <2>4, <4>1
      <4> HIDE DEF j
      <4>3. f[i] = f[j] \o ll[i] /\ f[j] \in X /\ ll[i] \in X /\ Len(ll[i]) = w[i] /\ w[i] \in Nat
        BY <1>1, <2>2, <4>1 DEF j
      <4>4. Offset(w, i + 1) = Offset(w, i) + w[i] /\ Offset(w, i) \in Nat
        BY <1>2, <4>1
      <4>6. /\ Len(f[i]) = Len(f[j]) + Len(ll[i])
            /\ \A x \in 1..Len(f[j]) : f[i][x] = f[j][x]
            /\ \A p \in 1..Len(ll[i]) : f[i][Len(f[j]) + p] = ll[i][p]
        <5> DEFINE a == f[j]
                   b == ll[i]
        <5>1. a \in Seq(Int) /\ b \in Seq(Int) /\ f[i] = a \o b
          BY <4>3
        <5> HIDE DEF a, b
        <5>2. /\ Len(a \o b) = Len(a) + Len(b)
              /\ \A x \in 1..Len(a) : (a \o b)[x] = a[x]
              /\ \A p \in 1..Len(b) : (a \o b)[Len(a) + p] = b[p]
          BY ONLY <5>1, TwoJoined
        <5> QED  BY <5>1, <5>2 DEF a, b
      <4>5. Len(f[i]) = Offset(w, i + 1)
        BY <4>2, <4>3, <4>4, <4>6
      <4>7. ASSUME NEW k \in 1..i PROVE Offset(w, k) + w[k] <= Offset(w, i + 1) /\ At(i, k)
        <5>1. CASE k = i
          <6>1. Offset(w, i) + w[i] <= Offset(w, i + 1)
            BY <4>3, <4>4
          <6>2. At(i, i)
            <7>1. Len(f[j]) = Offset(w, i) /\ Len(ll[i]) = w[i]
              BY <4>2, <4>3
            <7> QED  BY <4>6, <7>1
          <6> HIDE DEF At
          <6> QED  BY <5>1, <6>1, <6>2
        <5>2. CASE k # i
          <6>1. k \in 1..j /\ k \in 1..n /\ k \in 1..(n + 1)
            BY <4>1, <5>2
          <6>2. Offset(w, k) + w[k] <= Offset(w, i) /\ At(j, k)
            BY <4>2, <6>1
          <6>3. w[k] \in Nat /\ Offset(w, k) \in Nat
            BY <1>1, <1>2, <6>1
          <6>4. ASSUME NEW p \in 1..w[k] PROVE Offset(w, k) + p \in 1..Len(f[j])
            <7> DEFINE o == Offset(w, k)
                       L == w[k]
                       M == Offset(w, i)
            <7>1. o \in Nat /\ L \in Nat /\ M \in Nat /\ o + L <= M /\ p \in 1..L
              BY <4>4, <6>2, <6>3
            <7> HIDE DEF o, L, M
            <7>2. o + p \in 1..M
              BY ONLY <7>1
            <7>3. Len(f[j]) = M
              BY <4>2 DEF M
            <7>4. o + p \in 1..Len(f[j])
              BY ONLY <7>2, <7>3, Zenon
            <7> QED  BY ONLY <7>4 DEF o
          <6>5. At(i, k)
            BY <4>6, <6>2, <6>4
          <6>6. Offset(w, k) + w[k] <= Offset(w, i + 1)
            <7> DEFINE a == Offset(w, k)
                       b == w[k]
                       c == Offset(w, i)
                       d == w[i]
                       e == Offset(w, i + 1)
            <7>1. a \in Nat /\ b \in Nat /\ c \in Nat /\ d \in Nat /\ a + b <= c /\ e = c + d
              BY <4>3, <4>4, <6>2, <6>3
            <7> HIDE DEF a, b, c, d, e
            <7>2. a + b <= e
              BY ONLY <7>1
            <7> QED  BY ONLY <7>2 DEF a, b, e
          <6> QED  BY <6>5, <6>6
        <5> QED  BY <5>1, <5>2
      <4> HIDE DEF At
      <4>8. i \in 0..n
        OBVIOUS
      <4> QED  BY <4>5, <4>7, <4>8
    <3> QED  BY <3>1, <3>2
  <2> HIDE DEF S
  <2>5. n \in S
    <3>1. \A i \in 0..n : i \in S
      <4> HIDE DEF n
      <4> QED  BY <1>1, <2>3, <2>4, UpToNumber
    <3> QED  BY <1>1, <3>1
  <2>6. /\ Len(f[n]) = Offset(w, n + 1) /\ f[n] \in X
        /\ \A k \in 1..n : Offset(w, k) + w[k] <= Offset(w, n + 1) /\ At(n, k)
    <3>1. n \in 1..n
      BY <1>1, <1>4
    <3> HIDE DEF At, X
    <3> QED  BY <1>4, <2>2, <2>5, <3>1 DEF S
  <2>7. ASSUME NEW k \in 1..n
        PROVE  SubSeq(FlattenSeq(ll), Offset(w, k) + 1, Offset(w, k) + w[k]) = ll[k]
    <3> DEFINE o == Offset(w, k)
               L == w[k]
               F == f[n]
    <3>1. o \in Nat /\ L \in Nat /\ ll[k] \in X /\ Len(ll[k]) = L /\ o + L <= Len(F) /\ F \in X
      <4>1. k \in 1..(n + 1)
        BY <1>1
      <4> QED  BY <1>1, <1>2, <2>6, <4>1
    <3>2. \A p \in 1..L : F[o + p] = ll[k][p]
      BY <2>6
    <3> HIDE DEF o, L, F
    <3>3. SubSeq(F, o + 1, o + L) = [p \in 1..L |-> F[o + p]]
      <4>1. SubSeq(F, o + 1, o + L) = [p \in 1..L |-> F[p + (o + 1) - 1]]
        BY <3>1
      <4>2. \A p \in 1..L : p + (o + 1) - 1 = o + p
        BY <3>1
      <4> QED  BY <4>1, <4>2
    <3>4. ll[k] = [p \in 1..L |-> ll[k][p]]
      <4> DEFINE q == ll[k]
      <4>1. q \in Seq(Int) /\ Len(q) = L
        BY <3>1
      <4> HIDE DEF q
      <4>2. q = [p \in 1..L |-> q[p]]
        BY <4>1
      <4> QED  BY <4>2 DEF q
    <3>5. SubSeq(F, o + 1, o + L) = ll[k]
      BY <3>2, <3>3, <3>4
    <3> QED  BY <2>1, <3>5 DEF o, L, F
  <2> QED  BY <2>1, <2>6, <2>7
<1> QED  BY <1>3, <1>4

(* The widths of a field, and that it has the digits its picture says.     *)
LEMMA WidthsOfItems ==
    ASSUME NEW item, IsItem(item)
    PROVE  /\ LengthOf(item) \in Nat \ {0} /\ PicSize(item) \in Nat
           /\ item.digits <= IF item.usage = "packed" THEN 2 * LengthOf(item) - 1 ELSE LengthOf(item)
           /\ item.occurs <= 1 /\ (item.usage = "packed" => item.digits % 2 = 0)
                 => PicSize(item) = LengthOf(item)
<1> DEFINE d == item.digits
           m == Max({1, item.occurs})
           w == PicWidth(item)
<1>1. d \in Nat \ {0} /\ item.occurs \in Nat
  BY DEF IsItem
<1>2. m \in Nat \ {0} /\ (item.occurs <= 1 => m = 1)
  <2>1. m \in {1, item.occurs} /\ m >= 1 /\ m >= item.occurs
    <3> DEFINE o == item.occurs
    <3>1. o \in Int /\ 1 \in Int
      BY <1>1
    <3> HIDE DEF o
    <3>2. Max({1, o}) \in {1, o} /\ Max({1, o}) >= 1 /\ Max({1, o}) >= o
      BY ONLY <3>1, PairBounds
    <3> QED  BY <3>2 DEF o
  <2> HIDE DEF m
  <2> QED  BY <1>1, <2>1
<1>3. w = IF item.usage = "packed" THEN (d + 2) \div 2 ELSE d
  BY DEF PicWidth, PackedWidth
<1>4. PicSize(item) = IF item.usage = "packed" THEN (d + 1) \div 2 + 1 ELSE d
  BY DEF PicSize
<1>5. LengthOf(item) = w * m
  BY DEF LengthOf
<1> HIDE DEF d, m, w
<1>6. w \in Nat \ {0}
  BY <1>1, <1>3
<1>7. w * m \in Nat /\ w <= w * m /\ w * 1 = w
  <2>1. PICK c \in Nat : m = c + 1
    <3>1. m - 1 \in Nat /\ m = (m - 1) + 1
      BY <1>2
    <3> QED  BY <3>1
  <2>2. w * (c + 1) = w * c + w /\ w * c \in Nat
    BY <1>6
  <2> QED  BY <1>6, <2>1, <2>2
<1>8. LengthOf(item) \in Nat \ {0} /\ w <= LengthOf(item)
  BY <1>5, <1>6, <1>7
<1>9. CASE item.usage = "packed"
  <2>1. w = (d + 2) \div 2 /\ d <= 2 * w - 1 /\ (d % 2 = 0 => (d + 1) \div 2 + 1 = w) /\ (d + 1) \div 2 + 1 \in Nat
    BY <1>1, <1>3, <1>9
  <2>2. d <= 2 * LengthOf(item) - 1
    BY <1>1, <1>6, <1>8, <2>1
  <2>3. item.occurs <= 1 /\ d % 2 = 0 => PicSize(item) = LengthOf(item)
    BY <1>2, <1>4, <1>5, <1>7, <1>9, <2>1
  <2> QED  BY <1>4, <1>8, <1>9, <2>1, <2>2, <2>3 DEF d
<1>10. CASE item.usage # "packed"
  <2>1. w = d
    BY <1>3, <1>10
  <2>2. item.occurs <= 1 => PicSize(item) = LengthOf(item)
    BY <1>2, <1>4, <1>5, <1>7, <1>10, <2>1
  <2> QED  BY <1>1, <1>4, <1>8, <1>10, <2>1, <2>2 DEF d
<1> QED  BY <1>9, <1>10

(* One field: what it is written in, and what is read back of that.        *)
IsField(f) ==
    /\ f.item.usage \in {"text", "packed", "zoned"} /\ f.item.signed \in BOOLEAN
    /\ f.item.digits \in Nat /\ f.item.scale \in 0..Places /\ f.length \in Nat \ {0}
    /\ f.item.digits <= DigitsOf(f)

LEMMA FieldSurvives ==
    ASSUME NEW f, IsField(f), NEW value, IF f.item.usage = "text" THEN value \in Seq(Int) ELSE value \in Int
    PROVE  /\ EncodeField(f, value) \in Seq(Int) /\ Len(EncodeField(f, value)) = f.length
           /\ FitsIn(f, value) =>
                 /\ DecodeField(f, EncodeField(f, value)) = value
                 /\ f.item.usage # "text" => LabReads(f, EncodeField(f, value)) = value
<1> DEFINE L == f.length
           d == f.item.digits
           s == f.item.scale
           signed == f.item.signed
           cell == EncodeField(f, value)
<1>1. L \in Nat \ {0} /\ d \in Nat /\ s \in 0..3 /\ signed \in BOOLEAN /\ d <= DigitsOf(f)
  BY DEF IsField, Places
<1>2. CASE f.item.usage = "text"
  <2>1. cell = Padded(value, L) /\ value \in Seq(Int) /\ L \in Nat
    BY <1>1, <1>2 DEF EncodeField
  <2>2. FitsIn(f, value) => Len(value) <= L /\ (value # <<>> => Last(value) # Blank)
    BY <1>2 DEF FitsIn
  <2>3. DecodeField(f, cell) = Stripped(cell)
    BY <1>2 DEF DecodeField
  <2> HIDE DEF cell, L
  <2>4. /\ Padded(value, L) \in Seq(Int) /\ Len(Padded(value, L)) = L
        /\ Len(value) <= L /\ (value # <<>> => Last(value) # Blank) => Stripped(Padded(value, L)) = value
    BY ONLY <2>1, TextSurvives
  <2> QED  BY <1>2, <2>1, <2>2, <2>3, <2>4 DEF cell, L
<1>3. CASE f.item.usage # "text"
  <2>1. value \in Int
    BY <1>3
  <2>2. FitsIn(f, value) => FitsNumber(value, d, s, signed)
    BY <1>3 DEF FitsIn, FitsNumber
  <2>3. CASE f.item.usage = "packed"
    <3>1. /\ cell = EncodeComp3(value, 2 * L - 1, s, signed) /\ d <= 2 * L - 1
          /\ DecodeField(f, cell) = DecodeComp3(cell, s, signed) /\ LabReads(f, cell) = LabComp3(cell, s)
      BY <1>1, <2>3 DEF EncodeField, DecodeField, LabReads, DigitsOf
    <3> HIDE DEF cell, L, d, s, signed
    <3>2. /\ cell \in Seq(Int) /\ Len(cell) = L
          /\ \A x \in Nat : x <= 2 * L - 1 /\ FitsNumber(value, x, s, signed) =>
                DecodeComp3(cell, s, signed) = value /\ LabComp3(cell, s) = value
      <4>1. cell = EncodeComp3(value, 2 * L - 1, s, signed)
        BY <3>1
      <4>2. s \in 0..3 /\ L \in Nat \ {0} /\ signed \in BOOLEAN
        BY <1>1
      <4>3. KeptPacked(EncodeComp3(value, 2 * L - 1, s, signed), value, L, s, signed)
        BY ONLY <2>1, <4>2, PackedSurvives
      <4> QED  BY <4>1, <4>3 DEF KeptPacked
    <3> QED  BY <1>1, <2>2, <3>1, <3>2 DEF cell, L
  <2>4. CASE f.item.usage # "packed"
    <3>1. /\ cell = EncodeZoned(value, L, s, signed) /\ d <= L
          /\ DecodeField(f, cell) = DecodeZoned(cell, s, signed) /\ LabReads(f, cell) = LabZoned(cell, s)
      BY <1>1, <1>3, <2>4 DEF EncodeField, DecodeField, LabReads, DigitsOf
    <3> HIDE DEF cell, L, d, s, signed
    <3>2. /\ cell \in Seq(Int) /\ Len(cell) = L
          /\ \A x \in Nat : x <= L /\ FitsNumber(value, x, s, signed) =>
                DecodeZoned(cell, s, signed) = value /\ LabZoned(cell, s) = value
      <4>1. cell = EncodeZoned(value, L, s, signed)
        BY <3>1
      <4>2. s \in 0..3 /\ L \in Nat \ {0} /\ signed \in BOOLEAN
        BY <1>1
      <4>3. KeptZoned(EncodeZoned(value, L, s, signed), value, L, s, signed)
        BY ONLY <2>1, <4>2, ZonedSurvives
      <4> QED  BY <4>1, <4>3 DEF KeptZoned
    <3> QED  BY <1>1, <2>2, <3>1, <3>2 DEF cell, L
  <2> QED  BY <2>3, <2>4
<1> QED  BY <1>2, <1>3

LEMMA BlankField ==
    ASSUME NEW f, IsField(f)
    PROVE  /\ Blanks(f.length) \in Seq(Int) /\ Len(Blanks(f.length)) = f.length
           /\ f.item.usage = "text"  => DecodeField(f, Blanks(f.length)) = <<>>
           /\ f.item.usage = "zoned" => DecodeField(f, Blanks(f.length)) = 0
<1>1. f.length \in Nat \ {0} /\ f.item.scale \in 0..3 /\ f.item.signed \in BOOLEAN
  BY DEF IsField, Places
<1> QED  BY <1>1, BlanksAreEmpty DEF DecodeField

(* The fields of a layout, what is written in each, and where it is.       *)
WidthsOf(items) == [k \in DOMAIN items |-> LengthOf(items[k])]

CellsOf(layout, values) ==
    [k \in DOMAIN layout |->
        IF Written(layout[k], values) THEN EncodeField(layout[k], values[layout[k].item.name])
        ELSE Blanks(layout[k].length)]

LEMMA LayoutOf ==
    ASSUME NEW items, IsCopybook(items)
    PROVE  /\ Widths(WidthsOf(items)) /\ Len(WidthsOf(items)) = Len(items)
           /\ DOMAIN BuildLayout(items) = 1..Len(items) /\ Len(BuildLayout(items)) = Len(items)
           /\ \A k \in 1..Len(items) :
                 /\ IsItem(items[k]) /\ BuildLayout(items)[k].item = items[k]
                 /\ BuildLayout(items)[k].offset = Offset(WidthsOf(items), k)
                 /\ BuildLayout(items)[k].length = WidthsOf(items)[k]
                 /\ IsField(BuildLayout(items)[k])
           /\ RecordLength(BuildLayout(items)) = Offset(WidthsOf(items), Len(items) + 1)
<1> DEFINE n == Len(items)
           w == WidthsOf(items)
           layout == BuildLayout(items)
<1>1. n \in Nat /\ DOMAIN items = 1..n /\ \A k \in 1..n : IsItem(items[k])
  BY DEF IsCopybook, IsItem
<1>2. w = [k \in 1..n |-> LengthOf(items[k])]
  BY <1>1 DEF WidthsOf
<1>3. \A k \in 1..n : w[k] = LengthOf(items[k]) /\ w[k] \in Nat \ {0}
  BY <1>1, <1>2, WidthsOfItems
<1>4. layout = [k \in 1..n |-> [item |-> items[k], offset |-> Offset(w, k), length |-> w[k]]]
  <2>1. layout = [k \in DOMAIN items |-> [item |-> items[k], offset |-> Offset(w, k), length |-> w[k]]]
    BY DEF BuildLayout, WidthsOf
  <2> QED  BY <1>1, <2>1
<1> HIDE DEF n, w, layout
<1>5. DOMAIN w = 1..n /\ Len(w) = n
  <2>1. w \in [1..n -> Nat]
    BY <1>2, <1>3
  <2> QED  BY <1>1, <2>1
<1>6. Widths(w)
  BY <1>1, <1>3, <1>5 DEF Widths
<1>7. DOMAIN layout = 1..n /\ \A k \in 1..n : layout[k].item = items[k] /\ layout[k].offset = Offset(w, k) /\ layout[k].length = w[k]
  BY <1>4
<1>8. Len(layout) = n
  BY <1>1, <1>4
<1>9. ASSUME NEW k \in 1..n PROVE IsField(layout[k])
  <2>1. IsItem(items[k]) /\ layout[k].item = items[k] /\ layout[k].length = LengthOf(items[k])
    BY <1>1, <1>3, <1>7
  <2>2. /\ LengthOf(items[k]) \in Nat \ {0}
        /\ items[k].digits <= IF items[k].usage = "packed" THEN 2 * LengthOf(items[k]) - 1 ELSE LengthOf(items[k])
    BY <2>1, WidthsOfItems
  <2>3. items[k].digits <= DigitsOf(layout[k])
    BY <2>1, <2>2 DEF DigitsOf
  <2> QED  BY <2>1, <2>2, <2>3 DEF IsField, IsItem
<1>10. RecordLength(layout) = Offset(w, n + 1)
  <2>1. [k \in DOMAIN layout |-> layout[k].length] = w
    BY <1>2, <1>3, <1>7
  <2> QED  BY <1>8, <2>1 DEF RecordLength
<1> QED  BY <1>1, <1>5, <1>6, <1>7, <1>8, <1>9, <1>10 DEF n, w, layout

LEMMA CellsOfRecord ==
    ASSUME NEW items, IsCopybook(items), NEW values, IsResult(items, values)
    PROVE  LET layout == BuildLayout(items)
               record == Encode(layout, values)
           IN  Known(layout, values) =>
               /\ Len(record) = RecordLength(layout)
               /\ \A k \in 1..Len(items) : CellOf(layout[k], record) = CellsOf(layout, values)[k]
<1> DEFINE n == Len(items)
           w == WidthsOf(items)
           layout == BuildLayout(items)
           cells == CellsOf(layout, values)
           record == Encode(layout, values)
<1> SUFFICES ASSUME Known(layout, values)
             PROVE  /\ Len(record) = RecordLength(layout)
                    /\ \A k \in 1..n : CellOf(layout[k], record) = cells[k]
  OBVIOUS
<1>1. /\ Widths(w) /\ Len(w) = n /\ DOMAIN layout = 1..n
      /\ \A k \in 1..n : /\ layout[k].item = items[k] /\ layout[k].offset = Offset(w, k)
                         /\ layout[k].length = w[k] /\ IsField(layout[k])
      /\ RecordLength(layout) = Offset(w, n + 1)
  BY LayoutOf
<1>2. n \in Nat /\ DOMAIN items = 1..n
  BY DEF IsCopybook
<1>3. record = FlattenSeq(cells)
  BY DEF Encode, CellsOf, Blanks
<1> HIDE DEF n, w, layout, record
<1>4. ASSUME NEW k \in 1..n PROVE cells[k] \in Seq(Int) /\ Len(cells[k]) = w[k]
  <2>1. IsField(layout[k]) /\ layout[k].length = w[k] /\ layout[k].item = items[k]
    BY <1>1
  <2>2. CASE Written(layout[k], values)
    <3> DEFINE value == values[layout[k].item.name]
    <3>1. IF layout[k].item.usage = "text" THEN value \in Seq(Int) ELSE value \in Int
      BY <1>2, <2>1, <2>2 DEF IsResult, Written
    <3>2. cells[k] = EncodeField(layout[k], value)
      BY <1>1, <2>2 DEF CellsOf
    <3> HIDE DEF value, cells
    <3> QED  BY <2>1, <3>1, <3>2, FieldSurvives
  <2>3. CASE ~Written(layout[k], values)
    <3>1. cells[k] = Blanks(layout[k].length)
      BY <1>1, <2>3 DEF CellsOf
    <3> HIDE DEF cells
    <3> QED  BY <2>1, <3>1, BlankField
  <2> QED  BY <2>2, <2>3
<1>5. cells \in Seq(Seq(Int)) /\ Len(cells) = n
  <2> DEFINE X == Seq(Int)
  <2>1. DOMAIN cells = 1..n /\ cells = [k \in 1..n |-> cells[k]]
    BY <1>1 DEF CellsOf
  <2> HIDE DEF cells
  <2>2. cells \in [1..n -> X]
    <3> HIDE DEF X
    <3>1. \A k \in 1..n : cells[k] \in X
      BY <1>4 DEF X
    <3> QED  BY <2>1, <3>1
  <2> HIDE DEF X
  <2>3. cells \in Seq(X) /\ Len(cells) = n
    BY <1>2, <2>2
  <2> QED  BY <2>3 DEF X
<1> HIDE DEF cells
<1>6. /\ Len(FlattenSeq(cells)) = Offset(w, Len(w) + 1)
      /\ \A k \in 1..Len(cells) :
            SubSeq(FlattenSeq(cells), Offset(w, k) + 1, Offset(w, k) + w[k]) = cells[k]
  <2>1. cells \in Seq(Seq(Int)) /\ Widths(w) /\ Len(w) = Len(cells) /\ \A k \in 1..Len(cells) : Len(cells[k]) = w[k]
    BY <1>1, <1>4, <1>5
  <2> QED  BY ONLY <2>1, CellsJoin
<1>7. Len(record) = RecordLength(layout)
  BY <1>1, <1>3, <1>6
<1>8. \A k \in 1..n : CellOf(layout[k], record) = cells[k]
  BY <1>1, <1>3, <1>5, <1>6 DEF CellOf
<1> QED  BY <1>7, <1>8 DEF n, layout, record, cells

(* What the mimic writes of results that fit, it and the lab read back as  *)
(* those results, for any fields and results (mimic/codec.py, layout.py,   *)
(* writeback.py): see RecordSurvives.                                      *)
THEOREM RecordsAreKept ==
    ASSUME NEW items, IsCopybook(items), NEW values, IsResult(items, values)
    PROVE  RecordSurvives(items, values)
<1> DEFINE n == Len(items)
           w == WidthsOf(items)
           layout == BuildLayout(items)
           record == Encode(layout, values)
           back == Decode(layout, record)
           cells == CellsOf(layout, values)
           sizes == [j \in DOMAIN items |-> PicSize(items[j])]
<1>0. CASE ~Known(layout, values)
  BY <1>0 DEF RecordSurvives
<1> SUFFICES ASSUME Known(layout, values) PROVE RecordSurvives(items, values)
  BY <1>0
<1>1. /\ Widths(w) /\ Len(w) = n /\ DOMAIN layout = 1..n
      /\ \A k \in 1..n : /\ IsItem(items[k]) /\ layout[k].item = items[k] /\ layout[k].offset = Offset(w, k)
                         /\ layout[k].length = w[k] /\ IsField(layout[k])
  BY LayoutOf
<1>2. Len(record) = RecordLength(layout) /\ \A k \in 1..n : CellOf(layout[k], record) = cells[k]
  BY CellsOfRecord
<1>3. n \in Nat /\ DOMAIN items = 1..n
  BY DEF IsCopybook
<1>4. sizes = [j \in 1..n |-> PicSize(items[j])] /\ w = [j \in 1..n |-> LengthOf(items[j])]
  BY <1>3 DEF WidthsOf
<1> HIDE DEF n, w, layout, record, sizes
<1>5. ASSUME NEW k \in 1..n, layout[k].item.name # Filler PROVE back[k] = DecodeField(layout[k], cells[k])
  <2>1. k \in {j \in DOMAIN layout : layout[j].item.name # Filler}
    BY <1>1, <1>5
  <2>2. back[k] = DecodeField(layout[k], CellOf(layout[k], record))
    BY <2>1 DEF Decode
  <2> QED  BY <1>2, <2>2
<1> HIDE DEF back
<1>6. ASSUME NEW k \in 1..n, Written(layout[k], values), FitsIn(layout[k], values[layout[k].item.name])
      PROVE  /\ back[k] = values[layout[k].item.name]
             /\ layout[k].item.usage # "text" => LabReads(layout[k], CellOf(layout[k], record)) = back[k]
  <2> DEFINE value == values[layout[k].item.name]
  <2>1. IF layout[k].item.usage = "text" THEN value \in Seq(Int) ELSE value \in Int
    BY <1>1, <1>3, <1>6 DEF IsResult, Written
  <2>2. cells[k] = EncodeField(layout[k], value)
    BY <1>1, <1>6 DEF CellsOf
  <2>3. FitsIn(layout[k], value) /\ IsField(layout[k])
    BY <1>1, <1>6
  <2> HIDE DEF value, cells
  <2>4. /\ DecodeField(layout[k], cells[k]) = value
        /\ layout[k].item.usage # "text" => LabReads(layout[k], cells[k]) = value
    BY <2>1, <2>2, <2>3, FieldSurvives
  <2>5. back[k] = DecodeField(layout[k], cells[k])
    BY <1>5, <1>6 DEF Written
  <2> QED  BY <1>2, <2>4, <2>5 DEF value
<1>7. ASSUME NEW k \in 1..n, ~Written(layout[k], values), layout[k].item.name # Filler
      PROVE  CASE layout[k].item.usage = "text"  -> back[k] = <<>>
               [] layout[k].item.usage = "zoned" -> back[k] = 0
               [] OTHER                          -> TRUE
  <2>1. cells[k] = Blanks(layout[k].length) /\ IsField(layout[k])
    BY <1>1, <1>7 DEF CellsOf
  <2>2. back[k] = DecodeField(layout[k], cells[k])
    BY <1>5, <1>7
  <2> HIDE DEF cells
  <2> QED  BY <2>1, <2>2, BlankField
<1>8. ASSUME NEW k \in 1..n,
             \A j \in 1..(k - 1) : /\ items[j].usage = "packed" => items[j].digits % 2 = 0
                                   /\ items[j].occurs <= 1
      PROVE  Offset(sizes, k) = layout[k].offset
  <2>1. Widths(sizes) /\ Len(sizes) = Len(w)
    <3>1. \A j \in 1..n : PicSize(items[j]) \in Nat
      BY <1>1, WidthsOfItems
    <3>2. sizes \in [1..n -> Nat]
      BY <1>4, <3>1
    <3>3. DOMAIN sizes = 1..n /\ Len(sizes) = n
      BY <1>3, <3>2
    <3> QED  BY <1>1, <1>3, <3>2, <3>3 DEF Widths
  <2>2. ASSUME NEW j \in 1..(k - 1) PROVE sizes[j] = w[j]
    <3>1. j \in 1..n
      BY <1>3
    <3>2. PicSize(items[j]) = LengthOf(items[j])
      BY <1>1, <1>8, <3>1, WidthsOfItems
    <3> QED  BY <1>4, <3>1, <3>2
  <2>3. k \in 1..(Len(w) + 1)
    BY <1>1, <1>3
  <2>4. Offset(sizes, k) = Offset(w, k)
    BY <1>1, <2>1, <2>2, <2>3, OffsetsAgree
  <2> QED  BY <1>1, <2>4
<1> HIDE DEF cells
<1> QED  BY <1>1, <1>2, <1>6, <1>7, <1>8 DEF RecordSurvives, layout, record, back, sizes

----------------------------------------------------------------------------
(* Whatever is tried is a trial.                                           *)
LEMMA TrialsAreTried == LabSpec => [](trial = NoTrial \/ IsTrial(trial))
<1> DEFINE TriedOne == trial = NoTrial \/ IsTrial(trial)
<1>1. LabInit => TriedOne
  BY DEF LabInit
<1>2. TriedOne /\ [UNCHANGED trial]_trial => TriedOne'
  OBVIOUS
<1> QED  BY <1>1, <1>2, PTL DEF LabSpec

(* Every comparison, split of a failing story and dark launch ends in the  *)
(* verdict it deserves (see VerdictIsSound, FailureIsLocalised and         *)
(* LaunchIsSound).                                                         *)
THEOREM VerdictsStaySound == LabSpec => []EveryVerdictIsSound
<1>1. ASSUME trial = NoTrial \/ IsTrial(trial) PROVE EveryVerdictIsSound
  <2>1. ASSUME trial.kind = "comparison"
        PROVE  /\ VerdictIsSound(trial.golden, trial.candidate, trial.rules, trial.key)
               /\ FailureIsLocalised(trial.golden, trial.candidate, trial.rules, trial.key)
    <3>1. /\ AreRecords(trial.golden) /\ AreRecords(trial.candidate)
          /\ IsRuleset(trial.rules) /\ Readable(trial.golden, trial.rules)
      BY <1>1, <2>1 DEF IsTrial, NoTrial
    <3>2. AnyList(trial.golden) /\ AnyList(trial.candidate)
      BY <3>1 DEF AreRecords
    <3> QED  BY <3>1, <3>2, VerdictsAreSound, FailuresAreBroughtDown
  <2>2. ASSUME trial.kind = "launch" PROVE LaunchIsSound(trial.inputs, trial.golden, trial.actual)
    <3>1. AreAnswers(trial.golden) /\ AreAnswers(trial.actual)
      BY <1>1, <2>2 DEF IsTrial, NoTrial
    <3> QED  BY <3>1, LaunchesAreSound
  <2> QED  BY <2>1, <2>2 DEF EveryVerdictIsSound, ComparisonIsSound, ReplayIsSound
<1> QED  BY <1>1, TrialsAreTried, PTL

(* The mimic writes back whatever it is given so that the lab and the      *)
(* mimic read it (see RecordSurvives).                                     *)
THEOREM RecordsStayKept == LabSpec => []RecordsSurvive
<1>1. ASSUME trial = NoTrial \/ IsTrial(trial) PROVE RecordsSurvive
  <2>1. ASSUME trial.kind = "record" PROVE RecordSurvives(trial.items, trial.values)
    <3>1. IsCopybook(trial.items) /\ IsResult(trial.items, trial.values)
      BY <1>1, <2>1 DEF IsTrial, NoTrial
    <3> QED  BY <3>1, RecordsAreKept
  <2> QED  BY <2>1 DEF RecordsSurvive
<1> QED  BY <1>1, TrialsAreTried, PTL
=============================================================================
