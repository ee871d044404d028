------------------------------ MODULE Verify ------------------------------
(***************************************************************************)
(* The verify stage of one workspace: controlplane/verify.py run_verify,   *)
(* with a backlog (one comparison per story) or without (one slice), and   *)
(* controlplane/verify_repair.py run_verify_repair for one story.  They    *)
(* run inside the HTTP request, each request in a Postgres transaction of  *)
(* its own that commits when the handler has returned.  Nothing keeps two  *)
(* requests apart but the rows they write: a writer waits for a row that   *)
(* another transaction wrote and did not end, and an insert whose key was  *)
(* committed meanwhile raises.  A read sees what is committed and its own. *)
(*                                                                         *)
(* SQLAlchemy sends an assignment with the next query, so a step of a      *)
(* request sends what the one before it assigned and then reads; a status  *)
(* assigned the value it was loaded with is not sent at all.               *)
(*                                                                         *)
(* Every comparison of a request is of the golden and candidate records in *)
(* its body.  The sub-slice comparisons of a failing story only explain    *)
(* it: of them the ledger rows are shown, which are written in the order   *)
(* the body's records first name their program or context.  The run row is *)
(* not shown, which no other request touches.                              *)
(* Approvals of the two gates are as in DomainStage and left out: here the *)
(* gates are what the requests publish.                                    *)
(***************************************************************************)
EXTENDS Naturals, Sequences, FiniteSets, FiniteSetsExt, Functions, Gates

CONSTANTS Requests,   \* the requests, each handled once
          Stories,
          Backlogs,   \* what _load_stories may find; <<>> is no backlog
          Bodies,     \* the request bodies, all with golden records
          Matching,   \* those whose candidate equals the golden master
          Slices,     \* sub-slices: a context, its golden and candidate records
          Parts,      \* the sub-slices of a body's candidate records, in order;
                      \* <<>> where VERIFY_DECOMPOSE_FURTHER is off
          MaxRepair   \* VERIFY_MAX_REPAIR_ATTEMPTS

ASSUME VerifyAssumption ==
    /\ IsFiniteSet(Stories) /\ Backlogs \subseteq Seq(Stories)
    /\ Bodies # {} /\ Matching \subseteq Bodies
    /\ DOMAIN Parts = Bodies /\ \A b \in Bodies : Parts[b] \in Seq(Slices)
    /\ \A s \in Backlogs \cup Range(Parts) : IsInjective(s)
    /\ MaxRepair \in Nat \ {0}

VARIABLES pc,         \* where each request is
          job,        \* its parameters and locals
          locks,      \* the rows it has written in its open transaction
          units,      \* committed ledger rows
          artifacts,  \* committed artifacts of the two kinds
          stage,      \* committed status of the verify stage
          gates,      \* the committed gates of the stage
          rewritten   \* requests that wrote Java into the module, on disk

store == <<units, artifacts, stage, gates>>
vars  == <<pc, job, locks, store, rewritten>>

Kinds    == {"check", "report"}            \* equivalence_check, verify_report
GateKeys == {"equivalence", "behaviour"}   \* equivalence, story_behavior
Opening  == {"open", "narrow"}             \* ledger rows are written
Active   == Opening \cup {"compare", "repair", "check", "stage", "equivalence",
                          "behaviour", "report", "commit"}

(* The cache key of a ledger row: unit_type, unit_key and the hash of what *)
(* is compared.                                                            *)
Units == {"verify", "repair"} \X (SUBSET Stories) \X Bodies
         \cup {"subslice"} \X (SUBSET Stories) \X Slices

(* The other rows that requests share, a kind's for the next version's. *)
Row(k) == <<k>>
Others == {Row(k) : k \in Kinds \cup GateKeys \cup {"stage"}}

(* A request's rows of one kind: versions after + 1 to after + rows. *)
Artifact == [after : Nat, rows : Nat, by : Requests]

Job == [kind : {"verify", "repair"}, body : Bodies,
        list : Seq(Stories),           \* its stories in order
        scope : SUBSET Stories,        \* the same as a set
        todo : SUBSET Units,           \* the ledger rows it goes on to write
        seen : SUBSET Units,           \* the next of them, if found committed
        ok : SUBSET Stories,           \* stories whose comparison passed
        passed : BOOLEAN,              \* the verdict
        attempts : 0..MaxRepair,       \* regenerations so far
        newest : [Kinds -> Nat],       \* newest version read
        status : {"pending", "passed", "failed"},          \* stage loaded
        covered : BOOLEAN]             \* the behaviour verdict

TypeOK ==
    /\ pc \in [Requests -> Active \cup {"new", "answered", "failed"}]
    /\ job \in [Requests -> Job]
    /\ locks \in [Requests -> SUBSET (Units \cup Others)]
    /\ units \subseteq Units
    /\ DOMAIN artifacts = Kinds /\ \A k \in Kinds : artifacts[k] \subseteq Artifact
    /\ stage \in {"pending", "passed", "failed"}
    /\ gates \in [GateKeys -> GateRow]
    /\ rewritten \subseteq Requests

NewJob(kind, list, body) ==
    [kind |-> kind, body |-> body, list |-> list, scope |-> Range(list),
     todo |-> {}, seen |-> {}, ok |-> {}, passed |-> FALSE, attempts |-> 0,
     newest |-> [k \in Kinds |-> 0], status |-> "pending", covered |-> FALSE]

(* No locals: before the handler starts and once it raised. *)
NoJob == NewJob("verify", <<>>, CHOOSE b \in Bodies : TRUE)

Init ==
    /\ pc = [r \in Requests |-> "new"]
    /\ job = [r \in Requests |-> NoJob]
    /\ locks = [r \in Requests |-> {}]
    /\ units = {} /\ artifacts = [k \in Kinds |-> {}]
    /\ stage = "pending" /\ gates = [k \in GateKeys |-> NoGate]
    /\ rewritten = {}

----------------------------------------------------------------------------
(* Mutated forms: versions are not unique, so no insert waits; a rewritten *)
(* story counts as repaired; the session of a failed request stays open;   *)
(* the stories of a request open their rows in any order.                  *)
FreeVersions(r, rows) ==
    \A q \in Requests \ {r} : locks[q] \cap rows \subseteq {Row(k) : k \in Kinds}
OkOnceRewritten(j, partial) ==
    IF j.body \in Matching \/ j.attempts > 0 THEN j.scope \ partial ELSE {}
InAnyOrder(j, u, v) == TRUE
FailOpen(r) ==
    pc' = [pc EXCEPT ![r] = "failed"] /\ job' = [job EXCEPT ![r] = NoJob] /\ UNCHANGED locks

Free(r, rows) == \A q \in Requests \ {r} : locks[q] \cap rows = {}

(* The newest version of a kind of artifact; 0 is none. *)
Newest(k) == Max({a.after + a.rows : a \in artifacts[k]} \cup {0})

(* The ledger rows of a request's comparisons.  The rows of a repair's     *)
(* attempts are only touched under its first one.                          *)
RowsOf(j) ==
    IF j.kind = "verify" /\ j.scope # {}
    THEN {<<j.kind, {s}, j.body>> : s \in j.scope}
    ELSE {<<j.kind, j.scope, j.body>>}

(* _decompose_story: those of the sub-slices of the stories that failed; a *)
(* sub-slice does not split any further.                                   *)
SubsliceRows(j) ==
    IF j.kind = "verify" /\ Len(Parts[j.body]) > 1
    THEN {<<"subslice", {s}, p>> : s \in j.scope \ j.ok, p \in Range(Parts[j.body])}
    ELSE {}

(* Rows are written story by story, and for one story part by part.        *)
Sooner(list, a, b) == \E i, k \in DOMAIN list : i < k /\ list[i] = a /\ list[k] = b
Before(j, u, v) ==
    \/ \E a \in u[2], b \in v[2] : Sooner(j.list, a, b)
    \/ u[2] = v[2] /\ Sooner(Parts[j.body], u[3], v[3])
IsNext(j, u) == u \in j.todo /\ \A v \in j.todo \ {u} : Before(j, u, v)

(* create_work_unit looks for the next row before it inserts one.          *)
Look(j) == [j EXCEPT !.seen = {u \in j.todo : IsNext(j, u)} \cap units]

(* A comparison that times out or raises is a partial verdict, a failure. *)
OkStories(j, partial) == IF j.body \in Matching THEN j.scope \ partial ELSE {}

Status(passed) == IF passed THEN "passed" ELSE "failed"

(* The exception leaves the handler: get_session rolls back. *)
Fail(r) ==
    /\ pc' = [pc EXCEPT ![r] = "failed"]
    /\ job' = [job EXCEPT ![r] = NoJob]
    /\ locks' = [locks EXCEPT ![r] = {}]

(* The rows are written, then the request reads j and goes on. *)
Proceed(r, rows, j, at) ==
    /\ locks' = [locks EXCEPT ![r] = @ \cup rows]
    /\ job' = [job EXCEPT ![r] = j]
    /\ pc' = [pc EXCEPT ![r] = at]

----------------------------------------------------------------------------
(* verify_workspace, repair_story: a repair is of one story, a verify of   *)
(* what the backlog has.                                                   *)
Begin(r, kind, list, body) ==
    /\ pc[r] = "new"
    /\ LET j == NewJob(kind, list, body)
       IN  Proceed(r, {}, Look([j EXCEPT !.todo = RowsOf(j)]), "open")
    /\ UNCHANGED <<store, rewritten>>

(* A row is inserted if it was missing, and marked running.  After the     *)
(* last one the comparisons follow, or after those of the sub-slices the   *)
(* read of the checks' versions.                                           *)
ReadChecks(j) == [j EXCEPT !.newest["check"] = Newest("check")]

Opened(r, u, j) ==
    \/ j.todo # {} /\ Proceed(r, {u}, Look(j), pc[r])
    \/ j.todo = {} /\ pc[r] = "open" /\ Proceed(r, {u}, j, "compare")
    \/ j.todo = {} /\ pc[r] = "narrow" /\ Proceed(r, {u}, ReadChecks(j), "check")

Open(r) ==
    /\ pc[r] \in Opening
    /\ \E u \in job[r].todo :
          /\ IsNext(job[r], u)
          /\ Free(r, {u})
          /\ IF u \in units => u \in job[r].seen
             THEN Opened(r, u, [job[r] EXCEPT !.todo = @ \ {u}])
             ELSE Fail(r)
    /\ UNCHANGED <<store, rewritten>>

(* The comparisons.  A red repair regenerates while attempts are left; a   *)
(* verdict on stories is followed by the sub-slices of those that failed,  *)
(* one on a slice by the read of the stage.                                *)
Compare(r, partial) ==
    LET j == [job[r] EXCEPT
                !.ok = OkStories(job[r], partial),
                !.passed = IF job[r].scope = {} THEN job[r].body \in Matching
                           ELSE OkStories(job[r], partial) = job[r].scope]
    IN  /\ pc[r] = "compare"
        /\ partial \subseteq j.scope /\ (partial # {} => j.kind = "verify")
        /\ \/ /\ j.kind = "repair" /\ ~j.passed /\ j.attempts < MaxRepair
              /\ Proceed(r, {}, j, "repair")
           \/ /\ j.kind = "repair" => j.passed \/ j.attempts = MaxRepair
              /\ j.scope # {}
              /\ IF SubsliceRows(j) = {}
                 THEN Proceed(r, {}, ReadChecks(j), "check")
                 ELSE Proceed(r, {}, Look([j EXCEPT !.todo = SubsliceRows(j)]), "narrow")
           \/ /\ j.scope = {}
              /\ Proceed(r, {}, [j EXCEPT !.status = stage], "stage")
        /\ UNCHANGED <<store, rewritten>>

(* _repair_story_java: the story's Java is generated anew and written. *)
Repair(r) ==
    /\ pc[r] = "repair"
    /\ Proceed(r, {}, [job[r] EXCEPT !.attempts = @ + 1], "compare")
    /\ rewritten' = rewritten \cup {r}
    /\ UNCHANGED store

(* An artifact insert under the version read before: it waits for another  *)
(* request's insert and raises if that one was committed.                  *)
Insert(r, k, j, at) ==
    /\ pc[r] = k
    /\ Free(r, {Row(k)})
    /\ IF Newest(k) = job[r].newest[k]
       THEN Proceed(r, {Row(k)}, j, at)
       ELSE Fail(r)
    /\ UNCHANGED <<store, rewritten>>

(* record_equivalence_check per story; _set_status loads the stage. *)
Checks(r) == Insert(r, "check", [job[r] EXCEPT !.status = stage], "stage")

(* The stage is written if it changed; then the gate is loaded, which only *)
(* holders of the checks write, or the reports' versions with no backlog.  *)
SetStage(r) ==
    LET rows == IF job[r].status = Status(job[r].passed) THEN {} ELSE {Row("stage")}
    IN  /\ pc[r] = "stage"
        /\ Free(r, rows)
        /\ \/ /\ job[r].scope = {}
              /\ Proceed(r, rows, [job[r] EXCEPT !.newest["report"] = Newest("report")],
                         "report")
           \/ /\ job[r].scope # {}
              /\ Proceed(r, rows, job[r], "equivalence")
        /\ UNCHANGED <<store, rewritten>>

(* upsert_gate of equivalence is sent.  A fan-out goes on to story_behavior*)
(* unless that raises, which is swallowed.                                 *)
Equivalence(r) ==
    /\ pc[r] = "equivalence"
    /\ Free(r, {Row("equivalence")})
    /\ \/ Proceed(r, {Row("equivalence")},
                  [job[r] EXCEPT !.newest["report"] = Newest("report")], "report")
       \/ /\ job[r].kind = "verify"
          /\ Proceed(r, {Row("equivalence")}, job[r], "behaviour")
    /\ UNCHANGED <<store, rewritten>>

(* evaluate_story_behavior: green needs the equivalence and the tests that *)
(* the stories' acceptance criteria name.                                  *)
Behaviour(r, covered) ==
    /\ pc[r] = "behaviour"
    /\ covered => job[r].passed
    /\ Free(r, {Row("behaviour")})
    /\ Proceed(r, {Row("behaviour")},
               [job[r] EXCEPT !.covered = covered, !.newest["report"] = Newest("report")],
               "report")
    /\ UNCHANGED <<store, rewritten>>

(* record_verify_report. *)
Report(r) == Insert(r, "report", job[r], "commit")

(* The handler returned and get_session commits. *)
Commit(r) ==
    LET j == job[r]
        Written(k, n) == IF Row(k) \in locks[r]
                         THEN {[after |-> j.newest[k], rows |-> n, by |-> r]} ELSE {}
        Gate(k, passed) == IF Row(k) \in locks[r]
                           THEN Upsert(gates[k], gates[k].status, passed) ELSE gates[k]
    IN  /\ pc[r] = "commit"
        /\ pc' = [pc EXCEPT ![r] = "answered"]
        /\ locks' = [locks EXCEPT ![r] = {}]
        /\ units' = units \cup (locks[r] \cap Units)
        /\ artifacts' = [artifacts EXCEPT
                           !["check"]  = @ \cup Written("check", Cardinality(j.scope)),
                           !["report"] = @ \cup Written("report", 1)]
        /\ stage' = IF Row("stage") \in locks[r] THEN Status(j.passed) ELSE stage
        /\ gates' = [gates EXCEPT !["equivalence"] = Gate("equivalence", j.passed),
                                  !["behaviour"]   = Gate("behaviour", j.covered)]
        /\ UNCHANGED <<job, rewritten>>

(* Anything raises, or the backend dies: files written stay written. *)
Raise(r) ==
    /\ pc[r] \in Active
    /\ Fail(r)
    /\ UNCHANGED <<store, rewritten>>

Step(r) ==
    \/ Open(r)
    \/ \E partial \in SUBSET Stories : Compare(r, partial)
    \/ Repair(r)
    \/ Checks(r) \/ SetStage(r) \/ Equivalence(r)
    \/ \E covered \in BOOLEAN : Behaviour(r, covered)
    \/ Report(r) \/ Commit(r)

Next ==
    \/ \E r \in Requests, body \in Bodies :
         \/ \E list \in Backlogs : Begin(r, "verify", list, body)
         \/ \E s \in Stories : Begin(r, "repair", <<s>>, body)
    \/ \E r \in Requests : Step(r) \/ Raise(r)

Spec == Init /\ [][Next]_vars

----------------------------------------------------------------------------
(* Properties. *)

(* The newest report. *)
Latest(S) == CHOOSE a \in S : \A b \in S : b.after <= a.after

(* As long as every request finds a backlog, stage and equivalence gate    *)
(* tell the verdict of the newest report: the requests write in turn,      *)
(* because the versions of their checks collide.                           *)
StageIsLastVerdict ==
    (\A r \in Requests : pc[r] \notin {"new", "failed"} => job[r].scope # {}) /\ artifacts["report"] # {} =>
        LET passed == job[Latest(artifacts["report"]).by].passed
        IN  stage = Status(passed) /\ gates["equivalence"].verdict = passed

(* A green report was measured: the request's records match, and it wrote  *)
(* no Java, since regenerating changes nothing that a repair compares.     *)
GreenIsMeasured ==
    \A a \in artifacts["report"] :
        job[a.by].passed => job[a.by].body \in Matching /\ a.by \notin rewritten

(* The versions of each kind run from 1 without a gap or a tie, and an     *)
(* answered request has its report, and its checks if it has stories.      *)
HistoryIsTotal ==
    /\ \A k \in Kinds : \A a, b \in artifacts[k] :
         a # b => a.after + a.rows <= b.after \/ b.after + b.rows <= a.after
    /\ \A k \in Kinds : \A a \in artifacts[k] :
         a.after = 0 \/ \E b \in artifacts[k] : b.after + b.rows = a.after
    /\ \A r \in Requests :
         /\ pc[r] = "answered" <=> \E a \in artifacts["report"] : a.by = r
         /\ pc[r] = "answered" /\ job[r].scope # {}
              <=> \E a \in artifacts["check"] : a.by = r

(* Requests write in turn although nothing but their rows keeps them apart *)
(* (record_equivalence_check, record_verify_report, _set_status).          *)
WritesInTurn == HistoryIsTotal /\ StageIsLastVerdict

(* While a request is under way one can go on, and as each has a bounded   *)
(* number of steps all of them end: no row is kept by a request that is    *)
(* over, and the rows behind the ledger's never make a circle.  Only the   *)
(* ledger's may: requests that list stories or sub-slices differently open *)
(* the same rows in another order (_subslice_verdict), and Postgres has to *)
(* abort one, which then raises.  Requests with one body over one backlog  *)
(* never do.                                                               *)
WaitsFor(r, q) ==
    pc[r] \in Opening /\ \E u \in job[r].todo : IsNext(job[r], u) /\ u \in locks[q]
Circle(C) == C # {} /\ \A r \in C : \E q \in C \ {r} : WaitsFor(r, q)
ListAlike(C) == \A r, q \in C : job[r].body = job[q].body /\ job[r].list = job[q].list

SomeoneProceeds ==
    (\E r \in Requests : pc[r] \in Active) =>
        \/ \E r \in Requests : ENABLED Step(r)
        \/ \E C \in SUBSET Requests : Circle(C) /\ ~ListAlike(C)

=============================================================================
