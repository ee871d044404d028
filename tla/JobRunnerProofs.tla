-------------------------- MODULE JobRunnerProofs --------------------------
(***************************************************************************)
(* Proofs about JobRunner for every number of callers, keys, runs and      *)
(* every staleness threshold: type correctness, the invariants that keep a *)
(* superseded worker from harming the job that replaced it, and the        *)
(* refinement of JobSlot; and, after them, about BuildJobs, the work two   *)
(* such jobs do for one workspace.                                         *)
(***************************************************************************)
EXTENDS JobRunner, BuildJobs, TLAPS

(* A run is executing or executed exactly when start has handed it out. *)
BornInOrder == \A r \in Runs : work[r].pc = "unborn" <=> r > runs

(* A job dict belongs to a run of its own key, holds no outcome while it   *)
(* is running, and its own run's outcome once it is settled.               *)
JobShape ==
    \A k \in Keys :
        /\ jobs[k].status = "absent" <=> jobs[k].run = NoRun
        /\ jobs[k].run # NoRun => jobs[k].run <= runs /\ work[jobs[k].run].key = k
        /\ jobs[k].status \in {"running", "absent"} => jobs[k].by = NoRun
        /\ jobs[k].status \in Settled => jobs[k].by = jobs[k].run

(* The inductive invariant. *)
IInv ==
    /\ TypeOK
    /\ BornInOrder
    /\ JobShape
    /\ RunningIsRegistered
    /\ OverlapOnlyWhenStale

USE RunnerAssumption DEF RunnerAssumption, Runs, NoRun

LEMMA AnyKeyIsKey == AnyKey \in Keys
BY DEF AnyKey

(* The invariant holds before anything was started. *)
LEMMA InitInv == Init => IInv
BY AnyKeyIsKey DEF Init, IInv, TypeOK, BornInOrder, JobShape, RunningIsRegistered,
   OverlapOnlyWhenStale, Alive, NoJob, JobState, Statuses, Settled, Requestable,
   Execution, Views

(* Every step preserves the types. *)
LEMMA NextTypeOK == IInv /\ [Next]_vars => TypeOK'
<1> SUFFICES ASSUME IInv, [Next]_vars PROVE TypeOK'
  OBVIOUS
<1> USE DEF IInv, TypeOK, JobState, Statuses, Settled, Requestable, Execution,
            Views, NoJob
<1>1. ASSUME NEW c \in Callers, NEW k \in Keys, StartFresh(c, k) PROVE TypeOK'
  BY <1>1 DEF StartFresh, ThreadOf
<1>2. ASSUME NEW c \in Callers, NEW k \in Keys, StartBlocked(c, k) PROVE TypeOK'
  BY <1>2 DEF StartBlocked
<1>3. ASSUME NEW c \in Callers, StartReturn(c) PROVE TypeOK'
  BY <1>3 DEF StartReturn
<1>4. ASSUME NEW c \in Callers, NEW k \in Keys, Get(c, k) PROVE TypeOK'
  BY <1>4 DEF Get
<1>5. ASSUME NEW r \in Runs, NEW p \in {"finish", "over"}, NEW o \in Settled,
             work' = [work EXCEPT ![r].pc = p, ![r].outcome = o]
      PROVE  work' \in [Runs -> Execution]
  <2>1. work[r] \in Execution
    OBVIOUS
  <2>2. [work[r] EXCEPT !.pc = p, !.outcome = o] \in Execution
    BY <1>5, <2>1
  <2> QED
    BY <1>5, <2>2
<1>6. ASSUME NEW r \in Runs, (\E q \in Requests : FnReturns(r, q)) \/ FnRaises(r)
      PROVE  TypeOK'
  <2>1. PICK o \in Settled :
           work' = [work EXCEPT ![r].pc = "finish", ![r].outcome = o]
    BY <1>6 DEF FnReturns, FnRaises
  <2>2. UNCHANGED <<jobs, threads, runs, call, view>>
    BY <1>6 DEF FnReturns, FnRaises
  <2> QED
    BY <2>1, <2>2, <1>5
<1>7. ASSUME NEW r \in Runs, work' = [work EXCEPT ![r].pc = "over"]
      PROVE  work' \in [Runs -> Execution]
  <2>1. work[r] \in Execution
    OBVIOUS
  <2>2. [work[r] EXCEPT !.pc = "over"] \in Execution
    BY <2>1
  <2> QED
    BY <1>7, <2>2
<1>8. ASSUME NEW r \in Runs, FnDies(r) \/ Finish(r) PROVE TypeOK'
  <2>1. CASE FnDies(r)
    BY <2>1, <1>7 DEF FnDies
  <2>2. CASE Finish(r) /\ ~Owns(r)
    BY <2>2, <1>7 DEF Finish
  <2>3. CASE Finish(r) /\ Owns(r)
    <3> DEFINE k == work[r].key
    <3>1. k \in Keys /\ work[r].outcome \in Settled /\ jobs[k] \in JobState
      OBVIOUS
    <3>2. [jobs[k] EXCEPT !.status = work[r].outcome, !.by = r] \in JobState
      BY <3>1
    <3>3. jobs' \in [Keys -> JobState]
      <4> DEFINE row == [jobs[k] EXCEPT !.status = work[r].outcome, !.by = r]
      <4>1. jobs' = [jobs EXCEPT ![k] = row]
        BY <2>3 DEF Finish
      <4>2. row \in JobState /\ jobs \in [Keys -> JobState]
        BY <3>2
      <4> HIDE DEF row
      <4> QED  BY ONLY <4>1, <4>2
    <3> QED
      BY <2>3, <3>1, <3>3, <1>7 DEF Finish
  <2> QED
    BY <1>8, <2>1, <2>2, <2>3
<1>9. CASE Tick
  <2>1. ASSUME NEW r \in Runs PROVE work'[r] \in Execution
    <3>1. CASE work[r].pc # "unborn" /\ work[r].age < StaleAfter
      <4>1. work'[r] = [work[r] EXCEPT !.age = @ + 1]
        BY <1>9, <3>1 DEF Tick
      <4>2. work[r] \in Execution /\ work[r].age + 1 \in 0..StaleAfter
        BY <3>1
      <4> QED
        BY <4>1, <4>2
    <3>2. CASE ~(work[r].pc # "unborn" /\ work[r].age < StaleAfter)
      BY <1>9, <3>2 DEF Tick
    <3> QED
      BY <3>1, <3>2
  <2> QED
    BY <1>9, <2>1 DEF Tick
<1>10. CASE Restart
  <2>1. ASSUME NEW r \in Runs PROVE work'[r] \in Execution
    <3>1. work[r] \in Execution
      OBVIOUS
    <3>2. [work[r] EXCEPT !.pc = "over"] \in Execution
      BY <3>1
    <3> QED
      BY <1>10, <3>2 DEF Restart
  <2> QED
    BY <1>10, <2>1 DEF Restart
<1>11. CASE UNCHANGED vars
  BY <1>11 DEF vars
<1>12. QED
  BY <1>1, <1>2, <1>3, <1>4, <1>6, <1>8, <1>9, <1>10, <1>11
  DEF Next, CallerStep, WorkerStep

(* Every step preserves the parts of the invariant about runs and jobs. *)
LEMMA NextInv == IInv /\ [Next]_vars => IInv'
<1> SUFFICES ASSUME IInv, [Next]_vars PROVE IInv'
  OBVIOUS
<1>0. TypeOK'
  BY NextTypeOK
<1> DEFINE Rest == BornInOrder /\ JobShape /\ RunningIsRegistered
                   /\ OverlapOnlyWhenStale
<1> USE DEF IInv, TypeOK, JobState, Statuses, Settled, Requestable, Execution
<1>1. ASSUME NEW c \in Callers, NEW k \in Keys, StartFresh(c, k) PROVE Rest'
  <2> USE DEF StartFresh, ThreadOf
  <2>1. BornInOrder'
    BY <1>1 DEF BornInOrder
  <2>2. JobShape'
    BY <1>1 DEF JobShape
  <2>3. RunningIsRegistered'
    BY <1>1 DEF RunningIsRegistered
  <2>4. OverlapOnlyWhenStale'
    <3> SUFFICES ASSUME NEW r \in Runs, Alive(r)', threads'[work'[r].key] # r
                 PROVE work'[r].age >= StaleAfter
      BY DEF OverlapOnlyWhenStale
    <3>1. r # runs + 1
      BY <1>1
    <3>2. Alive(r) /\ work'[r] = work[r]
      BY <1>1, <3>1 DEF Alive
    <3>3. CASE threads[work[r].key] # r
      BY <3>2, <3>3 DEF OverlapOnlyWhenStale
    <3>4. CASE threads[work[r].key] = r
      <4>1. work[r].key = k
        BY <1>1, <3>2, <3>4
      <4>2. jobs[k].status = "running" /\ jobs[k].run = r
        BY <3>4, <4>1 DEF RunningIsRegistered
      <4>3. IsStale(k)
        BY <1>1, <4>2 DEF Blocks
      <4> QED
        BY <3>2, <3>4, <4>1, <4>2, <4>3 DEF IsStale
    <3> QED
      BY <3>3, <3>4
  <2> QED
    BY <2>1, <2>2, <2>3, <2>4
<1>2. ASSUME UNCHANGED <<jobs, threads, runs, work>> PROVE Rest'
  BY <1>2 DEF BornInOrder, JobShape, RunningIsRegistered, OverlapOnlyWhenStale, Alive
<1>3. ASSUME NEW r \in Runs,
             (\E q \in Requests : FnReturns(r, q)) \/ FnRaises(r) \/ FnDies(r)
      PROVE  Rest'
  <2>1. /\ UNCHANGED <<jobs, threads, runs>>
        /\ work[r].pc = "fn" /\ work'[r].pc \in {"finish", "over"}
        /\ \A q \in Runs : work'[q].key = work[q].key /\ work'[q].age = work[q].age
        /\ \A q \in Runs \ {r} : work'[q] = work[q]
    <3>1. CASE \E q \in Requests : FnReturns(r, q)
      BY <3>1 DEF FnReturns
    <3>2. CASE FnRaises(r)
      BY <3>2 DEF FnRaises
    <3>3. CASE FnDies(r)
      BY <3>3 DEF FnDies
    <3> QED
      BY <1>3, <3>1, <3>2, <3>3
  <2>2. BornInOrder' /\ JobShape' /\ RunningIsRegistered'
    BY <2>1 DEF BornInOrder, JobShape, RunningIsRegistered
  <2>3. OverlapOnlyWhenStale'
    BY <2>1 DEF OverlapOnlyWhenStale, Alive
  <2> QED
    BY <2>2, <2>3
<1>4. ASSUME NEW r \in Runs, Finish(r) PROVE Rest'
  <2> DEFINE k == work[r].key
  <2>1. /\ work[r].pc = "finish" /\ work'[r].pc = "over"
        /\ \A q \in Runs : work'[q].key = work[q].key /\ work'[q].age = work[q].age
        /\ \A q \in Runs \ {r} : work'[q] = work[q]
        /\ runs' = runs
    BY <1>4 DEF Finish
  <2>2. BornInOrder'
    BY <2>1 DEF BornInOrder
  <2>3. CASE ~Owns(r)
    <3>1. UNCHANGED <<jobs, threads>>
      BY <1>4, <2>3 DEF Finish
    <3> QED
      BY <2>1, <2>2, <3>1
      DEF JobShape, RunningIsRegistered, OverlapOnlyWhenStale, Alive
  <2>4. CASE Owns(r)
    <3>1. /\ jobs' = [jobs EXCEPT ![k].status = work[r].outcome, ![k].by = r]
          /\ threads' = [threads EXCEPT ![k] = NoRun]
      BY <1>4, <2>4 DEF Finish
    <3>2. k \in Keys /\ jobs[k].status = "running" /\ jobs[k].run = r
      BY <2>4 DEF Owns, RunningIsRegistered
    <3>6. /\ jobs'[k].status = work[r].outcome /\ jobs'[k].run = r /\ jobs'[k].by = r
          /\ threads'[k] = NoRun
          /\ \A q \in Keys \ {k} : jobs'[q] = jobs[q] /\ threads'[q] = threads[q]
      BY <3>1, <3>2
    <3>7. work[r].outcome \in Settled
      OBVIOUS
    <3>3. JobShape'
      <4>1. ASSUME NEW q \in Keys, q # k
            PROVE  /\ jobs'[q].status = "absent" <=> jobs'[q].run = NoRun
                   /\ jobs'[q].run # NoRun => jobs'[q].run <= runs' /\ work'[jobs'[q].run].key = q
                   /\ jobs'[q].status \in {"running", "absent"} => jobs'[q].by = NoRun
                   /\ jobs'[q].status \in Settled => jobs'[q].by = jobs'[q].run
        BY <2>1, <3>6, <4>1 DEF JobShape
      <4>2. r # NoRun /\ r <= runs' /\ work'[r].key = k
        BY <2>1, <3>2 DEF JobShape
      <4> QED  BY <3>6, <3>7, <4>1, <4>2 DEF JobShape, Settled
    <3>4. RunningIsRegistered'
      <4>1. jobs'[k].status # "running"
        BY <3>6, <3>7 DEF Settled
      <4> QED  BY <3>6, <4>1 DEF RunningIsRegistered
    <3>5. OverlapOnlyWhenStale'
      BY <2>1, <2>4, <3>1, <3>2 DEF OverlapOnlyWhenStale, Alive, Owns
    <3> QED
      BY <2>2, <3>3, <3>4, <3>5
  <2> QED
    BY <2>3, <2>4
<1>5. ASSUME Tick PROVE Rest'
  <2>1. /\ UNCHANGED <<jobs, threads, runs>>
        /\ \A q \in Runs : /\ work'[q].pc = work[q].pc
                           /\ work'[q].key = work[q].key
                           /\ work'[q].age >= work[q].age
    BY <1>5 DEF Tick
  <2>2. BornInOrder'
    BY <2>1 DEF BornInOrder
  <2>3. JobShape'
    BY <2>1 DEF JobShape
  <2>4. RunningIsRegistered'
    BY <2>1 DEF RunningIsRegistered
  <2>5. OverlapOnlyWhenStale'
    BY <1>0, <2>1 DEF OverlapOnlyWhenStale, Alive
  <2> QED
    BY <2>2, <2>3, <2>4, <2>5
<1>6. ASSUME Restart PROVE Rest'
  <2>1. BornInOrder'
    BY <1>6 DEF Restart, BornInOrder, Alive
  <2>2. JobShape' /\ RunningIsRegistered'
    BY <1>6 DEF Restart, JobShape, RunningIsRegistered, NoJob
  <2>3. OverlapOnlyWhenStale'
    BY <1>6 DEF Restart, OverlapOnlyWhenStale, Alive
  <2> QED
    BY <2>1, <2>2, <2>3
<1>7. ASSUME NEW c \in Callers,
             StartReturn(c) \/ (\E k \in Keys : StartBlocked(c, k) \/ Get(c, k))
      PROVE  UNCHANGED <<jobs, threads, runs, work>>
  BY <1>7 DEF StartReturn, StartBlocked, Get
<1>8. UNCHANGED vars => UNCHANGED <<jobs, threads, runs, work>>
  BY DEF vars
<1>9. Rest'
  BY <1>1, <1>2, <1>3, <1>4, <1>5, <1>6, <1>7, <1>8 DEF Next, CallerStep, WorkerStep
<1> QED
  BY <1>0, <1>9

(* The inductive invariant holds in every reachable state. *)
THEOREM Invariance == Spec => []IInv
<1>1. Init => IInv
  BY InitInv
<1>2. IInv /\ [Next]_vars => IInv'
  BY NextInv
<1> QED
  BY <1>1, <1>2, PTL DEF Spec

(* Type correctness of the runner's tables and of what clients were handed. *)
THEOREM TypeCorrect == Spec => []TypeOK
BY Invariance, PTL DEF IInv

(* A superseded worker never clobbers the job that replaced its own. *)
THEOREM LateWorkerIgnored == Spec => []NoClobber
<1>1. IInv => NoClobber
  BY DEF IInv, TypeOK, JobShape, NoClobber, JobState, Statuses
<1> QED
  BY <1>1, Invariance, PTL

(* The registered thread of a key is always that of its running job. *)
THEOREM ThreadTableExact == Spec => []RunningIsRegistered
BY Invariance, PTL DEF IInv

(* Two workers of one key overlap only after JOB_STALE_AFTER_S. *)
THEOREM OverlapNeedsAge == Spec => []OverlapOnlyWhenStale
BY Invariance, PTL DEF IInv

(* The runner implements the abstract job slots. *)
THEOREM RunnerImplementsSlot == Spec => SlotSpec
<1> USE DEF Slot!slotVars, Slot!Empty
<1>1. Init => Slot!SlotInit
  BY DEF Init, NoJob, Slot!SlotInit
<1>2. IInv /\ [Next]_vars => [Slot!SlotNext]_(Slot!slotVars)
  <2> SUFFICES ASSUME IInv, [Next]_vars
               PROVE  [Slot!SlotNext]_(Slot!slotVars)
    OBVIOUS
  <2> USE DEF IInv, TypeOK, JobState
  <2>1. ASSUME NEW c \in Callers, NEW k \in Keys, StartFresh(c, k)
        PROVE  Slot!Begin(k)
    BY <2>1 DEF StartFresh, Slot!Begin
  <2>2. ASSUME NEW r \in Runs, NEW k \in Keys, work[r].key = k, Finish(r), Owns(r)
        PROVE  Slot!Settle(k)
    <3>1. jobs[k].status = "running" /\ jobs[k].run = r
      BY <2>2 DEF Owns, RunningIsRegistered, Execution
    <3>2. jobs[k].by = NoRun
      BY <3>1 DEF JobShape
    <3>3. jobs' = [jobs EXCEPT ![k].status = work[r].outcome, ![k].by = r]
          /\ runs' = runs
      BY <2>2 DEF Finish
    <3> QED
      BY <3>1, <3>2, <3>3 DEF Slot!Settle
  <2>3. ASSUME NEW r \in Runs, Finish(r), ~Owns(r)
        PROVE  UNCHANGED <<jobs, runs>>
    BY <2>3 DEF Finish
  <2>4. Restart => Slot!Forget
    BY DEF Restart, NoJob, Slot!Forget
  <2>5. ASSUME \/ UNCHANGED vars
               \/ Tick
               \/ \E c \in Callers :
                    StartReturn(c) \/ \E k \in Keys : StartBlocked(c, k) \/ Get(c, k)
               \/ \E r \in Runs : FnRaises(r) \/ FnDies(r)
                                  \/ \E q \in Requests : FnReturns(r, q)
        PROVE  UNCHANGED <<jobs, runs>>
    BY <2>5 DEF vars, Tick, StartReturn, StartBlocked, Get, FnRaises, FnDies, FnReturns
  <2>6. UNCHANGED <<jobs, runs>> => UNCHANGED Slot!slotVars
    OBVIOUS
  <2>7. ASSUME NEW r \in Runs PROVE work[r].key \in Keys
    BY DEF Execution
  <2>8. CASE UNCHANGED <<jobs, runs>>
    BY <2>6, <2>8
  <2>9. CASE \E c \in Callers, k \in Keys : StartFresh(c, k)
    BY <2>1, <2>9 DEF Slot!SlotNext
  <2>10. CASE \E r \in Runs : Finish(r)
    <3>1. PICK r \in Runs : Finish(r)
      BY <2>10
    <3>2. PICK k \in Keys : work[r].key = k
      BY <2>7
    <3>3. CASE Owns(r)
      BY <2>2, <3>1, <3>2, <3>3 DEF Slot!SlotNext
    <3>4. CASE ~Owns(r)
      BY <2>3, <2>8, <3>1, <3>4
    <3> QED
      BY <3>3, <3>4
  <2>11. CASE Restart
    BY <2>4, <2>11 DEF Slot!SlotNext
  <2> QED
    BY <2>5, <2>8, <2>9, <2>10, <2>11 DEF Next, CallerStep, WorkerStep
<1> QED
  BY <1>1, <1>2, Invariance, PTL DEF Spec, SlotSpec, Slot!SlotSpec

----------------------------------------------------------------------------
(* Two builds of a workspace at once (BuildJobs).  What keeps them from    *)
(* losing each other's records is the number of a version: who holds one   *)
(* keeps the other from inserting, and who is too late has read an old one.*)

Labels == {"idle", "start", "reset", "scaffold", "pick", "running", "work", "status", "refs",
           "draft", "write", "slice refs", "mark"}
Extending == {"reset", "running", "status", "refs", "slice refs"}
AtStory == {"running", "work", "status", "refs"}

(* Where a job is, and what it has at hand there. *)
Placed(j) ==
    /\ pc[j] \in Labels
    /\ targets[j] \subseteq Stories /\ todo[j] \subseteq targets[j]
    /\ pc[j] = "idle" => pend[j] = NoRows /\ todo[j] = {}
    /\ pc[j] # "idle" => status[j] = "running"
    /\ seen[j] # NoView => pc[j] \in Extending
    /\ pc[j] \in Extending \ {"reset"} => seen[j] # NoView
    /\ pc[j] \in AtStory \/ (pc[j] = "reset" /\ seen[j] # NoView) => cur[j] \in targets[j]
    /\ result[j] = [s \in Stories |-> result[j][s]]
    /\ pc[j] \in {"reset", "scaffold", "running", "work"} => tries[j] # 1
    /\ pc[j] \in {"pick", "status", "refs"} /\ tries[j] = 1 =>
          \A s \in todo[j] : result[j][s] # "passed"

Functions == 
    /\ pc = [j \in Jobs |-> pc[j]] /\ targets = [j \in Jobs |-> targets[j]]
    /\ todo = [j \in Jobs |-> todo[j]] /\ cur = [j \in Jobs |-> cur[j]]
    /\ result = [j \in Jobs |-> result[j]] /\ tries = [j \in Jobs |-> tries[j]]
    /\ seen = [j \in Jobs |-> seen[j]] /\ status = [j \in Jobs |-> status[j]]

Places == Functions /\ \A j \in Jobs : Placed(j)

(* The versions of an artifact: how many, and the last. *)
Row(row, kind) ==
    /\ row = [n |-> row.n, last |-> row.last] /\ row.n \in Nat
    /\ kind = Status => row.last = [s \in Stories |-> row.last[s]]

Rows(table) == table = [k \in Kinds |-> table[k]] /\ \A k \in Kinds : Row(table[k], k)
Stores == Rows(rows) /\ pend = [j \in Jobs |-> pend[j]] /\ \A j \in Jobs : Rows(pend[j])

(* What a job read is what it still sees, or its number has been taken. *)
Current(j, kind) ==
    /\ seen[j].version = Visible(j, kind).n + 1
    /\ seen[j].value = Visible(j, kind).last

(* At most one job holds numbers of an artifact; what it inserted extends  *)
(* what is committed, and changes no story that is not its own.            *)
Exclusive == \A k \in Kinds : \A i, j \in Jobs : i # j => pend[i][k].n = 0 \/ pend[j][k].n = 0
Extends(j) ==
    /\ pend[j][Refs].n > 0 => rows[Refs].last \subseteq pend[j][Refs].last
    /\ pend[j][Status].n > 0 =>
          \A s \in Stories \ targets[j] : pend[j][Status].last[s] = rows[Status].last[s]
Fresh(j) ==
    seen[j] # NoView =>
        /\ seen[j].version \in Nat
        /\ Taken(j, Writing(j)) \/ Current(j, Writing(j))

Serial == Exclusive /\ \A j \in Jobs : Extends(j) /\ Fresh(j)

(* A job about to run a story's tests anew clears it of what was torn. *)
Cleared(s) == s \notin torn \/ \E j \in Jobs : pc[j] = "work" /\ cur[j] = s

(* A passed story's criteria are among the references that become durable  *)
(* with it: they are committed, inserted, or about to be, from a module    *)
(* that still holds its tests.                                             *)
Backed(j) ==
    /\ pend[j][Status].n > 0 =>
          \A s \in Stories :
             /\ pend[j][Status].last[s] = "passed" /\ Cleared(s)
             /\ ~(pc[j] = "refs" /\ cur[j] = s)
             => AcIds[s] \subseteq Visible(j, Refs).last
    /\ pc[j] \in {"status", "refs"} /\ result[j][cur[j]] = "passed" /\ Cleared(cur[j]) =>
          cur[j] \in module \/ (pc[j] = "status" /\ Taken(j, Status))
    /\ pc[j] = "refs" =>
          pend[j][Status].n > 0 /\ pend[j][Status].last[cur[j]] = result[j][cur[j]]

Referenced ==
    /\ \A s \in Stories :
          rows[Status].last[s] = "passed" /\ Cleared(s) => AcIds[s] \subseteq rows[Refs].last
    /\ \A j \in Jobs : Backed(j)

(* The inductive invariant. *)
BuildsInv == Places /\ Stores /\ Serial /\ Referenced

----------------------------------------------------------------------------
LEMMA TwoKinds == Kinds = {Status, Refs} /\ Status # Refs /\ Jobs = {"build", "build-stories"}
BY DEF Kinds, Status, Refs, Jobs

LEMMA OtherJob == \A i, j, k \in Jobs : i # j /\ i # k => j = k
BY DEF Jobs

LEMMA EmptyRows == Rows(NoRows) /\ \A k \in Kinds : NoRows[k].n = 0
BY DEF Rows, Row, NoRows, Blank

(* What a job sees: its own rows after the committed ones. *)
LEMMA VisibleRow ==
    ASSUME Stores, NEW j \in Jobs, NEW k \in Kinds
    PROVE  /\ Row(Visible(j, k), k)
           /\ Visible(j, k).n = rows[k].n + pend[j][k].n
           /\ Visible(j, k).last = IF pend[j][k].n = 0 THEN rows[k].last ELSE pend[j][k].last
<1>1. Row(rows[k], k) /\ Row(pend[j][k], k)
  BY DEF Stores, Rows
<1>2. CASE pend[j][k].n = 0
  <2>1. Visible(j, k) = rows[k]
    BY <1>2 DEF Visible, Extended
  <2> QED  BY <1>1, <1>2, <2>1 DEF Row
<1>3. CASE pend[j][k].n # 0
  <2>1. Visible(j, k) = [n |-> rows[k].n + pend[j][k].n, last |-> pend[j][k].last]
    BY <1>3 DEF Visible, Extended
  <2> QED  BY <1>1, <1>3, <2>1 DEF Row
<1> QED  BY <1>2, <1>3

(* What a job sees extends what is committed.                              *)
LEMMA VisibleExtends ==
    ASSUME Stores, Serial, NEW j \in Jobs
    PROVE  /\ rows[Refs].last \subseteq Visible(j, Refs).last
           /\ \A s \in Stories \ targets[j] :
                 Visible(j, Status).last[s] = rows[Status].last[s]
<1>1. \A k \in Kinds : pend[j][k].n \in Nat
  BY DEF Stores, Rows, Row
<1>2. Extends(j) /\ Refs \in Kinds /\ Status \in Kinds
  BY TwoKinds DEF Serial
<1>3. /\ Visible(j, Refs).last
            = IF pend[j][Refs].n = 0 THEN rows[Refs].last ELSE pend[j][Refs].last
      /\ Visible(j, Status).last
            = IF pend[j][Status].n = 0 THEN rows[Status].last ELSE pend[j][Status].last
  BY <1>2, VisibleRow
<1> QED  BY <1>1, <1>2, <1>3 DEF Extends

(* What a job reads is a view, and of what it sees. *)
LEMMA ReadView ==
    ASSUME Stores, NEW j \in Jobs, NEW k \in Kinds
    PROVE  /\ ViewOf(j, k) # NoView
           /\ ViewOf(j, k).version = Visible(j, k).n + 1 /\ ViewOf(j, k).value = Visible(j, k).last
<1>1. Visible(j, k).n \in Nat
  BY VisibleRow DEF Row
<1>2. ViewOf(j, k).version = Visible(j, k).n + 1 /\ ViewOf(j, k).value = Visible(j, k).last
  BY DEF ViewOf
<1>3. NoView.version = 0
  BY DEF NoView
<1> QED  BY <1>1, <1>2, <1>3

(* Who may insert has read what is there, and nobody else holds a number.  *)
LEMMA MayInsert ==
    ASSUME Stores, Serial, NEW j \in Jobs, NEW k \in Kinds, Writing(j) = k, Insertable(j, k)
    PROVE  /\ Current(j, k)
           /\ \A i \in Jobs \ {j} : pend[i][k].n = 0
<1>1. Current(j, k) /\ seen[j].version > rows[k].n
  <2>1. seen[j] # NoView /\ ~Taken(j, k)
    BY DEF Insertable
  <2>2. Current(j, k)
    BY <2>1 DEF Serial, Fresh
  <2>3. Row(rows[k], k) /\ Visible(j, k).n \in Nat
    BY VisibleRow DEF Stores, Rows, Row
  <2> QED  BY <2>1, <2>2, <2>3 DEF Taken, Current, Row
<1>2. ASSUME NEW i \in Jobs \ {j}, pend[i][k].n # 0 PROVE FALSE
  <2>1. pend[i][k].n \in Nat /\ rows[k].n \in Nat /\ pend[j][k].n = 0
    BY <1>2 DEF Serial, Exclusive, Stores, Rows, Row
  <2>2. seen[j].version = rows[k].n + 1
    BY <1>1, <2>1, VisibleRow DEF Current
  <2>3. Held(j, k)
    BY <1>1, <1>2, <2>1, <2>2 DEF Held
  <2> QED  BY <2>3 DEF Insertable
<1> QED  BY <1>1, <1>2

(* The other job does not move. *)
OthersStay(j) ==
    \A i \in Jobs \ {j} :
        /\ pc'[i] = pc[i] /\ targets'[i] = targets[i] /\ todo'[i] = todo[i] /\ cur'[i] = cur[i]
        /\ result'[i] = result[i] /\ tries'[i] = tries[i] /\ seen'[i] = seen[i]
        /\ pend'[i] = pend[i] /\ status'[i] = status[i]

LEMMA OthersPlaced ==
    ASSUME Places, NEW j \in Jobs, OthersStay(j), Functions', Placed(j)'
    PROVE  Places'
<1>1. ASSUME NEW i \in Jobs \ {j} PROVE Placed(i)'
  BY DEF Places, Placed, OthersStay
<1> QED  BY <1>1 DEF Places

LEMMA OthersWrite ==
    ASSUME NEW j \in Jobs, OthersStay(j), NEW i \in Jobs \ {j}
    PROVE  (Writing(i))' = Writing(i)
BY DEF OthersStay, Writing

(* What the job reads, if anything, it reads now. *)
ReadsNow(j) ==
    \/ seen'[j] = NoView
    \/ \E k \in Kinds : (Writing(j))' = k /\ seen'[j] = ViewOf(j, k)'
    \/ seen'[j] = seen[j] /\ (Writing(j))' = Writing(j)

(* Nothing is inserted or committed. *)
LEMMA SerialMoves ==
    ASSUME Stores, Serial, Places, NEW j \in Jobs, OthersStay(j), UNCHANGED <<rows, pend>>,
           ReadsNow(j), targets'[j] = targets[j] \/ pend[j] = NoRows
    PROVE  Stores' /\ Serial'
<1>1. Stores'
  BY DEF Stores
<1>2. \A i \in Jobs, k \in Kinds : Visible(i, k)' = Visible(i, k)
  BY DEF Visible
<1>3. Exclusive'
  BY DEF Serial, Exclusive
<1>4. ASSUME NEW i \in Jobs PROVE Extends(i)'
  <2>1. CASE targets'[i] = targets[i]
    BY <2>1 DEF Serial, Extends
  <2>2. CASE i = j /\ pend[i] = NoRows
    BY <2>2, EmptyRows, TwoKinds DEF Extends
  <2> QED  BY <2>1, <2>2 DEF OthersStay
<1>5. ASSUME NEW i \in Jobs, seen'[i] # NoView
      PROVE  /\ seen'[i].version \in Nat
             /\ Taken(i, Writing(i))' \/ Current(i, Writing(i))'
  <2>1. CASE seen'[i] = seen[i] /\ (Writing(i))' = Writing(i)
    <3>1. seen[i].version \in Nat /\ (Taken(i, Writing(i)) \/ Current(i, Writing(i)))
      BY <1>5, <2>1 DEF Serial, Fresh
    <3> QED  BY <2>1, <3>1 DEF Taken, Current, Visible
  <2>2. CASE i = j /\ \E k \in Kinds : (Writing(j))' = k /\ seen'[j] = ViewOf(j, k)'
    <3>1. PICK k \in Kinds : (Writing(j))' = k /\ seen'[j] = ViewOf(j, k)'
      BY <2>2
    <3>2. ViewOf(j, k)' = ViewOf(j, k)
      BY <1>2 DEF ViewOf
    <3>3. Visible(j, k).n \in Nat
      BY VisibleRow DEF Row
    <3>4. /\ seen'[j].version = Visible(j, k).n + 1
          /\ seen'[j].value = Visible(j, k).last
      BY <3>1, <3>2, ReadView
    <3>5. Current(j, k)' /\ seen'[j].version \in Nat
      BY <1>2, <3>3, <3>4 DEF Current
    <3> QED  BY <2>2, <3>1, <3>5
  <2> QED  BY <1>5, <2>1, <2>2, OthersWrite DEF ReadsNow, OthersStay
<1> QED  BY <1>1, <1>3, <1>4, <1>5 DEF Serial, Fresh

(* A row is inserted under a number nobody else holds. *)
LEMMA SerialInserts ==
    ASSUME Stores, Serial, Places, NEW j \in Jobs, OthersStay(j), UNCHANGED <<rows, targets>>,
           NEW k \in Kinds, Writing(j) = k, Insertable(j, k), NEW value,
           pend' = [i \in Jobs |-> pend'[i]],
           pend'[j] = [pend[j] EXCEPT ![k] = Plus(pend[j][k], value)],
           k = Status =>
              /\ value = [s \in Stories |-> value[s]]
              /\ \A s \in Stories \ targets[j] : value[s] = Visible(j, Status).last[s],
           k = Refs => Visible(j, Refs).last \subseteq value,
           \/ seen'[j] = NoView
           \/ k = Status /\ (Writing(j))' = Refs /\ seen'[j] = ViewOf(j, Refs)
    PROVE  Stores' /\ Serial'
<1>0. /\ k = Refs => Visible(j, Refs).last \subseteq value
      /\ k = Status => \A s \in Stories \ targets[j] : value[s] = Visible(j, Status).last[s]
  OBVIOUS
<1> DEFINE new == Plus(pend[j][k], value)
<1>1. /\ Rows(pend[j]) /\ Row(pend[j][k], k) /\ pend[j][k].n \in Nat
      /\ Row(rows[k], k) /\ rows[k].n \in Nat
  BY DEF Stores, Rows, Row
<1>2. new = [n |-> new.n, last |-> new.last] /\ new.n = pend[j][k].n + 1 /\ new.last = value
  BY DEF Plus
<1>3. pend'[j][k] = new /\ \A q \in Kinds \ {k} : pend'[j][q] = pend[j][q]
  BY <1>1 DEF Rows
<1>4. Rows(pend'[j])
  <2>1. pend'[j] = [q \in Kinds |-> pend'[j][q]]
    BY <1>1 DEF Rows
  <2> HIDE DEF new
  <2>2. Row(pend'[j][k], k)
    BY <1>1, <1>2, <1>3 DEF Row
  <2> QED  BY <1>1, <1>3, <2>1, <2>2 DEF Rows
<1> HIDE DEF new
<1>5. Stores'
  BY <1>4 DEF Stores, OthersStay
<1>6. /\ Current(j, k)
      /\ \A i \in Jobs \ {j} : pend[i][k].n = 0
  BY MayInsert
<1>7. ASSUME NEW q \in Kinds, NEW a \in Jobs, NEW b \in Jobs, a # b
      PROVE  pend'[a][q].n = 0 \/ pend'[b][q].n = 0
  <2>1. pend[a][q].n = 0 \/ pend[b][q].n = 0
    BY <1>7 DEF Serial, Exclusive
  <2>2. \A i \in Jobs : q # k => pend'[i][q] = pend[i][q]
    BY <1>3 DEF OthersStay
  <2>3. CASE q = k /\ a # j
    BY <1>6, <2>3 DEF OthersStay
  <2>4. CASE q = k /\ b # j
    BY <1>6, <2>4 DEF OthersStay
  <2> QED  BY <1>7, <2>1, <2>2, <2>3, <2>4
<1>8. ASSUME NEW i \in Jobs PROVE Extends(i)'
  <2>0. Extends(i)
    BY DEF Serial
  <2>1. CASE i # j
    BY <2>0, <2>1 DEF Extends, OthersStay
  <2>2. CASE i = j /\ k = Refs
    <3>1. rows[Refs].last \subseteq Visible(j, Refs).last
      BY VisibleExtends
    <3>2. pend'[j][Refs].last = value /\ pend'[j][Status] = pend[j][Status]
      BY <1>2, <1>3, <2>2, TwoKinds
    <3>3. rows[Refs].last \subseteq value
      <4>1. Visible(j, Refs).last \subseteq value
        BY ONLY <1>0, <2>2
      <4> QED  BY ONLY <3>1, <4>1
    <3>4. Extends(j)
      BY <2>0, <2>2
    <3>5. rows' = rows /\ targets' = targets
      OBVIOUS
    <3>6. Extends(j)'
      BY ONLY <3>2, <3>3, <3>4, <3>5 DEF Extends
    <3> QED  BY ONLY <2>2, <3>6 DEF Extends
  <2>3. CASE i = j /\ k = Status
    <3>1. \A s \in Stories \ targets[j] : Visible(j, Status).last[s] = rows[Status].last[s]
      BY VisibleExtends
    <3>2. pend'[j][Status].last = value /\ pend'[j][Refs] = pend[j][Refs]
      BY <1>2, <1>3, <2>3, TwoKinds
    <3>3. \A s \in Stories \ targets[j] : value[s] = rows[Status].last[s]
      <4>1. \A s \in Stories \ targets[j] : value[s] = Visible(j, Status).last[s]
        BY ONLY <1>0, <2>3
      <4> QED  BY ONLY <3>1, <4>1
    <3>4. Extends(j)
      BY <2>0, <2>3
    <3>5. rows' = rows /\ targets' = targets
      OBVIOUS
    <3>6. Extends(j)'
      BY ONLY <3>2, <3>3, <3>4, <3>5 DEF Extends
    <3> QED  BY ONLY <2>3, <3>6 DEF Extends
  <2> QED  BY <2>1, <2>2, <2>3, TwoKinds
<1>9. ASSUME NEW i \in Jobs, seen'[i] # NoView
      PROVE  /\ seen'[i].version \in Nat
             /\ Taken(i, Writing(i))' \/ Current(i, Writing(i))'
  <2>1. CASE i # j
    <3>1. seen'[i] = seen[i] /\ (Writing(i))' = Writing(i) /\ pend'[i] = pend[i]
      BY <2>1, OthersWrite DEF OthersStay
    <3>2. seen[i].version \in Nat /\ (Taken(i, Writing(i)) \/ Current(i, Writing(i)))
      BY <1>9, <3>1 DEF Serial, Fresh
    <3> QED  BY <3>1, <3>2 DEF Taken, Current, Visible
  <2>2. CASE i = j
    <3>1. k = Status /\ (Writing(j))' = Refs /\ seen'[j] = ViewOf(j, Refs)
      BY <1>9, <2>2
    <3>2. Visible(j, Refs)' = Visible(j, Refs)
      BY <1>3, <3>1, TwoKinds DEF Visible
    <3>3. Current(j, Refs)' /\ seen'[j].version \in Nat
      BY <3>1, <3>2, ReadView, VisibleRow, TwoKinds DEF Current, Row
    <3> QED  BY <2>2, <3>1, <3>3
  <2> QED  BY <2>1, <2>2
<1> QED  BY <1>5, <1>7, <1>8, <1>9 DEF Serial, Exclusive, Fresh

(* A transaction becomes durable: its rows, with one more perhaps. *)
Lands(j, k) ==
    /\ Row(rows[k], k)'
    /\ \/ rows'[k] = rows[k]
       \/ rows'[k].n > rows[k].n /\ (\A i \in Jobs \ {j} : pend[i][k].n = 0)
    /\ k = Refs => rows'[k].last = Visible(j, k).last
    /\ k = Status => \A s \in Stories \ targets[j] : rows'[k].last[s] = Visible(j, k).last[s]

LEMMA SerialLands ==
    ASSUME Stores, Serial, Places, NEW j \in Jobs, OthersStay(j),
           rows' = [k \in Kinds |-> rows'[k]], \A k \in Kinds : Lands(j, k),
           pend' = [i \in Jobs |-> pend'[i]], pend'[j] = NoRows, seen'[j] = NoView
    PROVE  /\ Stores' /\ Serial'
           /\ rows[Refs].last \subseteq rows'[Refs].last
           /\ \A s \in Stories \ targets[j] : rows'[Status].last[s] = rows[Status].last[s]
<1>1. Stores'
  <2>1. Rows(rows)'
    BY DEF Lands, Rows
  <2>2. Rows(pend'[j]) /\ \A i \in Jobs \ {j} : Rows(pend'[i])
    BY EmptyRows DEF Stores, OthersStay
  <2> QED  BY <2>1, <2>2 DEF Stores
<1>2. Exclusive'
  BY EmptyRows DEF Serial, Exclusive, OthersStay
<1>3. rows[Refs].last \subseteq rows'[Refs].last
  BY VisibleExtends, TwoKinds DEF Lands
<1>4. \A s \in Stories \ targets[j] : rows'[Status].last[s] = rows[Status].last[s]
  BY VisibleExtends, TwoKinds DEF Lands
<1>5. ASSUME NEW i \in Jobs PROVE Extends(i)'
  <2>1. CASE i = j
    BY <2>1, EmptyRows, TwoKinds DEF Extends
  <2>2. CASE i # j
    <3>1. \A k \in Kinds : rows'[k] = rows[k] \/ pend[i][k].n = 0
      BY <2>2 DEF Lands
    <3> QED  BY <2>2, <3>1, TwoKinds DEF Serial, Extends, OthersStay
  <2> QED  BY <2>1, <2>2
<1>6. ASSUME NEW i \in Jobs, seen'[i] # NoView
      PROVE  /\ seen'[i].version \in Nat
             /\ Taken(i, Writing(i))' \/ Current(i, Writing(i))'
  <2> DEFINE k == Writing(i)
  <2>1. i # j /\ seen'[i] = seen[i] /\ (Writing(i))' = k /\ pend'[i] = pend[i]
    BY <1>6, OthersWrite DEF OthersStay
  <2>2. seen[i].version \in Nat /\ (Taken(i, k) \/ Current(i, k)) /\ k \in Kinds
    <3>1. pc[i] \in Extending
      BY <1>6, <2>1 DEF Places, Placed
    <3> QED  BY <1>6, <2>1, <3>1, TwoKinds DEF Serial, Fresh, Extending, Writing
  <2> HIDE DEF k
  <2>3. rows'[k] = rows[k] \/ (rows'[k].n > rows[k].n /\ pend[i][k].n = 0)
    BY <2>1, <2>2 DEF Lands
  <2>4. rows[k].n \in Nat /\ rows'[k].n \in Nat /\ Visible(i, k).n = rows[k].n + pend[i][k].n
    <3>1. Row(rows[k], k) /\ Row(rows'[k], k)
      BY <1>1, <2>2 DEF Stores, Rows
    <3>2. Visible(i, k).n = rows[k].n + pend[i][k].n
      BY <2>2, VisibleRow
    <3> QED  BY ONLY <3>1, <3>2 DEF Row
  <2>5. CASE rows'[k] = rows[k]
    BY <2>1, <2>2, <2>5 DEF Taken, Current, Visible
  <2>6. CASE rows'[k].n > rows[k].n /\ pend[i][k].n = 0
    <3>1. Current(i, k) => seen[i].version = rows[k].n + 1
      BY <2>4, <2>6 DEF Current
    <3>2. seen[i].version <= rows'[k].n
      <4>1. CASE Current(i, k)
        BY <2>4, <2>6, <3>1, <4>1
      <4>2. CASE seen[i].version <= rows[k].n
        BY <2>2, <2>4, <2>6, <4>2
      <4>3. Taken(i, k) => seen[i].version <= rows[k].n
        BY DEF Taken
      <4> QED  BY <2>2, <4>1, <4>2, <4>3
    <3> QED  BY <2>1, <2>2, <3>2 DEF Taken
  <2> QED  BY <2>1, <2>3, <2>5, <2>6
<1> QED  BY <1>1, <1>2, <1>3, <1>4, <1>5, <1>6 DEF Serial, Fresh

(* Transactions are given up. *)
GivenUp(i) == pend'[i] = NoRows /\ seen'[i] = NoView
Untouched(i) ==
    /\ pc'[i] = pc[i] /\ targets'[i] = targets[i] /\ cur'[i] = cur[i]
    /\ result'[i] = result[i] /\ seen'[i] = seen[i] /\ pend'[i] = pend[i]

LEMMA SerialEnds ==
    ASSUME Stores, Serial, UNCHANGED rows, pend' = [i \in Jobs |-> pend'[i]],
           \A i \in Jobs : GivenUp(i) \/ Untouched(i)
    PROVE  Stores' /\ Serial'
<1>1. Stores'
  BY EmptyRows DEF Stores, GivenUp, Untouched
<1>2. \A i \in Jobs, k \in Kinds : pend'[i][k].n = 0 \/ pend'[i] = pend[i]
  BY EmptyRows DEF GivenUp, Untouched
<1>3. Exclusive'
  BY <1>2 DEF Serial, Exclusive
<1>4. ASSUME NEW i \in Jobs PROVE Extends(i)'
  BY EmptyRows, TwoKinds DEF Serial, Extends, GivenUp, Untouched
<1>5. ASSUME NEW i \in Jobs, seen'[i] # NoView
      PROVE  /\ seen'[i].version \in Nat
             /\ Taken(i, Writing(i))' \/ Current(i, Writing(i))'
  <2>1. Untouched(i) /\ (Writing(i))' = Writing(i)
    BY <1>5 DEF GivenUp, Untouched, Writing
  <2>2. seen[i].version \in Nat /\ (Taken(i, Writing(i)) \/ Current(i, Writing(i)))
    BY <1>5, <2>1 DEF Serial, Fresh, Untouched
  <2> QED  BY <2>1, <2>2 DEF Taken, Current, Visible, Untouched
<1> QED  BY <1>1, <1>3, <1>4, <1>5 DEF Serial, Fresh

----------------------------------------------------------------------------
(* What was backed by references stays so while references only grow.      *)
LEMMA BackedKept ==
    ASSUME Stores, NEW i \in Jobs,
           pc'[i] = pc[i], cur'[i] = cur[i], result'[i] = result[i],
           pend'[i] = pend[i], seen'[i] = seen[i],
           \A s \in Stories : Cleared(s)' => Cleared(s),
           pc[i] \in AtStory => cur[i] \in Stories,
           rows[Refs].last \subseteq rows'[Refs].last,
           pc[i] = "status" => (Taken(i, Status) => Taken(i, Status)'),
           pc[i] \in {"status", "refs"} /\ Cleared(cur[i])' /\ cur[i] \in module => cur[i] \in module',
           Backed(i)
    PROVE  Backed(i)'
<1>1. Visible(i, Refs).last \subseteq Visible(i, Refs)'.last
  BY DEF Visible, Extended
<1>2. pend[i][Status].n > 0 =>
          \A s \in Stories :
             pend[i][Status].last[s] = "passed" /\ Cleared(s)' /\ ~(pc[i] = "refs" /\ cur[i] = s)
             => AcIds[s] \subseteq Visible(i, Refs)'.last
  BY <1>1 DEF Backed
<1>3. pc[i] \in {"status", "refs"} /\ result[i][cur[i]] = "passed" /\ Cleared(cur[i])' =>
          cur[i] \in module' \/ (pc[i] = "status" /\ Taken(i, Status)')
  BY DEF Backed, AtStory
<1>4. pc[i] = "refs" =>
          pend[i][Status].n > 0 /\ pend[i][Status].last[cur[i]] = result[i][cur[i]]
  BY DEF Backed
<1> QED  BY <1>2, <1>3, <1>4 DEF Backed

(* Nobody else starts a story's tests anew.                                *)
LEMMA ClearedKept ==
    ASSUME NEW j \in Jobs, OthersStay(j), torn \subseteq torn', pc'[j] # "work"
    PROVE  \A s \in Stories : Cleared(s)' => Cleared(s)
BY DEF Cleared, OthersStay

(* A step of j that writes no row leaves the records referenced.           *)
LEMMA ReferencedMoves ==
    ASSUME Stores, Places, Referenced, NEW j \in Jobs, OthersStay(j),
           UNCHANGED <<rows, pend, module, torn>>,
           pc'[j] \notin {"work", "refs"}, pc[j] \notin {"refs", "status"},
           pc'[j] = "status" => result'[j][cur'[j]] # "passed"
    PROVE  Referenced'
<1>1. \A s \in Stories : Cleared(s)' => Cleared(s)
  BY ClearedKept
<1>2. ASSUME NEW i \in Jobs \ {j} PROVE Backed(i)'
  <2>1. pc[i] \in AtStory => cur[i] \in Stories
    BY DEF Places, Placed
  <2>2. Backed(i)
    BY DEF Referenced
  <2>3. Taken(i, Status)' = Taken(i, Status)
    BY DEF Taken, OthersStay
  <2> QED  BY <1>1, <2>1, <2>2, <2>3, BackedKept DEF OthersStay
<1>3. Backed(j)'
  <2>1. Visible(j, Refs)' = Visible(j, Refs) /\ pend'[j] = pend[j]
    BY DEF Visible
  <2>2. Backed(j)
    BY DEF Referenced
  <2> QED  BY <1>1, <2>1, <2>2 DEF Backed
<1> QED  BY <1>1, <1>2, <1>3 DEF Referenced

(* What a job sees is referenced, the story it is about to reference aside. *)
LEMMA SeenReferenced ==
    ASSUME Stores, Serial, Referenced, NEW j \in Jobs, NEW s \in Stories,
           Visible(j, Status).last[s] = "passed", Cleared(s),
           ~(pc[j] = "refs" /\ cur[j] = s)
    PROVE  AcIds[s] \subseteq Visible(j, Refs).last
<1>1. pend[j][Status].n \in Nat /\ Status \in Kinds
  BY TwoKinds DEF Stores, Rows, Row
<1>2. CASE pend[j][Status].n = 0
  <2>1. rows[Status].last[s] = "passed"
    BY <1>1, <1>2, VisibleRow
  <2> QED  BY <2>1, VisibleExtends DEF Referenced
<1>3. CASE pend[j][Status].n > 0
  <2>1. pend[j][Status].last[s] = "passed"
    BY <1>1, <1>3, VisibleRow
  <2> QED  BY <1>3, <2>1 DEF Referenced, Backed
<1> QED  BY <1>1, <1>2, <1>3

(* A transaction that ends or becomes durable leaves the records           *)
(* referenced: the rows it wrote were, and those of a story about to be    *)
(* tested say that it is running.                                          *)
LEMMA ReferencedLands ==
    ASSUME Stores, Serial, Places, Referenced, NEW j \in Jobs, OthersStay(j),
           rows' = [k \in Kinds |-> rows'[k]], \A k \in Kinds : Lands(j, k),
           pend' = [i \in Jobs |-> pend'[i]], pend'[j] = NoRows, seen'[j] = NoView,
           UNCHANGED <<module, torn>>, pc[j] # "refs", pc'[j] \notin {"status", "refs"},
           \A s \in Stories :
              \/ rows'[Status].last[s] = Visible(j, Status).last[s]
                 /\ (Cleared(s)' => Cleared(s))
              \/ rows'[Status].last[s] # "passed" /\ pc'[j] = "work" /\ cur'[j] = s
                 /\ rows'[Status].n > rows[Status].n
    PROVE  Referenced'
<1>1. rows[Refs].last \subseteq rows'[Refs].last /\ Stores'
  BY SerialLands
<1>2. /\ rows[Status].n \in Nat /\ rows'[Status].n \in Nat
      /\ rows'[Status] = rows[Status] \/ rows'[Status].n > rows[Status].n
      /\ rows'[Refs].last = Visible(j, Refs).last
  BY <1>1, TwoKinds DEF Lands, Stores, Rows, Row
<1>3. ASSUME NEW s \in Stories, rows'[Status].last[s] = "passed", Cleared(s)'
      PROVE  AcIds[s] \subseteq rows'[Refs].last
  <2>1. Visible(j, Status).last[s] = "passed" /\ Cleared(s)
    BY <1>3
  <2> QED  BY <1>2, <2>1, SeenReferenced
<1>4. ASSUME NEW i \in Jobs \ {j} PROVE Backed(i)'
  <2>1. pc[i] \in AtStory => cur[i] \in Stories
    BY DEF Places, Placed
  <2>2. Backed(i)
    BY DEF Referenced
  <2>3. /\ pc'[i] = pc[i] /\ cur'[i] = cur[i] /\ result'[i] = result[i]
        /\ pend'[i] = pend[i] /\ seen'[i] = seen[i]
    BY DEF OthersStay
  <2>4. CASE \A s \in Stories : Cleared(s)' => Cleared(s)
    <3>1. ASSUME pc[i] = "status", Taken(i, Status) PROVE Taken(i, Status)'
      <4>1. seen[i] # NoView /\ Writing(i) = Status
        BY <3>1 DEF Places, Placed, Extending, Writing
      <4>2. seen[i].version \in Nat
        BY <4>1 DEF Serial, Fresh
      <4> QED  BY <1>2, <2>3, <3>1, <4>2 DEF Taken
    <3> QED  BY <1>1, <2>1, <2>2, <2>3, <2>4, <3>1, BackedKept
  <2>5. CASE rows'[Status].n > rows[Status].n
    <3>1. pend[i][Status].n = 0
      BY <1>2, <2>5, TwoKinds DEF Lands
    <3>2. pc[i] # "refs"
      BY <2>2, <3>1 DEF Backed
    <3>3. ASSUME pc[i] = "status" PROVE Taken(i, Status)'
      <4>1. seen[i] # NoView /\ Writing(i) = Status
        BY <3>3 DEF Places, Placed, Extending, Writing
      <4>2. seen[i].version \in Nat /\ (Taken(i, Status) \/ Current(i, Status))
        BY <4>1 DEF Serial, Fresh
      <4>3. Visible(i, Status).n = rows[Status].n
        BY <1>2, <3>1, VisibleRow, TwoKinds
      <4>4. Taken(i, Status) => seen[i].version <= rows[Status].n
        BY DEF Taken
      <4>5. Current(i, Status) => seen[i].version = rows[Status].n + 1
        BY <4>3 DEF Current
      <4>6. seen[i].version <= rows'[Status].n
        BY <1>2, <2>5, <4>2, <4>4, <4>5
      <4> QED  BY <2>3, <4>6 DEF Taken
    <3> QED  BY <2>3, <3>1, <3>2, <3>3 DEF Backed
  <2> QED  BY <2>4, <2>5
<1>5. Backed(j)'
  BY EmptyRows, TwoKinds DEF Backed
<1> QED  BY <1>3, <1>4, <1>5 DEF Referenced

(* Transactions given up leave the records referenced. *)
LEMMA ReferencedEnds ==
    ASSUME Stores, Places, Referenced, UNCHANGED <<rows, module, torn>>,
           \A i \in Jobs : (GivenUp(i) /\ pc'[i] = "idle") \/ Untouched(i)
    PROVE  Referenced'
<1>1. \A s \in Stories : Cleared(s)' => Cleared(s)
  BY DEF Cleared, GivenUp, Untouched
<1>2. ASSUME NEW i \in Jobs PROVE Backed(i)'
  <2>1. CASE GivenUp(i) /\ pc'[i] = "idle"
    BY <2>1, EmptyRows, TwoKinds DEF GivenUp, Backed
  <2>2. CASE Untouched(i)
    <3>1. pc[i] \in AtStory => cur[i] \in Stories
      BY DEF Places, Placed
    <3>2. Backed(i) /\ (Taken(i, Status) => Taken(i, Status)')
      BY <2>2 DEF Referenced, Taken, Untouched
    <3> QED  BY <1>1, <2>2, <3>1, <3>2, BackedKept DEF Untouched
  <2> QED  BY <2>1, <2>2
<1> QED  BY <1>1, <1>2 DEF Referenced

----------------------------------------------------------------------------
(* A step of one job leaves the other where it is.                         *)
LEMMA StepFrame ==
    ASSUME Places, Stores, NEW j \in Jobs, Step(j) \/ Raise(j)
    PROVE  OthersStay(j) /\ Functions' /\ pend' = [i \in Jobs |-> pend'[i]]
<1> USE DEF Go, others
<1>0. Functions /\ pend = [i \in Jobs |-> pend[i]]
  BY DEF Places, Stores
<1>1. CASE Start(j)
  BY <1>0, <1>1 DEF Start, OthersStay, Functions
<1>2. CASE ResetNext(j)
  BY <1>0, <1>2 DEF ResetNext, Take, Read, OthersStay, Functions
<1>3. CASE Reset(j)
  BY <1>0, <1>3 DEF Reset, Insert, OthersStay, Functions
<1>4. CASE ResetDone(j)
  BY <1>0, <1>4 DEF ResetDone, OthersStay, Functions
<1>5. CASE Scaffold(j)
  BY <1>0, <1>5 DEF Scaffold, OthersStay, Functions
<1>6. CASE Pick(j)
  BY <1>0, <1>6 DEF Pick, Take, Read, OthersStay, Functions
<1>7. CASE Running(j)
  BY <1>0, <1>7 DEF Running, OthersStay, Functions
<1>8. CASE RunStory(j)
  <2>1. /\ pc' = [pc EXCEPT ![j] = "status"] /\ seen' = [seen EXCEPT ![j] = ViewOf(j, Status)]
        /\ \E o \in {"passed", "failed"} : result' = [result EXCEPT ![j][cur[j]] = o]
        /\ UNCHANGED <<targets, todo, cur, tries, pend, status>>
    BY <1>8 DEF RunStory, Read
  <2> QED  BY <1>0, <2>1 DEF OthersStay, Functions
<1>9. CASE PersistStatus(j)
  <2>1. /\ \E p : pc' = [pc EXCEPT ![j] = p] 
        /\ \E v : seen' = [seen EXCEPT ![j] = v]
        /\ pend' = [pend EXCEPT ![j][Status] = Plus(@, Value(j))]
        /\ UNCHANGED <<targets, todo, cur, result, tries, status>>
    BY <1>9 DEF PersistStatus
  <2> QED  BY <1>0, <2>1 DEF OthersStay, Functions
<1>10. CASE PersistRefs(j)
  BY <1>0, <1>10 DEF PersistRefs, Insert, OthersStay, Functions
<1>11. CASE Stop(j)
  <2>1. /\ \E v : todo' = [todo EXCEPT ![j] = v]
        /\ \E v : result' = [result EXCEPT ![j] = v]
        /\ tries' = [tries EXCEPT ![j] = 1]
        /\ UNCHANGED <<targets, pc, cur, seen, pend, status>>
    BY <1>11 DEF Stop
  <2> QED  BY <1>0, <2>1 DEF OthersStay, Functions
<1>12. CASE MarkDeferred(j)
  BY <1>0, <1>12 DEF MarkDeferred, Take, Read, OthersStay, Functions
<1>13. CASE FinishBuild(j)
  BY <1>0, <1>13 DEF FinishBuild, Leave, OthersStay, Functions
<1>14. CASE Fail(j)
  BY <1>0, <1>14 DEF Fail, Leave, OthersStay, Functions
<1>15. CASE Draft(j)
  BY <1>0, <1>15 DEF Draft, OthersStay, Functions
<1>16. CASE WriteSlice(j)
  <2>1. /\ \E p : pc' = [pc EXCEPT ![j] = p]
        /\ seen' = seen \/ \E v : seen' = [seen EXCEPT ![j] = v]
        /\ UNCHANGED <<targets, todo, cur, result, tries, pend, status>>
    BY <1>16 DEF WriteSlice, Read
  <2> QED  BY <1>0, <2>1 DEF OthersStay, Functions
<1>17. CASE SliceRefs(j)
  BY <1>0, <1>17 DEF SliceRefs, Insert, OthersStay, Functions
<1> QED
  BY <1>1, <1>2, <1>3, <1>4, <1>5, <1>6, <1>7, <1>8, <1>9, <1>10, <1>11, <1>12, <1>13,
     <1>14, <1>15, <1>16, <1>17 DEF Step, Clash, GateFail, NoTests, Raise

(* A step that writes no row and touches no module keeps the invariant.    *)
LEMMA MovesKeep ==
    ASSUME BuildsInv, NEW j \in Jobs, OthersStay(j), Functions', Placed(j)',
           UNCHANGED <<rows, pend, module, torn>>, ReadsNow(j),
           targets'[j] = targets[j] \/ pend[j] = NoRows,
           pc'[j] \notin {"work", "refs"}, pc[j] \notin {"refs", "status"},
           pc'[j] = "status" => result'[j][cur'[j]] # "passed"
    PROVE  BuildsInv'
<1>1. Places'
  BY OthersPlaced DEF BuildsInv
<1>2. Stores' /\ Serial'
  BY SerialMoves DEF BuildsInv
<1>3. Referenced'
  BY ReferencedMoves DEF BuildsInv
<1> QED  BY <1>1, <1>2, <1>3 DEF BuildsInv

LEMMA StartKeeps == ASSUME BuildsInv, NEW j \in Jobs, Start(j) PROVE BuildsInv'
<1>1. OthersStay(j) /\ Functions'
  BY StepFrame DEF BuildsInv, Step
<1>2. Placed(j) /\ Functions
  BY DEF BuildsInv, Places
<1>3. /\ pc[j] = "start" /\ pc'[j] \in {"draft", "scaffold", "reset"}
      /\ todo'[j] = todo[j] \/ todo'[j] \subseteq targets[j]
      /\ result'[j] = [s \in Stories |-> "none"] /\ tries'[j] = 0
      /\ targets'[j] = targets[j] /\ status'[j] = status[j] /\ seen'[j] = seen[j]
      /\ UNCHANGED <<rows, pend, module, torn>>
  BY <1>2 DEF Start, Go, others, Functions
<1>4. seen[j] = NoView
  BY <1>2, <1>3 DEF Placed, Extending
<1>5. targets'[j] \subseteq Stories /\ todo'[j] \subseteq targets'[j]
  BY <1>2, <1>3 DEF Placed
<1>6. Placed(j)'
  <2>1. status[j] = "running"
    BY <1>2, <1>3 DEF Placed
  <2>2. pc'[j] \in Labels /\ pc'[j] \notin AtStory /\ pc'[j] \notin Extending \ {"reset"}
    BY <1>3 DEF Labels, AtStory, Extending
  <2>3. pc'[j] \notin {"idle", "pick", "status", "refs", "running", "work"}
    BY <1>3
  <2> QED  BY <1>3, <1>4, <1>5, <2>1, <2>2, <2>3 DEF Placed
<1> QED  BY <1>1, <1>3, <1>4, <1>6, MovesKeep DEF ReadsNow

LEMMA ResetNextKeeps == ASSUME BuildsInv, NEW j \in Jobs, ResetNext(j) PROVE BuildsInv'
<1>1. OthersStay(j) /\ Functions'
  BY StepFrame DEF BuildsInv, Step
<1>2. Placed(j) /\ Functions
  BY DEF BuildsInv, Places
<1>3. /\ pc[j] = "reset" /\ pc' = pc /\ cur'[j] \in todo[j] /\ todo'[j] \subseteq todo[j]
      /\ seen'[j] = ViewOf(j, Status)
      /\ UNCHANGED <<result, tries, targets, status, rows, pend, module, torn>>
  BY <1>2 DEF ResetNext, Take, Read, others, Functions
<1>4. ReadsNow(j)
  BY <1>3, TwoKinds DEF ReadsNow, Writing, ViewOf, Visible
<1>5. Placed(j)'
  BY <1>2, <1>3 DEF Placed, Labels, Extending, AtStory
<1> QED  BY <1>1, <1>3, <1>4, <1>5, MovesKeep

LEMMA PickKeeps == ASSUME BuildsInv, NEW j \in Jobs, Pick(j) PROVE BuildsInv'
<1>1. OthersStay(j) /\ Functions'
  BY StepFrame DEF BuildsInv, Step
<1>2. Placed(j) /\ Functions
  BY DEF BuildsInv, Places
<1>3. /\ pc[j] = "pick" /\ pc'[j] = "running" /\ tries[j] # 1
      /\ cur'[j] \in todo[j] /\ todo'[j] \subseteq todo[j] /\ seen'[j] = ViewOf(j, Status)
      /\ UNCHANGED <<result, tries, targets, status, rows, pend, module, torn>>
  BY <1>2 DEF Pick, Deferring, Take, Read, Go, others, Functions
<1>4. ReadsNow(j)
  BY <1>3, TwoKinds DEF ReadsNow, Writing, ViewOf, Visible
<1>5. seen'[j] # NoView
  BY <1>3, ReadView, TwoKinds DEF BuildsInv
<1>6. Placed(j)'
  BY <1>2, <1>3, <1>5 DEF Placed, Labels, Extending, AtStory
<1> QED  BY <1>1, <1>3, <1>4, <1>6, MovesKeep

LEMMA StopKeeps == ASSUME BuildsInv, NEW j \in Jobs, Stop(j) PROVE BuildsInv'
<1>1. OthersStay(j) /\ Functions'
  BY StepFrame DEF BuildsInv, Step
<1>2. Placed(j) /\ Functions
  BY DEF BuildsInv, Places
<1>3. /\ pc[j] = "pick" /\ tries'[j] = 1 /\ todo'[j] = FailedOf(j)
      /\ result'[j]
           = [s \in Stories |-> IF s \in FailedOf(j) THEN "deferred" ELSE result[j][s]]
      /\ UNCHANGED <<pc, cur, seen, targets, status, rows, pend, module, torn>>
  BY <1>2 DEF Stop, others, Functions
<1>4. seen[j] = NoView
  BY <1>2, <1>3 DEF Placed, Extending
<1>5. FailedOf(j) \subseteq targets[j] /\ targets[j] \subseteq Stories
  BY <1>2 DEF Placed, FailedOf
<1>6. Placed(j)'
  BY <1>2, <1>3, <1>4, <1>5 DEF Placed, Labels, Extending, AtStory
<1> QED  BY <1>1, <1>3, <1>4, <1>6, MovesKeep DEF ReadsNow

LEMMA MarkDeferredKeeps == ASSUME BuildsInv, NEW j \in Jobs, MarkDeferred(j) PROVE BuildsInv'
<1>1. OthersStay(j) /\ Functions'
  BY StepFrame DEF BuildsInv, Step
<1>2. Placed(j) /\ Functions
  BY DEF BuildsInv, Places
<1>3. /\ pc[j] = "pick" /\ pc'[j] = "status" /\ tries[j] = 1
      /\ cur'[j] \in todo[j] /\ todo'[j] \subseteq todo[j] /\ seen'[j] = ViewOf(j, Status)
      /\ UNCHANGED <<result, tries, targets, status, rows, pend, module, torn>>
  BY <1>2 DEF MarkDeferred, Deferring, Take, Read, Go, others, Functions
<1>4. ReadsNow(j)
  BY <1>3, TwoKinds DEF ReadsNow, Writing, ViewOf, Visible
<1>5. seen'[j] # NoView
  BY <1>3, ReadView, TwoKinds DEF BuildsInv
<1>6. result'[j][cur'[j]] # "passed"
  BY <1>2, <1>3 DEF Placed
<1>7. Placed(j)'
  BY <1>2, <1>3, <1>5 DEF Placed, Labels, Extending, AtStory
<1> QED  BY <1>1, <1>3, <1>4, <1>6, <1>7, MovesKeep

LEMMA DraftKeeps == ASSUME BuildsInv, NEW j \in Jobs, Draft(j) PROVE BuildsInv'
<1>1. OthersStay(j) /\ Functions'
  BY StepFrame DEF BuildsInv, Step
<1>2. Placed(j) /\ Functions
  BY DEF BuildsInv, Places
<1>3. /\ pc[j] = "draft" /\ pc'[j] \in {"draft", "write"}
      /\ UNCHANGED <<todo, cur, result, seen, targets, status, rows, pend, module, torn>>
  BY <1>2 DEF Draft, Go, others, Functions
<1>4. seen[j] = NoView
  BY <1>2, <1>3 DEF Placed, Extending
<1>5. Placed(j)'
  BY <1>2, <1>3, <1>4 DEF Placed, Labels, Extending, AtStory
<1> QED  BY <1>1, <1>3, <1>4, <1>5, MovesKeep DEF ReadsNow

LEMMA WriteSliceKeeps == ASSUME BuildsInv, NEW j \in Jobs, WriteSlice(j) PROVE BuildsInv'
<1>1. OthersStay(j) /\ Functions'
  BY StepFrame DEF BuildsInv, Step
<1>2. Placed(j) /\ Functions
  BY DEF BuildsInv, Places
<1>3. /\ pc[j] = "write"
      /\ \/ pc'[j] = "mark" /\ seen' = seen
         \/ pc'[j] = "slice refs" /\ seen'[j] = ViewOf(j, Refs)
      /\ UNCHANGED <<todo, cur, result, tries, targets, status, rows, pend, module, torn>>
  BY <1>2 DEF WriteSlice, Read, Go, Functions
<1>4. seen[j] = NoView
  BY <1>2, <1>3 DEF Placed, Extending
<1>5. ReadsNow(j)
  BY <1>3, <1>4, TwoKinds DEF ReadsNow, Writing, ViewOf, Visible
<1>6. ViewOf(j, Refs) # NoView
  BY ReadView, TwoKinds DEF BuildsInv
<1>7. Placed(j)'
  BY <1>2, <1>3, <1>4, <1>6 DEF Placed, Labels, Extending, AtStory
<1> QED  BY <1>1, <1>3, <1>5, <1>7, MovesKeep

LEMMA QueueKeeps ==
    ASSUME BuildsInv, NEW j \in Jobs, NEW scope, scope \subseteq Stories, Queue(j, scope)
    PROVE  BuildsInv'
<1>1. Placed(j) /\ Functions
  BY DEF BuildsInv, Places
<1>2. /\ status[j] # "running" /\ pc' = [pc EXCEPT ![j] = "start"]
      /\ targets' = [targets EXCEPT ![j] = scope]
      /\ status' = [status EXCEPT ![j] = "running"]
      /\ UNCHANGED <<todo, cur, result, tries, seen, rows, pend, module, torn>>
  BY DEF Queue, Go
<1>3. pc[j] = "idle" /\ pend[j] = NoRows /\ todo[j] = {} /\ seen[j] = NoView
  BY <1>1, <1>2 DEF Placed, Extending
<1>4. OthersStay(j) /\ Functions'
  BY <1>1, <1>2 DEF OthersStay, Functions
<1>5. pc'[j] = "start" /\ targets'[j] = scope /\ status'[j] = "running"
  BY <1>1, <1>2 DEF Functions
<1>6. Placed(j)'
  BY <1>1, <1>2, <1>3, <1>5 DEF Placed, Labels, Extending, AtStory
<1> QED  BY <1>2, <1>3, <1>4, <1>5, <1>6, MovesKeep DEF ReadsNow

(* The module is scaffolded anew: what the other build tested is torn.     *)
LEMMA ScaffoldKeeps == ASSUME BuildsInv, NEW j \in Jobs, Scaffold(j) PROVE BuildsInv'
<1>1. OthersStay(j) /\ Functions'
  BY StepFrame DEF BuildsInv, Step
<1>2. Placed(j) /\ Functions /\ Stores
  BY DEF BuildsInv, Places
<1>3. /\ pc[j] = "scaffold" /\ pc'[j] = "pick" /\ todo'[j] = targets[j]
      /\ torn' = torn \cup {cur[i] : i \in {i \in Jobs \ {j} : pc[i] \in {"status", "refs"}}}
      /\ UNCHANGED <<targets, cur, result, tries, seen, status, rows, pend>>
  BY <1>2 DEF Scaffold, Go, Functions
<1>4. seen[j] = NoView
  BY <1>2, <1>3 DEF Placed, Extending
<1>5. Placed(j)'
  BY <1>2, <1>3, <1>4 DEF Placed, Labels, Extending, AtStory
<1>6. Places' /\ Stores' /\ Serial'
  BY <1>1, <1>3, <1>4, <1>5, OthersPlaced, SerialMoves DEF BuildsInv, ReadsNow
<1>7. \A s \in Stories : Cleared(s)' => Cleared(s)
  BY <1>1, <1>3, ClearedKept
<1>8. ASSUME NEW i \in Jobs \ {j} PROVE Backed(i)'
  <2>1. /\ pc[i] \in AtStory => cur[i] \in Stories
        /\ pc'[i] = pc[i] /\ cur'[i] = cur[i] /\ result'[i] = result[i]
        /\ pend'[i] = pend[i] /\ seen'[i] = seen[i]
    BY <1>1 DEF BuildsInv, Places, Placed, OthersStay
  <2>2. Backed(i) /\ Taken(i, Status)' = Taken(i, Status)
    BY <1>3, <2>1 DEF BuildsInv, Referenced, Taken
  <2>3. pc[i] \in {"status", "refs"} => ~Cleared(cur[i])'
    <3>1. ASSUME pc[i] \in {"status", "refs"} PROVE cur[i] \in torn'
      BY <1>3, <3>1
    <3>2. ASSUME pc[i] \in {"status", "refs"}, NEW k \in Jobs PROVE pc'[k] # "work"
      BY <1>3, <2>1, <3>2, OtherJob
    <3> QED  BY <2>1, <3>1, <3>2 DEF Cleared
  <2> QED  BY <1>2, <1>3, <1>7, <2>1, <2>2, <2>3, BackedKept
<1>9. Backed(j)'
  <2>1. Visible(j, Refs)' = Visible(j, Refs) /\ Backed(j)
    BY <1>3 DEF Visible, BuildsInv, Referenced
  <2> QED  BY <1>3, <1>7, <2>1 DEF Backed
<1> QED  BY <1>3, <1>6, <1>7, <1>8, <1>9 DEF BuildsInv, Referenced

(* A story is worked on: its tests are in the module when it passed.       *)
LEMMA RunStoryKeeps == ASSUME BuildsInv, NEW j \in Jobs, RunStory(j) PROVE BuildsInv'
<1>1. OthersStay(j) /\ Functions'
  BY StepFrame DEF BuildsInv, Step
<1>2. Placed(j) /\ Functions /\ Stores
  BY DEF BuildsInv, Places
<1>3. /\ pc[j] = "work" /\ pc'[j] = "status" /\ torn' = torn \ {cur[j]}
      /\ seen'[j] = ViewOf(j, Status) /\ module \subseteq module'
      /\ UNCHANGED <<targets, todo, cur, tries, status, rows, pend>>
  BY <1>2 DEF RunStory, Read, Go, Functions
<1>4. \/ cur[j] \in module' /\ \E o \in {"passed", "failed"} : result' = [result EXCEPT ![j][cur[j]] = o]
      \/ result' = [result EXCEPT ![j][cur[j]] = "failed"]
  BY DEF RunStory
<1>5. /\ cur[j] \in targets[j] /\ cur[j] \in Stories /\ tries[j] # 1
      /\ result[j] = [s \in Stories |-> result[j][s]]
  BY <1>2, <1>3 DEF Placed, AtStory
<1>6. /\ result'[j] = [s \in Stories |-> result'[j][s]]
      /\ result'[j][cur[j]] = "passed" => cur[j] \in module'
  BY <1>2, <1>4, <1>5 DEF Functions
<1>7. seen'[j] # NoView
  BY <1>2, <1>3, ReadView, TwoKinds
<1>8. Placed(j)'
  BY <1>2, <1>3, <1>5, <1>6, <1>7 DEF Placed, Labels, Extending, AtStory
<1>9. ReadsNow(j)
  BY <1>3, TwoKinds DEF ReadsNow, Writing, ViewOf, Visible
<1>10. Places' /\ Stores' /\ Serial'
  BY <1>1, <1>3, <1>8, <1>9, OthersPlaced, SerialMoves DEF BuildsInv
<1>11. ASSUME NEW s \in Stories, Cleared(s)' PROVE Cleared(s)
  <2>1. CASE s = cur[j]
    BY <1>3, <2>1 DEF Cleared
  <2>2. CASE s # cur[j] /\ s \notin torn'
    BY <1>3, <2>2 DEF Cleared
  <2>3. CASE \E i \in Jobs : pc'[i] = "work" /\ cur'[i] = s
    BY <1>1, <1>3, <2>3 DEF Cleared, OthersStay
  <2> QED  BY <1>11, <2>1, <2>2, <2>3 DEF Cleared
<1>12. ASSUME NEW i \in Jobs \ {j} PROVE Backed(i)'
  <2>1. /\ pc[i] \in AtStory => cur[i] \in Stories
        /\ pc'[i] = pc[i] /\ cur'[i] = cur[i] /\ result'[i] = result[i]
        /\ pend'[i] = pend[i] /\ seen'[i] = seen[i]
    BY <1>1 DEF BuildsInv, Places, Placed, OthersStay
  <2>2. Backed(i) /\ Taken(i, Status)' = Taken(i, Status)
    BY <1>3, <2>1 DEF BuildsInv, Referenced, Taken
  <2> QED  BY <1>2, <1>3, <1>11, <2>1, <2>2, BackedKept
<1>13. Backed(j)'
  <2>1. Visible(j, Refs)' = Visible(j, Refs) /\ Backed(j)
    BY <1>3 DEF Visible, BuildsInv, Referenced
  <2> QED  BY <1>3, <1>6, <1>11, <2>1 DEF Backed
<1> QED  BY <1>3, <1>10, <1>11, <1>12, <1>13 DEF BuildsInv, Referenced

(* A record of the story at hand: the latest map with its payload, seen as *)
(* before by the references.                                               *)
LEMMA RecordInserts ==
    ASSUME BuildsInv, NEW j \in Jobs, OthersStay(j), UNCHANGED <<rows, targets>>,
           Writing(j) = Status, pc[j] # "refs", Insertable(j, Status), cur[j] \in targets[j],
           NEW payload, Value(j) = Recorded(seen[j].value, cur[j], payload),
           pend' = [pend EXCEPT ![j][Status] = Plus(@, Value(j))],
           \/ seen'[j] = NoView
           \/ (Writing(j))' = Refs /\ seen'[j] = ViewOf(j, Refs)
    PROVE  /\ Stores' /\ Serial'
           /\ Visible(j, Refs)' = Visible(j, Refs)
           /\ pend'[j][Status].n > 0 /\ pend'[j][Status].last[cur[j]] = payload
           /\ \A s \in Stories \ {cur[j]} :
                 pend'[j][Status].last[s] = "passed" /\ Cleared(s) =>
                     AcIds[s] \subseteq Visible(j, Refs).last
<1> DEFINE value == Value(j)
<1>1. /\ Stores /\ Serial /\ Places /\ Referenced /\ Status \in Kinds /\ Refs \in Kinds
      /\ pend = [i \in Jobs |-> pend[i]] /\ pend[j] = [k \in Kinds |-> pend[j][k]]
      /\ pend[j][Status].n \in Nat
  BY TwoKinds DEF BuildsInv, Stores, Rows, Row
<1>2. Row(Visible(j, Status), Status) /\ seen[j].value = Visible(j, Status).last
  BY <1>1, MayInsert, VisibleRow DEF Current
<1>3. cur[j] \in Stories
  BY <1>1 DEF Places, Placed
<1>4. /\ value = [s \in Stories |-> value[s]]
      /\ value[cur[j]] = payload
      /\ \A s \in Stories \ {cur[j]} : value[s] = Visible(j, Status).last[s]
  BY <1>2, <1>3 DEF Recorded, Row
<1> HIDE DEF value
<1>5. /\ pend' = [i \in Jobs |-> pend'[i]]
      /\ pend'[j] = [pend[j] EXCEPT ![Status] = Plus(pend[j][Status], value)]
  BY <1>1 DEF value
<1>6. Stores' /\ Serial'
  <2>1. \A s \in Stories \ targets[j] : value[s] = Visible(j, Status).last[s]
    BY <1>4
  <2> QED  BY <1>1, <1>4, <1>5, <2>1, SerialInserts, TwoKinds
<1>7. /\ pend'[j][Status] = Plus(pend[j][Status], value)
      /\ pend'[j][Refs] = pend[j][Refs]
  BY <1>1, <1>5, TwoKinds
<1>8. pend'[j][Status].n > 0 /\ pend'[j][Status].last = value
  BY <1>1, <1>7 DEF Plus
<1>9. Visible(j, Refs)' = Visible(j, Refs)
  BY <1>7 DEF Visible
<1> QED  BY <1>1, <1>4, <1>6, <1>8, <1>9, SeenReferenced

(* References united with the latest.                                      *)
LEMMA CiteInserts ==
    ASSUME BuildsInv, NEW j \in Jobs, OthersStay(j), UNCHANGED <<rows, targets>>,
           Writing(j) = Refs, Insertable(j, Refs),
           NEW cited, Value(j) = Merged(seen[j].value, cited),
           pend' = [pend EXCEPT ![j][Refs] = Plus(@, Value(j))], seen'[j] = NoView
    PROVE  /\ Stores' /\ Serial'
           /\ Visible(j, Refs)'.last = Visible(j, Refs).last \cup cited
           /\ pend'[j][Status] = pend[j][Status]
<1> DEFINE value == Value(j)
<1>1. /\ Stores /\ Serial /\ Places /\ Status \in Kinds /\ Refs \in Kinds
      /\ pend = [i \in Jobs |-> pend[i]] /\ pend[j] = [k \in Kinds |-> pend[j][k]]
      /\ pend[j][Refs].n \in Nat
  BY TwoKinds DEF BuildsInv, Stores, Rows, Row
<1>2. value = Visible(j, Refs).last \cup cited
  BY <1>1, MayInsert DEF Current, Merged
<1> HIDE DEF value
<1>3. /\ pend' = [i \in Jobs |-> pend'[i]]
      /\ pend'[j] = [pend[j] EXCEPT ![Refs] = Plus(pend[j][Refs], value)]
  BY <1>1 DEF value
<1>4. Stores' /\ Serial'
  <2>1. Visible(j, Refs).last \subseteq value
    BY <1>2
  <2> QED  BY <1>1, <1>3, <2>1, SerialInserts, TwoKinds
<1>5. /\ pend'[j][Refs] = Plus(pend[j][Refs], value)
      /\ pend'[j][Status] = pend[j][Status]
  BY <1>1, <1>3, TwoKinds
<1>6. pend'[j][Refs].n > 0 /\ pend'[j][Refs].last = value
  BY <1>1, <1>5 DEF Plus
<1>7. Visible(j, Refs)'.last = value
  BY <1>6 DEF Visible, Extended
<1> QED  BY <1>2, <1>4, <1>5, <1>7

(* Who inserts keeps the other's records as they are.                      *)
LEMMA InsertsKeep ==
    ASSUME BuildsInv, NEW j \in Jobs, OthersStay(j), Functions', Placed(j)',
           Stores', Serial', UNCHANGED <<rows, module, torn>>, pc'[j] # "work", Backed(j)'
    PROVE  BuildsInv'
<1>1. Places'
  BY OthersPlaced DEF BuildsInv
<1>2. \A s \in Stories : Cleared(s)' => Cleared(s)
  BY ClearedKept
<1>3. ASSUME NEW i \in Jobs \ {j} PROVE Backed(i)'
  <2>1. /\ pc[i] \in AtStory => cur[i] \in Stories
        /\ pc'[i] = pc[i] /\ cur'[i] = cur[i] /\ result'[i] = result[i]
        /\ pend'[i] = pend[i] /\ seen'[i] = seen[i]
    BY DEF BuildsInv, Places, Placed, OthersStay
  <2>2. Backed(i) /\ Taken(i, Status)' = Taken(i, Status) /\ Stores
    BY <2>1 DEF BuildsInv, Referenced, Taken
  <2> QED  BY <1>2, <2>1, <2>2, BackedKept
<1> QED  BY <1>1, <1>2, <1>3 DEF BuildsInv, Referenced

LEMMA ResetKeeps == ASSUME BuildsInv, NEW j \in Jobs, Reset(j) PROVE BuildsInv'
<1>1. OthersStay(j) /\ Functions'
  BY StepFrame DEF BuildsInv, Step
<1>2. Placed(j) /\ Functions
  BY DEF BuildsInv, Places
<1>3. /\ pc[j] = "reset" /\ pc' = pc /\ Insertable(j, Status) /\ seen'[j] = NoView
      /\ pend' = [pend EXCEPT ![j][Status] = Plus(@, Value(j))]
      /\ UNCHANGED <<targets, todo, cur, result, tries, status, rows, module, torn>>
  BY <1>2 DEF Reset, Insert, others, Functions
<1>4. /\ Writing(j) = Status /\ cur[j] \in targets[j]
      /\ Value(j) = Recorded(seen[j].value, cur[j], "pending")
  BY <1>2, <1>3 DEF Writing, Insertable, Placed, Value, Payload
<1>5. /\ Stores' /\ Serial'
      /\ Visible(j, Refs)' = Visible(j, Refs)
      /\ pend'[j][Status].last[cur[j]] = "pending"
      /\ \A s \in Stories \ {cur[j]} :
            pend'[j][Status].last[s] = "passed" /\ Cleared(s) =>
                AcIds[s] \subseteq Visible(j, Refs).last
  BY <1>1, <1>3, <1>4, RecordInserts
<1>6. Placed(j)'
  BY <1>2, <1>3 DEF Placed, Labels, Extending, AtStory
<1>7. Backed(j)'
  BY <1>1, <1>3, <1>5, ClearedKept DEF Backed
<1> QED  BY <1>1, <1>3, <1>5, <1>6, <1>7, InsertsKeep

LEMMA PersistStatusKeeps ==
    ASSUME BuildsInv, NEW j \in Jobs, PersistStatus(j) PROVE BuildsInv'
<1>1. OthersStay(j) /\ Functions'
  BY StepFrame DEF BuildsInv, Step
<1>2. Placed(j) /\ Functions
  BY DEF BuildsInv, Places
<1>3. /\ pc[j] = "status" /\ Insertable(j, Status)
      /\ pend' = [pend EXCEPT ![j][Status] = Plus(@, Value(j))]
      /\ \/ AcIds[cur[j]] = {} /\ pc'[j] = "pick" /\ seen'[j] = NoView
         \/ pc'[j] = "refs" /\ seen'[j] = ViewOf(j, Refs)
      /\ UNCHANGED <<targets, todo, cur, result, tries, status, rows, module, torn>>
  BY <1>2 DEF PersistStatus, Go, others, Functions
<1>4. /\ Writing(j) = Status /\ cur[j] \in targets[j]
      /\ Value(j) = Recorded(seen[j].value, cur[j], result[j][cur[j]])
  BY <1>2, <1>3 DEF Writing, Placed, AtStory, Value, Payload
<1>5. pc'[j] = "refs" => (Writing(j))' = Refs
  BY DEF Writing
<1>6. /\ Stores' /\ Serial'
      /\ Visible(j, Refs)' = Visible(j, Refs)
      /\ pend'[j][Status].n > 0 /\ pend'[j][Status].last[cur[j]] = result[j][cur[j]]
      /\ \A s \in Stories \ {cur[j]} :
            pend'[j][Status].last[s] = "passed" /\ Cleared(s) =>
                AcIds[s] \subseteq Visible(j, Refs).last
  BY <1>1, <1>3, <1>4, <1>5, RecordInserts
<1>7. ViewOf(j, Refs) # NoView
  BY ReadView, TwoKinds DEF BuildsInv
<1>8. Placed(j)'
  BY <1>2, <1>3, <1>4, <1>7 DEF Placed, Labels, Extending, AtStory
<1>9. \A s \in Stories : Cleared(s)' => Cleared(s)
  BY <1>1, <1>3, ClearedKept
<1>10. Cleared(cur[j])' /\ result[j][cur[j]] = "passed" => cur[j] \in module
  <2>1. cur[j] \in Stories /\ ~Taken(j, Status) /\ Backed(j)
    BY <1>2, <1>3, <1>4 DEF Placed, Insertable, BuildsInv, Referenced
  <2> QED  BY <1>3, <1>9, <2>1 DEF Backed
<1>11. Backed(j)'
  BY <1>3, <1>6, <1>9, <1>10 DEF Backed
<1> QED  BY <1>1, <1>3, <1>6, <1>8, <1>11, InsertsKeep

LEMMA PersistRefsKeeps ==
    ASSUME BuildsInv, NEW j \in Jobs, PersistRefs(j) PROVE BuildsInv'
<1>1. OthersStay(j) /\ Functions'
  BY StepFrame DEF BuildsInv, Step
<1>2. Placed(j) /\ Functions
  BY DEF BuildsInv, Places
<1>3. /\ pc[j] = "refs" /\ pc'[j] = "pick" /\ Insertable(j, Refs) /\ seen'[j] = NoView
      /\ pend' = [pend EXCEPT ![j][Refs] = Plus(@, Value(j))]
      /\ UNCHANGED <<targets, todo, cur, result, tries, status, rows, module, torn>>
  BY <1>2 DEF PersistRefs, Insert, Go, others, Functions
<1>4. /\ Writing(j) = Refs /\ cur[j] \in Stories
      /\ Value(j) = Merged(seen[j].value, Cited(AcIds[cur[j]]))
  BY <1>2, <1>3 DEF Writing, Placed, AtStory, Value
<1>5. /\ Stores' /\ Serial'
      /\ Visible(j, Refs)'.last = Visible(j, Refs).last \cup Cited(AcIds[cur[j]])
      /\ pend'[j][Status] = pend[j][Status]
  BY <1>1, <1>3, <1>4, CiteInserts
<1>6. Placed(j)'
  BY <1>2, <1>3 DEF Placed, Labels, Extending, AtStory
<1>7. \A s \in Stories : Cleared(s)' => Cleared(s)
  BY <1>1, <1>3, ClearedKept
<1>8. Backed(j)
  BY DEF BuildsInv, Referenced
<1>9. pend[j][Status].last[cur[j]] = "passed" /\ Cleared(cur[j])'
          => AcIds[cur[j]] \subseteq Visible(j, Refs)'.last
  <2>1. cur[j] \in module => AcIds[cur[j]] \subseteq Cited(AcIds[cur[j]])
    BY DEF Cited
  <2> QED  BY <1>3, <1>4, <1>5, <1>7, <1>8, <2>1 DEF Backed
<1>10. Backed(j)'
  BY <1>3, <1>5, <1>7, <1>8, <1>9 DEF Backed
<1> QED  BY <1>1, <1>3, <1>5, <1>6, <1>10, InsertsKeep

LEMMA SliceRefsKeeps ==
    ASSUME BuildsInv, NEW j \in Jobs, SliceRefs(j) PROVE BuildsInv'
<1>1. OthersStay(j) /\ Functions'
  BY StepFrame DEF BuildsInv, Step
<1>2. Placed(j) /\ Functions
  BY DEF BuildsInv, Places
<1>3. /\ pc[j] = "slice refs" /\ pc'[j] = "mark" /\ Insertable(j, Refs) /\ seen'[j] = NoView
      /\ pend' = [pend EXCEPT ![j][Refs] = Plus(@, Value(j))]
      /\ UNCHANGED <<targets, todo, cur, result, tries, status, rows, module, torn>>
  BY <1>2 DEF SliceRefs, Insert, Go, others, Functions
<1>4. Writing(j) = Refs /\ Value(j) = Merged(seen[j].value, slice)
  BY <1>3 DEF Writing, Value
<1>5. /\ Stores' /\ Serial'
      /\ Visible(j, Refs)'.last = Visible(j, Refs).last \cup slice
      /\ pend'[j][Status] = pend[j][Status]
  BY <1>1, <1>3, <1>4, CiteInserts
<1>6. Placed(j)'
  BY <1>2, <1>3 DEF Placed, Labels, Extending, AtStory
<1>7. \A s \in Stories : Cleared(s)' => Cleared(s)
  BY <1>1, <1>3, ClearedKept
<1>8. Backed(j)'
  <2>1. Backed(j)
    BY DEF BuildsInv, Referenced
  <2> QED  BY <1>3, <1>5, <1>7, <2>1 DEF Backed
<1> QED  BY <1>1, <1>3, <1>5, <1>6, <1>8, InsertsKeep

----------------------------------------------------------------------------
(* What a step that writes durable rows may do to them.                    *)
LosesNothing ==
    /\ rows[Refs].last \subseteq rows'[Refs].last
    /\ \A s \in Stories :
          rows'[Status].last[s] # rows[Status].last[s] =>
              \E j \in Jobs : s \in targets[j] /\ pc'[j] # pc[j]

LEMMA CommittedLands ==
    ASSUME BuildsInv, NEW j \in Jobs
    PROVE  /\ Committed(j) = [k \in Kinds |-> Visible(j, k)]
           /\ \A k \in Kinds :
                 /\ Row(Visible(j, k), k)
                 /\ \/ Visible(j, k) = rows[k]
                    \/ Visible(j, k).n > rows[k].n /\ (\A i \in Jobs \ {j} : pend[i][k].n = 0)
<1>1. Committed(j) = [k \in Kinds |-> Visible(j, k)]
  BY DEF Committed, Visible
<1>2. ASSUME NEW k \in Kinds
      PROVE  \/ Visible(j, k) = rows[k]
             \/ Visible(j, k).n > rows[k].n /\ (\A i \in Jobs \ {j} : pend[i][k].n = 0)
  <2>1. rows[k].n \in Nat /\ pend[j][k].n \in Nat
    BY DEF BuildsInv, Stores, Rows, Row
  <2>2. CASE pend[j][k].n = 0
    BY <2>2 DEF Visible, Extended
  <2>3. CASE pend[j][k].n > 0
    <3>1. Visible(j, k).n > rows[k].n
      BY <2>1, <2>3, VisibleRow DEF BuildsInv
    <3>2. \A i \in Jobs \ {j} : pend[i][k].n = 0
      BY <2>1, <2>3 DEF BuildsInv, Serial, Exclusive
    <3> QED  BY <3>1, <3>2
  <2> QED  BY <2>1, <2>2, <2>3
<1> QED  BY <1>1, <1>2, VisibleRow DEF BuildsInv

(* The transaction of j is committed as it is.                             *)
LEMMA CommitKeeps ==
    ASSUME BuildsInv, NEW j \in Jobs, OthersStay(j), Functions', Placed(j)',
           rows' = Committed(j), pend' = [i \in Jobs |-> pend'[i]], pend'[j] = NoRows,
           seen'[j] = NoView, UNCHANGED <<module, torn>>, pc[j] # "refs",
           pc'[j] \notin {"work", "status", "refs"}, pc'[j] # pc[j]
    PROVE  BuildsInv' /\ LosesNothing
<1>1. Places'
  BY OthersPlaced DEF BuildsInv
<1>2. /\ rows' = [k \in Kinds |-> rows'[k]]
      /\ \A k \in Kinds : rows'[k] = Visible(j, k)
  BY CommittedLands
<1>3. ASSUME NEW k \in Kinds PROVE Lands(j, k)
  <2>1. rows'[k] = Visible(j, k)
    BY <1>2
  <2>2. Row(rows[k], k)'
    BY <2>1, CommittedLands DEF Row
  <2> QED  BY <2>1, <2>2, CommittedLands DEF Lands
<1>4. /\ Stores' /\ Serial'
      /\ rows[Refs].last \subseteq rows'[Refs].last
      /\ \A s \in Stories \ targets[j] : rows'[Status].last[s] = rows[Status].last[s]
  BY <1>2, <1>3, SerialLands DEF BuildsInv
<1>5. \A s \in Stories : Cleared(s)' => Cleared(s)
  BY ClearedKept
<1>6. Referenced'
  BY <1>2, <1>3, <1>5, ReferencedLands, TwoKinds DEF BuildsInv
<1> QED  BY <1>1, <1>4, <1>6 DEF BuildsInv, LosesNothing

LEMMA ResetDoneKeeps ==
    ASSUME BuildsInv, NEW j \in Jobs, ResetDone(j) PROVE BuildsInv' /\ LosesNothing
<1>1. OthersStay(j) /\ Functions' /\ pend' = [i \in Jobs |-> pend'[i]]
  BY StepFrame DEF BuildsInv, Step
<1>2. Placed(j) /\ Functions /\ Stores
  BY DEF BuildsInv, Places
<1>3. /\ pc[j] = "reset" /\ pc'[j] = "scaffold" /\ rows' = Committed(j)
      /\ pend'[j] = NoRows /\ seen[j] = NoView
      /\ UNCHANGED <<targets, todo, cur, seen, result, tries, status, module, torn>>
  BY <1>2 DEF ResetDone, Go, others, Functions, Stores
<1>4. Placed(j)'
  BY <1>2, <1>3 DEF Placed, Labels, Extending, AtStory
<1> QED  BY <1>1, <1>3, <1>4, CommitKeeps

LEMMA FinishBuildKeeps ==
    ASSUME BuildsInv, NEW j \in Jobs, FinishBuild(j) PROVE BuildsInv' /\ LosesNothing
<1>1. OthersStay(j) /\ Functions' /\ pend' = [i \in Jobs |-> pend'[i]]
  BY StepFrame DEF BuildsInv, Step
<1>2. Placed(j) /\ Functions /\ Stores
  BY DEF BuildsInv, Places
<1>3. /\ pc[j] \in {"pick", "mark"} /\ pc'[j] = "idle" /\ rows' = Committed(j)
      /\ pend'[j] = NoRows /\ seen'[j] = NoView /\ targets'[j] = {} /\ todo'[j] = {}
      /\ result'[j] = [s \in Stories |-> "none"]
      /\ UNCHANGED <<module, torn>>
  BY <1>2 DEF FinishBuild, Leave, Go, Functions, Stores
<1>4. Placed(j)'
  BY <1>3 DEF Placed, Labels, Extending, AtStory
<1> QED  BY <1>1, <1>3, <1>4, CommitKeeps

(* A story's run starts on record, with all that was flushed before it.    *)
LEMMA RunningKeeps ==
    ASSUME BuildsInv, NEW j \in Jobs, Running(j) PROVE BuildsInv' /\ LosesNothing
<1>1. OthersStay(j) /\ Functions' /\ pend' = [i \in Jobs |-> pend'[i]]
  BY StepFrame DEF BuildsInv, Step
<1>2. Placed(j) /\ Functions /\ Stores /\ Serial
  BY DEF BuildsInv, Places
<1>3. /\ pc[j] = "running" /\ pc'[j] = "work" /\ Insertable(j, Status)
      /\ rows' = [Committed(j) EXCEPT ![Status] = Plus(@, Value(j))]
      /\ pend'[j] = NoRows /\ seen'[j] = NoView
      /\ UNCHANGED <<targets, todo, cur, result, tries, status, module, torn>>
  BY <1>2 DEF Running, Go, others, Functions, Stores
<1>4. cur[j] \in targets[j] /\ cur[j] \in Stories
  BY <1>2, <1>3 DEF Placed, AtStory
<1>5. Placed(j)'
  BY <1>2, <1>3, <1>4 DEF Placed, Labels, Extending, AtStory
<1>6. Places'
  BY <1>1, <1>5, OthersPlaced DEF BuildsInv
<1>7. /\ Writing(j) = Status /\ Value(j) = Recorded(seen[j].value, cur[j], "running")
  BY <1>3 DEF Writing, Value, Payload
<1>8. Current(j, Status) /\ \A i \in Jobs \ {j} : pend[i][Status].n = 0
  BY <1>2, <1>3, <1>7, MayInsert, TwoKinds
<1>9. /\ Value(j) = [s \in Stories |-> Value(j)[s]] /\ Value(j)[cur[j]] = "running"
      /\ \A s \in Stories \ {cur[j]} : Value(j)[s] = Visible(j, Status).last[s]
  <2>1. Row(Visible(j, Status), Status) /\ seen[j].value = Visible(j, Status).last
    BY <1>2, <1>8, VisibleRow, TwoKinds DEF Current
  <2> QED  BY <1>4, <1>7, <2>1 DEF Recorded, Row
<1>10. /\ rows' = [k \in Kinds |-> rows'[k]]
       /\ rows'[Status] = Plus(Visible(j, Status), Value(j))
       /\ rows'[Refs] = Visible(j, Refs)
  BY <1>3, CommittedLands, TwoKinds
<1>11. rows'[Status].n = Visible(j, Status).n + 1 /\ rows'[Status].last = Value(j)
       /\ rows'[Status] = [n |-> rows'[Status].n, last |-> rows'[Status].last]
  BY <1>10 DEF Plus
<1>12. rows'[Status].n \in Nat /\ rows'[Status].n > rows[Status].n
  <2>1. /\ Visible(j, Status).n = rows[Status].n + pend[j][Status].n
        /\ rows[Status].n \in Nat /\ pend[j][Status].n \in Nat
    BY <1>2, VisibleRow, TwoKinds DEF Stores, Rows, Row
  <2> QED  BY <1>11, <2>1
<1>13. Lands(j, Status)
  <2>1. Row(rows[Status], Status)'
    BY <1>9, <1>11, <1>12 DEF Row
  <2> QED  BY <1>4, <1>8, <1>9, <1>11, <1>12, <2>1, TwoKinds DEF Lands
<1>14. Lands(j, Refs)
  <2>1. Row(rows[Refs], Refs)'
    BY <1>10, CommittedLands, TwoKinds DEF Row
  <2> QED  BY <1>10, <2>1, CommittedLands, TwoKinds DEF Lands
<1>15. \A k \in Kinds : Lands(j, k)
  BY <1>13, <1>14, TwoKinds
<1>16. /\ Stores' /\ Serial'
       /\ rows[Refs].last \subseteq rows'[Refs].last
       /\ \A s \in Stories \ targets[j] : rows'[Status].last[s] = rows[Status].last[s]
  BY <1>1, <1>3, <1>10, <1>15, SerialLands DEF BuildsInv
<1>17. ASSUME NEW s \in Stories \ {cur[j]}, Cleared(s)' PROVE Cleared(s)
  BY <1>1, <1>3, <1>17 DEF Cleared, OthersStay
<1>18. \A s \in Stories :
          \/ rows'[Status].last[s] = Visible(j, Status).last[s]
             /\ (Cleared(s)' => Cleared(s))
          \/ rows'[Status].last[s] # "passed" /\ pc'[j] = "work" /\ cur'[j] = s
             /\ rows'[Status].n > rows[Status].n
  BY <1>3, <1>9, <1>11, <1>12, <1>17
<1>19. Referenced'
  BY <1>1, <1>3, <1>10, <1>15, <1>18, ReferencedLands DEF BuildsInv
<1> QED  BY <1>3, <1>6, <1>16, <1>19 DEF BuildsInv, LosesNothing

(* A job that ends without its commit gives its rows up.                   *)
LEMMA FailKeeps ==
    ASSUME BuildsInv, NEW j \in Jobs, Fail(j), OthersStay(j), Functions',
           pend' = [i \in Jobs |-> pend'[i]]
    PROVE  BuildsInv'
<1>1. Functions /\ Stores
  BY DEF BuildsInv, Places
<1>2. /\ GivenUp(j) /\ pc'[j] = "idle" /\ targets'[j] = {} /\ todo'[j] = {}
      /\ result'[j] = [s \in Stories |-> "none"]
      /\ UNCHANGED <<rows, module, torn>>
  BY <1>1 DEF Fail, Leave, Go, GivenUp, Functions, Stores
<1>3. Placed(j)'
  BY <1>2 DEF Placed, Labels, Extending, AtStory, GivenUp
<1>4. \A i \in Jobs : (GivenUp(i) /\ pc'[i] = "idle") \/ Untouched(i)
  BY <1>2 DEF Untouched, OthersStay
<1>5. Places'
  BY <1>3, OthersPlaced DEF BuildsInv
<1>6. Stores' /\ Serial'
  BY <1>2, <1>4, SerialEnds DEF BuildsInv
<1>7. Referenced'
  BY <1>2, <1>4, ReferencedEnds DEF BuildsInv
<1> QED  BY <1>5, <1>6, <1>7 DEF BuildsInv

LEMMA RestartsKeep == ASSUME BuildsInv, BackendRestarts PROVE BuildsInv'
<1>1. /\ \A j \in Jobs : /\ GivenUp(j) /\ pc'[j] = "idle"
                        /\ targets'[j] = {} /\ todo'[j] = {}
                        /\ result'[j] = [s \in Stories |-> "none"]
      /\ pend' = [i \in Jobs |-> pend'[i]]
      /\ UNCHANGED <<rows, module, torn>>
  BY DEF BackendRestarts, GivenUp
<1>2. Functions'
  BY DEF BackendRestarts, Functions
<1>3. \A j \in Jobs : Placed(j)'
  BY <1>1 DEF Placed, Labels, Extending, AtStory, GivenUp
<1>4. Stores' /\ Serial'
  BY <1>1, SerialEnds DEF BuildsInv
<1>5. Referenced'
  BY <1>1, ReferencedEnds DEF BuildsInv
<1> QED  BY <1>2, <1>3, <1>4, <1>5 DEF BuildsInv, Places

LEMMA BuildsStart == BuildsInit => BuildsInv
<1> SUFFICES ASSUME BuildsInit PROVE BuildsInv
  OBVIOUS
<1>1. Functions /\ \A j \in Jobs : pc[j] = "idle" /\ pend[j] = NoRows /\ seen[j] = NoView
                               /\ targets[j] = {} /\ todo[j] = {}
                               /\ result[j] = [s \in Stories |-> "none"]
  BY DEF BuildsInit, Functions
<1>2. Places
  BY <1>1 DEF Places, Placed, Labels, Extending, AtStory
<1>3. Stores
  BY EmptyRows DEF BuildsInit, Stores
<1>4. Serial
  BY <1>1, EmptyRows, TwoKinds DEF Serial, Exclusive, Extends, Fresh
<1>5. \A s \in Stories : rows[Status].last[s] # "passed"
  BY TwoKinds DEF BuildsInit, NoRows, Blank
<1>6. Referenced
  BY <1>1, <1>5, EmptyRows, TwoKinds DEF Referenced, Backed
<1> QED  BY <1>2, <1>3, <1>4, <1>6 DEF BuildsInv

LEMMA BuildsStep == BuildsInv /\ [BuildsNext]_buildVars => BuildsInv' /\ LosesNothing
<1> SUFFICES ASSUME BuildsInv, [BuildsNext]_buildVars PROVE BuildsInv' /\ LosesNothing
  OBVIOUS
<1>1. UNCHANGED rows => LosesNothing
  BY DEF LosesNothing
<1>2. CASE UNCHANGED buildVars
  <2>1. BuildsInv'
    <3>1. Places' /\ Stores' /\ Exclusive'
      BY <1>2 DEF buildVars, BuildsInv, Places, Functions, Placed, Stores, Serial, Exclusive
    <3>2. \A j \in Jobs : Extends(j)'
      BY <1>2 DEF buildVars, BuildsInv, Serial, Extends
    <3>3. \A j \in Jobs : Fresh(j)'
      BY <1>2 DEF buildVars, BuildsInv, Serial, Fresh, Taken, Current, Visible, Writing
    <3>4. ASSUME NEW j \in Jobs PROVE Untouched(j)
      BY <1>2 DEF buildVars, Untouched
    <3>5. Referenced'
      BY <1>2, <3>4, ReferencedEnds DEF buildVars, BuildsInv
    <3> QED  BY <3>1, <3>2, <3>3, <3>5 DEF BuildsInv, Serial
  <2> QED  BY <1>1, <1>2, <2>1 DEF buildVars
<1>3. CASE PostBuild \/ PostStories
  <2>1. PICK j \in Jobs, scope \in SUBSET Stories : Queue(j, scope)
    BY <1>3, TwoKinds DEF PostBuild, PostStories
  <2> QED  BY <1>1, <2>1, QueueKeeps DEF Queue
<1>4. ASSUME NEW j \in Jobs, Step(j) \/ Raise(j) PROVE BuildsInv' /\ LosesNothing
  <2>1. CASE ResetDone(j) \/ FinishBuild(j) \/ Running(j)
    BY <2>1, ResetDoneKeeps, FinishBuildKeeps, RunningKeeps
  <2>2. CASE Fail(j)
    <3>1. BuildsInv'
      BY <1>4, <2>2, StepFrame, FailKeeps DEF BuildsInv
    <3> QED  BY <1>1, <2>2, <3>1 DEF Fail
  <2>3. CASE Start(j) \/ ResetNext(j) \/ Pick(j) \/ Stop(j) \/ MarkDeferred(j) \/ Draft(j)
    <3>1. UNCHANGED rows
      BY <2>3 DEF Start, ResetNext, Pick, Stop, MarkDeferred, Draft
    <3> QED
      BY <1>1, <2>3, <3>1, StartKeeps, ResetNextKeeps, PickKeeps, StopKeeps, MarkDeferredKeeps,
         DraftKeeps
  <2>4. CASE Scaffold(j) \/ RunStory(j) \/ WriteSlice(j)
    <3>1. UNCHANGED rows
      BY <2>4 DEF Scaffold, RunStory, WriteSlice
    <3> QED  BY <1>1, <2>4, <3>1, ScaffoldKeeps, RunStoryKeeps, WriteSliceKeeps
  <2>5. CASE Reset(j) \/ PersistStatus(j) \/ PersistRefs(j) \/ SliceRefs(j)
    <3>1. UNCHANGED rows
      BY <2>5 DEF Reset, PersistStatus, PersistRefs, SliceRefs
    <3> QED  BY <1>1, <2>5, <3>1, ResetKeeps, PersistStatusKeeps, PersistRefsKeeps, SliceRefsKeeps
  <2> QED
    BY <1>4, <2>1, <2>2, <2>3, <2>4, <2>5 DEF Step, Clash, GateFail, NoTests, Raise
<1>5. CASE BackendRestarts
  BY <1>1, <1>5, RestartsKeep DEF BackendRestarts
<1> QED  BY <1>2, <1>3, <1>4, <1>5 DEF BuildsNext

(* The inductive invariant of two builds at once. *)
THEOREM BuildsInvariance == BuildsSpec => []BuildsInv
<1>1. BuildsInv /\ [BuildsNext]_buildVars => BuildsInv'
  BY BuildsStep
<1> QED  BY <1>1, BuildsStart, PTL DEF BuildsSpec

(* Whatever two builds of a workspace do to each other, and wherever they  *)
(* fail or the process dies, a story on record as passed has its criteria  *)
(* among the references, unless the other build removed its tests between  *)
(* its gate and its record (_persist, scaffold_from_design).               *)
THEOREM PassedStoriesAreReferenced == BuildsSpec => []PassedIsReferenced
<1>1. BuildsInv => PassedIsReferenced
  BY DEF BuildsInv, Referenced, Cleared, PassedIsReferenced
<1> QED  BY <1>1, BuildsInvariance, PTL

(* No step of either build takes away a reference the other one made       *)
(* durable, or changes the record of a story nobody asked it to build.     *)
THEOREM BuildsLoseNothing == BuildsSpec => NothingLost
<1>1. BuildsInv /\ [BuildsNext]_buildVars =>
        [ /\ rows[Refs].last \subseteq rows'[Refs].last
          /\ \A s \in Stories :
                rows'[Status].last[s] # rows[Status].last[s] =>
                    \E j \in Jobs : s \in targets[j] /\ pc'[j] # pc[j] ]_buildVars
  BY BuildsStep DEF LosesNothing
<1> QED  BY <1>1, BuildsInvariance, PTL DEF BuildsSpec, NothingLost
=============================================================================
