----------------------------- MODULE JobRunner -----------------------------
(***************************************************************************)
(* The in-process background-job runner of the cockpit backend,            *)
(* controlplane/jobs.py.  Request threads (Callers) start and poll jobs;   *)
(* every started job is a run executed by a worker thread of its own.  A   *)
(* job that is still "running" blocks a new start of its key unless its    *)
(* worker died or it is older than JOB_STALE_AFTER_S, in which case it is  *)
(* superseded: the old worker, if it is alive, keeps executing and         *)
(* finishes late.  runner.inline, the switch tests use to run fn in the    *)
(* caller, is off.                                                         *)
(*                                                                         *)
(* self._lock makes the body of get, of _finish and the critical section   *)
(* of start one step each; what start does after the lock (the final       *)
(* self.get) is a step of its own.                                         *)
(***************************************************************************)
EXTENDS Naturals, FiniteSets

CONSTANTS Callers,     \* request threads
          Keys,        \* the (kind, wid) pairs of _jobs
          MaxRuns,     \* bound: how many runs are ever started
          StaleAfter   \* JOB_STALE_AFTER_S, in clock ticks

ASSUME RunnerAssumption ==
    /\ MaxRuns \in Nat
    /\ StaleAfter \in Nat \ {0}
    /\ Keys # {}

VARIABLES jobs,     \* _jobs: what get returns for each key
          threads,  \* _threads: the run whose thread is registered, or 0
          runs,     \* how many runs were started (their identities are 1..runs)
          work,     \* each run's execution: pc, key, outcome and clock age
          call,     \* the run a caller inside start has begun, or 0
          view      \* the last job state each caller was handed

vars == <<jobs, threads, runs, work, call, view>>

Runs  == 1..MaxRuns
NoRun == 0

(* The _job_status values a job function may ask for, and those it may not. *)
Requestable == {"done", "incomplete", "partial"}
Requests    == Requestable \cup {"unset", "unknown"}
Settled     == Requestable \cup {"failed"}
Statuses    == Settled \cup {"running", "absent"}

(* run: which start created the dict; by: whose outcome it holds, if any. *)
JobState == [status : Statuses, run : Runs \cup {NoRun}, by : Runs \cup {NoRun}]
NoJob    == [status |-> "absent", run |-> NoRun, by |-> NoRun]

(* unborn: not started; fn: executing fn(); finish: fn is over, _finish not *)
(* yet called; over: the thread is gone.                                    *)
Execution == [pc : {"unborn", "fn", "finish", "over"}, key : Keys,
              outcome : Settled, age : 0..StaleAfter]

Views == [key : Keys, job : JobState]

TypeOK ==
    /\ jobs \in [Keys -> JobState]
    /\ threads \in [Keys -> Runs \cup {NoRun}]
    /\ runs \in 0..MaxRuns
    /\ work \in [Runs -> Execution]
    /\ call \in [Callers -> Runs \cup {NoRun}]
    /\ view \in [Callers -> Views]

AnyKey == CHOOSE k \in Keys : TRUE

Alive(r) == work[r].pc \in {"fn", "finish"}

Init ==
    /\ jobs = [k \in Keys |-> NoJob]
    /\ threads = [k \in Keys |-> NoRun]
    /\ runs = 0
    /\ work = [r \in Runs |-> [pc |-> "unborn", key |-> AnyKey,
                               outcome |-> "failed", age |-> 0]]
    /\ call = [c \in Callers |-> NoRun]
    /\ view = [c \in Callers |-> [key |-> AnyKey, job |-> NoJob]]

----------------------------------------------------------------------------
(* Mutated forms: the age check forgotten; a live job never blocks;        *)
(* _finish with an ownership check that takes a missing entry for its own. *)
IsStaleNoAge(k) == threads[k] # NoRun /\ ~Alive(threads[k])
BlocksNever(k) == FALSE
OwnsIfMissing(r) == threads[work[r].key] \in {r, NoRun}

(* _is_stale: a registered thread that died, or a start that is too old.  A *)
(* missing thread proves nothing.                                           *)
IsStale(k) ==
    \/ threads[k] # NoRun /\ ~Alive(threads[k])
    \/ jobs[k].run # NoRun /\ work[jobs[k].run].age >= StaleAfter

(* start refuses a second run: the key's job is running and not stale. *)
Blocks(k) == jobs[k].status = "running" /\ ~IsStale(k)

(* self._threads[(kind, wid)] = thread, whatever was registered before. *)
ThreadOf(k, r) == r

(* start(kind, wid, fn), the locked section that begins a run: a stale job *)
(* is superseded (its failed dict is replaced under the same lock), the    *)
(* fresh one is registered together with its thread.                       *)
StartFresh(c, k) ==
    /\ call[c] = NoRun
    /\ runs < MaxRuns
    /\ ~Blocks(k)
    /\ runs' = runs + 1
    /\ jobs' = [jobs EXCEPT ![k] = [status |-> "running", run |-> runs + 1,
                                    by |-> NoRun]]
    /\ threads' = [threads EXCEPT ![k] = ThreadOf(k, runs + 1)]
    /\ work' = [work EXCEPT ![runs + 1] = [pc |-> "fn", key |-> k,
                                           outcome |-> "failed", age |-> 0]]
    /\ call' = [call EXCEPT ![c] = runs + 1]
    /\ UNCHANGED view

(* start on a genuinely live job: return a copy of it, change nothing. *)
StartBlocked(c, k) ==
    /\ call[c] = NoRun
    /\ Blocks(k)
    /\ view' = [view EXCEPT ![c] = [key |-> k, job |-> jobs[k]]]
    /\ UNCHANGED <<jobs, threads, runs, work, call>>

(* The end of start: self.get after the lock was released.             *)
StartReturn(c) ==
    /\ call[c] # NoRun
    /\ LET k == work[call[c]].key
       IN  view' = [view EXCEPT ![c] = [key |-> k, job |-> jobs[k]]]
    /\ call' = [call EXCEPT ![c] = NoRun]
    /\ UNCHANGED <<jobs, threads, runs, work>>

(* get(kind, wid), polled by the status endpoints. *)
Get(c, k) ==
    /\ call[c] = NoRun
    /\ view' = [view EXCEPT ![c] = [key |-> k, job |-> jobs[k]]]
    /\ UNCHANGED <<jobs, threads, runs, work, call>>

(* fn() returned: _job_status is honoured only when it is a known one. *)
FnReturns(r, requested) ==
    /\ work[r].pc = "fn"
    /\ work' = [work EXCEPT ![r].pc = "finish",
                            ![r].outcome = IF requested \in Requestable
                                           THEN requested ELSE "done"]
    /\ UNCHANGED <<jobs, threads, runs, call, view>>

(* fn() raised an Exception. *)
FnRaises(r) ==
    /\ work[r].pc = "fn"
    /\ work' = [work EXCEPT ![r].pc = "finish", ![r].outcome = "failed"]
    /\ UNCHANGED <<jobs, threads, runs, call, view>>

(* A BaseException escapes _run: the thread dies, _finish is never called. *)
FnDies(r) ==
    /\ work[r].pc = "fn"
    /\ work' = [work EXCEPT ![r].pc = "over"]
    /\ UNCHANGED <<jobs, threads, runs, call, view>>

(* _finish ignores a worker that is no longer the registered one. *)
Owns(r) == threads[work[r].key] = r

(* _finish(kind, wid, status, owner): publish and unregister, or ignore. *)
Finish(r) ==
    /\ work[r].pc = "finish"
    /\ work' = [work EXCEPT ![r].pc = "over"]
    /\ LET k == work[r].key
       IN  IF Owns(r)
           THEN /\ jobs' = [jobs EXCEPT ![k].status = work[r].outcome,
                                        ![k].by = r]
                /\ threads' = [threads EXCEPT ![k] = NoRun]
           ELSE UNCHANGED <<jobs, threads>>
    /\ UNCHANGED <<runs, call, view>>

(* The wall clock moves: every execution's start is one tick older, up to *)
(* the threshold, past which no guard tells ages apart.                   *)
Tick ==
    /\ \E r \in Runs : work[r].pc # "unborn" /\ work[r].age < StaleAfter
    /\ work' = [r \in Runs |->
                  IF work[r].pc # "unborn" /\ work[r].age < StaleAfter
                  THEN [work[r] EXCEPT !.age = @ + 1] ELSE work[r]]
    /\ UNCHANGED <<jobs, threads, runs, call, view>>

(* The backend process is killed and restarted: _jobs and _threads are in *)
(* memory only and the workers are daemon threads.                        *)
Restart ==
    /\ runs > 0
    /\ jobs' = [k \in Keys |-> NoJob]
    /\ threads' = [k \in Keys |-> NoRun]
    /\ work' = [r \in Runs |-> IF Alive(r) THEN [work[r] EXCEPT !.pc = "over"]
                               ELSE work[r]]
    /\ call' = [c \in Callers |-> NoRun]
    /\ UNCHANGED <<runs, view>>

CallerStep(c) ==
    \/ StartReturn(c)
    \/ \E k \in Keys : StartFresh(c, k) \/ StartBlocked(c, k) \/ Get(c, k)

WorkerStep(r) ==
    \/ FnRaises(r)
    \/ FnDies(r)
    \/ Finish(r)
    \/ \E requested \in Requests : FnReturns(r, requested)

Next ==
    \/ \E c \in Callers : CallerStep(c)
    \/ \E r \in Runs : WorkerStep(r)
    \/ Tick
    \/ Restart

Spec == Init /\ [][Next]_vars

(* Time passes, a worker past fn() reaches _finish, and a caller inside    *)
(* start gets its answer; fn itself may hang for ever and no client is     *)
(* obliged to call.                                                        *)
Fairness ==
    /\ WF_vars(Tick)
    /\ \A r \in Runs : WF_vars(Finish(r))
    /\ \A c \in Callers : WF_vars(StartReturn(c))

FairSpec == Spec /\ Fairness

----------------------------------------------------------------------------
(* Properties. *)

(* A job record only ever holds the outcome of the run it was created for: *)
(* a superseded worker that wakes late cannot clobber the fresh job.       *)
NoClobber ==
    \A k \in Keys : jobs[k].by # NoRun => jobs[k].by = jobs[k].run

(* A running job always has its own worker registered, and a settled or    *)
(* absent one has none, so _is_stale never meets a missing thread          *)
(* (_is_stale's docstring) and liveness is judged on the right thread.     *)
RunningIsRegistered ==
    \A k \in Keys :
        threads[k] = IF jobs[k].status = "running" THEN jobs[k].run ELSE NoRun

(* What is left of one-live-job-per-workspace: a worker that executes a    *)
(* key without being its registered one was older than JOB_STALE_AFTER_S   *)
(* when it was superseded; nothing else lets two workers overlap.          *)
OverlapOnlyWhenStale ==
    \A r \in Runs :
        Alive(r) /\ threads[work[r].key] # r => work[r].age >= StaleAfter

(* A wedged stage can never block a re-trigger for ever, even if fn hangs. *)
NeverWedged == \A k \in Keys : []<>~Blocks(k)

(* JobRunner implements JobSlot. *)
Slot == INSTANCE JobSlot WITH
            slot <- [k \in Keys |-> [gen |-> jobs[k].run, value |-> jobs[k].by]],
            started <- runs
SlotSpec == Slot!SlotSpec
=============================================================================
