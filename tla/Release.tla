------------------------------ MODULE Release ------------------------------
(***************************************************************************)
(* Bringing a slice into production (deploy, cost, slice/gates.py, and the *)
(* canary endpoints of api.py): canary runs of one workspace and slice,    *)
(* each smoke, perf, flip, observe, share a routing controller and a cost  *)
(* ledger with agents that are charged for their work, while people decide *)
(* the deploy gate, flip the canary by hand and roll it back.              *)
(*                                                                         *)
(* Everything is in the memory of the process: a restart begins again with *)
(* the legacy system and without caps.  A charge is one unit of the caps.  *)
(***************************************************************************)
EXTENDS Integers, FiniteSets, Sequences

CONSTANTS Runs,      \* canary runs
          Agents,    \* verifiers that charge agents' work
          Percents,  \* what a canary may be asked to serve
          Caps,      \* caps that may be set: [workspace, run]
          Healths,   \* what may be observed: [requests, errors, divergences]
          Perfs,     \* what a perf baseline may measure
          Nobody, Human,
          MaxCharges \* bound: charges of an agent
ASSUME ReleaseAssumption ==
    /\ Percents \subseteq 0..100
    /\ Caps \subseteq [workspace : Nat, run : Nat]
    /\ IsFiniteSet(Runs) /\ IsFiniteSet(Agents) /\ Runs \cap Agents = {}
    /\ "workspace" \notin Runs \cup Agents
    /\ Nobody \notin Runs /\ Human \notin Runs /\ Human # Nobody

VARIABLES canaryPct,  \* RoutingController._canary_pct
          setBy,      \* who raised or last set it
          gate,       \* the deploy gate's status
          caps,       \* the caps set, or Unset
          spent,      \* of the runs and agents, and of the workspace
          killed,     \* what the kill-switch tripped
          run,        \* each canary run
          agent,      \* each verifier: charged, aborted
          lost,       \* history: an add to the workspace's sum overwrote another
          highest     \* history: the workspace's highest cap since the start

ledger == <<caps, spent, killed, lost, highest>>
vars == <<canaryPct, setBy, gate, run, agent, ledger>>

Spenders == Runs \cup Agents
Workspace == "workspace"
Unset == [workspace |-> 0, run |-> 0]
NewRun == [at |-> "new", next |-> "new", status |-> "none", gatePassed |-> FALSE, pct |-> 0, seen |-> 0]
NewAgent == [at |-> "idle", charges |-> 0, aborted |-> FALSE, scope |-> "none", seen |-> 0]

----------------------------------------------------------------------------
(* Mutated forms: a killed run leaves the route; an aborted verifier goes  *)
(* on charging.                                                            *)
KillKeepsRoute(r) ==
    /\ run' = [run EXCEPT ![r].at = "over", ![r].status = "killed"]
    /\ UNCHANGED <<canaryPct, setBy>>
StillCharged(a) == TRUE

----------------------------------------------------------------------------
(* cost/policy.py.  An unset cap is zero: nothing may be spent.            *)
(* record_usage adds to the spender's sum, then to the workspace's; an add *)
(* reads the sum (seen) and writes it back, so one of two at once is lost. *)
OverRun(s) == spent[s] >= caps.run
OverWorkspace == spent[Workspace] >= caps.workspace
Over(s) == OverRun(s) \/ OverWorkspace
AddOwn(s) == spent' = [spent EXCEPT ![s] = @ + 1]
AddShared(seen) ==
    /\ spent' = [spent EXCEPT ![Workspace] = seen + 1]
    /\ lost' = (lost \/ seen # spent[Workspace])
Trip(s) == killed' = killed \cup {s} \cup {x \in {Workspace} : OverWorkspace}

(* deploy/routing.py *)
MayFlip(pct, gatePassed) == pct > canaryPct => gatePassed
Route(pct, who) == canaryPct' = pct /\ setBy' = IF pct = 0 THEN Nobody ELSE who
ResetToLegacy == Route(0, Nobody)

(* deploy/models.py, perf_baseline.py: the latencies are in order, the     *)
(* ratio is kept to four places, and infinite without one of the legacy;   *)
(* a half is rounded to the even neighbour.                                *)
Rounded(n, unit) ==
    LET down == n \div unit
        rest == 2 * (n % unit)
    IN  IF rest > unit \/ (rest = unit /\ down % 2 = 1) THEN down + 1 ELSE down
Percentile(latencies) ==
    LET n == Len(latencies)
    IN  IF n = 0 THEN 0 ELSE latencies[Rounded(95 * (n - 1), 100) + 1]
Meets(perf) ==
    /\ perf.legacy > 0
    /\ Rounded(10000 * Percentile(perf.latencies), perf.legacy) <= perf.maxRatio
PerfPasses(perf) == perf.divergences = 0 /\ Meets(perf)

(* deploy/rollback.py: a divergence, or more than one error in a hundred.  *)
Healthy(h) == h.requests = 0 \/ (h.divergences = 0 /\ 100 * h.errors <= h.requests)

----------------------------------------------------------------------------
Init ==
    /\ canaryPct = 0 /\ setBy = Nobody /\ gate = "open"
    /\ caps = Unset /\ spent = [s \in Spenders \cup {Workspace} |-> 0] /\ killed = {}
    /\ lost = FALSE /\ highest = 0
    /\ run = [r \in Runs |-> NewRun] /\ agent = [a \in Agents |-> NewAgent]

(* set_cap, for the workspace and its runs: raised or lowered. *)
SetCaps ==
    \E c \in Caps \ {caps} :
        /\ caps' = c
        /\ highest' = IF c.workspace > highest THEN c.workspace ELSE highest
        /\ UNCHANGED <<canaryPct, setBy, gate, spent, killed, lost, run, agent>>

(* approve_gate: the last decision stands. *)
Decide ==
    \E status \in {"passed", "failed"} \ {gate} :
        /\ gate' = status
        /\ UNCHANGED <<canaryPct, setBy, run, agent, ledger>>

(* CanaryOrchestrator.run: the gate is what the caller read beforehand.    *)
Start(r) ==
    \E pct \in Percents :
        /\ run[r].at = "new"
        /\ run' = [run EXCEPT ![r] = [NewRun EXCEPT !.at = "spend", !.next = "smoke", !.pct = pct,
                                                    !.gatePassed = gate = "passed"]]
        /\ UNCHANGED <<canaryPct, setBy, gate, agent, ledger>>

(* _spend: the usage is recorded, in two, then the caps are checked.       *)
Spend(r) ==
    /\ run[r].at = "spend"
    /\ AddOwn(r)
    /\ run' = [run EXCEPT ![r].at = "add", ![r].seen = spent[Workspace]]
    /\ UNCHANGED <<canaryPct, setBy, gate, caps, killed, lost, highest, agent>>
SpendShared(r) ==
    /\ run[r].at = "add"
    /\ AddShared(run[r].seen)
    /\ run' = [run EXCEPT ![r].at = "check", ![r].seen = 0]
    /\ UNCHANGED <<canaryPct, setBy, gate, caps, killed, highest, agent>>
Kill(r) ==
    /\ run' = [run EXCEPT ![r].at = "over", ![r].status = "killed"]
    /\ ResetToLegacy
Check(r) ==
    /\ run[r].at = "check"
    /\ IF Over(r) THEN Trip(r) /\ Kill(r)
       ELSE /\ run' = [run EXCEPT ![r].at = run[r].next]
            /\ UNCHANGED <<killed, canaryPct, setBy>>
    /\ UNCHANGED <<gate, caps, spent, lost, highest, agent>>

To(r, next) == run' = [run EXCEPT ![r].at = "spend", ![r].next = next]
End(r, status) == run' = [run EXCEPT ![r].at = "over", ![r].status = status]

Smoke(r) ==
    /\ run[r].at = "smoke"
    /\ \/ To(r, "perf") /\ UNCHANGED <<canaryPct, setBy>>
       \/ End(r, "rolled_back") /\ ResetToLegacy
       \/ End(r, "raised") /\ UNCHANGED <<canaryPct, setBy>>   \* a probe cannot connect
    /\ UNCHANGED <<gate, agent, ledger>>
Perf(r) ==
    /\ run[r].at = "perf"
    /\ \/ \E perf \in Perfs :
             \/ /\ PerfPasses(perf)
                /\ run' = [run EXCEPT ![r].at = "flip"] /\ UNCHANGED <<canaryPct, setBy>>
             \/ ~PerfPasses(perf) /\ End(r, "rolled_back") /\ ResetToLegacy
       \/ End(r, "raised") /\ UNCHANGED <<canaryPct, setBy>>   \* the measurement fails
    /\ UNCHANGED <<gate, agent, ledger>>
Flip(r) ==
    /\ run[r].at = "flip"
    /\ IF MayFlip(run[r].pct, run[r].gatePassed)
       THEN To(r, "observe") /\ Route(run[r].pct, r)
       ELSE End(r, "blocked_no_gate") /\ UNCHANGED <<canaryPct, setBy>>
    /\ UNCHANGED <<gate, agent, ledger>>
Observe(r) ==
    /\ run[r].at = "observe"
    /\ \E h \in Healths :
          IF Healthy(h)
          THEN End(r, "promoted") /\ UNCHANGED <<canaryPct, setBy>>
          ELSE End(r, "rolled_back") /\ ResetToLegacy
    /\ UNCHANGED <<gate, agent, ledger>>

(* CostVerifier.charge: refused once aborted; the scope of the request for *)
(* approval is the run's whenever the run is over its own cap.             *)
MayCharge(a) == ~agent[a].aborted
Charge(a) ==
    /\ agent[a].at = "idle" /\ agent[a].charges < MaxCharges /\ MayCharge(a)
    /\ AddOwn(a)
    /\ agent' = [agent EXCEPT ![a].at = "add", ![a].charges = @ + 1, ![a].seen = spent[Workspace]]
    /\ UNCHANGED <<canaryPct, setBy, gate, caps, killed, lost, highest, run>>
ChargeShared(a) ==
    /\ agent[a].at = "add"
    /\ AddShared(agent[a].seen)
    /\ agent' = [agent EXCEPT ![a].at = "check", ![a].seen = 0]
    /\ UNCHANGED <<canaryPct, setBy, gate, caps, killed, highest, run>>
CheckCharge(a) ==
    /\ agent[a].at = "check"
    /\ IF Over(a)
       THEN /\ Trip(a)
            /\ agent' = [agent EXCEPT ![a].at = "idle", ![a].aborted = TRUE,
                                      ![a].scope = IF OverRun(a) THEN "run" ELSE Workspace]
       ELSE agent' = [agent EXCEPT ![a].at = "idle"] /\ UNCHANGED killed
    /\ UNCHANGED <<canaryPct, setBy, gate, caps, spent, lost, highest, run>>

(* POST canary/flip with an approval, POST canary/rollback. *)
FlipByHand ==
    \E pct \in Percents \ {canaryPct} :
        /\ Route(pct, Human)
        /\ UNCHANGED <<gate, run, agent, ledger>>
RollBack ==
    /\ canaryPct # 0
    /\ ResetToLegacy
    /\ UNCHANGED <<gate, run, agent, ledger>>

(* The process stops and starts again. *)
Restart ==
    /\ \E r \in Runs : run[r].at # "new"
    /\ canaryPct' = 0 /\ setBy' = Nobody
    /\ caps' = Unset /\ spent' = [s \in DOMAIN spent |-> 0] /\ killed' = {}
    /\ lost' = FALSE /\ highest' = 0
    /\ run' = [r \in Runs |-> IF run[r].at \in {"new", "over"} THEN run[r]
                              ELSE [run[r] EXCEPT !.at = "over", !.status = "lost", !.seen = 0]]
    /\ agent' = [a \in Agents |-> [NewAgent EXCEPT !.charges = agent[a].charges]]
    /\ UNCHANGED gate

RunStep(r) == Spend(r) \/ SpendShared(r) \/ Check(r) \/ Smoke(r) \/ Perf(r) \/ Flip(r) \/ Observe(r)
Next ==
    \/ SetCaps \/ Decide \/ FlipByHand \/ RollBack \/ Restart
    \/ \E r \in Runs : Start(r) \/ RunStep(r)
    \/ \E a \in Agents : Charge(a) \/ ChargeShared(a) \/ CheckCharge(a)

Spec == Init /\ [][Next]_vars
----------------------------------------------------------------------------
(* Traffic a run brought to the canary is watched: while the canary serves *)
(* any, whoever set the weight is a person, a run that has yet to observe  *)
(* it, or one that found it healthy.  Whatever else ends a run - a cap, a  *)
(* bad observation, a restart - the slice is back on the legacy system,    *)
(* and another run's reset leaves nothing behind.                          *)
Watching(r) == run[r].at = "observe" \/ (run[r].at \in {"spend", "add", "check"} /\ run[r].next = "observe")
TrafficIsWatched ==
    canaryPct > 0 =>
        \/ setBy = Human
        \/ setBy \in Runs /\ (Watching(setBy) \/ run[setBy].status = "promoted")

(* The cap is a hard ceiling: while no add overwrote another, what a       *)
(* workspace spends exceeds the highest cap it was given by no more than   *)
(* one charge of each run and agent, those that are told to stop and those *)
(* whose check is still to come, however they interleave and although a    *)
(* cap may be lowered under what is spent.                                 *)
RunStopped(r) == run[r].at \in {"check", "over"}
AgentStopped(a) == agent[a].at = "check" \/ agent[a].aborted
Stopped == {r \in Runs : RunStopped(r)} \cup {a \in Agents : AgentStopped(a)}
OverrunIsBounded == ~lost => spent[Workspace] <= highest + Cardinality(Stopped)

TypeOK ==
    /\ canaryPct \in Percents \cup {0} /\ setBy \in Runs \cup {Nobody, Human}
    /\ gate \in {"open", "passed", "failed"}
    /\ caps \in [workspace : Nat, run : Nat]
    /\ spent \in [Spenders \cup {Workspace} -> Nat]
    /\ killed \subseteq Spenders \cup {Workspace}
    /\ lost \in BOOLEAN /\ highest \in Nat
    /\ run \in [Runs -> [at : {"new", "spend", "add", "check", "smoke", "perf", "flip", "observe", "over"},
                         next : {"new", "smoke", "perf", "observe"}, gatePassed : BOOLEAN,
                         status : {"none", "promoted", "rolled_back", "killed", "raised",
                                   "blocked_no_gate", "lost"},
                         pct : Percents \cup {0}, seen : Nat]]
    /\ agent \in [Agents -> [at : {"idle", "add", "check"}, charges : Nat, aborted : BOOLEAN,
                             scope : {"none", "run", Workspace}, seen : Nat]]
=============================================================================
