--------------------------- MODULE ReleaseProofs ---------------------------
(***************************************************************************)
(* Proofs about Release for any runs, agents, caps and observations; and,  *)
(* after them, about Blueprint for any graphs, settings and answers, about *)
(* Planning for any graph, about DomainPlan and SliceDesign for any graph  *)
(* and whatever an agent answers, and about CodegenPlan for any backlog    *)
(* and design.                                                             *)
(***************************************************************************)
EXTENDS Release, Blueprint, PlanInputs, FiniteSetTheorems, FunctionTheorems, SequenceTheorems,
        WellFoundedInduction, TLAPS

(* A run that was promoted is over. *)
PromotedIsOver == \A r \in Runs : run[r].status = "promoted" => run[r].at = "over"

(* An agent that is being charged was not told to stop, and no cap is      *)
(* above the highest.                                                      *)
ChargedGoOn == \A a \in Agents : agent[a].at = "add" => ~agent[a].aborted

CapIsLow == caps.workspace <= highest

(* The inductive invariant. *)
IInv ==
    /\ TypeOK
    /\ PromotedIsOver
    /\ ChargedGoOn
    /\ CapIsLow
    /\ TrafficIsWatched
    /\ OverrunIsBounded

Run ==
    [at : {"new", "spend", "add", "check", "smoke", "perf", "flip", "observe", "over"},
     next : {"new", "smoke", "perf", "observe"}, gatePassed : BOOLEAN,
     status : {"none", "promoted", "rolled_back", "killed", "raised", "blocked_no_gate", "lost"},
     pct : Percents \cup {0}, seen : Nat]

Agent ==
    [at : {"idle", "add", "check"}, charges : Nat, aborted : BOOLEAN, scope : {"none", "run", Workspace},
     seen : Nat]

LEMMA Constants ==
    /\ Percents \subseteq 0..100
    /\ Caps \subseteq [workspace : Nat, run : Nat]
    /\ IsFiniteSet(Runs) /\ IsFiniteSet(Agents) /\ Runs \cap Agents = {}
    /\ Workspace \notin Spenders
    /\ Nobody \notin Runs /\ Human \notin Runs
BY ReleaseAssumption DEF ReleaseAssumption, Workspace, Spenders

(* The stopped are finitely many, and those who stop only add to them. *)
LEMMA StoppedFinite == IsFiniteSet(Stopped) /\ Cardinality(Stopped) \in Nat
<1>1. /\ IsFiniteSet(Runs \cup Agents) /\ Stopped \subseteq Runs \cup Agents
  BY Constants, FS_Union DEF Stopped
<1> QED  BY <1>1, FS_Subset, FS_CardinalityType

LEMMA StoppedFiniteNext == IsFiniteSet(Stopped') /\ Cardinality(Stopped') \in Nat
<1>1. /\ IsFiniteSet(Runs \cup Agents) /\ Stopped' \subseteq Runs \cup Agents
  BY Constants, FS_Union DEF Stopped
<1> QED  BY <1>1, FS_Subset, FS_CardinalityType

(* A step that adds nothing to what the workspace spent and takes nobody   *)
(* off the list of the stopped keeps the bound.                            *)
LEMMA SameSpending ==
    ASSUME TypeOK, TypeOK', OverrunIsBounded, spent'[Workspace] = spent[Workspace],
           UNCHANGED <<lost, highest>>, Stopped \subseteq Stopped'
    PROVE  OverrunIsBounded'
<1>1. Cardinality(Stopped) <= Cardinality(Stopped')
  BY StoppedFiniteNext, FS_Subset
<1>2. spent[Workspace] \in Nat /\ highest \in Nat
  BY DEF TypeOK
<1> SUFFICES ASSUME ~lost PROVE spent[Workspace] <= highest + Cardinality(Stopped')
  BY DEF OverrunIsBounded
<1>3. spent[Workspace] <= highest + Cardinality(Stopped)
  BY DEF OverrunIsBounded
<1> QED  BY <1>1, <1>2, <1>3, StoppedFinite, StoppedFiniteNext

(* A sum below a cap is within the bound, whoever is stopped. *)
LEMMA UnderCap ==
    ASSUME TypeOK, CapIsLow, ~OverWorkspace, UNCHANGED <<spent, lost, highest>>
    PROVE  OverrunIsBounded'
<1>1. /\ spent[Workspace] < caps.workspace /\ caps.workspace <= highest
      /\ spent[Workspace] \in Nat /\ caps.workspace \in Nat /\ highest \in Nat
  BY DEF OverWorkspace, TypeOK, CapIsLow
<1> QED  BY <1>1, StoppedFiniteNext DEF OverrunIsBounded

(* An add to the workspace's sum by somebody who is stopped by it.         *)
LEMMA OneCharge ==
    ASSUME TypeOK, OverrunIsBounded, UNCHANGED highest,
           NEW seen \in Nat, AddShared(seen), NEW s,
           s \notin Stopped, Stopped \cup {s} \subseteq Stopped'
    PROVE  OverrunIsBounded'
<1> SUFFICES ASSUME ~lost' PROVE spent'[Workspace] <= highest + Cardinality(Stopped')
  BY DEF OverrunIsBounded
<1>0. ~lost /\ seen = spent[Workspace]
  BY DEF AddShared
<1>1. Cardinality(Stopped) + 1 <= Cardinality(Stopped')
  <2>1. Cardinality(Stopped \cup {s}) = Cardinality(Stopped) + 1
    BY StoppedFinite, FS_AddElement
  <2>2. Cardinality(Stopped \cup {s}) <= Cardinality(Stopped')
    BY StoppedFiniteNext, FS_Subset
  <2> QED  BY <2>1, <2>2
<1>2. spent'[Workspace] = spent[Workspace] + 1
  BY <1>0, Constants DEF AddShared, TypeOK
<1>3. spent[Workspace] \in Nat /\ highest \in Nat
  BY DEF TypeOK
<1>4. spent[Workspace] <= highest + Cardinality(Stopped)
  BY <1>0 DEF OverrunIsBounded
<1> QED  BY <1>1, <1>2, <1>3, <1>4, StoppedFinite, StoppedFiniteNext

(* A usage keeps the ledger's type, and the spender's own sum is not the   *)
(* workspace's.                                                            *)
LEMMA OwnTyped ==
    ASSUME TypeOK, NEW s \in Spenders, AddOwn(s)
    PROVE  spent' \in [Spenders \cup {Workspace} -> Nat] /\ spent'[Workspace] = spent[Workspace]
BY Constants DEF AddOwn, TypeOK

LEMMA SharedTyped ==
    ASSUME TypeOK, NEW seen \in Nat, AddShared(seen)
    PROVE  spent' \in [Spenders \cup {Workspace} -> Nat] /\ lost' \in BOOLEAN
BY DEF AddShared, TypeOK

(* An agent's state after a restart. *)
LEMMA AgentReset == \A n \in Nat : [NewAgent EXCEPT !.charges = n] \in Agent
BY DEF Agent, NewAgent

LEMMA InitInv == Init => IInv
<1> SUFFICES ASSUME Init PROVE IInv
  OBVIOUS
<1>1. \A r \in Runs : run[r] = NewRun
  BY DEF Init
<1>2. TypeOK
  <2>1. NewRun \in Run
    BY DEF NewRun, Run
  <2>2. run \in [Runs -> Run]
    BY <2>1 DEF Init
  <2>3. caps \in [workspace : Nat, run : Nat]
    BY DEF Init, Unset
  <2>4. agent \in [Agents -> Agent]
    BY DEF Init, NewAgent, Agent
  <2> QED  BY <2>2, <2>3, <2>4 DEF Init, TypeOK, Run, Agent
<1>3. PromotedIsOver
  BY <1>1 DEF PromotedIsOver, NewRun
<1>4. TrafficIsWatched
  BY DEF Init, TrafficIsWatched
<1>5. OverrunIsBounded
  BY StoppedFinite DEF Init, OverrunIsBounded
<1>6. ChargedGoOn /\ CapIsLow
  BY DEF Init, ChargedGoOn, CapIsLow, NewAgent, Unset
<1> QED  BY <1>2, <1>3, <1>4, <1>5, <1>6 DEF IInv

(* What a run's step leaves as it is. *)
Others(r) ==
    /\ run' \in [Runs -> Run]
    /\ \A q \in Runs \ {r} : run'[q] = run[q]
    /\ UNCHANGED <<gate, caps, highest, agent>>

(* The route after a step of a run: as it was while what the run shows of  *)
(* itself is no less, or reset, or its own.                                *)
LEMMA RouteKept ==
    ASSUME TypeOK, TypeOK', TrafficIsWatched, NEW r \in Runs, Others(r),
           \/ canaryPct' = 0
           \/ /\ UNCHANGED <<canaryPct, setBy>>
              /\ Watching(r) \/ run[r].status = "promoted" =>
                    Watching(r)' \/ run'[r].status = "promoted"
           \/ setBy' = r /\ Watching(r)'
    PROVE  TrafficIsWatched'
<1>1. \A q \in Runs \ {r} : Watching(q)' <=> Watching(q)
  BY DEF Others, Watching
<1> QED  BY <1>1 DEF TrafficIsWatched, Others, TypeOK

(* A run that was not stopped, or still is, takes nobody off the list. *)
LEMMA RunStops ==
    ASSUME NEW r \in Runs, Others(r), RunStopped(r) => RunStopped(r)'
    PROVE  /\ Stopped \subseteq Stopped'
           /\ RunStopped(r)' => Stopped \cup {r} \subseteq Stopped'
BY DEF Others, Stopped, RunStopped, AgentStopped

(* The steps of a run: it moves, and the route stays, is reset or is its   *)
(* own.                                                                    *)
LEMMA RunStepInv ==
    ASSUME IInv, NEW r \in Runs, Start(r) \/ RunStep(r)
    PROVE  IInv'
<1> USE Constants DEF IInv, ledger
<1>0. run \in [Runs -> Run] /\ run[r] \in Run
  BY DEF TypeOK, Run
<1>5. UNCHANGED <<caps, highest, agent>>
  BY DEF Start, RunStep, Spend, SpendShared, Check, Smoke, Perf, Flip, Observe
<1>6. ChargedGoOn' /\ CapIsLow'
  BY <1>5 DEF ChargedGoOn, CapIsLow
<1>1. CASE Start(r)
  <2>1. PICK pct \in Percents :
          /\ run[r].at = "new"
          /\ run' = [run EXCEPT ![r] = [NewRun EXCEPT !.at = "spend", !.next = "smoke", !.pct = pct,
                                                      !.gatePassed = gate = "passed"]]
          /\ UNCHANGED <<canaryPct, setBy, gate, agent, ledger>>
    BY <1>1 DEF Start
  <2>2. Others(r) /\ run'[r].at = "spend" /\ run'[r].status = "none"
    BY <2>1, <1>0 DEF Others, NewRun, Run
  <2>3. TypeOK'
    BY <2>1, <2>2 DEF TypeOK, Others, Run
  <2>4. PromotedIsOver'
    BY <2>2 DEF PromotedIsOver, Others
  <2>5. ~Watching(r) /\ run[r].status # "promoted" /\ ~RunStopped(r)
    BY <2>1 DEF Watching, PromotedIsOver, RunStopped
  <2>6. TrafficIsWatched'
    BY <2>1, <2>2, <2>3, <2>5, RouteKept
  <2>7. OverrunIsBounded'
    BY <2>1, <2>2, <2>3, <2>5, RunStops, SameSpending
  <2> QED  BY <1>6, <2>3, <2>4, <2>6, <2>7
<1>2. CASE Spend(r)
  <2>0. spent[Workspace] \in Nat
    BY DEF TypeOK
  <2>1. Others(r) /\ run'[r] = [run[r] EXCEPT !.at = "add", !.seen = spent[Workspace]]
    BY <1>0, <1>2, <2>0 DEF Spend, Others, Run
  <2>2. run'[r].at = "add" /\ run'[r].next = run[r].next /\ run'[r].status = run[r].status
    BY <2>1, <1>0 DEF Run
  <2>3. r \in Spenders /\ AddOwn(r) /\ UNCHANGED <<canaryPct, setBy, caps, gate, killed, lost, highest, agent>>
    BY <1>2 DEF Spend, Spenders
  <2>4. TypeOK' /\ spent'[Workspace] = spent[Workspace]
    BY <2>1, <2>3, OwnTyped DEF TypeOK, Others, Run
  <2>5. PromotedIsOver'
    BY <1>2, <2>1, <2>2 DEF PromotedIsOver, Others, Spend
  <2>6. TrafficIsWatched'
    BY <1>2, <2>1, <2>2, <2>3, <2>4, RouteKept DEF Watching, Spend
  <2>7. Stopped \subseteq Stopped'
    BY <1>2, <2>1, RunStops DEF Spend, RunStopped
  <2>8. OverrunIsBounded'
    BY <2>3, <2>4, <2>7, SameSpending
  <2> QED  BY <1>6, <2>4, <2>5, <2>6, <2>8
<1>7. CASE SpendShared(r)
  <2>1. Others(r) /\ run'[r] = [run[r] EXCEPT !.at = "check", !.seen = 0]
    BY <1>0, <1>7 DEF SpendShared, Others, Run
  <2>2. run'[r].at = "check" /\ run'[r].next = run[r].next /\ run'[r].status = run[r].status
    BY <2>1, <1>0 DEF Run
  <2>3. AddShared(run[r].seen) /\ UNCHANGED <<canaryPct, setBy, caps, gate, killed, highest, agent>>
    BY <1>7 DEF SpendShared
  <2>4. run[r].seen \in Nat
    BY <1>0 DEF Run
  <2>5. TypeOK'
    BY <2>1, <2>3, <2>4, SharedTyped DEF TypeOK, Others, Run
  <2>6. PromotedIsOver'
    BY <1>7, <2>1, <2>2 DEF PromotedIsOver, Others, SpendShared
  <2>7. TrafficIsWatched'
    BY <1>7, <2>1, <2>2, <2>3, <2>5, RouteKept DEF Watching, SpendShared
  <2>8. r \notin Stopped /\ Stopped \cup {r} \subseteq Stopped'
    BY <1>7, <2>1, <2>2, RunStops DEF SpendShared, Stopped, RunStopped
  <2>9. OverrunIsBounded'
    BY <2>3, <2>4, <2>8, OneCharge
  <2> QED  BY <1>6, <2>5, <2>6, <2>7, <2>9
<1>3. CASE Check(r)
  <2>1. \/ /\ run' = [run EXCEPT ![r].at = "over", ![r].status = "killed"]
           /\ canaryPct' = 0 /\ setBy' = Nobody /\ Trip(r) /\ OverWorkspace \in BOOLEAN
        \/ /\ run' = [run EXCEPT ![r].at = run[r].next]
           /\ UNCHANGED <<canaryPct, setBy, killed>> /\ ~OverWorkspace
    BY <1>3 DEF Check, Kill, ResetToLegacy, Route, Over, OverWorkspace
  <2>2. /\ run[r].at = "check" /\ UNCHANGED <<gate, caps, spent, lost, highest, agent>>
        /\ canaryPct' \in Percents \cup {0} /\ setBy' \in Runs \cup {Nobody, Human}
        /\ killed' \subseteq Spenders \cup {Workspace}
    BY <1>3, <2>1 DEF Check, TypeOK, Trip, Spenders
  <2>3. Others(r)
    BY <1>0, <2>1, <2>2 DEF Others, Run
  <2>4. \/ run'[r].at = "over" /\ run'[r].status = "killed"
        \/ run'[r].at = run[r].next /\ run'[r].status = run[r].status
    BY <1>0, <2>1 DEF Run
  <2>5. TypeOK'
    BY <2>2, <2>3 DEF TypeOK, Others, Run
  <2>6. PromotedIsOver'
    BY <2>2, <2>3, <2>4 DEF PromotedIsOver, Others
  <2>7. TrafficIsWatched'
    <3>1. CASE canaryPct' = 0
      BY <3>1 DEF TrafficIsWatched, TypeOK
    <3>2. CASE run' = [run EXCEPT ![r].at = run[r].next] /\ UNCHANGED <<canaryPct, setBy>>
      <4>1. Watching(r) => Watching(r)'
        BY <1>0, <2>2, <3>2 DEF Watching, Run
      <4> QED  BY <2>2, <2>3, <2>5, <3>2, <4>1, RouteKept DEF PromotedIsOver
    <3> QED  BY <2>1, <3>1, <3>2
  <2>8. OverrunIsBounded'
    <3>1. CASE ~OverWorkspace
      BY <2>2, <3>1, UnderCap
    <3>2. CASE run'[r].at = "over"
      BY <2>2, <2>3, <2>5, <3>2, RunStops, SameSpending DEF RunStopped
    <3> QED  BY <1>0, <2>1, <3>1, <3>2 DEF Run
  <2> QED  BY <1>6, <2>5, <2>6, <2>7, <2>8
<1>4. CASE Smoke(r) \/ Perf(r) \/ Flip(r) \/ Observe(r)
  <2>1. /\ run[r].at \in {"smoke", "perf", "flip", "observe"}
        /\ UNCHANGED <<gate, caps, spent, killed, lost, highest, agent>>
    BY <1>4 DEF Smoke, Perf, Flip, Observe
  <2>2. \/ /\ To(r, "perf") \/ (run' = [run EXCEPT ![r].at = "flip"])
           /\ run[r].at \in {"smoke", "perf"}
           /\ UNCHANGED <<canaryPct, setBy>>
        \/ To(r, "observe") /\ Route(run[r].pct, r)
        \/ \E status \in {"rolled_back", "raised", "blocked_no_gate", "promoted"} :
              /\ End(r, status)
              /\ \/ canaryPct' = 0 /\ setBy' = Nobody
                 \/ /\ UNCHANGED <<canaryPct, setBy>>
                    /\ run[r].at = "observe" => status = "promoted"
    BY <1>4 DEF Smoke, Perf, Flip, Observe, ResetToLegacy, Route
  <2>3. Others(r)
    BY <1>0, <2>1, <2>2 DEF Others, To, End, Run
  <2>4. canaryPct' \in Percents \cup {0} /\ setBy' \in Runs \cup {Nobody, Human}
    BY <1>0, <2>2 DEF TypeOK, Route, Run
  <2>5. TypeOK'
    BY <2>1, <2>3, <2>4 DEF TypeOK, Others, Run
  <2>6. \/ run'[r].status = run[r].status
        \/ run'[r].at = "over"
    BY <1>0, <2>2 DEF To, End, Run
  <2>7. PromotedIsOver'
    BY <2>1, <2>3, <2>6 DEF PromotedIsOver, Others
  <2>8. TrafficIsWatched'
    <3>1. run[r].status # "promoted"
      BY <2>1 DEF PromotedIsOver
    <3>2. CASE run[r].at \in {"smoke", "perf"} /\ UNCHANGED <<canaryPct, setBy>>
      BY <2>3, <2>5, <3>1, <3>2, RouteKept DEF Watching
    <3>3. CASE To(r, "observe") /\ Route(run[r].pct, r)
      <4>1. Watching(r)'
        BY <1>0, <3>3 DEF To, Watching, Run
      <4>2. canaryPct' = 0 \/ setBy' = r
        BY <3>3 DEF Route
      <4> QED  BY <2>3, <2>5, <4>1, <4>2, RouteKept
    <3>4. ASSUME NEW status \in {"rolled_back", "raised", "blocked_no_gate", "promoted"},
                 End(r, status),
                 \/ canaryPct' = 0 /\ setBy' = Nobody
                 \/ /\ UNCHANGED <<canaryPct, setBy>>
                    /\ run[r].at = "observe" => status = "promoted"
          PROVE  TrafficIsWatched'
      <4>1. run'[r].status = status
        BY <1>0, <3>4 DEF End, Run
      <4>2. Watching(r) => run[r].at = "observe"
        BY <2>1 DEF Watching
      <4> QED  BY <2>3, <2>5, <3>1, <3>4, <4>1, <4>2, RouteKept
    <3> QED  BY <2>2, <3>2, <3>3, <3>4
  <2>9. OverrunIsBounded'
    <3>1. ~RunStopped(r)
      BY <2>1 DEF RunStopped
    <3> QED  BY <2>1, <2>3, <2>5, <3>1, RunStops, SameSpending
  <2> QED  BY <1>6, <2>5, <2>7, <2>8, <2>9
<1> QED  BY <1>1, <1>2, <1>3, <1>4, <1>7 DEF RunStep

(* The steps of an agent's verifier touch neither route nor runs. *)
LEMMA AgentStepInv ==
    ASSUME IInv, NEW a \in Agents, Charge(a) \/ ChargeShared(a) \/ CheckCharge(a)
    PROVE  IInv'
<1> USE Constants DEF IInv
<1>0. agent \in [Agents -> Agent] /\ agent[a] \in Agent /\ a \in Spenders /\ spent[Workspace] \in Nat
  BY DEF TypeOK, Spenders, Agent
<1>1. UNCHANGED <<canaryPct, setBy, gate, caps, highest, run>>
  BY DEF Charge, ChargeShared, CheckCharge
<1>2. agent' \in [Agents -> Agent] /\ \A b \in Agents \ {a} : agent'[b] = agent[b]
  <2>1. CASE Charge(a)
    BY <1>0, <2>1 DEF Charge, Agent
  <2>2. CASE CheckCharge(a)
    BY <1>0, <2>2 DEF CheckCharge, Agent
  <2>3. CASE ChargeShared(a)
    BY <1>0, <2>3 DEF ChargeShared, Agent
  <2> QED  BY <2>1, <2>2, <2>3
<1>3. /\ spent' \in [Spenders \cup {Workspace} -> Nat] /\ killed' \subseteq Spenders \cup {Workspace}
      /\ lost' \in BOOLEAN
  <2>1. CASE Charge(a)
    BY <1>0, <2>1, OwnTyped DEF Charge, TypeOK
  <2>2. CASE CheckCharge(a)
    BY <1>0, <2>2 DEF CheckCharge, Trip, TypeOK
  <2>3. CASE ChargeShared(a)
    <3>1. agent[a].seen \in Nat
      BY <1>0 DEF Agent
    <3> QED  BY <2>3, <3>1, SharedTyped DEF ChargeShared, TypeOK
  <2> QED  BY <2>1, <2>2, <2>3
<1>4. TypeOK'
  BY <1>1, <1>2, <1>3 DEF TypeOK, Agent
<1>5. PromotedIsOver' /\ TrafficIsWatched' /\ CapIsLow'
  BY <1>1 DEF PromotedIsOver, TrafficIsWatched, Watching, CapIsLow
<1>7. ChargedGoOn'
  <2>1. agent'[a].at = "add" => ~agent'[a].aborted
    BY <1>0 DEF Charge, ChargeShared, CheckCharge, MayCharge, Agent
  <2> QED  BY <1>2, <2>1 DEF ChargedGoOn
<1>6. OverrunIsBounded'
  <2>1. CASE Charge(a)
    <3>1. ~AgentStopped(a)
      BY <2>1 DEF Charge, AgentStopped, MayCharge
    <3>2. Stopped \subseteq Stopped'
      BY <1>1, <1>2, <3>1 DEF Stopped, AgentStopped, RunStopped
    <3>3. spent'[Workspace] = spent[Workspace] /\ UNCHANGED <<lost, highest>>
      BY <1>0, <2>1, OwnTyped DEF Charge
    <3> QED  BY <1>4, <3>2, <3>3, SameSpending
  <2>4. CASE ChargeShared(a)
    <3>1. ~AgentStopped(a) /\ AgentStopped(a)'
      BY <1>0, <2>4 DEF ChargeShared, ChargedGoOn, AgentStopped, Agent
    <3>2. a \notin Stopped /\ Stopped \cup {a} \subseteq Stopped'
      BY <1>1, <1>2, <3>1 DEF Stopped, AgentStopped, RunStopped
    <3>3. agent[a].seen \in Nat /\ AddShared(agent[a].seen)
      BY <1>0, <2>4 DEF ChargeShared, Agent
    <3> QED  BY <1>1, <3>2, <3>3, OneCharge
  <2>2. CASE CheckCharge(a) /\ ~OverWorkspace
    BY <2>2, UnderCap DEF CheckCharge
  <2>3. CASE CheckCharge(a) /\ OverWorkspace
    <3>1. AgentStopped(a)'
      BY <1>0, <2>3 DEF CheckCharge, AgentStopped, Over, Agent
    <3>2. Stopped \subseteq Stopped'
      BY <1>1, <1>2, <3>1 DEF Stopped, AgentStopped, RunStopped
    <3> QED  BY <1>1, <1>4, <2>3, <3>2, SameSpending DEF CheckCharge
  <2> QED  BY <2>1, <2>2, <2>3, <2>4
<1> QED  BY <1>4, <1>5, <1>6, <1>7

LEMMA NextInv == IInv /\ [Next]_vars => IInv'
<1> SUFFICES ASSUME IInv, [Next]_vars PROVE IInv'
  OBVIOUS
<1> USE Constants DEF IInv, ledger
<1>1. CASE SetCaps
  <2>1. PICK c \in Caps : /\ caps' = c /\ c \in [workspace : Nat, run : Nat]
                          /\ highest' = IF c.workspace > highest THEN c.workspace ELSE highest
                          /\ UNCHANGED <<canaryPct, setBy, gate, spent, killed, lost, run, agent>>
    BY <1>1 DEF SetCaps
  <2>3. /\ spent[Workspace] \in Nat /\ highest \in Nat /\ c.workspace \in Nat
        /\ highest' \in Nat /\ highest <= highest' /\ c.workspace <= highest'
    BY <2>1 DEF TypeOK
  <2>2. /\ TypeOK' /\ PromotedIsOver' /\ ChargedGoOn' /\ CapIsLow' /\ TrafficIsWatched'
        /\ Stopped' = Stopped
    BY <2>1, <2>3 DEF TypeOK, PromotedIsOver, ChargedGoOn, CapIsLow, TrafficIsWatched, Watching, Stopped,
                      RunStopped, AgentStopped
  <2>4. OverrunIsBounded'
    BY <2>1, <2>2, <2>3, StoppedFinite DEF OverrunIsBounded
  <2> QED  BY <2>2, <2>4
<1>2. CASE Decide
  BY <1>2 DEF Decide, TypeOK, PromotedIsOver, ChargedGoOn, CapIsLow, TrafficIsWatched, Watching,
              OverrunIsBounded, Stopped, RunStopped, AgentStopped
<1>3. CASE FlipByHand \/ RollBack
  <2>1. \/ canaryPct' = 0 /\ setBy' = Nobody
        \/ canaryPct' \in Percents /\ setBy' = Human
    BY <1>3 DEF FlipByHand, RollBack, ResetToLegacy, Route
  <2>2. UNCHANGED <<gate, caps, spent, killed, lost, highest, run, agent>>
    BY <1>3 DEF FlipByHand, RollBack
  <2>3. TypeOK' /\ PromotedIsOver' /\ ChargedGoOn' /\ CapIsLow' /\ TrafficIsWatched'
    BY <2>1, <2>2 DEF TypeOK, PromotedIsOver, ChargedGoOn, CapIsLow, TrafficIsWatched
  <2>4. OverrunIsBounded'
    BY <2>2 DEF OverrunIsBounded, Stopped, RunStopped, AgentStopped
  <2> QED  BY <2>3, <2>4
<1>4. CASE Restart
  <2>1. ASSUME NEW r \in Runs
        PROVE  /\ run'[r] \in Run
               /\ run'[r].status = "promoted" => run'[r].at = "over"
    <3>1. run[r] \in Run
      BY DEF TypeOK, Run
    <3>2. CASE run[r].at \in {"new", "over"}
      BY <1>4, <3>1, <3>2 DEF Restart, PromotedIsOver
    <3>3. CASE run[r].at \notin {"new", "over"}
      BY <1>4, <3>1, <3>3 DEF Restart, Run
    <3> QED  BY <3>2, <3>3
  <2>2. run' \in [Runs -> Run]
    BY <1>4, <2>1 DEF Restart
  <2>3. /\ spent' \in [Spenders \cup {Workspace} -> Nat] /\ spent'[Workspace] = 0
        /\ caps' \in [workspace : Nat, run : Nat] /\ caps'.workspace = 0 /\ lost' = FALSE /\ highest' = 0
    BY <1>4 DEF Restart, TypeOK, Unset
  <2>4. agent' \in [Agents -> Agent] /\ \A a \in Agents : agent'[a].at = "idle"
    <3>1. \A a \in Agents : agent[a].charges \in Nat
      BY DEF TypeOK
    <3> QED  BY <1>4, <3>1, AgentReset DEF Restart, NewAgent
  <2>5. TypeOK'
    <3>1. canaryPct' = 0 /\ setBy' = Nobody /\ killed' = {} /\ gate' = gate
      BY <1>4 DEF Restart
    <3>2. gate \in {"open", "passed", "failed"}
      BY DEF TypeOK
    <3> QED  BY <2>2, <2>3, <2>4, <3>1, <3>2 DEF TypeOK, Run, Agent
  <2>6. PromotedIsOver' /\ ChargedGoOn' /\ CapIsLow' /\ TrafficIsWatched'
    <3>1. canaryPct' = 0
      BY <1>4 DEF Restart
    <3> QED  BY <2>1, <2>3, <2>4, <3>1 DEF TrafficIsWatched, PromotedIsOver, ChargedGoOn, CapIsLow
  <2>7. OverrunIsBounded'
    BY <2>3, StoppedFiniteNext DEF OverrunIsBounded
  <2> QED  BY <2>5, <2>6, <2>7
<1>5. ASSUME NEW r \in Runs, Start(r) \/ RunStep(r) PROVE IInv'
  BY <1>5, RunStepInv
<1>6. ASSUME NEW a \in Agents, Charge(a) \/ ChargeShared(a) \/ CheckCharge(a) PROVE IInv'
  BY <1>6, AgentStepInv
<1>7. CASE UNCHANGED vars
  BY <1>7 DEF vars, TypeOK, PromotedIsOver, ChargedGoOn, CapIsLow, TrafficIsWatched, Watching,
              OverrunIsBounded, Stopped, RunStopped, AgentStopped
<1> QED  BY <1>1, <1>2, <1>3, <1>4, <1>5, <1>6, <1>7 DEF Next

LEMMA Invariance == Spec => []IInv
<1>1. Init => IInv
  BY InitInv
<1>2. IInv /\ [Next]_vars => IInv'
  BY NextInv
<1> QED  BY <1>1, <1>2, PTL DEF Spec

(* Every variable keeps its type. *)
THEOREM TypeCorrect == Spec => []TypeOK
<1>1. IInv => TypeOK
  BY DEF IInv
<1> QED  BY <1>1, Invariance, PTL

(* No canary traffic that nobody watches (deploy/orchestrator.py,          *)
(* CanaryOrchestrator.run), for any number of runs of the slice.           *)
THEOREM TrafficWatched == Spec => []TrafficIsWatched
<1>1. IInv => TrafficIsWatched
  BY DEF IInv
<1> QED  BY <1>1, Invariance, PTL

(* The workspace's highest cap is overrun by at most one charge of each    *)
(* spender while no add overwrites another (cost/policy.py, record_usage   *)
(* before check).                                                          *)
THEOREM OverrunBounded == Spec => []OverrunIsBounded
<1>1. IInv => OverrunIsBounded
  BY DEF IInv
<1> QED  BY <1>1, Invariance, PTL

----------------------------------------------------------------------------
(* Numbers, and functions of them. *)

(* A set of numbers that 0 is in, and with each its successor, is all.     *)
LEMMA EveryNumber ==
    ASSUME NEW S \in SUBSET Nat, 0 \in S, \A n \in S : n + 1 \in S
    PROVE  S = Nat
<1> DEFINE U == {0..n : n \in Nat \ S}
           R == StrictSubsetOrdering(Nat)
<1>1. \A T \in U : T \subseteq Nat /\ IsFiniteSet(T)
  <2> SUFFICES ASSUME NEW n \in Nat PROVE 0..n \subseteq Nat /\ IsFiniteSet(0..n)
    OBVIOUS
  <2>1. 0 \in Int /\ n \in Int
    OBVIOUS
  <2> QED  BY <2>1, FS_Interval
<1>2. U \subseteq FiniteSubsetsOf(Nat)
  BY <1>1 DEF FiniteSubsetsOf
<1>3. IsWellFoundedOn(R, FiniteSubsetsOf(Nat))
  BY FS_StrictSubsetOrderingWellFounded
<1>4. ASSUME S # Nat PROVE FALSE
  <2>1. U # {}
    BY <1>4
  <2>2. PICK T \in U : \A V \in U : <<V, T>> \notin R
    <3> HIDE DEF U, R
    <3> QED  BY <1>2, <1>3, <2>1, WFMin
  <2>3. PICK n \in Nat \ S : T = 0..n
    OBVIOUS
  <2>4. n # 0 /\ n - 1 \in Nat
    OBVIOUS
  <2>5. n - 1 \notin S
    BY <2>3, <2>4
  <2>6. 0..(n - 1) \in U /\ 0..(n - 1) \subseteq T /\ 0..(n - 1) # T
    BY <2>3, <2>4, <2>5
  <2>7. <<0..(n - 1), T>> \in R
    BY <1>1, <2>6 DEF StrictSubsetOrdering
  <2> QED  BY <2>2, <2>6, <2>7
<1> QED  BY <1>4

(* What is computed step by step from a start exists. *)
LEMMA Iteration ==
    ASSUME NEW X, NEW x \in X, NEW step \in [X -> X]
    PROVE  \E f \in [Nat -> X] : f[0] = x /\ \A n \in Nat : f[n + 1] = step[f[n]]
<1> DEFINE Upto(n, h) == h \in [0..n -> X] /\ h[0] = x /\ \A i \in 0..(n - 1) : h[i + 1] = step[h[i]]
           Some == {n \in Nat : \E h : Upto(n, h)}
           Alike(h, k, n) == \A i \in 0..n : h[i] = k[i]
<1>1. Some = Nat
  <2>1. 0 \in Some
    <3>1. Upto(0, [i \in 0..0 |-> x])
      OBVIOUS
    <3> QED  BY <3>1
  <2>2. ASSUME NEW n \in Some PROVE n + 1 \in Some
    <3>1. PICK h : Upto(n, h)
      OBVIOUS
    <3> DEFINE g == [i \in 0..(n + 1) |-> IF i = n + 1 THEN step[h[n]] ELSE h[i]]
    <3>2. h[n] \in X /\ n \in Nat
      BY <3>1
    <3>3. g \in [0..(n + 1) -> X]
      BY <3>1, <3>2
    <3>4. g[0] = x
      BY <3>1, <3>2
    <3>5. \A i \in 0..n : g[i + 1] = step[g[i]]
      BY <3>1, <3>2
    <3>6. Upto(n + 1, g)
      <4>1. n + 1 \in Nat /\ (n + 1) - 1 = n
        BY <3>2
      <4> HIDE DEF g
      <4> QED  BY <3>3, <3>4, <3>5, <4>1
    <3> HIDE DEF g, Upto
    <3> QED  BY <3>2, <3>6
  <2>3. Some \in SUBSET Nat
    OBVIOUS
  <2> HIDE DEF Some
  <2> QED  BY <2>1, <2>2, <2>3, EveryNumber
<1>2. ASSUME NEW n \in Nat, NEW m \in Nat, NEW h, NEW k, Upto(n, h), Upto(m, k), NEW i \in Nat, i <= n, i <= m
      PROVE  h[i] = k[i]
  <2> DEFINE Agree == {j \in Nat : j <= n /\ j <= m => h[j] = k[j]}
  <2>1. 0 \in Agree
    BY <1>2
  <2>2. ASSUME NEW j \in Agree PROVE j + 1 \in Agree
    <3> SUFFICES ASSUME j + 1 <= n, j + 1 <= m PROVE h[j + 1] = k[j + 1]
      OBVIOUS
    <3>1. j \in Nat /\ j \in 0..(n - 1) /\ j \in 0..(m - 1) /\ h[j] = k[j]
      OBVIOUS
    <3> QED  BY <1>2, <3>1
  <2>3. Agree \in SUBSET Nat
    OBVIOUS
  <2>4. Agree = Nat
    <3> HIDE DEF Agree
    <3> QED  BY <2>1, <2>2, <2>3, EveryNumber
  <2>5. i \in Agree
    BY <2>4
  <2> QED  BY <1>2, <2>5
<1> DEFINE H == [n \in Nat |-> CHOOSE h : Upto(n, h)]
           f == [n \in Nat |-> H[n][n]]
<1>3. ASSUME NEW n \in Nat PROVE Upto(n, H[n])
  <2>1. \E h : Upto(n, h)
    BY <1>1
  <2> HIDE DEF Upto
  <2> QED  BY <2>1
<1>4. \A n \in Nat : f[n] \in X
  <2> SUFFICES ASSUME NEW n \in Nat PROVE H[n][n] \in X
    OBVIOUS
  <2>1. H[n] \in [0..n -> X] /\ n \in 0..n
    <3>1. Upto(n, H[n])
      BY <1>3
    <3> HIDE DEF H
    <3> QED  BY <3>1
  <2> HIDE DEF H
  <2> QED  BY <2>1
<1>5. f[0] = x
  BY <1>3
<1>6. ASSUME NEW n \in Nat PROVE f[n + 1] = step[f[n]]
  <2>1. Upto(n, H[n]) /\ Upto(n + 1, H[n + 1]) /\ n + 1 \in Nat
    <3>1. n + 1 \in Nat
      OBVIOUS
    <3> HIDE DEF Upto, H
    <3> QED  BY <1>3, <3>1
  <2>2. H[n + 1][n] = H[n][n]
    <3> HIDE DEF Upto, H
    <3>1. n <= n /\ n <= n + 1
      OBVIOUS
    <3> QED  BY <1>2, <2>1, <3>1
  <2>3. H[n + 1][n + 1] = step[H[n + 1][n]]
    <3>1. n \in 0..((n + 1) - 1)
      OBVIOUS
    <3> HIDE DEF H
    <3> QED  BY <2>1, <3>1
  <2>4. f[n] = H[n][n] /\ f[n + 1] = H[n + 1][n + 1]
    OBVIOUS
  <2> QED  BY <2>2, <2>3, <2>4
<1>7. f \in [Nat -> X]
  <2>1. f = [n \in Nat |-> f[n]]
    OBVIOUS
  <2> HIDE DEF f
  <2> QED  BY <1>4, <2>1
<1> HIDE DEF f
<1> QED  BY <1>5, <1>6, <1>7

(* The least of finitely many numbers. *)
LEMMA LeastOfNumbers ==
    ASSUME NEW S \in SUBSET Int, IsFiniteSet(S), S # {}
    PROVE  Min(S) \in S /\ Min(S) \in Int /\ \A y \in S : Min(S) <= y
<1> DEFINE Under(x) == {y \in S : y < x}
           U == {Under(x) : x \in S}
           R == StrictSubsetOrdering(S)
<1>1. \A T \in U : T \subseteq S /\ IsFiniteSet(T)
  <2> SUFFICES ASSUME NEW x \in S PROVE Under(x) \subseteq S /\ IsFiniteSet(Under(x))
    OBVIOUS
  <2>1. Under(x) \in SUBSET S
    OBVIOUS
  <2> QED  BY <2>1, FS_Subset
<1>2. U \subseteq FiniteSubsetsOf(S) /\ U # {}
  <2> HIDE DEF Under
  <2>1. U # {}
    OBVIOUS
  <2> HIDE DEF U
  <2> QED  BY <1>1, <2>1 DEF FiniteSubsetsOf
<1>3. IsWellFoundedOn(R, FiniteSubsetsOf(S))
  BY FS_StrictSubsetOrderingWellFounded
<1>4. PICK T \in U : \A V \in U : <<V, T>> \notin R
  <2> HIDE DEF U, R
  <2> QED  BY <1>2, <1>3, WFMin
<1>5. PICK x \in S : T = Under(x)
  OBVIOUS
<1>6. ASSUME NEW y \in S, y < x PROVE FALSE
  <2>1. Under(y) \subseteq T /\ y \in T /\ y \notin Under(y)
    <3>1. x \in Int /\ y \in Int /\ \A z \in S : z \in Int
      OBVIOUS
    <3>2. \A z \in S : z < y => z < x
      BY <1>6, <3>1
    <3>3. ~(y < y)
      BY <3>1
    <3> HIDE DEF U
    <3> QED  BY <1>5, <1>6, <3>2, <3>3
  <2>2. Under(y) \in U
    <3> HIDE DEF Under
    <3> QED  OBVIOUS
  <2> HIDE DEF Under, U
  <2>3. <<Under(y), T>> \in R
    BY <1>1, <2>1, <2>2 DEF StrictSubsetOrdering
  <2> QED  BY <1>4, <2>3, <2>2
<1>7. \E z \in S : \A y \in S : z <= y
  BY <1>6
<1> QED  BY <1>7 DEF Min

(* The image of finitely many things. *)
LEMMA FiniteImage ==
    ASSUME NEW A, IsFiniteSet(A), NEW f, DOMAIN f = A
    PROVE  IsFiniteSet({f[a] : a \in A})
<1> DEFINE T == {f[a] : a \in A}
           g == [a \in A |-> f[a]]
<1>1. g \in [A -> T] /\ \A t \in T : \E a \in A : g[a] = t
  OBVIOUS
<1> HIDE DEF g, T
<1>2. g \in Surjection(A, T)
  BY <1>1 DEF Surjection
<1>3. IsFiniteSet(T)
  BY <1>2, FS_Surjection
<1> QED  BY <1>3 DEF T

(* The greatest of them. *)
LEMMA GreatestOfNumbers ==
    ASSUME NEW S \in SUBSET Int, IsFiniteSet(S), S # {}
    PROVE  Max(S) \in S /\ \A y \in S : Max(S) >= y
<1> DEFINE f == [x \in S |-> 0 - x]
           T == {f[x] : x \in S}
<1>1. IsFiniteSet(T) /\ T \in SUBSET Int /\ T # {}
  <2>1. IsFiniteSet(T)
    <3> HIDE DEF f
    <3>1. DOMAIN f = S
      BY DEF f
    <3> QED  BY <3>1, FiniteImage
  <2>2. \A x \in S : f[x] \in Int
    OBVIOUS
  <2> HIDE DEF f
  <2>3. T \in SUBSET Int /\ T # {}
    BY <2>2
  <2> QED  BY <2>1, <2>3
<1>2. Min(T) \in T /\ \A t \in T : Min(T) <= t
  <2> HIDE DEF T
  <2> QED  BY <1>1, LeastOfNumbers
<1>3. PICK x \in S : Min(T) = 0 - x
  BY <1>2
<1>4. \A y \in S : x >= y
  <2> SUFFICES ASSUME NEW y \in S PROVE x >= y
    OBVIOUS
  <2>1. 0 - y \in T /\ x \in Int /\ y \in Int
    OBVIOUS
  <2>2. Min(T) <= 0 - y
    BY <1>2, <2>1
  <2> HIDE DEF T
  <2> QED  BY <1>3, <2>1, <2>2
<1> QED  BY <1>4 DEF Max

----------------------------------------------------------------------------

(* The blueprint stage (Blueprint).  A verdict is a number, and not "high" *)
(* for a draft that cites what the graph does not have.                    *)
Stops == {"idle", "map", "reduce", "judge", "again", "save", "commit", "load", "improve"}

Sound(a) ==
    /\ a.report.weighted \in Int
    /\ Ghosts(graph, a.draft) # {} => a.report.rating # "high"

(* The best attempt is one of those made, and none is better. *)
Foremost(a, reports) ==
    /\ \E k \in 1..Len(reports) : reports[k] = a.report
    /\ \A k \in 1..Len(reports) : reports[k].weighted <= a.report.weighted

(* None of the first n attempts was rated high. *)
NoneHigh(reports, n) == \A k \in 1..n : reports[k].rating # "high"

BestSoFar ==
    /\ IsList(history) /\ \A k \in 1..Len(history) : history[k].weighted \in Int
    /\ best["blueprint"] = NoAttempt <=> Len(history) = 0
    /\ Len(history) > 0 => Sound(best["blueprint"]) /\ Foremost(best["blueprint"], history)
    /\ pc["blueprint-improve"] = "save" => Sound(best["blueprint-improve"])

(* How many attempts there are, and why there was another. *)
Tried ==
    /\ pc["blueprint"] \in {"map", "reduce", "judge"} =>
          Len(history) <= MaxRetries(graph, setting) /\ NoneHigh(history, Len(history))
    /\ pc["blueprint"] \in {"again", "save", "commit"} =>
          /\ Len(history) \in 1..(MaxRetries(graph, setting) + 1)
          /\ NoneHigh(history, Len(history) - 1)
    /\ pc["blueprint"] = "idle" => Len(history) = 0

Version(v) ==
    /\ v.by = "blueprint" =>
          /\ Len(v.history) \in 1..(MaxRetries(graph, setting) + 1)
          /\ IsList(v.history) /\ Foremost(v.attempt, v.history)
          /\ NoneHigh(v.history, Len(v.history) - 1)
    /\ Sound(v.attempt)

(* A job that is somewhere is running, so that no other is posted. *)
Busy ==
    /\ job = [j \in Jobs |-> job[j]]
    /\ \A j \in Jobs : pc[j] # "idle" => job[j] = "running"

(* The inductive invariant. *)
BlueprintInv ==
    /\ pc = [j \in Jobs |-> pc[j]] /\ \A j \in Jobs : pc[j] \in Stops
    /\ best = [j \in Jobs |-> best[j]]
    /\ MaxRetries(graph, setting) \in Nat
    /\ Busy /\ BestSoFar /\ Tried
    /\ IsList(versions) /\ \A k \in 1..Len(versions) : Version(versions[k])

LEMMA Appended ==
    ASSUME NEW l, IsList(l), NEW e
    PROVE  /\ IsList(Append(l, e)) /\ Len(Append(l, e)) = Len(l) + 1
           /\ Append(l, e)[Len(l) + 1] = e
           /\ \A k \in 1..Len(l) : Append(l, e)[k] = l[k]
<1> DEFINE S == {l[k] : k \in 1..Len(l)} \cup {e}
<1>1. l \in Seq(S)
  <2>1. l \in [1..Len(l) -> S] /\ Len(l) \in Nat
    BY DEF IsList
  <2> QED  BY <2>1, SeqDef
<1> HIDE DEF S
<1>2. e \in S
  BY DEF S
<1>3. /\ Append(l, e) \in Seq(S) /\ Len(Append(l, e)) = Len(l) + 1
      /\ Append(l, e)[Len(l) + 1] = e
      /\ \A k \in 1..Len(l) : Append(l, e)[k] = l[k]
  BY <1>1, <1>2, AppendProperties
<1>4. ASSUME NEW m \in Seq(S) PROVE IsList(m)
  BY LenProperties DEF IsList
<1>5. IsList(Append(l, e))
  BY <1>3, <1>4
<1> QED  BY <1>3, <1>5

(* A score is one of five, and what the judge makes of them is a number,   *)
(* a rating, and not the best one without grounds.                         *)
LEMMA Verdicts ==
    ASSUME NEW d, NEW answer, NEW up \in BOOLEAN
    PROVE  LET report == Judge(graph, d, answer, up)
           IN  report.rating # "none" /\ Sound(Attempt(d, report))
<1> DEFINE raw == [x \in Dimensions |-> Score(answer, x)]
           scores == Forced(raw, Ghosts(graph, d))
           report == Judge(graph, d, answer, up)
<1>1. \A x \in Dimensions : raw[x] \in 1..5
  BY DEF Score, Coerce
<1> HIDE DEF raw
<1>2. raw = [x \in Dimensions |-> raw[x]] /\ "accuracy" \in Dimensions
  BY DEF raw, Dimensions
<1>3. \A x \in Dimensions : scores[x] \in 1..5
  BY <1>1, <1>2 DEF Forced
<1>4. Ghosts(graph, d) # {} => scores["accuracy"] <= 2
  BY <1>1, <1>2 DEF Forced
<1>5. /\ report.weighted = WeightedScore(scores)
      /\ report.rating = Rate(scores, up)
  BY DEF Judge, raw
<1> HIDE DEF scores, report
<1>6. WeightedScore(scores) \in Int
  BY <1>3 DEF WeightedScore, Dimensions
<1>7. Rate(scores, up) \in {"high", "medium", "low"}
  BY DEF Rate
<1>8. Rate(scores, up) = "high" => scores["accuracy"] >= 3
  BY <1>2 DEF Rate
<1>9. Ghosts(graph, d) # {} => Rate(scores, up) # "high"
  BY <1>2, <1>3, <1>4, <1>8
<1> QED  BY <1>5, <1>6, <1>7, <1>9 DEF Sound, Attempt, report

(* What a version is does not change with what the jobs do next.           *)
LEMMA VersionsStand ==
    ASSUME UNCHANGED <<graph, setting>>
    PROVE  /\ \A v : Version(v)' = Version(v)
           /\ \A a : Sound(a)' = Sound(a)
BY DEF Version, Sound, Foremost, NoneHigh, IsList

LEMMA BlueprintStarts == BlueprintInit => BlueprintInv
<1> SUFFICES ASSUME BlueprintInit PROVE BlueprintInv
  OBVIOUS
<1>1. /\ history = <<>> /\ versions = <<>> /\ Len(history) = 0 /\ Len(versions) = 0
      /\ pc = [j \in Jobs |-> "idle"] /\ best = [j \in Jobs |-> NoAttempt]
      /\ "blueprint" \in Jobs /\ "blueprint-improve" \in Jobs
  BY DEF BlueprintInit, Jobs
<1>2. IsList(<<>>)
  BY DEF IsList
<1>3. MaxRetries(graph, setting) \in Nat
  BY BlueprintAssumption DEF BlueprintInit, MaxRetries
<1>4. BestSoFar
  BY <1>1, <1>2 DEF BestSoFar
<1>5. Tried
  BY <1>1 DEF Tried
<1>6. Busy
  BY <1>1 DEF BlueprintInit, Busy
<1> QED  BY <1>1, <1>2, <1>3, <1>4, <1>5, <1>6 DEF BlueprintInv, Stops

(* An attempt is judged, and kept if it is the best so far.                *)
LEMMA JudgeAttemptKeeps == ASSUME BlueprintInv, JudgeAttempt PROVE BestSoFar' /\ Tried'
<1>1. PICK answer \in Answers, up \in BOOLEAN :
          LET report == Judge(graph, draft["blueprint"], answer, up)
          IN  /\ history' = Append(history, report)
              /\ best' = IF Improves(report)
                         THEN [best EXCEPT !["blueprint"] = Attempt(draft["blueprint"], report)]
                         ELSE best
  BY DEF JudgeAttempt, Recorded
<1> DEFINE report == Judge(graph, draft["blueprint"], answer, up)
           made == Attempt(draft["blueprint"], report)
           n == Len(history)
           old == best["blueprint"]
<1>2. /\ pc["blueprint"] = "judge" /\ pc' = [pc EXCEPT !["blueprint"] = "again"]
      /\ UNCHANGED <<graph, setting>>
      /\ IsList(history) /\ (old = NoAttempt <=> n = 0)
      /\ n \in Nat /\ MaxRetries(graph, setting) \in Nat
      /\ "blueprint" \in Jobs /\ "blueprint-improve" \in Jobs
  BY DEF JudgeAttempt, Go, env, BlueprintInv, BestSoFar, IsList, Jobs
<1>3. report.rating # "none" /\ Sound(made) /\ made.report = report
  BY Verdicts DEF Attempt
<1>4. made # NoAttempt
  <2>1. NoAttempt.report.rating = "none"
    BY DEF NoAttempt, Attempt
  <2> QED  BY <1>3, <2>1
<1>5. /\ history' = Append(history, report)
      /\ best' = IF Improves(report) THEN [best EXCEPT !["blueprint"] = made] ELSE best
  BY <1>1
<1> HIDE DEF report, made
<1>6. /\ IsList(history') /\ Len(history') = n + 1 /\ history'[n + 1] = report
      /\ \A k \in 1..n : history'[k] = history[k]
  BY <1>2, <1>5, Appended
<1>7. /\ \A k \in 1..(n + 1) : history'[k].weighted \in Int
      /\ report.weighted \in Int
  BY <1>2, <1>3, <1>6 DEF BlueprintInv, BestSoFar, Sound
<1>8. /\ best' = [j \in Jobs |-> best'[j]]
      /\ best'["blueprint-improve"] = best["blueprint-improve"]
      /\ best'["blueprint"] = IF Improves(report) THEN made ELSE old
  BY <1>2, <1>5 DEF BlueprintInv
<1>9. /\ best'["blueprint"] # NoAttempt
      /\ Sound(best'["blueprint"]) /\ Foremost(best'["blueprint"], history')
  <2>1. CASE n = 0
    <3>1. best'["blueprint"] = made
      BY <1>2, <1>8, <2>1 DEF Improves
    <3>2. Foremost(made, history')
      BY <1>3, <1>6, <1>7, <2>1 DEF Foremost
    <3> QED  BY <1>3, <1>4, <3>1, <3>2
  <2>2. CASE n > 0
    <3>1. /\ old # NoAttempt /\ Sound(old)
          /\ \E k \in 1..n : history[k] = old.report
          /\ \A k \in 1..n : history[k].weighted <= old.report.weighted
      BY <1>2, <2>2 DEF BlueprintInv, BestSoFar, Foremost
    <3>2. /\ old.report.weighted \in Int
          /\ \A k \in 1..n : history[k].weighted \in Int
      BY <3>1 DEF BlueprintInv, BestSoFar, Sound
    <3>3. CASE Improves(report)
      <4>1. report.weighted > old.report.weighted
        BY <3>1, <3>3 DEF Improves, Better
      <4>2. \A k \in 1..n : history'[k].weighted <= report.weighted
        BY <1>6, <1>7, <3>1, <3>2, <4>1
      <4>3. \A k \in 1..(n + 1) : history'[k].weighted <= report.weighted
        BY <1>2, <1>6, <1>7, <4>2
      <4>4. Foremost(made, history')
        BY <1>2, <1>3, <1>6, <4>3 DEF Foremost
      <4> QED  BY <1>3, <1>4, <1>8, <3>3, <4>4
    <3>4. CASE ~Improves(report)
      <4>1. report.weighted <= old.report.weighted
        BY <1>7, <3>1, <3>2, <3>4 DEF Improves, Better
      <4>2. \A k \in 1..(n + 1) : history'[k].weighted <= old.report.weighted
        BY <1>2, <1>6, <3>1, <4>1
      <4>3. \E k \in 1..(n + 1) : history'[k] = old.report
        BY <1>2, <1>6, <3>1
      <4>4. Foremost(old, history')
        BY <1>6, <4>2, <4>3 DEF Foremost
      <4> QED  BY <1>8, <3>1, <3>4, <4>4
    <3> QED  BY <3>3, <3>4
  <2> QED  BY <1>2, <2>1, <2>2
<1>10. pc'["blueprint"] = "again" /\ pc'["blueprint-improve"] = pc["blueprint-improve"]
  BY <1>2 DEF BlueprintInv
<1>11. BestSoFar'
  <2>1. Sound(best["blueprint"])' = Sound(best'["blueprint"])
    BY <1>2 DEF Sound
  <2>2. Foremost(best["blueprint"], history)' = Foremost(best'["blueprint"], history')
    BY DEF Foremost
  <2>3. pc'["blueprint-improve"] = "save" => Sound(best["blueprint-improve"])'
    BY <1>2, <1>8, <1>10 DEF BlueprintInv, BestSoFar, Sound
  <2> QED  BY <1>2, <1>6, <1>7, <1>9, <2>1, <2>2, <2>3 DEF BestSoFar, IsList
<1>12. Tried'
  <2>1. n <= MaxRetries(graph, setting) /\ NoneHigh(history, n)
    BY <1>2 DEF BlueprintInv, Tried
  <2>2. NoneHigh(history', n) /\ Len(history') - 1 = n
    BY <1>2, <1>6, <2>1 DEF NoneHigh
  <2> QED  BY <1>2, <1>6, <1>10, <2>1, <2>2 DEF Tried, NoneHigh, MaxRetries, Small
<1> QED  BY <1>11, <1>12

(* A step that judges nothing and saves nothing. *)
LEMMA QuietKeeps ==
    ASSUME BlueprintInv, UNCHANGED <<graph, setting, history, best, versions>>,
           pc' = [j \in Jobs |-> pc'[j]], \A j \in Jobs : pc'[j] \in Stops,
           pc'["blueprint-improve"] = "save" => pc["blueprint-improve"] = "save",
           Busy', Tried'
    PROVE  BlueprintInv'
<1>1. BestSoFar'
  <2>1. Sound(best["blueprint"])' = Sound(best["blueprint"])
        /\ Sound(best["blueprint-improve"])' = Sound(best["blueprint-improve"])
    BY DEF Sound
  <2>2. Foremost(best["blueprint"], history)' = Foremost(best["blueprint"], history)
    BY DEF Foremost
  <2> QED  BY <2>1, <2>2 DEF BlueprintInv, BestSoFar, IsList
<1>2. \A k \in 1..Len(versions) : Version(versions[k])'
  BY VersionsStand DEF BlueprintInv
<1>3. (MaxRetries(graph, setting) \in Nat)'
  BY DEF BlueprintInv, MaxRetries, Small
<1> QED  BY <1>1, <1>2, <1>3 DEF BlueprintInv, IsList

(* A job that ends leaves nothing behind.                                  *)
LEMMA EndsKeep ==
    ASSUME BlueprintInv, UNCHANGED <<graph, setting>>,
           pc' = [j \in Jobs |-> pc'[j]], best' = [j \in Jobs |-> best'[j]],
           \A j \in Jobs : \/ pc'[j] = "idle" /\ best'[j] = NoAttempt
                           \/ pc'[j] = pc[j] /\ best'[j] = best[j],
           \/ pc'["blueprint"] = "idle" /\ history' = <<>> /\ best'["blueprint"] = NoAttempt
           \/ /\ history' = history /\ pc'["blueprint"] = pc["blueprint"]
              /\ best'["blueprint"] = best["blueprint"],
           IsList(versions'), \A k \in 1..Len(versions') : Version(versions'[k]), Busy'
    PROVE  BlueprintInv'
<1>1. /\ "blueprint" \in Jobs /\ "blueprint-improve" \in Jobs
      /\ Len(<<>>) = 0 /\ IsList(<<>>)
  BY DEF Jobs, IsList
<1>2. BestSoFar'
  <2>1. /\ \A a : Sound(a)' = Sound(a)
        /\ Sound(best["blueprint"])' = Sound(best'["blueprint"])
        /\ Sound(best["blueprint-improve"])' = Sound(best'["blueprint-improve"])
    BY DEF Sound
  <2>2. Foremost(best["blueprint"], history)' = Foremost(best'["blueprint"], history')
    BY DEF Foremost
  <2>3. CASE pc'["blueprint"] = "idle" /\ history' = <<>> /\ best'["blueprint"] = NoAttempt
    BY <1>1, <2>1, <2>2, <2>3 DEF BlueprintInv, BestSoFar, IsList
  <2>4. CASE /\ history' = history /\ pc'["blueprint"] = pc["blueprint"]
             /\ best'["blueprint"] = best["blueprint"]
    BY <1>1, <2>1, <2>2, <2>4 DEF BlueprintInv, BestSoFar, IsList
  <2> QED  BY <2>3, <2>4
<1>3. Tried'
  <2>1. CASE pc'["blueprint"] = "idle" /\ history' = <<>>
    BY <1>1, <2>1 DEF Tried
  <2>2. CASE history' = history /\ pc'["blueprint"] = pc["blueprint"]
    BY <2>2 DEF BlueprintInv, Tried, NoneHigh, MaxRetries, Small
  <2> QED  BY <2>1, <2>2
<1>4. \A k \in 1..Len(versions') : Version(versions[k])'
  BY DEF Version, Sound, Foremost, NoneHigh, IsList, MaxRetries, Small
<1>5. (MaxRetries(graph, setting) \in Nat)' /\ \A j \in Jobs : pc'[j] \in Stops
  BY DEF BlueprintInv, MaxRetries, Small, Stops
<1> QED  BY <1>2, <1>3, <1>4, <1>5 DEF BlueprintInv, IsList

(* The version a job saves: its best attempt.                              *)
LEMMA SavedVersion ==
    ASSUME BlueprintInv, NEW j \in Jobs, pc[j] = "save", versions' = Saved(j)
    PROVE  /\ IsList(versions') /\ \A k \in 1..Len(versions') : Version(versions'[k])
           /\ Len(versions') > 0
<1> DEFINE v == [by |-> j, base |-> IF j = "blueprint" THEN 0 ELSE base, attempt |-> best[j],
                 history |-> IF j = "blueprint" THEN history ELSE <<best[j].report>>]
<1>1. /\ v.by = j /\ v.attempt = best[j]
      /\ j = "blueprint" => v.history = history
  OBVIOUS
<1>2. versions' = Append(versions, v)
  BY DEF Saved
<1> HIDE DEF v
<1>3. Version(v)
  <2>1. CASE j = "blueprint"
    <3>1. /\ Len(history) \in 1..(MaxRetries(graph, setting) + 1)
          /\ NoneHigh(history, Len(history) - 1)
      BY <2>1 DEF BlueprintInv, Tried
    <3>2. IsList(history) /\ Sound(best["blueprint"]) /\ Foremost(best["blueprint"], history)
      BY <3>1 DEF BlueprintInv, BestSoFar
    <3> QED  BY <1>1, <2>1, <3>1, <3>2 DEF Version
  <2>2. CASE j = "blueprint-improve"
    BY <1>1, <2>2 DEF Version, BlueprintInv, BestSoFar
  <2> QED  BY <2>1, <2>2 DEF Jobs
<1> QED  BY <1>2, <1>3, Appended DEF BlueprintInv, IsList

LEMMA BlueprintStep == BlueprintInv /\ [BlueprintNext]_blueprintVars => BlueprintInv'
<1> SUFFICES ASSUME BlueprintInv, [BlueprintNext]_blueprintVars PROVE BlueprintInv'
  OBVIOUS
<1> USE DEF Go, env
<1>0. /\ pc = [j \in Jobs |-> pc[j]] /\ best = [j \in Jobs |-> best[j]]
      /\ \A j \in Jobs : pc[j] \in Stops
      /\ Jobs = {"blueprint", "blueprint-improve"} /\ "blueprint" # "blueprint-improve"
      /\ Len(history) \in Nat
  BY DEF BlueprintInv, Jobs, BestSoFar, IsList
<1>1. ASSUME NEW j \in Jobs, Post(j) PROVE BlueprintInv'
  <2>1. /\ pc' = [pc EXCEPT ![j] = IF j = "blueprint" THEN "map" ELSE "load"]
        /\ UNCHANGED <<graph, setting, history, best, versions>>
    BY <1>1 DEF Post
  <2>2. pc' = [i \in Jobs |-> pc'[i]] /\ (\A i \in Jobs : pc'[i] \in Stops)
        /\ (pc'["blueprint-improve"] = "save" => pc["blueprint-improve"] = "save")
    BY <1>0, <2>1 DEF Stops
  <2>3. Tried'
    <3>1. j = "blueprint" => Len(history) = 0
      BY <1>1 DEF BlueprintInv, Tried, Busy, Post
    <3>2. CASE j = "blueprint"
      BY <1>0, <2>1, <3>1, <3>2 DEF BlueprintInv, Tried, NoneHigh, MaxRetries, Small
    <3>3. CASE j # "blueprint"
      BY <1>0, <2>1, <3>3 DEF BlueprintInv, Tried, NoneHigh, MaxRetries, Small
    <3> QED  BY <3>2, <3>3
  <2>4. Busy'
    BY <1>0, <1>1, <2>1 DEF Post, BlueprintInv, Busy
  <2> QED  BY <2>1, <2>2, <2>3, <2>4, QuietKeeps
<1>2. ASSUME NEW j \in Jobs, Raise(j) PROVE BlueprintInv'
  <2>1. Busy'
    BY <1>0, <1>2 DEF Raise, Leave, BlueprintInv, Busy
  <2> QED  BY <1>0, <1>2, <2>1, EndsKeep DEF Raise, Leave, BlueprintInv
<1>3. CASE BlueprintRestarts
  <2>1. Busy'
    BY <1>0, <1>3 DEF BlueprintRestarts, Busy
  <2> QED  BY <1>0, <1>3, <2>1, EndsKeep DEF BlueprintRestarts, BlueprintInv
<1>4. CASE Commit
  <2>1. Busy'
    BY <1>0, <1>4 DEF Commit, Leave, BlueprintInv, Busy
  <2> QED  BY <1>0, <1>4, <2>1, EndsKeep DEF Commit, Leave, BlueprintInv
<1>5. CASE SaveImproved
  <2>1. IsList(versions') /\ \A k \in 1..Len(versions') : Version(versions'[k])
    BY <1>0, <1>5, SavedVersion DEF SaveImproved
  <2>2. Busy'
    BY <1>0, <1>5 DEF SaveImproved, Leave, BlueprintInv, Busy
  <2> QED  BY <1>0, <1>5, <2>1, <2>2, EndsKeep DEF SaveImproved, Leave
<1>6. CASE Map \/ Reduce
  <2>1. /\ pc["blueprint"] \in {"map", "reduce"}
        /\ \E p \in {"reduce", "judge"} : pc' = [pc EXCEPT !["blueprint"] = p]
        /\ UNCHANGED <<graph, setting, history, best, versions>>
    BY <1>6 DEF Map, Reduce
  <2>2. pc' = [i \in Jobs |-> pc'[i]] /\ (\A i \in Jobs : pc'[i] \in Stops)
        /\ pc'["blueprint-improve"] = pc["blueprint-improve"]
        /\ pc'["blueprint"] \in {"reduce", "judge"}
    BY <1>0, <2>1 DEF Stops
  <2>3. Tried'
    BY <2>1, <2>2 DEF BlueprintInv, Tried, NoneHigh, MaxRetries, Small
  <2>4. Busy'
    BY <1>0, <1>6, <2>1 DEF Map, Reduce, BlueprintInv, Busy
  <2> QED  BY <2>1, <2>2, <2>3, <2>4, QuietKeeps
<1>7. CASE Retry
  <2>1. /\ pc["blueprint"] = "again" /\ MayRetry
        /\ pc' = [pc EXCEPT !["blueprint"] = "map"]
        /\ UNCHANGED <<graph, setting, history, best, versions>>
    BY <1>7 DEF Retry
  <2>2. pc' = [i \in Jobs |-> pc'[i]] /\ (\A i \in Jobs : pc'[i] \in Stops)
        /\ pc'["blueprint-improve"] = pc["blueprint-improve"] /\ pc'["blueprint"] = "map"
    BY <1>0, <2>1 DEF Stops
  <2>3. Len(history) <= MaxRetries(graph, setting) /\ NoneHigh(history, Len(history))
    <3>1. /\ Len(history) \in 1..(MaxRetries(graph, setting) + 1)
          /\ MaxRetries(graph, setting) \in Nat
          /\ \A k \in 1..(Len(history) - 1) : history[k].rating # "high"
      BY <2>1 DEF BlueprintInv, Tried, NoneHigh
    <3>2. /\ Len(history) < MaxRetries(graph, setting) + 1
          /\ history[Len(history)].rating # "high"
      BY <2>1 DEF MayRetry, Last
    <3> QED  BY <3>1, <3>2 DEF NoneHigh
  <2>4. Tried'
    BY <2>1, <2>2, <2>3 DEF Tried, NoneHigh, MaxRetries, Small
  <2>5. Busy'
    BY <1>0, <1>7, <2>1 DEF Retry, BlueprintInv, Busy
  <2> QED  BY <2>1, <2>2, <2>4, <2>5, QuietKeeps
<1>8. CASE StopTrying
  <2>1. /\ pc["blueprint"] = "again" /\ pc' = [pc EXCEPT !["blueprint"] = "save"]
        /\ UNCHANGED <<graph, setting, history, best, versions>>
    BY <1>8 DEF StopTrying
  <2>2. pc' = [i \in Jobs |-> pc'[i]] /\ (\A i \in Jobs : pc'[i] \in Stops)
        /\ pc'["blueprint-improve"] = pc["blueprint-improve"] /\ pc'["blueprint"] = "save"
    BY <1>0, <2>1 DEF Stops
  <2>3. Tried'
    BY <2>1, <2>2 DEF BlueprintInv, Tried, NoneHigh, MaxRetries, Small
  <2>4. Busy'
    BY <1>0, <1>8, <2>1 DEF StopTrying, BlueprintInv, Busy
  <2> QED  BY <2>1, <2>2, <2>3, <2>4, QuietKeeps
<1>9. CASE LoadLatest \/ Improve
  <2>1. /\ \E p \in {"improve", "judge"} : pc' = [pc EXCEPT !["blueprint-improve"] = p]
        /\ UNCHANGED <<graph, setting, history, best, versions>>
    BY <1>9 DEF LoadLatest, Improve
  <2>2. pc' = [i \in Jobs |-> pc'[i]] /\ (\A i \in Jobs : pc'[i] \in Stops)
        /\ pc'["blueprint-improve"] # "save" /\ pc'["blueprint"] = pc["blueprint"]
    BY <1>0, <2>1 DEF Stops
  <2>3. Tried'
    BY <2>1, <2>2 DEF BlueprintInv, Tried, NoneHigh, MaxRetries, Small
  <2>4. Busy'
    BY <1>0, <1>9, <2>1 DEF LoadLatest, Improve, BlueprintInv, Busy
  <2> QED  BY <2>1, <2>2, <2>3, <2>4, QuietKeeps
<1>10. CASE JudgeImproved
  <2> DEFINE a == best'["blueprint-improve"]
  <2>1. /\ \E answer \in Answers, up \in BOOLEAN :
             best' = [best EXCEPT !["blueprint-improve"] =
                         Attempt(draft["blueprint-improve"],
                                 Judge(graph, draft["blueprint-improve"], answer, up))]
        /\ pc' = [pc EXCEPT !["blueprint-improve"] = "save"]
        /\ UNCHANGED <<graph, setting, history, versions>>
    BY <1>10 DEF JudgeImproved
  <2>2. Sound(a) /\ best'["blueprint"] = best["blueprint"]
        /\ best' = [j \in Jobs |-> best'[j]]
    BY <1>0, <2>1, Verdicts
  <2>3. pc' = [i \in Jobs |-> pc'[i]] /\ (\A i \in Jobs : pc'[i] \in Stops)
        /\ pc'["blueprint"] = pc["blueprint"]
    BY <1>0, <2>1 DEF Stops
  <2>4. BestSoFar'
    <3>1. Sound(best["blueprint"])' = Sound(best["blueprint"])
          /\ Sound(best["blueprint-improve"])' = Sound(a)
      BY <2>1, <2>2 DEF Sound
    <3>2. Foremost(best["blueprint"], history)' = Foremost(best["blueprint"], history)
      BY <2>1, <2>2 DEF Foremost
    <3> QED  BY <2>1, <2>2, <3>1, <3>2 DEF BlueprintInv, BestSoFar, IsList
  <2>5. Tried'
    BY <2>1, <2>3 DEF BlueprintInv, Tried, NoneHigh, MaxRetries, Small
  <2>6. \A k \in 1..Len(versions) : Version(versions[k])'
    BY <2>1, VersionsStand DEF BlueprintInv
  <2>7. (MaxRetries(graph, setting) \in Nat)'
    BY <2>1 DEF BlueprintInv, MaxRetries, Small
  <2>8. Busy'
    BY <1>0, <1>10, <2>1 DEF JudgeImproved, BlueprintInv, Busy
  <2> QED  BY <2>1, <2>2, <2>3, <2>4, <2>5, <2>6, <2>7, <2>8 DEF BlueprintInv, IsList
<1>11. CASE JudgeAttempt
  <2>1. BestSoFar' /\ Tried'
    BY <1>11, JudgeAttemptKeeps
  <2>2. /\ pc' = [pc EXCEPT !["blueprint"] = "again"]
        /\ best' = best \/ \E a : best' = [best EXCEPT !["blueprint"] = a]
        /\ UNCHANGED <<graph, setting, versions>>
    BY <1>11 DEF JudgeAttempt
  <2>3. pc' = [i \in Jobs |-> pc'[i]] /\ (\A i \in Jobs : pc'[i] \in Stops)
        /\ best' = [i \in Jobs |-> best'[i]]
    BY <1>0, <2>2 DEF Stops
  <2>4. \A k \in 1..Len(versions) : Version(versions[k])'
    BY <2>2, VersionsStand DEF BlueprintInv
  <2>5. (MaxRetries(graph, setting) \in Nat)'
    BY <2>2 DEF BlueprintInv, MaxRetries, Small
  <2>6. Busy'
    BY <1>0, <1>11, <2>2 DEF JudgeAttempt, BlueprintInv, Busy
  <2> QED  BY <2>1, <2>2, <2>3, <2>4, <2>5, <2>6 DEF BlueprintInv, IsList
<1>12. CASE Save
  <2>1. /\ pc["blueprint"] = "save" /\ versions' = Saved("blueprint")
        /\ pc' = [pc EXCEPT !["blueprint"] = "commit"]
        /\ UNCHANGED <<graph, setting, history, best>>
    BY <1>12 DEF Save
  <2>2. IsList(versions') /\ \A k \in 1..Len(versions') : Version(versions'[k])
    BY <1>0, <2>1, SavedVersion
  <2>3. \A k \in 1..Len(versions') : Version(versions[k])'
    BY <2>1, <2>2 DEF Version, Sound, Foremost, NoneHigh, IsList, MaxRetries, Small
  <2>4. pc' = [i \in Jobs |-> pc'[i]] /\ (\A i \in Jobs : pc'[i] \in Stops)
        /\ pc'["blueprint-improve"] = pc["blueprint-improve"] /\ pc'["blueprint"] = "commit"
    BY <1>0, <2>1 DEF Stops
  <2>5. BestSoFar'
    <3>1. Sound(best["blueprint"])' = Sound(best["blueprint"])
          /\ Sound(best["blueprint-improve"])' = Sound(best["blueprint-improve"])
      BY <2>1 DEF Sound
    <3>2. Foremost(best["blueprint"], history)' = Foremost(best["blueprint"], history)
      BY <2>1 DEF Foremost
    <3> QED  BY <2>1, <2>4, <3>1, <3>2 DEF BlueprintInv, BestSoFar, IsList
  <2>6. Tried'
    BY <2>1, <2>4 DEF BlueprintInv, Tried, NoneHigh, MaxRetries, Small
  <2>7. (MaxRetries(graph, setting) \in Nat)'
    BY <2>1 DEF BlueprintInv, MaxRetries, Small
  <2>8. Busy'
    BY <1>0, <1>12, <2>1 DEF Save, BlueprintInv, Busy
  <2>9. best' = [j \in Jobs |-> best'[j]]
    BY <1>0, <2>1
  <2> QED  BY <2>2, <2>3, <2>4, <2>5, <2>6, <2>7, <2>8, <2>9 DEF BlueprintInv, IsList
<1>13. CASE UNCHANGED blueprintVars
  <2>1. UNCHANGED <<graph, setting, history, best, versions, pc>>
    BY <1>13 DEF blueprintVars
  <2>2. Tried'
    BY <2>1 DEF BlueprintInv, Tried, NoneHigh, MaxRetries, Small
  <2>3. Busy'
    BY <1>13, <2>1 DEF blueprintVars, BlueprintInv, Busy
  <2> QED  BY <1>0, <2>1, <2>2, <2>3, QuietKeeps
<1> QED
  BY <1>1, <1>2, <1>3, <1>4, <1>5, <1>6, <1>7, <1>8, <1>9, <1>10, <1>11, <1>12, <1>13
  DEF BlueprintNext, Generating, Improving

(* For any graphs, settings, drafts, answers and roundings, and with any   *)
(* failures: every version a blueprint job saves is the best of attempts   *)
(* as many as its retries allow, none after one rated high, and no version *)
(* is rated high that cites what the graph does not have                   *)
(* (agenerate_brd_graph, ajudge).                                          *)
THEOREM BestBlueprintSaved == BlueprintSpec => []SavedIsBest
<1>1. BlueprintInv /\ [BlueprintNext]_blueprintVars => BlueprintInv'
  BY BlueprintStep
<1>2. BlueprintInv => SavedIsBest
  <2> SUFFICES ASSUME BlueprintInv, NEW v \in Range(versions)
               PROVE  /\ v.by = "blueprint" =>
                         /\ Len(v.history) \in 1..(MaxRetries(graph, setting) + 1)
                         /\ v.attempt.report \in Range(v.history)
                         /\ \A n \in 1..Len(v.history) :
                               /\ v.history[n].weighted <= v.attempt.report.weighted
                               /\ n < Len(v.history) => v.history[n].rating # "high"
                      /\ Ghosts(graph, v.attempt.draft) # {} => v.attempt.report.rating # "high"
    BY DEF SavedIsBest, BestIsSaved, GroundedIsHigh, Ghosts
  <2>1. Version(v)
    <3>1. PICK k \in 1..Len(versions) : v = versions[k]
      BY DEF Range, BlueprintInv, IsList
    <3> QED  BY <3>1 DEF BlueprintInv
  <2>2. Ghosts(graph, v.attempt.draft) # {} => v.attempt.report.rating # "high"
    BY <2>1 DEF Version, Sound
  <2>3. ASSUME v.by = "blueprint"
        PROVE  /\ Len(v.history) \in 1..(MaxRetries(graph, setting) + 1)
               /\ v.attempt.report \in Range(v.history)
               /\ \A n \in 1..Len(v.history) :
                     /\ v.history[n].weighted <= v.attempt.report.weighted
                     /\ n < Len(v.history) => v.history[n].rating # "high"
    <3>1. /\ Len(v.history) \in 1..(MaxRetries(graph, setting) + 1) /\ Len(v.history) \in Nat
          /\ IsList(v.history) /\ Foremost(v.attempt, v.history)
          /\ \A n \in 1..(Len(v.history) - 1) : v.history[n].rating # "high"
      BY <2>1, <2>3 DEF Version, NoneHigh, IsList
    <3>2. PICK n \in 1..Len(v.history) : v.history[n] = v.attempt.report
      BY <3>1 DEF Foremost
    <3>3. v.attempt.report \in Range(v.history)
      BY <3>1, <3>2 DEF Range, IsList
    <3>4. \A m \in 1..Len(v.history) : v.history[m].weighted <= v.attempt.report.weighted
      BY <3>1 DEF Foremost
    <3>5. \A m \in 1..Len(v.history) : m < Len(v.history) => v.history[m].rating # "high"
      BY <3>1
    <3> QED  BY <3>1, <3>3, <3>4, <3>5
  <2> QED  BY <2>2, <2>3
<1> QED  BY <1>1, <1>2, BlueprintStarts, PTL DEF BlueprintSpec

----------------------------------------------------------------------------
(* How the graph is split. *)

(* Disjoint sets of numbers, finitely many and none empty. *)
Apart(P) ==
    /\ IsFiniteSet(P)
    /\ \A c \in P : c \subseteq Int /\ IsFiniteSet(c) /\ c # {}
    /\ \A c, d \in P : c # d => c \cap d = {}

Graph(g) == IsFiniteSet(g.nodes) /\ g.nodes \subseteq Int /\ g.programs \subseteq g.nodes

(* Entities of one component have the same component: what is not        *)
(* connected to an entity is closed, too.                                *)
LEMMA ComponentsMeet ==
    ASSUME NEW g, NEW n \in g.nodes, NEW m \in ComponentOf(g, n)
    PROVE  ComponentOf(g, m) = ComponentOf(g, n)
<1>1. m \in g.nodes
  BY DEF ComponentOf
<1>2. ASSUME NEW x \in ComponentOf(g, m) PROVE x \in ComponentOf(g, n)
  <2>1. ASSUME NEW S \in SUBSET g.nodes, n \in S, Closed(g, S) PROVE x \in S
    <3>1. m \in S
      BY <2>1 DEF ComponentOf
    <3> QED  BY <1>2, <2>1, <3>1 DEF ComponentOf
  <2> QED  BY <1>2, <2>1 DEF ComponentOf
<1>3. ASSUME NEW x \in ComponentOf(g, n) PROVE x \in ComponentOf(g, m)
  <2>1. ASSUME NEW S \in SUBSET g.nodes, m \in S, Closed(g, S) PROVE x \in S
    <3>1. CASE n \in S
      BY <1>3, <2>1, <3>1 DEF ComponentOf
    <3>2. CASE n \notin S
      <4> DEFINE T == g.nodes \ S
      <4>1. Closed(g, T)
        BY <2>1 DEF Closed
      <4>2. n \in T /\ T \in SUBSET g.nodes
        BY <3>2
      <4>3. m \in T
        BY <4>1, <4>2 DEF ComponentOf
      <4> QED  BY <2>1, <4>3
    <3> QED  BY <3>1, <3>2
  <2> QED  BY <1>3, <2>1 DEF ComponentOf
<1> QED  BY <1>2, <1>3

(* The components partition the graph. *)
LEMMA ComponentsApart ==
    ASSUME NEW g, Graph(g)
    PROVE  LET P == {ComponentOf(g, n) : n \in g.nodes}
           IN  Apart(P) /\ UNION P = g.nodes
<1> DEFINE P == {ComponentOf(g, n) : n \in g.nodes}
<1>1. \A n \in g.nodes : n \in ComponentOf(g, n) /\ ComponentOf(g, n) \in SUBSET g.nodes
  BY DEF ComponentOf
<1>2. IsFiniteSet(SUBSET g.nodes) /\ P \in SUBSET (SUBSET g.nodes)
  BY <1>1, FS_SUBSET DEF Graph
<1>3. IsFiniteSet(P)
  <2> HIDE DEF P
  <2> QED  BY <1>2, FS_Subset
<1>4. ASSUME NEW c \in P PROVE c \subseteq Int /\ IsFiniteSet(c) /\ c # {}
  <2>1. c \in SUBSET g.nodes /\ c # {}
    BY <1>1
  <2>2. IsFiniteSet(c)
    BY <2>1, FS_Subset DEF Graph
  <2> QED  BY <2>1, <2>2 DEF Graph
<1>5. ASSUME NEW c \in P, NEW d \in P, NEW x \in c \cap d PROVE c = d
  <2>1. PICK n \in g.nodes : c = ComponentOf(g, n)
    OBVIOUS
  <2>2. PICK m \in g.nodes : d = ComponentOf(g, m)
    OBVIOUS
  <2> QED  BY <1>5, <2>1, <2>2, ComponentsMeet
<1>6. \A c, d \in P : c # d => c \cap d = {}
  <2> HIDE DEF P
  <2> QED  BY <1>5
<1>7. UNION P = g.nodes
  BY <1>1
<1>8. Apart(P)
  <2> HIDE DEF P
  <2> QED  BY <1>3, <1>4, <1>6 DEF Apart
<1> QED  BY <1>7, <1>8

(* Of two parts one comes first. *)
LEMMA OrderOfParts ==
    ASSUME NEW P, Apart(P)
    PROVE  /\ \A c \in P : ~LargerFirst(c, c)
           /\ \A c, d \in P : c # d => LargerFirst(c, d) \/ LargerFirst(d, c)
           /\ \A c, d, e \in P : LargerFirst(c, d) /\ LargerFirst(d, e) => LargerFirst(c, e)
<1>1. ASSUME NEW c \in P PROVE Cardinality(c) \in Int /\ Min(c) \in c /\ Min(c) \in Int
  <2>1. c \in SUBSET Int /\ IsFiniteSet(c) /\ c # {}
    BY <1>1 DEF Apart
  <2>2. Cardinality(c) \in Nat
    BY <2>1, FS_CardinalityType
  <2>3. Min(c) \in c /\ Min(c) \in Int
    BY <2>1, LeastOfNumbers
  <2> QED  BY <2>2, <2>3
<1>2. \A c, d \in P : c # d => Min(c) # Min(d)
  BY <1>1 DEF Apart
<1> QED  BY <1>1, <1>2 DEF LargerFirst

(* The n largest are at most n: of those taken, all but the last come     *)
(* before it.                                                             *)
LEMMA LargestBounded ==
    ASSUME NEW P, Apart(P), NEW n \in Nat
    PROVE  Largest(n, P) \in SUBSET P /\ IsFiniteSet(Largest(n, P)) /\ Cardinality(Largest(n, P)) <= n
<1> DEFINE Before(c) == {d \in P : LargerFirst(d, c)}
           After(c) == P \ Before(c)
           L == Largest(n, P)
           U == {After(c) : c \in L}
           R == StrictSubsetOrdering(P)
<1>1. L \in SUBSET P /\ IsFiniteSet(P)
  BY DEF Largest, Apart
<1>2. IsFiniteSet(L)
  <2> HIDE DEF L
  <2> QED  BY <1>1, FS_Subset
<1>3. CASE L = {}
  <2>1. Cardinality(L) = 0
    BY <1>3, FS_EmptySet
  <2> QED  BY <1>1, <1>2, <2>1
<1>4. CASE L # {}
  <2>1. \A T \in U : T \subseteq P /\ IsFiniteSet(T)
    <3> SUFFICES ASSUME NEW c \in L PROVE After(c) \subseteq P /\ IsFiniteSet(After(c))
      OBVIOUS
    <3>1. After(c) \in SUBSET P
      OBVIOUS
    <3> QED  BY <1>1, <3>1, FS_Subset
  <2>2. U \subseteq FiniteSubsetsOf(P) /\ U # {}
    BY <1>4, <2>1 DEF FiniteSubsetsOf
  <2>3. IsWellFoundedOn(R, FiniteSubsetsOf(P))
    BY FS_StrictSubsetOrderingWellFounded
  <2>4. PICK T \in U : \A V \in U : <<V, T>> \notin R
    <3> HIDE DEF U, R
    <3> QED  BY <2>2, <2>3, WFMin
  <2>5. PICK c \in L : T = After(c)
    OBVIOUS
  <2>6. ASSUME NEW d \in L, d # c PROVE d \in Before(c)
    <3>1. c \in P /\ d \in P
      BY <1>1
    <3>2. CASE LargerFirst(d, c)
      BY <3>1, <3>2
    <3>3. CASE LargerFirst(c, d)
      <4>1. Before(c) \subseteq Before(d) /\ c \in Before(d) /\ c \notin Before(c)
        BY <3>1, <3>3, OrderOfParts
      <4>2. After(d) \in U /\ After(d) \subseteq T /\ c \in T /\ c \notin After(d)
        BY <2>5, <3>1, <4>1
      <4>3. <<After(d), T>> \in R
        BY <2>1, <4>2 DEF StrictSubsetOrdering
      <4> QED  BY <2>4, <4>2, <4>3
    <3> QED  BY <2>6, <3>1, <3>2, <3>3, OrderOfParts
  <2>7. Before(c) \in SUBSET P /\ IsFiniteSet(Before(c)) /\ Cardinality(Before(c)) \in Nat
    <3>1. Before(c) \in SUBSET P
      OBVIOUS
    <3> QED  BY <1>1, <3>1, FS_Subset, FS_CardinalityType
  <2>8. Cardinality(Before(c)) < n
    BY DEF Largest
  <2>9. L \ {c} \in SUBSET Before(c)
    BY <2>6
  <2>10. Cardinality(L \ {c}) <= Cardinality(Before(c)) /\ Cardinality(L \ {c}) = Cardinality(L) - 1
    <3> HIDE DEF L, Before
    <3> QED  BY <1>2, <2>7, <2>9, FS_Subset, FS_RemoveElement
  <2>11. Cardinality(L) \in Nat
    <3> HIDE DEF L
    <3> QED  BY <1>2, FS_CardinalityType
  <2>12. Cardinality(L) <= n
    <3> HIDE DEF L, Before
    <3> QED  BY <2>7, <2>8, <2>10, <2>11
  <2> QED  BY <1>1, <1>2, <2>12
<1> QED  BY <1>3, <1>4

(* Some parts kept, the rest taken for one. *)
LEMMA FoldApart ==
    ASSUME NEW P, Apart(P), NEW keep \in SUBSET P, keep # P
    PROVE  LET Q == keep \cup {UNION (P \ keep)}
           IN  /\ Apart(Q) /\ UNION Q = UNION P
               /\ Cardinality(Q) <= Cardinality(keep) + 1 /\ Cardinality(Q) \in Nat
<1> DEFINE rest == UNION (P \ keep)
           Q == keep \cup {rest}
<1>1. IsFiniteSet(keep) /\ IsFiniteSet(P \ keep) /\ Cardinality(keep) \in Nat
  <2>1. P \ keep \in SUBSET P /\ IsFiniteSet(P)
    BY DEF Apart
  <2> QED  BY <2>1, FS_Subset, FS_CardinalityType
<1>2. IsFiniteSet(Q) /\ Cardinality(Q) <= Cardinality(keep) + 1 /\ Cardinality(Q) \in Nat
  <2> HIDE DEF rest
  <2>1. IsFiniteSet(Q) /\ (Cardinality(Q) = Cardinality(keep) \/ Cardinality(Q) = Cardinality(keep) + 1)
    BY <1>1, FS_AddElement
  <2> QED  BY <1>1, <2>1
<1>3. rest \subseteq Int /\ IsFiniteSet(rest) /\ rest # {}
  <2>1. \A T \in P \ keep : IsFiniteSet(T)
    BY DEF Apart
  <2>2. IsFiniteSet(rest)
    BY <1>1, <2>1, FS_UNION
  <2>3. \A T \in P \ keep : T \subseteq Int /\ T # {}
    BY DEF Apart
  <2>4. PICK T \in P : T \notin keep
    OBVIOUS
  <2>5. rest # {}
    BY <2>3, <2>4
  <2> QED  BY <2>2, <2>3, <2>5
<1>4. \A c \in keep : c \cap rest = {}
  BY DEF Apart
<1>5. UNION Q = UNION P
  OBVIOUS
<1>6. Apart(Q)
  <2>1. \A c \in keep : c \subseteq Int /\ IsFiniteSet(c) /\ c # {}
    BY DEF Apart
  <2>2. \A c, d \in keep : c # d => c \cap d = {}
    BY DEF Apart
  <2> HIDE DEF rest
  <2>3. \A c \in Q : c \subseteq Int /\ IsFiniteSet(c) /\ c # {}
    BY <1>3, <2>1
  <2>4. \A c, d \in Q : c # d => c \cap d = {}
    BY <1>4, <2>2
  <2> HIDE DEF Q
  <2> QED  BY <1>2, <2>3, <2>4 DEF Apart
<1> QED  BY <1>2, <1>5, <1>6

(* detect_subsystems splits the graph in no more parts than its cap. *)
LEMMA Detected ==
    ASSUME NEW g, Graph(g), NEW cap \in Nat \ {0}
    PROVE  LET raw == DetectSubsystems(g, cap)
           IN  Apart(raw) /\ UNION raw = g.nodes /\ Cardinality(raw) <= cap
<1> DEFINE P == {ComponentOf(g, n) : n \in g.nodes}
           kept == Largest(cap - 1, P)
<1>1. Apart(P) /\ UNION P = g.nodes
  BY ComponentsApart
<1>2. IsFiniteSet(P) /\ Cardinality(P) \in Nat
  <2> HIDE DEF P
  <2> QED  BY <1>1, FS_CardinalityType DEF Apart
<1>3. CASE Cardinality(P) <= cap
  BY <1>1, <1>3 DEF DetectSubsystems
<1>4. CASE ~(Cardinality(P) <= cap)
  <2> HIDE DEF P
  <2>1. kept \in SUBSET P /\ IsFiniteSet(kept) /\ Cardinality(kept) <= cap - 1
    <3>1. cap - 1 \in Nat
      OBVIOUS
    <3> QED  BY <1>1, <3>1, LargestBounded
  <2>2. Cardinality(kept) \in Nat
    BY <2>1, FS_CardinalityType
  <2>3. kept # P
    BY <1>2, <1>4, <2>1, <2>2
  <2> DEFINE Q == kept \cup {UNION (P \ kept)}
  <2>4. /\ Apart(Q) /\ UNION Q = UNION P
        /\ Cardinality(Q) <= Cardinality(kept) + 1 /\ Cardinality(Q) \in Nat
    <3> HIDE DEF kept
    <3> QED  BY <1>1, <2>1, <2>3, FoldApart
  <2>5. Cardinality(Q) <= cap
    <3> HIDE DEF kept, Q
    <3> QED  BY <2>1, <2>2, <2>4
  <2>6. DetectSubsystems(g, cap) = Q
    BY <1>4 DEF DetectSubsystems, Overflow, P
  <2> HIDE DEF Q
  <2> QED  BY <1>1, <2>4, <2>5, <2>6
<1> QED  BY <1>3, <1>4

(* _select_subsystems keeps it so. *)
LEMMA Selected ==
    ASSUME NEW g, Graph(g), NEW cap \in Nat \ {0}
    PROVE  LET all == SelectSubsystems(g, cap)
           IN  /\ UNION all = g.nodes
               /\ Cardinality(all) <= cap
               /\ \A c, d \in all : c # d => c \cap d = {}
<1> DEFINE raw   == DetectSubsystems(g, cap)
           fit   == {c \in raw : Substantive(g, c)}
           first == {c \in fit : HasProgram(g, c)}
           keep  == Largest(cap, first) \cup Largest(cap - Cardinality(first), fit \ first)
           rest  == UNION (raw \ keep)
           all   == Folded(keep, rest)
<1>1. Apart(raw) /\ UNION raw = g.nodes /\ Cardinality(raw) <= cap
  BY Detected
<1>2. keep \in SUBSET raw
  BY DEF Largest
<1>3. SelectSubsystems(g, cap) = IF all = {} THEN {{}} ELSE all
  BY DEF SelectSubsystems
<1> HIDE DEF raw, keep
<1>4. IsFiniteSet(raw) /\ Cardinality(raw) \in Nat
  BY <1>1, FS_CardinalityType DEF Apart
<1>5. /\ UNION all = g.nodes /\ Cardinality(all) <= cap
      /\ \A c, d \in all : c # d => c \cap d = {}
  <2>1. CASE keep = raw
    <3>1. all = raw
      BY <2>1 DEF Folded
    <3> QED  BY <1>1, <3>1 DEF Apart
  <2>2. CASE keep # raw
    <3> DEFINE Q == keep \cup {rest}
    <3>1. /\ Apart(Q) /\ UNION Q = UNION raw
          /\ Cardinality(Q) <= Cardinality(keep) + 1 /\ Cardinality(Q) \in Nat
      BY <1>1, <1>2, <2>2, FoldApart
    <3>2. rest # {}
      BY <3>1 DEF Apart
    <3>3. all = Q
      BY <3>2 DEF Folded
    <3>4. Cardinality(keep) \in Nat /\ Cardinality(keep) < Cardinality(raw)
      BY <1>2, <1>4, <2>2, FS_Subset, FS_CardinalityType
    <3> HIDE DEF Q, rest, all
    <3>5. Cardinality(Q) <= cap
      BY <1>1, <1>4, <3>1, <3>4
    <3> QED  BY <1>1, <3>1, <3>3, <3>5 DEF Apart
  <2> QED  BY <2>1, <2>2
<1>6. CASE all = {}
  <2>1. SelectSubsystems(g, cap) = {{}}
    BY <1>3, <1>6
  <2>2. g.nodes = {} /\ UNION {{}} = {}
    BY <1>5, <1>6
  <2>3. Cardinality({{}}) = 1
    BY FS_Singleton
  <2> QED  BY <2>1, <2>2, <2>3
<1>7. CASE all # {}
  BY <1>3, <1>5, <1>7
<1> QED  BY <1>6, <1>7

(* The cap is never zero. *)
LEMMA ManySubsystems ==
    ASSUME NEW g \in Graphs, NEW s \in Settings
    PROVE  MaxSubsystems(g, s) \in Nat \ {0} /\ Graph(g)
<1>1. Graph(g) /\ s.cap \in Nat \ {0}
  BY BlueprintAssumption DEF BlueprintAssumption, Graph
<1>2. Cardinality(g.programs) \in Nat
  BY <1>1, FS_Subset, FS_CardinalityType DEF Graph
<1> DEFINE a == Cardinality(g.programs) + 2
           b == Min({s.cap, a})
<1>3. a \in Int
  BY <1>2
<1>4. b \in Int
  <2> HIDE DEF a
  <2>1. \E x \in {s.cap, a} : \A y \in {s.cap, a} : x =< y
    BY <1>1, <1>3
  <2>2. b \in {s.cap, a}
    BY <2>1 DEF Min
  <2> QED  BY <1>1, <1>3, <2>2
<1>5. Max({4, b}) \in {4, b} /\ Max({4, b}) >= 4
  <2> HIDE DEF b
  <2>1. \E x \in {4, b} : \A y \in {4, b} : x >= y
    BY <1>4
  <2> QED  BY <2>1 DEF Max
<1>6. Max({4, b}) \in Nat \ {0}
  <2> HIDE DEF b
  <2> QED  BY <1>4, <1>5
<1> QED  BY <1>1, <1>6 DEF MaxSubsystems

(* Each part has less than all of them before it. *)
LEMMA LargestOfFew ==
    ASSUME NEW P, Apart(P), NEW n \in Nat, Cardinality(P) <= n
    PROVE  Largest(n, P) = P
<1> SUFFICES ASSUME NEW c \in P
             PROVE  Cardinality({d \in P : LargerFirst(d, c)}) < n
  BY DEF Largest
<1> DEFINE D == {d \in P : LargerFirst(d, c)}
<1>1. D \in SUBSET P /\ c \notin D /\ IsFiniteSet(P)
  BY OrderOfParts DEF Apart
<1> HIDE DEF D
<1>2. D # P
  BY <1>1
<1>3. Cardinality(D) < Cardinality(P) /\ Cardinality(D) \in Nat /\ Cardinality(P) \in Nat
  BY <1>1, <1>2, FS_Subset, FS_CardinalityType
<1>4. Cardinality(D) < n
  BY <1>3
<1> QED  BY <1>4 DEF D

LEMMA SomeApart ==
    ASSUME NEW P, Apart(P), NEW Q \in SUBSET P
    PROVE  Apart(Q)
BY FS_Subset DEF Apart

(* _select_subsystems has room for every part that deserves an agent. *)
LEMMA SubstantiveKept ==
    ASSUME NEW g, Graph(g), NEW cap \in Nat \ {0},
           NEW c \in DetectSubsystems(g, cap), Substantive(g, c)
    PROVE  c \in SelectSubsystems(g, cap)
<1> DEFINE raw   == DetectSubsystems(g, cap)
           fit   == {d \in raw : Substantive(g, d)}
           first == {d \in fit : HasProgram(g, d)}
           keep  == Largest(cap, first) \cup Largest(cap - Cardinality(first), fit \ first)
           all   == Folded(keep, UNION (raw \ keep))
<1>1. Apart(raw) /\ Cardinality(raw) <= cap
  BY Detected
<1>2. fit \in SUBSET raw /\ first \in SUBSET fit /\ c \in fit
  OBVIOUS
<1>3. SelectSubsystems(g, cap) = IF all = {} THEN {{}} ELSE all
  BY DEF SelectSubsystems
<1> HIDE DEF raw, fit, first
<1>4. Apart(fit) /\ Apart(first) /\ Apart(fit \ first)
  <2>1. Apart(fit)
    BY <1>1, <1>2, SomeApart
  <2>2. fit \ first \in SUBSET fit
    OBVIOUS
  <2> QED  BY <1>2, <2>1, <2>2, SomeApart
<1>5. /\ Cardinality(first) \in Nat /\ Cardinality(first) <= cap
      /\ Cardinality(fit \ first) <= cap - Cardinality(first)
  <2>1. IsFiniteSet(raw) /\ IsFiniteSet(fit) /\ IsFiniteSet(first)
    BY <1>1, <1>4 DEF Apart
  <2>2. Cardinality(fit) <= Cardinality(raw) /\ Cardinality(fit) \in Nat
    BY <1>2, <2>1, FS_Subset, FS_CardinalityType
  <2>3. Cardinality(raw) \in Nat /\ Cardinality(first) \in Nat
    BY <2>1, FS_CardinalityType
  <2>4. Cardinality(first) <= Cardinality(fit)
    BY <1>2, <2>1, FS_Subset
  <2>5. fit \cap first = first
    BY <1>2
  <2>6. Cardinality(fit \ first) = Cardinality(fit) - Cardinality(first)
    BY <2>1, <2>5, FS_Difference
  <2> QED  BY <1>1, <2>2, <2>3, <2>4, <2>6
<1>6. Largest(cap, first) = first
  BY <1>4, <1>5, LargestOfFew
<1>7. Largest(cap - Cardinality(first), fit \ first) = fit \ first
  <2> DEFINE k == cap - Cardinality(first)
             T == fit \ first
  <2>1. k \in Nat /\ Cardinality(T) <= k /\ Apart(T)
    BY <1>4, <1>5
  <2> HIDE DEF k, T
  <2>2. Largest(k, T) = T
    BY <2>1, LargestOfFew
  <2> QED  BY <2>2 DEF k, T
<1>8. c \in keep
  BY <1>2, <1>6, <1>7
<1> HIDE DEF keep
<1>9. c \in all
  BY <1>8 DEF Folded
<1> QED  BY <1>3, <1>9

(* A component by itself is closed, and so are several of them. *)
LEMMA ComponentCloses ==
    ASSUME NEW g, NEW n \in g.nodes
    PROVE  Closed(g, ComponentOf(g, n))
<1> SUFFICES ASSUME NEW e \in g.edges, {e[1], e[2]} \subseteq g.nodes
             PROVE  e[1] \in ComponentOf(g, n) <=> e[2] \in ComponentOf(g, n)
  BY DEF Closed
<1>1. \A S \in SUBSET g.nodes : Closed(g, S) => (e[1] \in S <=> e[2] \in S)
  BY DEF Closed
<1> QED  BY <1>1 DEF ComponentOf

(* Parts that no edge leaves. *)
Coarse(g, P) == \A c \in P : Closed(g, c) /\ c \subseteq g.nodes

LEMMA CoarseFold ==
    ASSUME NEW g, NEW P, Coarse(g, P), NEW keep \in SUBSET P
    PROVE  Coarse(g, keep \cup {UNION (P \ keep)})
<1> DEFINE rest == UNION (P \ keep)
<1>1. Closed(g, rest)
  <2> SUFFICES ASSUME NEW e \in g.edges, {e[1], e[2]} \subseteq g.nodes
               PROVE  e[1] \in rest <=> e[2] \in rest
    BY DEF Closed
  <2>1. \A c \in P : e[1] \in c <=> e[2] \in c
    BY DEF Coarse, Closed
  <2> QED  BY <2>1
<1>2. rest \subseteq g.nodes
  BY DEF Coarse
<1> HIDE DEF rest
<1>3. Coarse(g, keep \cup {rest})
  BY <1>1, <1>2 DEF Coarse
<1> QED  BY <1>3 DEF rest

LEMMA SubsystemsCoarse ==
    ASSUME NEW g, Graph(g), NEW cap \in Nat \ {0}
    PROVE  Coarse(g, SelectSubsystems(g, cap))
<1> DEFINE P    == {ComponentOf(g, n) : n \in g.nodes}
           kept == Largest(cap - 1, P)
           raw  == DetectSubsystems(g, cap)
<1>1. Coarse(g, P)
  <2>1. \A n \in g.nodes : ComponentOf(g, n) \subseteq g.nodes
    BY DEF ComponentOf
  <2> QED  BY <2>1, ComponentCloses DEF Coarse
<1>2. Coarse(g, raw)
  <2>1. CASE Cardinality(P) <= cap
    BY <1>1, <2>1 DEF DetectSubsystems
  <2>2. CASE ~(Cardinality(P) <= cap)
    <3>1. kept \in SUBSET P
      BY DEF Largest
    <3>2. raw = kept \cup {UNION (P \ kept)}
      BY <2>2 DEF DetectSubsystems, Overflow
    <3> HIDE DEF P, kept, raw
    <3> QED  BY <1>1, <3>1, <3>2, CoarseFold
  <2> QED  BY <2>1, <2>2
<1> DEFINE fit   == {d \in raw : Substantive(g, d)}
           first == {d \in fit : HasProgram(g, d)}
           keep  == Largest(cap, first) \cup Largest(cap - Cardinality(first), fit \ first)
           all   == Folded(keep, UNION (raw \ keep))
<1>3. SelectSubsystems(g, cap) = IF all = {} THEN {{}} ELSE all
  BY DEF SelectSubsystems
<1>4. keep \in SUBSET raw
  BY DEF Largest
<1> HIDE DEF raw, keep
<1>5. Coarse(g, all)
  <2>1. Coarse(g, keep \cup {UNION (raw \ keep)}) /\ Coarse(g, keep)
    BY <1>2, <1>4, CoarseFold DEF Coarse
  <2> QED  BY <2>1 DEF Folded
<1>6. Coarse(g, {{}})
  BY DEF Coarse, Closed
<1> QED  BY <1>3, <1>5, <1>6

(* The prompt of a subsystem names somebody; of a small one, everybody. *)
LEMMA PreviewNames ==
    ASSUME NEW c \in SUBSET Int, IsFiniteSet(c)
    PROVE  /\ c # {} => Preview(c) # {}
           /\ Cardinality(c) <= MapPreview => Preview(c) = c
<1>1. MapPreview \in Nat \ {0}
  BY BlueprintAssumption DEF BlueprintAssumption
<1>2. ASSUME c # {} PROVE Min(c) \in Preview(c)
  <2>1. Min(c) \in c /\ Min(c) \in Int /\ \A y \in c : y \in Int /\ Min(c) <= y
    BY <1>2, LeastOfNumbers
  <2>2. \A y \in c : ~(y < Min(c))
    <3> DEFINE low == Min(c)
    <3>1. low \in Int /\ \A y \in c : y \in Int /\ low <= y
      BY <2>1
    <3> HIDE DEF low
    <3>2. \A y \in c : ~(y < low)
      BY <3>1
    <3> QED  BY <3>2 DEF low
  <2> DEFINE D == {k \in c : k < Min(c)}
  <2>3. D = {}
    BY <2>2
  <2> HIDE DEF D
  <2>4. Cardinality(D) < MapPreview
    BY <1>1, <2>3, FS_EmptySet
  <2> QED  BY <2>1, <2>4 DEF Preview, D
<1>3. ASSUME Cardinality(c) <= MapPreview, NEW m \in c PROVE m \in Preview(c)
  <2> DEFINE D == {k \in c : k < m}
  <2>1. D \in SUBSET c /\ m \notin D
    OBVIOUS
  <2> HIDE DEF D
  <2>2. D # c
    BY <2>1
  <2>3. Cardinality(D) < Cardinality(c) /\ Cardinality(D) \in Nat /\ Cardinality(c) \in Nat
    <3>1. IsFiniteSet(D) /\ Cardinality(D) <= Cardinality(c) /\ Cardinality(D) # Cardinality(c)
      BY <2>1, <2>2, FS_Subset
    <3>2. Cardinality(D) \in Nat /\ Cardinality(c) \in Nat
      BY <3>1, FS_CardinalityType
    <3> QED  BY <3>1, <3>2
  <2>4. Cardinality(D) < MapPreview
    BY <1>1, <1>3, <2>3
  <2> QED  BY <2>4 DEF Preview, D
<1> QED  BY <1>2, <1>3 DEF Preview

(* The fan-out of a blueprint is what it was split into at the start; its  *)
(* agents are told of the beginning of each part.                          *)
SplitOnce ==
    /\ graph \in Graphs /\ setting \in Settings
    /\ subs = SelectSubsystems(graph, MaxSubsystems(graph, setting))
    /\ prompts # <<>> => prompts = [c \in subs |-> Preview(c)]

(* A component nobody is told of shares an overfull subsystem, and is      *)
(* trivial or outranked.                                                   *)
LEMMA UntoldMerged ==
    ASSUME SplitOnce, prompts # <<>>, NEW n \in graph.nodes,
           ComponentOf(graph, n) \cap Told = {}
    PROVE  LET own == ComponentOf(graph, n)
           IN  /\ \E c \in subs : own \subseteq c /\ own # c /\ Cardinality(c) > MapPreview
               /\ ~Substantive(graph, own) \/ Outranked(own, MaxSubsystems(graph, setting))
<1> DEFINE own == ComponentOf(graph, n)
           cap == MaxSubsystems(graph, setting)
           P   == {ComponentOf(graph, m) : m \in graph.nodes}
<1>1. cap \in Nat \ {0} /\ Graph(graph) /\ MapPreview \in Nat \ {0}
  BY ManySubsystems, BlueprintAssumption DEF SplitOnce, BlueprintAssumption
<1>2. n \in own /\ own \in P
  BY DEF ComponentOf
<1>3. \A c \in subs : own \cap Preview(c) = {}
  <2>1. prompts = [c \in subs |-> Preview(c)]
    BY DEF SplitOnce
  <2> QED  BY <2>1 DEF Told
<1>4. \A c \in subs : c \in SUBSET Int /\ IsFiniteSet(c) /\ Closed(graph, c) /\ c \subseteq graph.nodes
  <2>1. Coarse(graph, subs)
    BY <1>1, SubsystemsCoarse DEF SplitOnce
  <2>2. \A c \in subs : c \subseteq graph.nodes /\ Closed(graph, c)
    BY <2>1 DEF Coarse
  <2> QED  BY <1>1, <2>2, FS_Subset DEF Graph
<1>5. own \notin subs
  <2>1. Apart(P)
    BY <1>1, ComponentsApart
  <2>2. own \in SUBSET Int /\ IsFiniteSet(own) /\ own # {}
    BY <1>2, <2>1 DEF Apart
  <2>3. Preview(own) # {} /\ Preview(own) \subseteq own
    BY <2>2, PreviewNames DEF Preview
  <2> QED  BY <1>3, <2>3
<1>6. PICK c \in subs : n \in c
  BY <1>1, Selected DEF SplitOnce
<1>7. own \subseteq c
  BY <1>4, <1>6 DEF ComponentOf
<1>8. Cardinality(c) > MapPreview
  <2>1. Cardinality(c) \in Nat
    BY <1>4, FS_CardinalityType
  <2>2. Preview(c) # c
    BY <1>2, <1>3, <1>6
  <2>3. ~(Cardinality(c) <= MapPreview)
    BY <1>4, <2>2, PreviewNames
  <2> QED  BY <1>1, <2>1, <2>3
<1>9. ~Substantive(graph, own) \/ Outranked(own, cap)
  <2> SUFFICES ASSUME Substantive(graph, own) PROVE Outranked(own, cap)
    OBVIOUS
  <2>1. own \notin DetectSubsystems(graph, cap)
    BY <1>1, <1>5, SubstantiveKept DEF SplitOnce
  <2>2. ~(Cardinality(P) <= cap)
    BY <1>2, <2>1 DEF DetectSubsystems
  <2>3. own \notin Largest(cap - 1, P)
    BY <2>1, <2>2 DEF DetectSubsystems, Overflow
  <2>4. ~(Cardinality({d \in P : LargerFirst(d, own)}) < cap - 1)
    BY <1>2, <2>3 DEF Largest
  <2>5. IsFiniteSet(P) /\ Apart(P)
    BY <1>1, ComponentsApart DEF Apart
  <2> DEFINE D == {d \in P : LargerFirst(d, own)}
  <2>6. Cardinality(P) \in Nat /\ Cardinality(D) \in Nat
    <3>1. D \in SUBSET P
      OBVIOUS
    <3> HIDE DEF D, P
    <3> QED  BY <2>5, <3>1, FS_Subset, FS_CardinalityType
  <2>7. Cardinality(P) > cap /\ Cardinality(D) >= cap - 1
    <3>1. ~(Cardinality(D) < cap - 1)
      BY <2>4
    <3> HIDE DEF D, P, cap
    <3> QED  BY <1>1, <2>2, <2>6, <3>1
  <2> QED  BY <2>7 DEF Outranked
<1> QED  BY <1>5, <1>6, <1>7, <1>8, <1>9

(* Whatever the graph and the cap, every entity is in exactly one of no    *)
(* more subsystems than allowed, the fallback merge of their drafts loses  *)
(* no pointer, and a component no agent is told of is trivial or one of    *)
(* the smallest beyond the cap, in a subsystem its prompt cannot name in   *)
(* full (_select_subsystems, _map_prompt, _merge_drafts_fallback).         *)
THEOREM NothingIsDropped == BlueprintSpec => []NothingDropped
<1>1. BlueprintInit => SplitOnce
  BY DEF BlueprintInit, SplitOnce
<1>2. SplitOnce /\ [BlueprintNext]_blueprintVars => SplitOnce'
  <2> SUFFICES ASSUME SplitOnce, [BlueprintNext]_blueprintVars
               PROVE  /\ UNCHANGED <<graph, setting, subs>>
                      /\ \/ UNCHANGED prompts \/ prompts' = <<>>
                         \/ prompts' = [c \in subs |-> Preview(c)]
    BY DEF SplitOnce, Preview
  <2> QED
    BY DEF BlueprintNext, Generating, Improving, BlueprintRestarts, Post, Raise, Leave, Map, Reduce,
           JudgeAttempt, Retry, StopTrying, Save, Commit, LoadLatest, Improve, JudgeImproved,
           SaveImproved, env, blueprintVars
<1>3. SplitOnce => NothingDropped
  <2> SUFFICES ASSUME SplitOnce PROVE NothingDropped
    OBVIOUS
  <2>1. MaxSubsystems(graph, setting) \in Nat \ {0} /\ Graph(graph)
    BY ManySubsystems DEF SplitOnce
  <2>2. /\ UNION subs = graph.nodes
        /\ Cardinality(subs) <= MaxSubsystems(graph, setting)
        /\ \A c, d \in subs : c # d => c \cap d = {}
    BY <2>1, Selected DEF SplitOnce
  <2>3. ASSUME NEW k \in DOMAIN mapped, NEW i \in Ids
        PROVE  mapped[k][i] \subseteq MergeDrafts(mapped)[i]
    BY <2>3 DEF MergeDrafts, Pointers
  <2>4. FanOutIsWhole
    BY <2>2, <2>3 DEF FanOutIsWhole
  <2>5. UntoldIsOverflow
    BY UntoldMerged DEF UntoldIsOverflow
  <2> QED  BY <2>4, <2>5 DEF NothingDropped
<1> QED  BY <1>1, <1>2, <1>3, PTL DEF BlueprintSpec

----------------------------------------------------------------------------
(* The planner (Planning): waves and topological order.                    *)

(* The stories done after each wave. *)
Steps(deps, seen) ==
    /\ seen \in [Nat -> SUBSET DOMAIN deps]
    /\ seen[0] = {}
    /\ \A k \in Nat : seen[k + 1] = seen[k] \cup Ready(deps, seen[k])

LEMMA SeenSteps ==
    ASSUME NEW deps
    PROVE  \E seen : Steps(deps, seen) /\ SeenAfter(deps) = [k \in 0..Cardinality(DOMAIN deps) |-> seen[k]]
<1> DEFINE X == SUBSET DOMAIN deps
           step == [S \in X |-> S \cup Unseen(deps, S)]
           Rec(S) == S = [k \in Nat |-> IF k = 0 THEN {} ELSE S[k - 1] \cup Unseen(deps, S[k - 1])]
           seen == CHOOSE S : Rec(S)
<1>1. step \in [X -> X] /\ {} \in X
  BY DEF Unseen, Ready
<1>2. PICK f \in [Nat -> X] : f[0] = {} /\ \A n \in Nat : f[n + 1] = step[f[n]]
  <2> DEFINE none == {}
  <2>1. step \in [X -> X] /\ none \in X
    BY <1>1
  <2> HIDE DEF X, step, none
  <2>2. \E f \in [Nat -> X] : f[0] = none /\ \A n \in Nat : f[n + 1] = step[f[n]]
    BY <2>1, Iteration
  <2> QED  BY <2>2 DEF none
<1>3. Rec(f)
  <2>1. ASSUME NEW k \in Nat PROVE f[k] = IF k = 0 THEN {} ELSE f[k - 1] \cup Unseen(deps, f[k - 1])
    <3>1. CASE k = 0
      BY <1>2, <3>1
    <3>2. CASE k # 0
      <4>1. k - 1 \in Nat /\ (k - 1) + 1 = k
        BY <3>2
      <4>2. f[k] = step[f[k - 1]] /\ f[k - 1] \in X
        BY <1>2, <4>1
      <4> QED  BY <3>2, <4>2
    <3> QED  BY <3>1, <3>2
  <2>2. f = [k \in Nat |-> f[k]]
    BY <1>2
  <2> QED  BY <2>1, <2>2
<1>4. Rec(seen)
  <2> HIDE DEF Rec
  <2> QED  BY <1>3
<1>5. SeenAfter(deps) = [k \in 0..Cardinality(DOMAIN deps) |-> seen[k]]
  BY DEF SeenAfter
<1>6. seen[0] = {} /\ \A k \in Nat : seen[k + 1] = seen[k] \cup Unseen(deps, seen[k])
  <2> HIDE DEF seen
  <2>1. \A k \in Nat : seen[k] = IF k = 0 THEN {} ELSE seen[k - 1] \cup Unseen(deps, seen[k - 1])
    BY <1>4
  <2>2. \A k \in Nat : k + 1 \in Nat /\ k + 1 # 0 /\ (k + 1) - 1 = k
    OBVIOUS
  <2> QED  BY <2>1, <2>2
<1>7. \A k \in Nat : seen[k + 1] = seen[k] \cup Ready(deps, seen[k])
  BY <1>6 DEF Unseen
<1>8. seen \in [Nat -> X]
  <2> DEFINE In == {k \in Nat : seen[k] \in X}
  <2> HIDE DEF seen
  <2>1. 0 \in In
    BY <1>6
  <2>2. ASSUME NEW k \in In PROVE k + 1 \in In
    BY <1>7 DEF Ready
  <2>3. In \in SUBSET Nat
    OBVIOUS
  <2>4. In = Nat
    <3> HIDE DEF In
    <3> QED  BY <2>1, <2>2, <2>3, EveryNumber
  <2>5. \A k \in Nat : seen[k] \in X
    BY <2>4
  <2>6. seen = [k \in Nat |-> seen[k]]
    BY <1>4
  <2> QED  BY <2>5, <2>6
<1> HIDE DEF seen
<1> QED  BY <1>5, <1>6, <1>7, <1>8 DEF Steps

(* The stories done only grow, and once no wave adds to them none does.    *)
LEMMA SeenGrows ==
    ASSUME NEW deps, NEW seen, Steps(deps, seen)
    PROVE  /\ \A k \in Nat : seen[k] \subseteq seen[k + 1]
           /\ \A j, k \in Nat : j <= k => seen[j] \subseteq seen[k]
           /\ \A j, k \in Nat : j <= k /\ seen[j] = seen[j + 1] => seen[k] = seen[j]
<1>1. \A k \in Nat : seen[k] \subseteq seen[k + 1]
  BY DEF Steps
<1>2. ASSUME NEW j \in Nat PROVE \A k \in Nat : j <= k => seen[j] \subseteq seen[k]
  <2> DEFINE S == {k \in Nat : j <= k => seen[j] \subseteq seen[k]}
  <2>1. 0 \in S
    BY <1>2
  <2>2. ASSUME NEW k \in S PROVE k + 1 \in S
    <3>1. k \in Nat /\ k + 1 \in Nat /\ (j <= k + 1 => j <= k \/ j = k + 1)
      BY <1>2
    <3>2. seen[k] \subseteq seen[k + 1]
      BY <1>1, <3>1
    <3> QED  BY <3>1, <3>2
  <2>3. S \in SUBSET Nat
    OBVIOUS
  <2>4. S = Nat
    <3> HIDE DEF S
    <3> QED  BY <2>1, <2>2, <2>3, EveryNumber
  <2> QED  BY <2>4
<1>3. ASSUME NEW j \in Nat, seen[j] = seen[j + 1] PROVE \A k \in Nat : j <= k => seen[k] = seen[j]
  <2> DEFINE S == {k \in Nat : j <= k => seen[k] = seen[j]}
  <2>1. 0 \in S
    BY <1>3
  <2>2. ASSUME NEW k \in S PROVE k + 1 \in S
    <3>1. k \in Nat /\ k + 1 \in Nat /\ (j <= k + 1 => j <= k \/ j = k + 1)
      BY <1>3
    <3>2. seen[k + 1] = seen[k] \cup Ready(deps, seen[k]) /\ seen[j + 1] = seen[j] \cup Ready(deps, seen[j])
      BY <1>3, <3>1 DEF Steps
    <3> QED  BY <1>3, <3>1, <3>2
  <2>3. S \in SUBSET Nat
    OBVIOUS
  <2>4. S = Nat
    <3> HIDE DEF S
    <3> QED  BY <2>1, <2>2, <2>3, EveryNumber
  <2> QED  BY <2>4
<1> QED  BY <1>1, <1>2, <1>3

(* What only grows within finitely many things, and not again once it did  *)
(* not, has ended after as many steps as there are.                        *)
LEMMA GrowthEnds ==
    ASSUME NEW D, IsFiniteSet(D), NEW f, f \in [Nat -> SUBSET D],
           \A k \in Nat : f[k] \subseteq f[k + 1],
           \A k \in Nat : f[k] = f[k + 1] => f[k + 1] = f[(k + 1) + 1],
           NEW n \in Nat, Cardinality(D) <= n
    PROVE  f[n + 1] = f[n]
<1> DEFINE N == Cardinality(D)
           S == {k \in Nat : f[k] = f[k + 1] \/ Cardinality(f[k + 1]) >= k + 1}
<1>1. N \in Nat
  BY FS_CardinalityType
<1>2. ASSUME NEW k \in Nat
      PROVE  f[k] \in SUBSET D /\ IsFiniteSet(f[k]) /\ Cardinality(f[k]) \in Nat /\ Cardinality(f[k]) <= N
  <2>1. f[k] \in SUBSET D
    BY <1>2
  <2> QED  BY <2>1, FS_Subset, FS_CardinalityType
<1>3. ASSUME NEW k \in Nat, f[k] # f[k + 1] PROVE Cardinality(f[k]) < Cardinality(f[k + 1])
  <2>1. f[k] \in SUBSET f[k + 1] /\ k + 1 \in Nat
    BY <1>3
  <2>2. /\ Cardinality(f[k]) <= Cardinality(f[k + 1])
        /\ Cardinality(f[k + 1]) = Cardinality(f[k]) => f[k + 1] = f[k]
    BY <1>2, <2>1, FS_Subset
  <2>3. Cardinality(f[k]) \in Nat /\ Cardinality(f[k + 1]) \in Nat
    BY <1>2, <2>1
  <2> QED  BY <1>3, <2>2, <2>3
<1>4. 0 \in S
  <2>1. 0 \in Nat /\ 0 + 1 = 1 /\ 1 \in Nat
    OBVIOUS
  <2>2. Cardinality(f[0]) \in Nat /\ Cardinality(f[1]) \in Nat
    BY <1>2, <2>1
  <2> QED  BY <1>3, <2>1, <2>2
<1>5. ASSUME NEW k \in S PROVE k + 1 \in S
  <2>1. k \in Nat /\ k + 1 \in Nat /\ (k + 1) + 1 \in Nat
    OBVIOUS
  <2>2. CASE f[k + 1] = f[(k + 1) + 1]
    BY <2>1, <2>2
  <2>3. CASE f[k + 1] # f[(k + 1) + 1]
    <3>1. f[k] # f[k + 1]
      BY <2>1, <2>3
    <3>2. Cardinality(f[k + 1]) >= k + 1
      BY <3>1
    <3>3. Cardinality(f[k + 1]) < Cardinality(f[(k + 1) + 1])
      BY <1>3, <2>1, <2>3
    <3>4. Cardinality(f[k + 1]) \in Nat /\ Cardinality(f[(k + 1) + 1]) \in Nat
      BY <1>2, <2>1
    <3> QED  BY <2>1, <3>2, <3>3, <3>4
  <2> QED  BY <2>2, <2>3
<1>6. S = Nat
  <2>1. S \in SUBSET Nat
    OBVIOUS
  <2> HIDE DEF S
  <2> QED  BY <1>4, <1>5, <2>1, EveryNumber
<1>7. f[n] = f[n + 1] \/ Cardinality(f[n + 1]) >= n + 1
  BY <1>6
<1>8. Cardinality(f[n + 1]) \in Nat /\ Cardinality(f[n + 1]) <= N
  BY <1>2
<1> HIDE DEF N
<1>9. N <= n
  BY DEF N
<1> QED  BY <1>1, <1>7, <1>8, <1>9

(* There are no more waves than stories. *)
LEMMA SeenEnds ==
    ASSUME NEW deps, IsFiniteSet(DOMAIN deps), NEW seen, Steps(deps, seen)
    PROVE  LET N == Cardinality(DOMAIN deps)
           IN  N \in Nat /\ seen[N + 1] = seen[N] /\ Ready(deps, seen[N]) \subseteq seen[N]
<1> DEFINE D == DOMAIN deps
           N == Cardinality(D)
<1>1. N \in Nat
  BY FS_CardinalityType
<1>2. seen \in [Nat -> SUBSET D] /\ \A k \in Nat : seen[k] \subseteq seen[k + 1]
  BY SeenGrows DEF Steps
<1>3. ASSUME NEW k \in Nat, seen[k] = seen[k + 1] PROVE seen[k + 1] = seen[(k + 1) + 1]
  <2>1. (k + 1) + 1 \in Nat /\ k <= k + 1 /\ k <= (k + 1) + 1
    OBVIOUS
  <2> QED  BY <1>3, <2>1, SeenGrows
<1>4. seen[N + 1] = seen[N]
  <2>1. N <= N
    BY <1>1
  <2>2. IsFiniteSet(D)
    OBVIOUS
  <2> HIDE DEF D
  <2> QED  BY <1>1, <1>2, <1>3, <2>1, <2>2, GrowthEnds
<1>5. Ready(deps, seen[N]) \subseteq seen[N]
  <2> HIDE DEF N
  <2> QED  BY <1>1, <1>4 DEF Steps
<1> QED  BY <1>1, <1>4, <1>5

(* Whatever no wave reaches waits for itself. *)
LEMMA SeenUnlessCycle ==
    ASSUME NEW deps, IsFiniteSet(DOMAIN deps), KnownOnly(deps), NEW seen, Steps(deps, seen)
    PROVE  seen[Cardinality(DOMAIN deps)] = DOMAIN deps <=> ~HasCycle(deps)
<1> DEFINE D == DOMAIN deps
           N == Cardinality(D)
<1>1. N \in Nat /\ Ready(deps, seen[N]) \subseteq seen[N] /\ seen[N] \in SUBSET D
  <2>1. N \in Nat /\ Ready(deps, seen[N]) \subseteq seen[N]
    BY SeenEnds
  <2> HIDE DEF N
  <2> QED  BY <2>1 DEF Steps
<1>2. ASSUME seen[N] # D PROVE HasCycle(deps)
  <2> DEFINE S == D \ seen[N]
  <2>1. S \in SUBSET D /\ S # {}
    BY <1>1, <1>2
  <2>2. ASSUME NEW s \in S PROVE deps[s] \cap S # {}
    <3>1. s \notin Ready(deps, seen[N]) /\ s \in D
      BY <1>1
    <3>2. ~(deps[s] \subseteq seen[N]) /\ deps[s] \subseteq D
      BY <3>1 DEF Ready, KnownOnly
    <3> QED  BY <3>2
  <2> HIDE DEF S
  <2> QED  BY <2>1, <2>2 DEF HasCycle
<1>3. ASSUME HasCycle(deps) PROVE seen[N] # D
  <2>1. PICK S \in SUBSET D : S # {} /\ \A s \in S : deps[s] \cap S # {}
    BY <1>3 DEF HasCycle
  <2> DEFINE Outside == {k \in Nat : seen[k] \cap S = {}}
  <2>2. 0 \in Outside
    BY DEF Steps
  <2>3. ASSUME NEW k \in Outside PROVE k + 1 \in Outside
    <3>1. seen[k + 1] = seen[k] \cup Ready(deps, seen[k]) /\ k + 1 \in Nat
      BY DEF Steps
    <3>2. Ready(deps, seen[k]) \cap S = {}
      BY <2>1 DEF Ready
    <3> QED  BY <3>1, <3>2
  <2>4. Outside \in SUBSET Nat
    OBVIOUS
  <2>5. Outside = Nat
    <3> HIDE DEF Outside
    <3> QED  BY <2>2, <2>3, <2>4, EveryNumber
  <2>6. seen[N] \cap S = {}
    BY <1>1, <2>5
  <2> QED  BY <2>1, <2>6
<1> QED  BY <1>2, <1>3

(* The waves are the steps that add something, which come first. *)
LEMMA WavesAreSteps ==
    ASSUME NEW deps, IsFiniteSet(DOMAIN deps), NEW seen, Steps(deps, seen),
           SeenAfter(deps) = [k \in 0..Cardinality(DOMAIN deps) |-> seen[k]]
    PROVE  \E m \in Nat :
              /\ DeliveryWaves(deps) = [k \in 1..m |-> seen[k] \ seen[k - 1]]
              /\ \A k \in Nat : m <= k => seen[k] = seen[m]
              /\ seen[m] = seen[Cardinality(DOMAIN deps)]
<1> DEFINE N == Cardinality(DOMAIN deps)
           S == {n \in Nat : \E m \in 0..n : /\ \A k \in 1..m : seen[k] # seen[k - 1]
                                             /\ m < n => seen[m] = seen[m + 1]}
<1>1. N \in Nat /\ seen[N + 1] = seen[N]
  BY SeenEnds
<1> HIDE DEF N
<1>2. 0 \in S
  OBVIOUS
<1>3. ASSUME NEW n \in S PROVE n + 1 \in S
  <2>1. PICK m \in 0..n : /\ \A k \in 1..m : seen[k] # seen[k - 1]
                          /\ m < n => seen[m] = seen[m + 1]
    OBVIOUS
  <2>2. n + 1 \in Nat /\ m \in 0..(n + 1) /\ n + 1 \in 0..(n + 1)
    BY <2>1
  <2>3. CASE seen[m] = seen[m + 1]
    BY <2>1, <2>2, <2>3
  <2>4. CASE seen[m] # seen[m + 1]
    <3>1. m = n
      BY <2>1, <2>4
    <3>2. \A k \in 1..(n + 1) : seen[k] # seen[k - 1]
      <4> SUFFICES ASSUME NEW k \in 1..(n + 1) PROVE seen[k] # seen[k - 1]
        OBVIOUS
      <4>1. CASE k \in 1..m
        BY <2>1, <4>1
      <4>2. CASE k \notin 1..m
        <5>1. k = m + 1 /\ k - 1 = m
          BY <3>1, <4>2
        <5> QED  BY <2>4, <5>1
      <4> QED  BY <4>1, <4>2
    <3>3. ~(n + 1 < n + 1)
      BY <2>2
    <3> QED  BY <2>2, <3>2, <3>3
  <2> QED  BY <2>3, <2>4
<1>4. S = Nat
  <2>1. S \in SUBSET Nat
    OBVIOUS
  <2> HIDE DEF S
  <2> QED  BY <1>2, <1>3, <2>1, EveryNumber
<1>5. PICK m \in 0..N : /\ \A k \in 1..m : seen[k] # seen[k - 1]
                        /\ m < N => seen[m] = seen[m + 1]
  BY <1>1, <1>4
<1>6. m \in Nat /\ m <= N /\ \A k \in Nat : m <= k => seen[k] = seen[m]
  <2>1. m \in Nat /\ m <= N /\ seen[m] = seen[m + 1]
    BY <1>1, <1>5
  <2> QED  BY <2>1, SeenGrows
<1>7. {k \in (0..N) \ {0} : seen[k] # seen[k - 1]} = 1..m
  <2>1. ASSUME NEW k \in (0..N) \ {0} PROVE seen[k] # seen[k - 1] <=> k \in 1..m
    <3>1. CASE k \in 1..m
      BY <1>5, <3>1
    <3>2. CASE k \notin 1..m
      <4>1. k \in Nat /\ k - 1 \in Nat /\ m <= k - 1 /\ m <= k
        BY <1>1, <1>6, <3>2
      <4> QED  BY <1>6, <3>2, <4>1
    <3> QED  BY <3>1, <3>2
  <2>2. 1..m \subseteq (0..N) \ {0}
    BY <1>1, <1>6
  <2> QED  BY <2>1, <2>2
<1> DEFINE after == SeenAfter(deps)
<1>8. after = [k \in 0..N |-> seen[k]] /\ DOMAIN after = 0..N
  BY DEF N
<1>9. {k \in DOMAIN after \ {0} : after[k] # after[k - 1]} = 1..m
  <2>1. \A k \in (0..N) \ {0} : k - 1 \in 0..N /\ k \in 0..N
    BY <1>1
  <2>2. \A k \in (0..N) \ {0} : after[k] = seen[k] /\ after[k - 1] = seen[k - 1]
    BY <1>8, <2>1
  <2> HIDE DEF after
  <2> QED  BY <1>7, <1>8, <2>2
<1>10. Cardinality(1..m) = m
  <2>1. 1 \in Int /\ m \in Int
    BY <1>6
  <2> QED  BY <1>6, <2>1, FS_Interval
<1>11. DeliveryWaves(deps) = [k \in 1..m |-> after[k] \ after[k - 1]]
  BY <1>9, <1>10 DEF DeliveryWaves
<1>12. \A k \in 1..m : after[k] = seen[k] /\ after[k - 1] = seen[k - 1]
  <2>1. \A k \in 1..m : k \in 0..N /\ k - 1 \in 0..N
    BY <1>1, <1>6
  <2> QED  BY <1>8, <2>1
<1>13. DeliveryWaves(deps) = [k \in 1..m |-> seen[k] \ seen[k - 1]]
  <2> HIDE DEF after
  <2> QED  BY <1>11, <1>12
<1>14. seen[m] = seen[N]
  BY <1>1, <1>6
<1> QED  BY <1>6, <1>13, <1>14 DEF N

(* The waves of stories that do not wait in a circle hold every story      *)
(* once, as early as what it depends on allows.                            *)
LEMMA WavesInOrder ==
    ASSUME NEW deps, IsFiniteSet(DOMAIN deps), KnownOnly(deps), ~HasCycle(deps)
    PROVE  LET waves == DeliveryWaves(deps)
           IN  /\ DOMAIN waves \subseteq Nat /\ UNION Range(waves) = DOMAIN deps
               /\ \A s \in DOMAIN deps : \E k \in DOMAIN waves : s \in waves[k]
               /\ \A j, k \in DOMAIN waves : j # k => waves[j] \cap waves[k] = {}
               /\ \A s \in DOMAIN deps :
                     LET before == {WaveOf(waves, d) : d \in deps[s]}
                     IN  WaveOf(waves, s) = Max({0} \cup before) + 1
<1> DEFINE D == DOMAIN deps
           N == Cardinality(D)
           waves == DeliveryWaves(deps)
<1>1. PICK seen : Steps(deps, seen) /\ SeenAfter(deps) = [k \in 0..N |-> seen[k]]
  BY SeenSteps
<1>2. PICK m \in Nat :
         /\ waves = [k \in 1..m |-> seen[k] \ seen[k - 1]]
         /\ \A k \in Nat : m <= k => seen[k] = seen[m]
         /\ seen[m] = seen[N]
  BY <1>1, WavesAreSteps
<1>3. seen[m] = D
  BY <1>1, <1>2, SeenUnlessCycle
<1> HIDE DEF N, waves
<1>4. DOMAIN waves = 1..m /\ \A k \in 1..m : waves[k] = seen[k] \ seen[k - 1]
  BY <1>2
<1>5. \A k \in Nat : seen[k] \subseteq D
  BY <1>1 DEF Steps
<1>6. ASSUME NEW s \in D PROVE \E k \in 1..m : s \in waves[k]
  <2>1. ASSUME \A k \in 1..m : s \notin waves[k] PROVE FALSE
    <3> DEFINE L == {k \in Nat : k <= m => s \notin seen[k]}
    <3>1. 0 \in L
      BY <1>1 DEF Steps
    <3>2. ASSUME NEW k \in L PROVE k + 1 \in L
      <4> SUFFICES ASSUME k + 1 <= m PROVE s \notin seen[k + 1]
        OBVIOUS
      <4>1. k + 1 \in 1..m /\ (k + 1) - 1 = k /\ s \notin seen[k]
        BY <1>2
      <4> QED  BY <1>4, <2>1, <4>1
    <3>3. L \in SUBSET Nat
      OBVIOUS
    <3>4. L = Nat
      <4> HIDE DEF L
      <4> QED  BY <3>1, <3>2, <3>3, EveryNumber
    <3>5. s \notin seen[m]
      BY <1>2, <3>4
    <3> QED  BY <1>3, <3>5
  <2> QED  BY <2>1
<1>7. ASSUME NEW j \in 1..m, NEW k \in 1..m, NEW s, s \in waves[j], s \in waves[k] PROVE j = k
  <2>1. j \in Nat /\ k \in Nat /\ j - 1 \in Nat /\ k - 1 \in Nat
    BY <1>2
  <2>2. s \in seen[j] /\ s \notin seen[j - 1] /\ s \in seen[k] /\ s \notin seen[k - 1]
    BY <1>4, <1>7
  <2>3. ~(j <= k - 1) /\ ~(k <= j - 1)
    BY <1>1, <2>1, <2>2, SeenGrows
  <2> QED  BY <2>1, <2>3
<1>8. ASSUME NEW s \in D PROVE WaveOf(waves, s) \in 1..m /\ s \in waves[WaveOf(waves, s)]
  BY <1>4, <1>6 DEF WaveOf
<1>9. ASSUME NEW s \in D
      PROVE  LET before == {WaveOf(waves, d) : d \in deps[s]}
             IN  WaveOf(waves, s) = Max({0} \cup before) + 1
  <2> DEFINE k == WaveOf(waves, s)
             B == {0} \cup {WaveOf(waves, d) : d \in deps[s]}
  <2>1. k \in 1..m /\ k \in Nat /\ k - 1 \in Nat /\ s \in seen[k] /\ s \notin seen[k - 1]
    BY <1>2, <1>4, <1>8
  <2>2. deps[s] \subseteq D
    BY DEF KnownOnly
  <2> HIDE DEF k
  <2>3. seen[k] = seen[k - 1] \cup Ready(deps, seen[k - 1])
    <3>1. (k - 1) + 1 = k
      BY <2>1
    <3> QED  BY <1>1, <2>1, <3>1 DEF Steps
  <2>4. deps[s] \subseteq seen[k - 1]
    BY <2>1, <2>3 DEF Ready
  <2>5. ASSUME NEW d \in deps[s] PROVE WaveOf(waves, d) \in Nat /\ WaveOf(waves, d) <= k - 1
    <3> DEFINE w == WaveOf(waves, d)
    <3>1. w \in 1..m /\ d \notin seen[w - 1] /\ w - 1 \in Nat
      BY <1>2, <1>4, <1>8, <2>2
    <3> HIDE DEF w
    <3>2. ~(k - 1 <= w - 1)
      <4>1. d \in seen[k - 1]
        BY <2>4
      <4> QED  BY <1>1, <2>1, <3>1, <4>1, SeenGrows
    <3>3. w \in Nat /\ w <= k - 1
      BY <2>1, <3>1, <3>2
    <3> QED  BY <3>3 DEF w
  <2>6. k - 1 \in B
    <3>1. CASE k = 1
      BY <3>1
    <3>2. CASE k # 1
      <4>1. k - 1 \in 1..m /\ k - 2 \in Nat /\ (k - 1) - 1 = k - 2 /\ (k - 2) + 1 = k - 1
        BY <2>1, <3>2
      <4>2. s \notin Ready(deps, seen[k - 2])
        BY <1>1, <2>1, <4>1 DEF Steps
      <4>3. PICK d \in deps[s] : d \notin seen[k - 2]
        BY <4>2 DEF Ready
      <4>4. d \in waves[k - 1]
        BY <1>4, <2>4, <4>1, <4>3
      <4>5. WaveOf(waves, d) = k - 1
        BY <1>7, <1>8, <2>2, <4>1, <4>3, <4>4
      <4> QED  BY <4>3, <4>5
    <3> QED  BY <3>1, <3>2
  <2>7. \A b \in B : b \in Nat /\ b <= k - 1
    BY <2>1, <2>5
  <2> HIDE DEF B
  <2>8. Max(B) = k - 1
    <3>1. \E x \in B : \A y \in B : x >= y
      BY <2>1, <2>6, <2>7
    <3>2. Max(B) \in B /\ \A y \in B : Max(B) >= y
      BY <3>1 DEF Max
    <3> QED  BY <2>1, <2>6, <2>7, <3>2
  <2>9. k = Max(B) + 1
    BY <2>1, <2>8
  <2> QED  BY <2>9 DEF k, B
<1>10. UNION Range(waves) = D
  <2>1. \A k \in 1..m : waves[k] \subseteq D
    BY <1>4, <1>5
  <2>2. Range(waves) = {waves[k] : k \in 1..m}
    BY <1>4 DEF Range
  <2>3. UNION {waves[k] : k \in 1..m} = D
    BY <1>6, <2>1
  <2> QED  BY <2>2, <2>3
<1>11. \A j, k \in DOMAIN waves : j # k => waves[j] \cap waves[k] = {}
  BY <1>4, <1>7
<1>12. DOMAIN waves \subseteq Nat
  BY <1>4
<1> QED  BY <1>4, <1>6, <1>9, <1>10, <1>11, <1>12 DEF waves

(* Where each of finitely many comes in an order: B says what is before it. *)
Precedes(P, B) ==
    /\ IsFiniteSet(P) /\ B \in [P -> SUBSET P]
    /\ \A p \in P : p \notin B[p]
    /\ \A p, q \in P : p # q => q \in B[p] \/ p \in B[q]
    /\ \A p, q \in P : q \in B[p] => B[q] \subseteq B[p]

Placed(P, B) == \A k \in 1..Cardinality(P) : \E p \in P : Cardinality(B[p]) = k - 1

LEMMA Ranks ==
    ASSUME NEW P, NEW B, Precedes(P, B)
    PROVE  /\ Cardinality(P) \in Nat
           /\ Placed(P, B)
           /\ \A p \in P : Cardinality(B[p]) \in Nat /\ Cardinality(B[p]) + 1 \in 1..Cardinality(P)
           /\ \A p, q \in P : Cardinality(B[p]) = Cardinality(B[q]) => p = q
<1> DEFINE N == Cardinality(P)
           r == [p \in P |-> Cardinality(B[p]) + 1]
<1> USE DEF Precedes
<1>1. N \in Nat
  BY FS_CardinalityType
<1>2. ASSUME NEW p \in P
      PROVE  IsFiniteSet(B[p]) /\ Cardinality(B[p]) \in Nat /\ Cardinality(B[p]) + 1 \in 1..N
  <2>1. B[p] \in SUBSET P /\ B[p] # P
    OBVIOUS
  <2>2. /\ IsFiniteSet(B[p]) /\ Cardinality(B[p]) \in Nat /\ Cardinality(B[p]) <= N
        /\ N = Cardinality(B[p]) => P = B[p]
    BY <2>1, FS_Subset, FS_CardinalityType
  <2> HIDE DEF N
  <2> QED  BY <1>1, <2>1, <2>2
<1>3. ASSUME NEW p \in P, NEW q \in P, q \in B[p] PROVE Cardinality(B[q]) # Cardinality(B[p])
  <2>1. B[q] \in SUBSET B[p] /\ q \notin B[q]
    BY <1>3
  <2>2. Cardinality(B[p]) = Cardinality(B[q]) => B[p] = B[q]
    BY <1>2, <2>1, FS_Subset
  <2> QED  BY <1>3, <2>1, <2>2
<1>4. \A p, q \in P : Cardinality(B[p]) = Cardinality(B[q]) => p = q
  BY <1>3
<1>5. r \in Injection(P, 1..N)
  <2>1. r \in [P -> 1..N]
    BY <1>2
  <2>2. \A p, q \in P : r[p] = r[q] => p = q
    <3> HIDE DEF N
    <3> QED  BY <1>2, <1>4
  <2> HIDE DEF r
  <2> QED  BY <2>1, <2>2 DEF Injection, IsInjective
<1>6. IsFiniteSet(1..N) /\ Cardinality(1..N) = N
  <2>1. 1 \in Int /\ N \in Int
    BY <1>1
  <2> HIDE DEF N
  <2> QED  BY <1>1, <2>1, FS_Interval
<1>7. r \in Surjection(P, 1..N)
  <2> DEFINE T == 1..N
  <2>1. IsFiniteSet(T) /\ Cardinality(P) = Cardinality(T) /\ r \in Injection(P, T)
    BY <1>5, <1>6
  <2>2. r \in Surjection(P, T)
    <3> HIDE DEF r, T
    <3> QED  BY <2>1, FS_Injection
  <2> QED  BY <2>2
<1>8. ASSUME NEW k \in 1..N PROVE \E p \in P : Cardinality(B[p]) = k - 1
  <2>1. \E p \in P : r[p] = k
    BY <1>7 DEF Surjection
  <2>2. PICK p \in P : Cardinality(B[p]) + 1 = k
    BY <2>1
  <2>3. Cardinality(B[p]) \in Nat
    BY <1>2
  <2> QED  BY <1>1, <2>2, <2>3
<1> QED  BY <1>1, <1>2, <1>4, <1>8 DEF Placed

(* All of a set once, in a sequence. *)
Lists(s, S) ==
    /\ s \in Seq(S) /\ Range(s) = S
    /\ \A j, k \in 1..Len(s) : s[j] = s[k] => j = k

LEMMA RankLists ==
    ASSUME NEW P, NEW B, Precedes(P, B),
           NEW s \in [1..Cardinality(P) -> P],
           \A k \in 1..Cardinality(P) : Cardinality(B[s[k]]) = k - 1
    PROVE  Lists(s, P) /\ Len(s) = Cardinality(P)
<1> DEFINE N == Cardinality(P)
<1>1. /\ N \in Nat
      /\ \A p \in P : Cardinality(B[p]) \in Nat /\ Cardinality(B[p]) + 1 \in 1..N
      /\ \A p, q \in P : Cardinality(B[p]) = Cardinality(B[q]) => p = q
  BY Ranks
<1>2. s \in [1..N -> P] /\ \A k \in 1..N : s[k] \in P /\ Cardinality(B[s[k]]) = k - 1
  OBVIOUS
<1> HIDE DEF N
<1>3. s \in Seq(P) /\ Len(s) = N /\ DOMAIN s = 1..N
  <2>1. s \in Seq(P)
    <3>1. [1..N -> P] \in {[1..n -> P] : n \in Nat}
      BY <1>1
    <3>2. s \in UNION {[1..n -> P] : n \in Nat}
      BY <1>2, <3>1
    <3> QED  BY <3>2, SeqDef
  <2>2. Len(s) \in Nat /\ DOMAIN s = 1..Len(s)
    BY <2>1, LenProperties
  <2>3. 1..Len(s) = 1..N
    BY <1>2, <2>2
  <2>4. Cardinality(1..N) = N /\ Cardinality(1..Len(s)) = Len(s)
    <3>1. 1 \in Int /\ N \in Int /\ Len(s) \in Int
      BY <1>1, <2>2
    <3>2. /\ Cardinality(1..N) = IF 1 > N THEN 0 ELSE N - 1 + 1
          /\ Cardinality(1..Len(s)) = IF 1 > Len(s) THEN 0 ELSE Len(s) - 1 + 1
      BY <3>1, FS_Interval
    <3> QED  BY <1>1, <2>2, <3>2
  <2>5. Len(s) = N
    BY <2>3, <2>4
  <2> QED  BY <2>1, <2>2, <2>5
<1>4. ASSUME NEW j \in 1..N, NEW k \in 1..N, s[j] = s[k] PROVE j = k
  <2>1. j - 1 = k - 1
    BY <1>2, <1>4
  <2> QED  BY <1>1, <2>1
<1>5. ASSUME NEW p \in P PROVE \E k \in 1..N : s[k] = p
  <2> DEFINE k == Cardinality(B[p]) + 1
  <2>1. k \in 1..N /\ Cardinality(B[p]) = k - 1
    BY <1>1
  <2>2. s[k] \in P /\ Cardinality(B[s[k]]) = Cardinality(B[p])
    <3> HIDE DEF k
    <3> QED  BY <1>2, <2>1
  <2>3. s[k] = p
    BY <1>1, <2>2
  <2> QED  BY <2>1, <2>3
<1>6. Range(s) = P
  <2>1. Range(s) = {s[k] : k \in 1..N}
    BY <1>3 DEF Range
  <2> QED  BY <1>2, <1>5, <2>1
<1> QED  BY <1>3, <1>4, <1>6 DEF Lists, N

LEMMA SortedLists ==
    ASSUME NEW S, IsFiniteSet(S), S \subseteq Int
    PROVE  Lists(Sorted(S), S) /\ Len(Sorted(S)) = Cardinality(S)
<1> DEFINE B == [s \in S |-> {x \in S : x < s}]
           N == Cardinality(S)
<1>1. B \in [S -> SUBSET S]
  OBVIOUS
<1>2. ASSUME NEW p \in S, NEW q \in S
      PROVE  p \notin B[p] /\ (p # q => q \in B[p] \/ p \in B[q]) /\ (q \in B[p] => B[q] \subseteq B[p])
  <2>1. \A x \in S : x \in Int
    OBVIOUS
  <2>2. \A x : /\ x \in B[p] <=> x \in S /\ x < p
               /\ x \in B[q] <=> x \in S /\ x < q
    OBVIOUS
  <2> HIDE DEF B
  <2>3. p \in Int /\ q \in Int
    BY <2>1
  <2>4. ~(p < p) /\ (p # q => q < p \/ p < q) /\ (q < p => \A x \in S : x < q => x < p)
    BY <2>1, <2>3
  <2>5. p \notin B[p] /\ (p # q => q \in B[p] \/ p \in B[q])
    BY <2>2, <2>4
  <2>6. q \in B[p] => B[q] \subseteq B[p]
    BY <2>2, <2>4
  <2> QED  BY <2>5, <2>6
<1>7. Precedes(S, B)
  <2> HIDE DEF B
  <2> QED  BY <1>1, <1>2 DEF Precedes
<1>3. \A k \in 1..N : \E p \in S : Cardinality(B[p]) = k - 1
  <2> HIDE DEF B
  <2>1. Placed(S, B)
    BY <1>7, Ranks
  <2> QED  BY <2>1 DEF Placed
<1>4. \A k \in 1..N : \E p \in S : Cardinality({x \in S : x < p}) = k - 1
  BY <1>3
<1>5. Sorted(S) \in [1..N -> S] /\ \A k \in 1..N : Cardinality({x \in S : x < Sorted(S)[k]}) = k - 1
  BY <1>4 DEF Sorted
<1>6. \A k \in 1..N : Cardinality(B[Sorted(S)[k]]) = k - 1
  <2> SUFFICES ASSUME NEW k \in 1..N PROVE Cardinality(B[Sorted(S)[k]]) = k - 1
    OBVIOUS
  <2>1. Sorted(S)[k] \in S
    BY <1>5
  <2> QED  BY <1>5, <2>1
<1> HIDE DEF B
<1> QED  BY <1>7, <1>5, <1>6, RankLists

(* topo_order after k turns: what is queued is ready and not yet served.   *)
NoRepeats(s) == \A i, j \in 1..Len(s) : s[i] = s[j] => i = j

DepsFirst(deps, order) ==
    \A i \in 1..Len(order) : \A d \in deps[order[i]] : \E j \in 1..(i - 1) : order[j] = d

Queues(deps) == [order : Seq(DOMAIN deps), queue : Seq(DOMAIN deps)]

Serving(deps, at, k) ==
    /\ at \in Queues(deps)
    /\ NoRepeats(at.order) /\ NoRepeats(at.queue)
    /\ DepsFirst(deps, at.order)
    /\ Range(at.queue) = Unseen(deps, Range(at.order))
    /\ at.queue = <<>> \/ Len(at.order) = k

LEMMA ListRange ==
    ASSUME NEW S, NEW s \in Seq(S)
    PROVE  /\ \A x : x \in Range(s) <=> \E i \in 1..Len(s) : s[i] = x
           /\ Range(s) \subseteq S /\ Len(s) \in Nat
<1>1. Len(s) \in Nat /\ s \in [1..Len(s) -> S] /\ DOMAIN s = 1..Len(s)
  BY LenProperties
<1> QED  BY <1>1 DEF Range

(* A sequence without repetition is as long as what it lists. *)
LEMMA OnceCounts ==
    ASSUME NEW S, NEW s \in Seq(S), NoRepeats(s)
    PROVE  IsFiniteSet(Range(s)) /\ Cardinality(Range(s)) = Len(s)
<1> DEFINE T == 1..Len(s)
<1>1. /\ Len(s) \in Nat /\ s \in [T -> S]
      /\ \A x : x \in Range(s) <=> \E i \in T : s[i] = x
  BY ListRange, LenProperties
<1>2. IsFiniteSet(T) /\ Cardinality(T) = Len(s)
  <2>1. 1 \in Int /\ Len(s) \in Int
    BY <1>1
  <2>2. IsFiniteSet(T) /\ Cardinality(T) = IF 1 > Len(s) THEN 0 ELSE Len(s) - 1 + 1
    BY <2>1, FS_Interval
  <2> QED  BY <1>1, <2>2
<1> DEFINE f == [i \in T |-> s[i]]
<1>3. \A i, j \in T : s[i] = s[j] => i = j
  BY DEF NoRepeats
<1> HIDE DEF T
<1>4. f \in [T -> Range(s)] /\ \A i, j \in T : f[i] = f[j] => i = j
  BY <1>1, <1>3
<1>5. \A x \in Range(s) : \E i \in T : f[i] = x
  BY <1>1
<1> HIDE DEF f
<1>6. f \in Surjection(T, Range(s))
  BY <1>4, <1>5 DEF Surjection
<1>7. f \in Injection(T, Range(s))
  BY <1>4 DEF Injection, IsInjective
<1>8. IsFiniteSet(Range(s)) /\ (Cardinality(Range(s)) = Cardinality(T) <=> f \in Injection(T, Range(s)))
  BY <1>2, <1>6, FS_Surjection
<1> QED  BY <1>2, <1>7, <1>8

LEMMA ServedOnce ==
    ASSUME NEW deps, IsFiniteSet(DOMAIN deps), DOMAIN deps \subseteq Int,
           NEW k \in Nat, NEW at, Serving(deps, at, k)
    PROVE  Serving(deps, Served(deps, at), k + 1)
<1> DEFINE D == DOMAIN deps
           next == Head(at.queue)
           done == Range(at.order) \cup {next}
           fresh == {s \in D : next \in deps[s] /\ deps[s] \subseteq done}
           order == Append(at.order, next)
           queue == Tail(at.queue) \o Sorted(fresh)
<1>1. CASE at.queue = <<>>
  BY <1>1 DEF Serving, Served
<1>2. CASE at.queue # <<>>
  <2>1. /\ at.order \in Seq(D) /\ at.queue \in Seq(D) /\ NoRepeats(at.order) /\ NoRepeats(at.queue)
        /\ DepsFirst(deps, at.order) /\ Len(at.order) = k
        /\ Range(at.queue) = Unseen(deps, Range(at.order))
    BY <1>2 DEF Serving, Queues
  <2>2. Served(deps, at) = [order |-> order, queue |-> queue]
    BY <1>2 DEF Served
  <2>3. next \in Range(at.queue) /\ next \in D /\ Len(at.queue) \in Nat /\ Len(at.queue) >= 1 /\ next = at.queue[1]
    <3>1. Len(at.queue) \in Nat /\ Len(at.queue) # 0
      BY <1>2, <2>1
    <3>2. next = at.queue[1] /\ 1 \in 1..Len(at.queue)
      BY <1>2, <2>1, <3>1
    <3> QED  BY <2>1, <3>1, <3>2, ListRange
  <2>4. next \notin Range(at.order) /\ deps[next] \subseteq Range(at.order)
    BY <2>1, <2>3 DEF Unseen, Ready
  <2> HIDE DEF next
  <2>5. order \in Seq(D) /\ Len(order) = k + 1 /\ order[k + 1] = next /\ \A i \in 1..k : order[i] = at.order[i]
    BY <2>1, <2>3
  <2>6. (\A x : x \in Range(at.order) <=> \E i \in 1..k : at.order[i] = x) /\ Range(order) = done
    <3>1. \A x : x \in Range(at.order) <=> \E i \in 1..k : at.order[i] = x
      BY <2>1, ListRange
    <3>2. \A x : x \in Range(order) <=> \E i \in 1..(k + 1) : order[i] = x
      <4>1. \A x : x \in Range(order) <=> \E i \in 1..Len(order) : order[i] = x
        BY <2>5, ListRange
      <4> QED  BY <2>5, <4>1
    <3> HIDE DEF order
    <3>3. \A i \in 1..(k + 1) : i \in 1..k \/ i = k + 1
      OBVIOUS
    <3>4. \A i \in 1..k : i \in 1..(k + 1)
      OBVIOUS
    <3>5. k + 1 \in 1..(k + 1)
      OBVIOUS
    <3> QED  BY <2>5, <3>1, <3>2, <3>3, <3>4, <3>5
  <2> HIDE DEF order
  <2>7. NoRepeats(order)
    <3> SUFFICES ASSUME NEW i \in 1..(k + 1), NEW j \in 1..(k + 1), order[i] = order[j] PROVE i = j
      BY <2>5 DEF NoRepeats
    <3>1. (i \in 1..k \/ i = k + 1) /\ (j \in 1..k \/ j = k + 1)
      OBVIOUS
    <3>2. \A n \in 1..k : at.order[n] # next
      BY <2>4, <2>6
    <3>3. CASE i \in 1..k /\ j \in 1..k
      BY <2>1, <2>5, <3>3 DEF NoRepeats
    <3> QED  BY <2>5, <3>1, <3>2, <3>3
  <2>8. DepsFirst(deps, order)
    <3> SUFFICES ASSUME NEW i \in 1..(k + 1), NEW d \in deps[order[i]]
                 PROVE  \E j \in 1..(i - 1) : order[j] = d
      BY <2>5 DEF DepsFirst
    <3>1. CASE i \in 1..k
      <4>1. PICK j \in 1..(i - 1) : at.order[j] = d
        BY <2>1, <2>5, <3>1 DEF DepsFirst
      <4>2. j \in 1..k
        BY <3>1
      <4> QED  BY <2>5, <4>1, <4>2
    <3>2. CASE i = k + 1
      <4>1. d \in Range(at.order)
        BY <2>4, <2>5, <3>2
      <4>2. PICK j \in 1..k : at.order[j] = d
        BY <2>6, <4>1
      <4>3. j \in 1..(i - 1)
        BY <3>2
      <4> QED  BY <2>5, <4>2, <4>3
    <3> QED  BY <3>1, <3>2
  <2>9. Lists(Sorted(fresh), fresh)
    <3>1. fresh \in SUBSET D
      OBVIOUS
    <3> HIDE DEF fresh
    <3> QED  BY <3>1, FS_Subset, SortedLists
  <2>10. fresh \cap Ready(deps, Range(at.order)) = {}
    BY <2>4 DEF Ready
  <2>11. Unseen(deps, done) = (Range(at.queue) \ {next}) \cup fresh
    <3>1. \A s \in D : deps[s] \subseteq done <=> deps[s] \subseteq Range(at.order) \/ s \in fresh
      OBVIOUS
    <3>2. ASSUME NEW s \in Range(at.order) PROVE deps[s] \subseteq Range(at.order)
      <4>1. PICK i \in 1..k : at.order[i] = s
        BY <2>6
      <4>2. \A d \in deps[s] : \E j \in 1..(i - 1) : at.order[j] = d
        BY <2>1, <4>1 DEF DepsFirst
      <4>3. \A j \in 1..(i - 1) : j \in 1..k
        OBVIOUS
      <4> QED  BY <2>6, <4>2, <4>3
    <3>3. \A s \in fresh : s \in D /\ s \notin Range(at.order) /\ s # next
      BY <2>4, <2>10, <3>2 DEF Ready
    <3> HIDE DEF fresh
    <3> QED  BY <2>1, <2>4, <3>1, <3>3 DEF Unseen, Ready
  <2> QED
    <3> DEFINE rest == Tail(at.queue)
               more == Sorted(fresh)
               m == Len(at.queue) - 1
               n == Len(more)
    <3>1. rest \in Seq(D) /\ Len(rest) = m /\ m \in Nat /\ \A i \in 1..m : rest[i] = at.queue[i + 1]
      <4>1. at.queue \in Seq(D) /\ at.queue # <<>> /\ Len(at.queue) \in Nat /\ m \in Nat
        BY <1>2, <2>1, <2>3
      <4>2. rest \in Seq(D) /\ Len(rest) = Len(at.queue) - 1
        BY <4>1, HeadTailProperties
      <4>3. \A i \in 1..Len(rest) : rest[i] = at.queue[i + 1]
        BY <4>1, HeadTailProperties
      <4> QED  BY <4>1, <4>2, <4>3
    <3>2. more \in Seq(D) /\ n \in Nat /\ Range(more) = fresh /\ \A i, j \in 1..n : more[i] = more[j] => i = j
      <4>1. fresh \subseteq D
        OBVIOUS
      <4> HIDE DEF fresh
      <4>2. more \in Seq(fresh)
        BY <2>9 DEF Lists
      <4>3. more \in Seq(D)
        BY <4>1, <4>2, SeqMonotonic
      <4> QED  BY <2>9, <4>2, <4>3, LenProperties DEF Lists
    <3> HIDE DEF fresh, rest, more
    <3>3. /\ queue \in Seq(D) /\ Len(queue) = m + n
          /\ \A i \in 1..m : queue[i] = rest[i]
          /\ \A i \in (m + 1)..(m + n) : queue[i] = more[i - m]
      <4>1. queue = rest \o more /\ Len(more) = n
        BY DEF queue, rest, more, n
      <4> HIDE DEF queue, m, n
      <4>2. queue \in Seq(D) /\ Len(queue) = m + n
        <5>1. rest \o more \in Seq(D) /\ Len(rest \o more) = Len(rest) + Len(more)
          BY <3>1, <3>2, ConcatProperties
        <5> QED  BY <3>1, <4>1, <5>1
      <4>3. \A i \in 1..(m + n) : queue[i] = IF i <= m THEN rest[i] ELSE more[i - m]
        <5>1. Len(rest) = m /\ Len(more) = n
          BY <3>1, <4>1
        <5>2. /\ Len(rest \o more) = Len(rest) + Len(more)
              /\ \A i \in 1..(Len(rest) + Len(more)) :
                    (rest \o more)[i] = IF i <= Len(rest) THEN rest[i] ELSE more[i - Len(rest)]
          <6>1. rest \in Seq(D) /\ more \in Seq(D)
            BY <3>1, <3>2
          <6> QED  BY ONLY <6>1, ConcatProperties
        <5> QED  BY <4>1, <5>1, <5>2
      <4>4. /\ \A i \in 1..m : i \in 1..(m + n) /\ i <= m
            /\ \A i \in (m + 1)..(m + n) : i \in 1..(m + n) /\ ~(i <= m)
        BY <3>1, <3>2
      <4> QED  BY <4>2, <4>3, <4>4
    <3>4. Range(rest) = Range(at.queue) \ {next} /\ \A i, j \in 1..m : rest[i] = rest[j] => i = j
      <4>1. /\ \A x : x \in Range(rest) <=> \E i \in 1..m : rest[i] = x
            /\ \A x : x \in Range(at.queue) <=> \E i \in 1..(m + 1) : at.queue[i] = x
        <5>1. Len(at.queue) = m + 1 /\ Len(rest) = m
          BY <2>3, <3>1 DEF m
        <5>2. /\ \A x : x \in Range(rest) <=> \E i \in 1..Len(rest) : rest[i] = x
              /\ \A x : x \in Range(at.queue) <=> \E i \in 1..Len(at.queue) : at.queue[i] = x
          BY <2>1, <3>1, ListRange
        <5> QED  BY <5>1, <5>2
      <4>2. \A i, j \in 1..(m + 1) : at.queue[i] = at.queue[j] => i = j
        BY <2>1, <3>1 DEF NoRepeats
      <4>3. \A i \in 1..m : i + 1 \in 1..(m + 1) /\ i + 1 # 1
        BY <3>1
      <4>4. \A i \in 1..(m + 1) : i = 1 \/ (i - 1 \in 1..m /\ (i - 1) + 1 = i)
        BY <3>1
      <4>5. 1 \in 1..(m + 1)
        BY <3>1
      <4>6. Range(rest) \subseteq Range(at.queue) \ {next}
        <5> SUFFICES ASSUME NEW x \in Range(rest) PROVE x \in Range(at.queue) /\ x # next
          OBVIOUS
        <5>1. PICK i \in 1..m : rest[i] = x
          BY <4>1
        <5>2. at.queue[i + 1] = x /\ i + 1 \in 1..(m + 1) /\ i + 1 # 1
          BY <3>1, <4>3, <5>1
        <5> QED  BY <2>3, <4>1, <4>2, <4>5, <5>2
      <4>7. Range(at.queue) \ {next} \subseteq Range(rest)
        <5> SUFFICES ASSUME NEW x \in Range(at.queue), x # next PROVE x \in Range(rest)
          OBVIOUS
        <5>1. PICK i \in 1..(m + 1) : at.queue[i] = x
          BY <4>1
        <5>2. i - 1 \in 1..m /\ (i - 1) + 1 = i
          BY <2>3, <4>4, <5>1
        <5>3. rest[i - 1] = x
          BY <3>1, <5>1, <5>2
        <5> QED  BY <4>1, <5>2, <5>3
      <4>8. ASSUME NEW i \in 1..m, NEW j \in 1..m, rest[i] = rest[j] PROVE i = j
        <5>1. i + 1 = j + 1
          BY <3>1, <4>2, <4>3, <4>8
        <5> QED  BY <5>1
      <4> QED  BY <4>6, <4>7, <4>8
    <3>5. /\ \A x : x \in Range(more) <=> \E i \in 1..n : more[i] = x
          /\ \A x : x \in Range(rest) <=> \E i \in 1..m : rest[i] = x
      BY <3>1, <3>2, ListRange DEF n
    <3>6. \A x : x \in Range(queue) <=> \E i \in 1..(m + n) : queue[i] = x
      <4> HIDE DEF queue, m, n
      <4>1. \A x : x \in Range(queue) <=> \E i \in 1..Len(queue) : queue[i] = x
        BY <3>3, ListRange
      <4> QED  BY <3>3, <4>1
    <3> HIDE DEF queue, m, n
    <3>7. Range(queue) = Range(rest) \cup fresh
      <4>1. \A i \in 1..(m + n) : i \in 1..m \/ (i \in (m + 1)..(m + n) /\ i - m \in 1..n)
        BY <3>1, <3>2
      <4>2. \A i \in 1..m : i \in 1..(m + n)
        BY <3>1, <3>2
      <4>3. \A i \in 1..n : i + m \in 1..(m + n) /\ i + m \in (m + 1)..(m + n) /\ (i + m) - m = i
        BY <3>1, <3>2
      <4>4. Range(queue) \subseteq Range(rest) \cup fresh
        <5> SUFFICES ASSUME NEW x \in Range(queue) PROVE x \in Range(rest) \cup fresh
          OBVIOUS
        <5>1. PICK i \in 1..(m + n) : queue[i] = x
          BY <3>6
        <5>2. CASE i \in 1..m
          BY <3>3, <3>5, <5>1, <5>2
        <5>3. CASE i \in (m + 1)..(m + n) /\ i - m \in 1..n
          BY <3>2, <3>3, <3>5, <5>1, <5>3
        <5> QED  BY <4>1, <5>2, <5>3
      <4>5. Range(rest) \subseteq Range(queue)
        BY <3>3, <3>5, <3>6, <4>2
      <4>6. \A i \in 1..n : queue[i + m] = more[i]
        BY <3>3, <4>3
      <4>7. fresh \subseteq Range(queue)
        BY <3>2, <3>5, <3>6, <4>3, <4>6
      <4> QED  BY <4>4, <4>5, <4>7
    <3>8. Range(queue) = Unseen(deps, done)
      BY <2>11, <3>4, <3>7
    <3>9. Range(rest) \cap fresh = {}
      BY <2>1, <2>10, <3>4 DEF Unseen
    <3>10. NoRepeats(queue)
      <4> SUFFICES ASSUME NEW i \in 1..(m + n), NEW j \in 1..(m + n), queue[i] = queue[j] PROVE i = j
        BY <3>3 DEF NoRepeats
      <4>1. /\ i \in 1..m \/ (i \in (m + 1)..(m + n) /\ i - m \in 1..n)
            /\ j \in 1..m \/ (j \in (m + 1)..(m + n) /\ j - m \in 1..n)
        BY <3>1, <3>2
      <4>2. \A x \in 1..m, y \in 1..n : rest[x] # more[y]
        BY <3>2, <3>5, <3>9
      <4>3. CASE i \in 1..m /\ j \in 1..m
        BY <3>3, <3>4, <4>3
      <4>4. CASE i \in (m + 1)..(m + n) /\ i - m \in 1..n /\ j \in (m + 1)..(m + n) /\ j - m \in 1..n
        <5>1. i - m = j - m
          BY <3>2, <3>3, <4>4
        <5> QED  BY <3>1, <3>2, <5>1
      <4>5. CASE i \in 1..m /\ j \in (m + 1)..(m + n) /\ j - m \in 1..n
        BY <3>3, <4>2, <4>5
      <4>6. CASE j \in 1..m /\ i \in (m + 1)..(m + n) /\ i - m \in 1..n
        BY <3>3, <4>2, <4>6
      <4> QED  BY <4>1, <4>3, <4>4, <4>5, <4>6
    <3> DEFINE to == [order |-> order, queue |-> queue]
    <3>11. to.order = order /\ to.queue = queue /\ to \in Queues(deps)
      BY <2>5, <3>3 DEF Queues
    <3>12. Serving(deps, to, k + 1)
      <4> HIDE DEF to, done
      <4> QED  BY <2>5, <2>6, <2>7, <2>8, <3>8, <3>10, <3>11 DEF Serving
    <3> QED  BY <2>2, <3>12 DEF queue
<1> QED  BY <1>1, <1>2

(* Stories that may be planned: finitely many, numbered, and known to one  *)
(* another.                                                                *)
Plannable(deps) == IsFiniteSet(DOMAIN deps) /\ DOMAIN deps \subseteq Int /\ KnownOnly(deps)

LEMMA TopoOrderServes ==
    ASSUME NEW deps, IsFiniteSet(DOMAIN deps), DOMAIN deps \subseteq Int
    PROVE  \E at : Serving(deps, at, Cardinality(DOMAIN deps)) /\ TopoOrder(deps) = at.order
<1> DEFINE D == DOMAIN deps
           N == Cardinality(D)
           start == [order |-> <<>>, queue |-> Sorted(Ready(deps, {}))]
           X == {at \in Queues(deps) : \E k \in Nat : Serving(deps, at, k)}
           step == [at \in X |-> Served(deps, at)]
           Rec(K) == K = [k \in Nat |-> IF k = 0 THEN start ELSE Served(deps, K[k - 1])]
           kahn == CHOOSE K : Rec(K)
<1>1. Serving(deps, start, 0)
  <2> DEFINE S == Ready(deps, {})
             queue == Sorted(S)
             none == <<>>
  <2>1. S \in SUBSET D
    BY DEF Ready
  <2>2. Lists(queue, S)
    <3> HIDE DEF S
    <3> QED  BY <2>1, FS_Subset, SortedLists
  <2>3. queue \in Seq(S) /\ queue \in Seq(D) /\ Range(queue) = S /\ NoRepeats(queue)
    <3>1. queue \in Seq(S)
      BY <2>2 DEF Lists
    <3> HIDE DEF S, queue
    <3>2. queue \in Seq(D)
      BY <2>1, <3>1, SeqMonotonic
    <3> QED  BY <2>2, <3>1, <3>2 DEF Lists, NoRepeats
  <2>4. none \in Seq(D) /\ Len(none) = 0
    BY EmptySeq
  <2>5. Range(none) = {}
    <3> HIDE DEF none
    <3>1. \A x : x \in Range(none) <=> \E i \in 1..Len(none) : none[i] = x
      BY <2>4, ListRange
    <3> QED  BY <2>4, <3>1
  <2>6. Unseen(deps, {}) = S
    BY DEF Unseen
  <2> DEFINE at == [order |-> none, queue |-> queue]
  <2>7. at.order = none /\ at.queue = queue /\ at \in Queues(deps)
    BY <2>3, <2>4 DEF Queues
  <2>8. Serving(deps, at, 0)
    <3> HIDE DEF at, none, queue, S
    <3>1. NoRepeats(none) /\ DepsFirst(deps, none)
      BY <2>4 DEF NoRepeats, DepsFirst
    <3>2. Range(at.queue) = Unseen(deps, Range(at.order))
      BY <2>3, <2>5, <2>6, <2>7
    <3> QED  BY <2>3, <2>4, <2>7, <3>1, <3>2 DEF Serving
  <2> QED  BY <2>8
<1>2. ASSUME NEW at \in X PROVE Served(deps, at) \in X
  <2>1. PICK k \in Nat : Serving(deps, at, k)
    OBVIOUS
  <2>2. Serving(deps, Served(deps, at), k + 1) /\ k + 1 \in Nat
    BY <2>1, ServedOnce
  <2> QED  BY <2>2 DEF Serving
<1>3. start \in X /\ step \in [X -> X]
  <2>1. start \in Queues(deps)
    BY <1>1 DEF Serving
  <2> HIDE DEF start
  <2>2. start \in X
    BY <1>1, <2>1
  <2> HIDE DEF X
  <2> QED  BY <1>2, <2>2
<1> HIDE DEF start
<1>4. PICK f \in [Nat -> X] : f[0] = start /\ \A n \in Nat : f[n + 1] = step[f[n]]
  <2> HIDE DEF X, step
  <2>1. \E f \in [Nat -> X] : f[0] = start /\ \A n \in Nat : f[n + 1] = step[f[n]]
    BY ONLY <1>3, Iteration
  <2> QED  BY <2>1
<1>5. Rec(f)
  <2>1. ASSUME NEW k \in Nat PROVE f[k] = IF k = 0 THEN start ELSE Served(deps, f[k - 1])
    <3>1. CASE k = 0
      BY <1>4, <3>1
    <3>2. CASE k # 0
      <4>1. k - 1 \in Nat /\ (k - 1) + 1 = k
        BY <3>2
      <4>2. f[k] = step[f[k - 1]] /\ f[k - 1] \in X
        <5> HIDE DEF X, step
        <5> QED  BY <1>4, <4>1
      <4>3. step[f[k - 1]] = Served(deps, f[k - 1])
        <5> HIDE DEF X
        <5> QED  BY <4>2
      <4> QED  BY <3>2, <4>2, <4>3
    <3> QED  BY <3>1, <3>2
  <2>2. f = [k \in Nat |-> f[k]]
    <3> HIDE DEF X
    <3> QED  BY <1>4
  <2> QED  BY <2>1, <2>2
<1>6. Rec(kahn)
  <2> HIDE DEF Rec
  <2> QED  BY <1>5
<1>7. TopoOrder(deps) = kahn[N].order
  BY DEF TopoOrder, start
<1>8. kahn[0] = start /\ \A k \in Nat : kahn[k + 1] = Served(deps, kahn[k])
  <2> HIDE DEF kahn
  <2>1. \A k \in Nat : kahn[k] = IF k = 0 THEN start ELSE Served(deps, kahn[k - 1])
    BY <1>6
  <2>2. \A k \in Nat : k + 1 \in Nat /\ k + 1 # 0 /\ (k + 1) - 1 = k
    OBVIOUS
  <2> QED  BY <2>1, <2>2
<1> HIDE DEF kahn
<1> DEFINE S == {k \in Nat : Serving(deps, kahn[k], k)}
<1>9. S = Nat
  <2>1. 0 \in S
    BY <1>1, <1>8
  <2>2. ASSUME NEW k \in S PROVE k + 1 \in S
    <3>1. k \in Nat /\ Serving(deps, kahn[k], k) /\ k + 1 \in Nat
      OBVIOUS
    <3>2. Serving(deps, Served(deps, kahn[k]), k + 1)
      BY <3>1, ServedOnce
    <3> QED  BY <1>8, <3>1, <3>2
  <2>3. S \in SUBSET Nat
    OBVIOUS
  <2> HIDE DEF S
  <2> QED  BY <2>1, <2>2, <2>3, EveryNumber
<1>10. Serving(deps, kahn[N], N)
  <2>1. N \in Nat
    BY FS_CardinalityType
  <2> HIDE DEF N
  <2> QED  BY <1>9, <2>1
<1> QED  BY <1>7, <1>10

(* topo_order serves dependencies first, and every story unless some wait  *)
(* in a circle.                                                            *)
LEMMA TopoOrderIsOrdered ==
    ASSUME NEW deps, Plannable(deps)
    PROVE  LET order == TopoOrder(deps)
           IN  /\ order \in Seq(DOMAIN deps) /\ NoRepeats(order) /\ DepsFirst(deps, order)
               /\ Len(order) = Cardinality(DOMAIN deps) <=> ~HasCycle(deps)
<1> DEFINE D == DOMAIN deps
           N == Cardinality(D)
           order == TopoOrder(deps)
           done == Range(order)
<1>1. PICK at : Serving(deps, at, N) /\ order = at.order
  BY TopoOrderServes DEF Plannable
<1>2. /\ order \in Seq(D) /\ NoRepeats(order) /\ DepsFirst(deps, order)
      /\ at.queue \in Seq(D) /\ Range(at.queue) = Unseen(deps, done)
      /\ at.queue = <<>> \/ Len(order) = N
  BY <1>1 DEF Serving, Queues
<1> HIDE DEF order
<1>3. /\ IsFiniteSet(D) /\ N \in Nat /\ done \in SUBSET D
      /\ IsFiniteSet(done) /\ Cardinality(done) = Len(order)
  <2>1. IsFiniteSet(D) /\ N \in Nat
    BY FS_CardinalityType DEF Plannable
  <2>2. done \in SUBSET D
    BY <1>2, ListRange
  <2>3. IsFiniteSet(done) /\ Cardinality(done) = Len(order)
    BY <1>2, OnceCounts
  <2> QED  BY <2>1, <2>2, <2>3
<1>4. Len(order) = N <=> done = D
  BY <1>3, FS_Subset
<1>5. ASSUME done # D PROVE HasCycle(deps)
  <2>1. Unseen(deps, done) = {}
    <3>1. at.queue = <<>>
      BY <1>2, <1>4, <1>5
    <3>2. Len(at.queue) = 0
      BY <3>1
    <3>3. \A x : x \in Range(at.queue) <=> \E i \in 1..Len(at.queue) : at.queue[i] = x
      BY <1>2, ListRange
    <3> QED  BY <1>2, <3>2, <3>3
  <2> DEFINE S == D \ done
  <2>2. S \in SUBSET D /\ S # {}
    BY <1>3, <1>5
  <2>3. ASSUME NEW s \in S PROVE deps[s] \cap S # {}
    <3>1. s \in D /\ s \notin done /\ deps[s] \subseteq D
      BY DEF Plannable, KnownOnly
    <3>2. ~(deps[s] \subseteq done)
      BY <2>1, <3>1 DEF Unseen, Ready
    <3> QED  BY <3>1, <3>2
  <2> HIDE DEF S
  <2> QED  BY <2>2, <2>3 DEF HasCycle
<1>6. ASSUME HasCycle(deps) PROVE done # D
  <2>1. PICK S \in SUBSET D : S # {} /\ \A s \in S : deps[s] \cap S # {}
    BY <1>6 DEF HasCycle
  <2> DEFINE A == {k \in Nat : \A i \in 1..Len(order) : i <= k => order[i] \notin S}
  <2>2. 0 \in A
    BY <1>2, ListRange
  <2>3. ASSUME NEW k \in A PROVE k + 1 \in A
    <3> SUFFICES ASSUME NEW i \in 1..Len(order), i <= k + 1, order[i] \in S PROVE FALSE
      OBVIOUS
    <3>1. PICK d \in deps[order[i]] : d \in S
      BY <2>1
    <3>2. PICK j \in 1..(i - 1) : order[j] = d
      BY <1>2 DEF DepsFirst
    <3>3. j \in 1..Len(order) /\ j <= k
      BY <1>2, ListRange
    <3> QED  BY <3>1, <3>2, <3>3
  <2>4. A \in SUBSET Nat
    OBVIOUS
  <2>5. A = Nat
    <3> HIDE DEF A
    <3> QED  BY <2>2, <2>3, <2>4, EveryNumber
  <2>6. Len(order) \in Nat /\ \A x : x \in done <=> \E i \in 1..Len(order) : order[i] = x
    BY <1>2, ListRange
  <2>7. \A i \in 1..Len(order) : order[i] \notin S
    BY <2>5, <2>6
  <2> QED  BY <2>1, <2>6, <2>7
<1> QED  BY <1>2, <1>4, <1>5, <1>6 DEF order

(* Whatever stories are given the planner, and however they wait for one   *)
(* another: is_acyclic says whether some wait in a circle, and if none do, *)
(* delivery_waves puts each in one wave as early as its dependencies allow *)
(* and topo_order serves them first (see Ordered; planner/dag.py).         *)
THEOREM PlansAreOrdered ==
    ASSUME NEW deps, Plannable(deps)
    PROVE  Ordered(deps)
<1> DEFINE order == TopoOrder(deps)
           waves == DeliveryWaves(deps)
<1>1. /\ order \in Seq(DOMAIN deps) /\ DepsFirst(deps, order)
      /\ Len(order) = Cardinality(DOMAIN deps) <=> ~HasCycle(deps)
  BY TopoOrderIsOrdered
<1>2. IsAcyclic(deps) <=> ~HasCycle(deps)
  BY <1>1 DEF IsAcyclic, Plannable
<1>3. ASSUME IsAcyclic(deps)
      PROVE  /\ \A s \in DOMAIN deps : \E k \in DOMAIN waves : s \in waves[k]
             /\ \A j, k \in DOMAIN waves : j # k => waves[j] \cap waves[k] = {}
             /\ \A s \in DOMAIN deps :
                   LET before == {WaveOf(waves, d) : d \in deps[s]}
                   IN  WaveOf(waves, s) = Max({0} \cup before) + 1
  BY <1>2, <1>3, WavesInOrder DEF Plannable
<1> HIDE DEF order, waves
<1>4. ASSUME NEW i \in DOMAIN order, NEW d \in deps[order[i]] PROVE d \in Range(SubSeq(order, 1, i - 1))
  <2>1. Len(order) \in Nat /\ DOMAIN order = 1..Len(order)
    BY <1>1, LenProperties
  <2>2. PICK j \in 1..(i - 1) : order[j] = d
    BY <1>1, <2>1 DEF DepsFirst
  <2> DEFINE s == SubSeq(order, 1, i - 1)
  <2>3. s = [n \in 1..(i - 1) |-> order[n]]
    BY <1>1, <2>1
  <2> HIDE DEF s
  <2>4. j \in DOMAIN s /\ s[j] = d
    BY <2>2, <2>3
  <2>5. d \in Range(s)
    BY <2>4 DEF Range
  <2> QED  BY <2>5 DEF s
<1>5. \A i \in DOMAIN order : deps[order[i]] \subseteq Range(SubSeq(order, 1, i - 1))
  BY <1>4
<1>6. IsAcyclic(deps) => Len(order) = Cardinality(DOMAIN deps)
  BY <1>1, <1>2
<1> QED  BY <1>2, <1>3, <1>5, <1>6 DEF Ordered, order, waves

----------------------------------------------------------------------------
(* The plan of every graph. *)

LEMMA PeakIsPositive ==
    ASSUME NEW signal \in [Programs -> Nat]
    PROVE  Peak(signal) \in Nat /\ Peak(signal) >= 1
<1> DEFINE S == {signal[q] : q \in Programs}
           T == {1} \cup S
<1>1. IsFiniteSet(S)
  BY FiniteImage, PlanningAssumption DEF PlanningAssumption
<1>2. \A x \in T : x \in Nat
  OBVIOUS
<1>3. IsFiniteSet(T) /\ 1 \in T
  <2> HIDE DEF S
  <2>1. IsFiniteSet({1})
    BY FS_Singleton
  <2> QED  BY <1>1, <2>1, FS_Union
<1> HIDE DEF T
<1>4. T \in SUBSET Int /\ T # {}
  BY <1>2, <1>3
<1>5. Max(T) \in T /\ \A y \in T : Max(T) >= y
  BY <1>3, <1>4, GreatestOfNumbers
<1>6. Max(T) \in Nat /\ Max(T) >= 1
  BY <1>2, <1>3, <1>5
<1> QED  BY <1>6 DEF Peak, T

LEMMA TouchedFinite ==
    ASSUME NEW parsed, ParsedGraph(parsed), NEW p \in Programs
    PROVE  IsFiniteSet(Touched(parsed, p))
<1> DEFINE A == parsed[p].accesses
           f == [a \in A |-> a.resource]
           all == {f[a] : a \in A}
<1>1. IsFiniteSet(A)
  BY DEF ParsedGraph
<1>2. IsFiniteSet(all)
  <2>1. DOMAIN f = A
    OBVIOUS
  <2> HIDE DEF f, A
  <2> QED  BY <1>1, <2>1, FiniteImage
<1>3. \A a \in A : a.resource \in all
  OBVIOUS
<1>4. Touched(parsed, p) \in SUBSET all
  <2> HIDE DEF all
  <2> QED  BY <1>3 DEF Touched, Reads, Writes
<1> HIDE DEF all
<1> QED  BY <1>2, <1>4, FS_Subset

LEMMA ShareIsNumber ==
    ASSUME NEW part, NEW whole, IsFiniteSet(whole), whole # {}, part \subseteq whole
    PROVE  Share(part, whole) \in Int
<1>1. Cardinality(part) \in Nat /\ Cardinality(whole) \in Nat /\ Cardinality(whole) # 0
  BY FS_Subset, FS_CardinalityType, FS_EmptySet
<1> QED  BY <1>1 DEF Share

LEMMA WeightedIsNumber ==
    ASSUME NEW parsed, ParsedGraph(parsed), NEW p \in Programs
    PROVE  Weighted(parsed, p) \in Int
<1> DEFINE fanIns == [q \in Programs |-> parsed[q].fanIn]
           churns == [q \in Programs |-> parsed[q].churn]
<1>1. parsed[p].fanIn \in Nat /\ parsed[p].gotos \in Nat /\ parsed[p].churn \in Nat
  BY DEF ParsedGraph
<1>2. fanIns \in [Programs -> Nat] /\ churns \in [Programs -> Nat]
  BY DEF ParsedGraph
<1>3. /\ Peak(fanIns) \in Nat /\ Peak(fanIns) >= 1
      /\ Peak(churns) \in Nat /\ Peak(churns) >= 1
  <2> HIDE DEF fanIns, churns
  <2> QED  BY <1>2, PeakIsPositive
<1>4. Business(parsed, p) \in Int
  <2>1. Business(parsed, p) =
            AtMost(1000, (1000 * parsed[p].fanIn) \div Peak(fanIns) + (IF parsed[p].entry THEN 250 ELSE 0))
    BY DEF Business
  <2> HIDE DEF fanIns
  <2>2. (1000 * parsed[p].fanIn) \div Peak(fanIns) \in Int
    BY <1>1, <1>3
  <2>3. (1000 * parsed[p].fanIn) \div Peak(fanIns) + (IF parsed[p].entry THEN 250 ELSE 0) \in Int
    BY <2>2
  <2> QED  BY <2>1, <2>3 DEF AtMost
<1>5. SharedBy(parsed, p) \subseteq Touched(parsed, p) /\ IsFiniteSet(Touched(parsed, p))
  BY TouchedFinite DEF SharedBy
<1>6. Isolation(parsed, p) \in Int
  BY <1>5, ShareIsNumber DEF Isolation
<1>7. DataOwnership(parsed, p) \in Int
  <2>1. Touched(parsed, p) \ SharedBy(parsed, p) \subseteq Touched(parsed, p)
    OBVIOUS
  <2> QED  BY <1>5, <2>1, ShareIsNumber DEF DataOwnership
<1>8. Testability(parsed, p) \in Int
  BY <1>1 DEF Testability, AtMost
<1>9. Risk(parsed, p) \in Int
  <2>1. Risk(parsed, p) =
            (IF Writes(parsed, p) # {} THEN 500 ELSE 0)
                + (IF Touched(parsed, p) \cap Billing # {} THEN 300 ELSE 0)
                + (200 * parsed[p].churn) \div Peak(churns)
    BY DEF Risk
  <2> HIDE DEF churns
  <2>2. (200 * parsed[p].churn) \div Peak(churns) \in Int
    BY <1>1, <1>3
  <2> QED  BY <2>1, <2>2
<1> QED  BY <1>4, <1>6, <1>7, <1>8, <1>9 DEF Weighted

(* rank_candidates lists the best programs, in their order. *)
RankOf(parsed) ==
    [k \in 1..Cardinality(Programs) |->
        CHOOSE p \in Programs : Cardinality({q \in Programs : Outranks(parsed, q, p)}) = k - 1]

LEMMA RankingLists ==
    ASSUME NEW parsed, ParsedGraph(parsed)
    PROVE  /\ Lists(RankOf(parsed), Programs) /\ Len(RankOf(parsed)) = Cardinality(Programs)
           /\ Cardinality(Programs) \in Nat
           /\ \A j \in 1..Cardinality(Programs), p \in Programs :
                 Outranks(parsed, p, RankOf(parsed)[j]) => \E i \in 1..(j - 1) : RankOf(parsed)[i] = p
<1> DEFINE N == Cardinality(Programs)
           B == [p \in Programs |-> {q \in Programs : Outranks(parsed, q, p)}]
           at == RankOf(parsed)
<1>1. \A p \in Programs : Weighted(parsed, p) \in Int /\ p \in Int
  BY WeightedIsNumber, PlanningAssumption DEF PlanningAssumption
<1>2. /\ \A p \in Programs : ~Outranks(parsed, p, p)
      /\ \A p, q \in Programs : p # q => Outranks(parsed, q, p) \/ Outranks(parsed, p, q)
      /\ \A p, q, r \in Programs : Outranks(parsed, q, p) /\ Outranks(parsed, r, q) => Outranks(parsed, r, p)
  BY <1>1 DEF Outranks
<1>3. \A q : \A p \in Programs : q \in B[p] <=> q \in Programs /\ Outranks(parsed, q, p)
  OBVIOUS
<1>4. B \in [Programs -> SUBSET Programs]
  OBVIOUS
<1>5. Precedes(Programs, B)
  <2> HIDE DEF B
  <2> QED  BY <1>2, <1>3, <1>4, PlanningAssumption DEF Precedes, PlanningAssumption
<1>6. /\ N \in Nat /\ Placed(Programs, B)
      /\ \A p \in Programs : Cardinality(B[p]) \in Nat /\ Cardinality(B[p]) + 1 \in 1..N
      /\ \A p, q \in Programs : Cardinality(B[p]) = Cardinality(B[q]) => p = q
  <2> HIDE DEF B
  <2> QED  BY <1>5, Ranks
<1>7. \A p \in Programs : B[p] = {q \in Programs : Outranks(parsed, q, p)}
  OBVIOUS
<1>8. at \in [1..N -> Programs] /\ \A k \in 1..N : Cardinality({q \in Programs : Outranks(parsed, q, at[k])}) = k - 1
  <2>1. \A k \in 1..N : \E p \in Programs : Cardinality({q \in Programs : Outranks(parsed, q, p)}) = k - 1
    BY <1>6, <1>7 DEF Placed
  <2> QED  BY <2>1 DEF RankOf
<1> HIDE DEF B, at
<1>9. \A k \in 1..N : at[k] \in Programs /\ Cardinality(B[at[k]]) = k - 1
  BY <1>7, <1>8
<1>10. Lists(at, Programs) /\ Len(at) = N
  <2>1. /\ at \in [1..Cardinality(Programs) -> Programs]
        /\ \A k \in 1..Cardinality(Programs) : Cardinality(B[at[k]]) = k - 1
    BY <1>8, <1>9
  <2> QED  BY ONLY <1>5, <2>1, RankLists
<1>11. ASSUME NEW j \in 1..N, NEW p \in Programs, Outranks(parsed, p, at[j]) PROVE \E i \in 1..(j - 1) : at[i] = p
  <2> DEFINE q == at[j]
             i == Cardinality(B[p]) + 1
  <2>1. q \in Programs /\ p \in B[q] /\ p \notin B[p] /\ B[p] \in SUBSET B[q] /\ B[q] \in SUBSET Programs
    <3>1. q \in Programs
      BY <1>9
    <3> HIDE DEF q
    <3>2. p \in B[q]
      BY <1>3, <1>11, <3>1 DEF q
    <3> QED  BY <1>5, <3>1, <3>2 DEF Precedes
  <2>2. Cardinality(B[q]) = j - 1
    BY <1>9
  <2> HIDE DEF q
  <2>3. IsFiniteSet(B[q])
    BY <2>1, FS_Subset, PlanningAssumption DEF PlanningAssumption
  <2>4. Cardinality(B[p]) <= Cardinality(B[q]) /\ (Cardinality(B[q]) = Cardinality(B[p]) => B[q] = B[p])
    BY <2>1, <2>3, FS_Subset
  <2>5. Cardinality(B[p]) \in Nat /\ i \in 1..N /\ i \in 1..(j - 1)
    BY <1>6, <2>1, <2>2, <2>4
  <2>6. at[i] \in Programs /\ Cardinality(B[at[i]]) = Cardinality(B[p])
    <3>1. Cardinality(B[p]) = i - 1
      BY <2>5
    <3> HIDE DEF i
    <3> QED  BY <1>9, <2>5, <3>1
  <2>7. at[i] = p
    <3> HIDE DEF i
    <3> QED  BY <1>6, <2>6
  <2> QED  BY <2>5, <2>7
<1> QED  BY <1>6, <1>10, <1>11 DEF at

(* The gate of the plan is the absence of a cycle among the stories.       *)
LEMMA PlanOfCandidates ==
    ASSUME NEW m \in Nat, NEW cands, cands = [k \in 1..m |-> cands[k]]
    PROVE  LET deps == Dependencies(cands)
           IN  /\ DOMAIN cands = 1..m /\ DOMAIN deps = 1..m
               /\ Ordered(deps) /\ (IsAcyclic(deps) <=> ~HasCycle(deps))
               /\ ~HasCycle(deps) => UNION Range(DeliveryWaves(deps)) = 1..m
               /\ PlanQuality(cands, deps) <=> cands # <<>> /\ ~HasCycle(deps)
<1> DEFINE deps == Dependencies(cands)
           programs == {c.program : c \in Range(cands)}
<1>1. DOMAIN cands = 1..m /\ Len(cands) = m
  <2>1. cands \in Seq(Range(cands))
    BY DEF Range
  <2> QED  BY <2>1, LenProperties
<1>2. DOMAIN deps = 1..m /\ \A k \in 1..m : deps[k] \subseteq 1..m
  BY <1>1 DEF Dependencies
<1>3. IsFiniteSet(1..m) /\ Cardinality(1..m) = m
  <2>1. 1 \in Int /\ m \in Int
    OBVIOUS
  <2>2. IsFiniteSet(1..m) /\ Cardinality(1..m) = IF 1 > m THEN 0 ELSE m - 1 + 1
    BY <2>1, FS_Interval
  <2> QED  BY <2>2
<1>4. \A k \in DOMAIN cands :
         /\ Stories(cands)[k].seam \in programs
         /\ Stories(cands)[k].evidence # {}
  <2> SUFFICES ASSUME NEW k \in DOMAIN cands
               PROVE  Stories(cands)[k].seam \in programs /\ Stories(cands)[k].evidence # {}
    OBVIOUS
  <2>1. Stories(cands)[k].seam = cands[k].program /\ Stories(cands)[k].evidence = {cands[k].program}
    BY DEF Stories
  <2>2. cands[k] \in Range(cands)
    BY DEF Range
  <2>3. cands[k].program \in programs
    BY <2>2
  <2> HIDE DEF programs
  <2> QED  BY <2>1, <2>3
<1> HIDE DEF deps
<1>5. Plannable(deps)
  BY <1>2, <1>3 DEF Plannable, KnownOnly
<1>6. Ordered(deps) /\ (IsAcyclic(deps) <=> ~HasCycle(deps))
  BY <1>5, PlansAreOrdered DEF Ordered
<1>7. IsAcyclic(deps) => Len(TopoOrder(deps)) = Len(cands)
  BY <1>1, <1>2, <1>3 DEF IsAcyclic
<1>8. ~HasCycle(deps) => UNION Range(DeliveryWaves(deps)) = DOMAIN cands
  BY <1>1, <1>2, <1>5, WavesInOrder DEF Plannable
<1>9. PlanQuality(cands, deps) <=> cands # <<>> /\ ~HasCycle(deps)
  BY <1>4, <1>5, <1>6, <1>7, <1>8, Zenon DEF PlanQuality, Plannable
<1> QED  BY <1>1, <1>2, <1>6, <1>8, <1>9 DEF deps

(* rank_candidates keeps the first of the ranking, as many as the limit.   *)
LEMMA RankedIsFirst ==
    ASSUME NEW parsed, NEW limit
    PROVE  Ranked(parsed, limit) = [k \in 1..AtMost(limit, Cardinality(Programs)) |->
                                      Candidate(parsed, RankOf(parsed)[k])]
BY Zenon DEF Ranked, RankOf

(* The plan handler's candidates say nothing of what a program reads or    *)
(* writes: its stories wait for nothing.                                   *)
LEMMA CandidatesWaitForNothing ==
    ASSUME NEW parsed, NEW m \in Nat, NEW at, NEW cands,
           cands = [k \in 1..m |-> Candidate(parsed, at[k])]
    PROVE  ~HasCycle(Dependencies(cands))
<1>1. DOMAIN cands = 1..m
  OBVIOUS
<1>2. ASSUME NEW k \in 1..m PROVE Listed(cands[k], "writes") = {}
  <2>1. DOMAIN cands[k] = {"program", "seam_type", "weighted", "evidence", "identity_drift_writer"}
    BY DEF Candidate
  <2>2. "writes" \notin DOMAIN cands[k]
    BY <2>1
  <2> QED  BY <2>2 DEF Listed
<1>3. DOMAIN Dependencies(cands) = 1..m /\ \A k \in 1..m : Dependencies(cands)[k] = {}
  BY <1>1, <1>2 DEF Dependencies
<1> QED  BY <1>3 DEF HasCycle

(* Of every parsed graph: run_plan and run_seams agree, the quality gate   *)
(* of a plan is the absence of a cycle, and a plan that passes holds, once *)
(* each, the best ranked programs up to the limit (see WavesAreOrdered;    *)
(* planner/quality.py, seam/service.py, controlplane/analysis.py).         *)
THEOREM EveryPlanIsWhole ==
    ASSUME NEW parsed, ParsedGraph(parsed)
    PROVE  WavesAreOrdered(parsed)
<1> DEFINE N == Cardinality(Programs)
           m == AtMost(Limit, N)
           at == RankOf(parsed)
           ranked == Ranked(parsed, Limit)
           cands == [k \in DOMAIN ranked |-> WithAccesses(parsed, ranked[k])]
           made == RunPlan(parsed)
           seams == [k \in DOMAIN ranked |-> ranked[k].program]
<1>1. /\ Lists(at, Programs) /\ Len(at) = N /\ N \in Nat
      /\ \A q \in Programs : \A j \in 1..N :
            Outranks(parsed, q, at[j]) => \E i \in 1..(j - 1) : at[i] = q
  BY RankingLists
<1>2. m \in Nat /\ m <= N /\ m <= 25 /\ (m < N => m = 25)
  BY <1>1 DEF AtMost, Limit
<1>3. ranked = [k \in 1..m |-> Candidate(parsed, at[k])]
  BY RankedIsFirst
<1>4. at \in [1..N -> Programs] /\ \A i, j \in 1..N : at[i] = at[j] => i = j
  <2>1. at \in Seq(Programs)
    BY <1>1 DEF Lists
  <2>2. at \in [1..Len(at) -> Programs]
    BY <2>1, LenProperties
  <2> QED  BY <1>1, <2>2 DEF Lists
<1> HIDE DEF m, at, ranked, N
<1>5. DOMAIN ranked = 1..m
  BY <1>3
<1>6. Ordered(Dependencies(cands)) /\ (PlanQuality(cands, Dependencies(cands)) <=>
                                          cands # <<>> /\ ~HasCycle(Dependencies(cands)))
  <2>1. cands = [k \in 1..m |-> cands[k]]
    BY <1>5
  <2> HIDE DEF cands
  <2> QED  BY <1>2, <2>1, PlanOfCandidates
<1>7. /\ ~HasCycle(Dependencies(ranked)) /\ IsAcyclic(Dependencies(ranked))
      /\ PlanQuality(ranked, Dependencies(ranked)) <=> ranked # <<>>
      /\ UNION Range(DeliveryWaves(Dependencies(ranked))) = 1..m
  <2>1. ~HasCycle(Dependencies(ranked))
    BY <1>2, <1>3, CandidatesWaitForNothing
  <2>2. ranked = [k \in 1..m |-> ranked[k]]
    BY <1>3
  <2> QED  BY <1>2, <2>1, <2>2, PlanOfCandidates
<1>8. ASSUME NEW c \in Range(ranked)
      PROVE  c.evidence # {} /\ c.weighted \in Int
             /\ c.evidence \subseteq Programs \cup {d.program : d \in Range(ranked)}
  <2>1. PICK k \in 1..m : c = Candidate(parsed, at[k])
    BY <1>3, <1>5 DEF Range
  <2>2. at[k] \in Programs
    BY <1>1, <1>2, <1>4
  <2>3. c.evidence = {at[k]} /\ c.weighted = Weighted(parsed, at[k])
    BY <2>1 DEF Candidate
  <2> QED  BY <2>2, <2>3, WeightedIsNumber
<1>9. SeamQuality(ranked, Programs) <=> ranked # <<>>
  BY <1>8, Zenon DEF SeamQuality
<1>10. /\ made.stage = Status(ranked # <<>>) /\ made.stage = RunSeams(parsed)
       /\ made.waves = DeliveryWaves(Dependencies(ranked)) /\ made.seams = seams
  <2>1. made = [stage |-> Status(PlanQuality(ranked, Dependencies(ranked))), seams |-> seams,
                waves |-> IF IsAcyclic(Dependencies(ranked)) THEN DeliveryWaves(Dependencies(ranked))
                          ELSE <<>>]
    BY Zenon DEF RunPlan, ranked
  <2>2. RunSeams(parsed) = Status(SeamQuality(ranked, Programs))
    BY DEF RunSeams, ranked
  <2>3. SeamQuality(ranked, Programs) = (ranked # <<>>)
    <3>1. SeamQuality(ranked, Programs) \in BOOLEAN
      BY DEF SeamQuality
    <3> QED  BY <1>9, <3>1
  <2>4. PlanQuality(ranked, Dependencies(ranked)) = (ranked # <<>>)
    <3>1. PlanQuality(ranked, Dependencies(ranked)) \in BOOLEAN
      BY DEF PlanQuality
    <3> QED  BY <1>7, <3>1
  <2> HIDE DEF made, seams
  <2> QED  BY <1>7, <2>1, <2>2, <2>3, <2>4
<1>11. seams = [k \in 1..m |-> at[k]]
  <2>1. \A k \in 1..m : ranked[k].program = at[k]
    BY <1>3 DEF Candidate
  <2> QED  BY <1>5, <2>1
<1> HIDE DEF seams, made
<1>12. /\ DOMAIN seams = 1..m /\ \A k \in 1..m : seams[k] = at[k]
       /\ \A x : x \in Range(seams) <=> \E k \in 1..m : at[k] = x
  BY <1>11 DEF Range
<1>13. Range(seams) \subseteq Programs /\ Cardinality(Range(seams)) = m
  <2>1. \A k \in 1..m : at[k] \in Programs
    BY <1>1, <1>2, <1>4
  <2>2. seams \in Seq(Programs) /\ Len(seams) = m /\ NoRepeats(seams)
    <3>1. seams \in [1..m -> Programs]
      BY <1>11, <2>1
    <3>2. seams \in Seq(Programs) /\ Len(seams) = m
      <4>1. seams \in Seq(Programs)
        BY <1>2, <3>1, SeqDef
      <4> QED  BY <1>2, <1>12, <4>1, LenProperties
    <3>3. 1..m \subseteq 1..N
      BY <1>1, <1>2
    <3> QED  BY <1>4, <1>12, <3>2, <3>3 DEF NoRepeats
  <2>3. Cardinality(Range(seams)) = m
    BY <2>2, OnceCounts
  <2> QED  BY <1>12, <2>1, <2>3
<1>14. ASSUME NEW q \in Programs, NEW r \in Range(seams), Outranks(parsed, q, r)
       PROVE  q \in Range(seams)
  <2>1. PICK j \in 1..m : at[j] = r
    BY <1>12
  <2>2. j \in 1..N
    BY <1>1, <1>2
  <2>3. PICK i \in 1..(j - 1) : at[i] = q
    BY <1>1, <1>14, <2>1, <2>2
  <2>4. i \in 1..m
    BY <1>2
  <2> QED  BY <1>12, <2>3, <2>4
<1>15. /\ UNION Range(made.waves) = DOMAIN made.seams
       /\ Cardinality(Range(made.seams)) = AtMost(Limit, Cardinality(Programs))
       /\ Range(made.seams) \subseteq Programs
       /\ \A p \in Programs, q \in Range(made.seams) :
             Outranks(parsed, p, q) => p \in Range(made.seams)
  BY <1>7, <1>10, <1>12, <1>13, <1>14 DEF m, N
<1> QED  BY <1>6, <1>10, <1>15, Zenon DEF WavesAreOrdered, made, ranked

----------------------------------------------------------------------------
(* DomainPlan and SliceDesign, for any graph, answers and names. *)

(* What is computed in so many steps exists, and stays where each of the   *)
(* steps stays.                                                            *)
Stepped(u, N, x, step) == u = [k \in 0..N |-> IF k = 0 THEN x ELSE step[k][u[k - 1]]]

LEMMA StepByStep ==
    ASSUME NEW N \in Nat, NEW X, NEW x, x \in X, NEW step, step \in [1..N -> [X -> X]]
    PROVE  /\ \E u : Stepped(u, N, x, step)
           /\ \A u : Stepped(u, N, x, step) => u \in [0..N -> X]
<1> DEFINE Y == Nat \X X
           next == [y \in Y |-> <<y[1] + 1, IF y[1] + 1 \in 1..N THEN step[y[1] + 1][y[2]] ELSE x>>]
           start == <<0, x>>
           Rec(h) == h = [k \in 0..N |-> IF k = 0 THEN x ELSE step[k][h[k - 1]]]
<1>1. next \in [Y -> Y] /\ start \in Y
  <2> SUFFICES ASSUME NEW y \in Y
               PROVE  y[1] + 1 \in Nat /\ (IF y[1] + 1 \in 1..N THEN step[y[1] + 1][y[2]] ELSE x) \in X
    OBVIOUS
  <2>1. y[1] \in Nat /\ y[2] \in X
    OBVIOUS
  <2> QED  BY <2>1
<1>2. PICK f \in [Nat -> Y] : f[0] = start /\ \A n \in Nat : f[n + 1] = next[f[n]]
  <2> HIDE DEF Y, next, start
  <2>1. \E f \in [Nat -> Y] : f[0] = start /\ \A n \in Nat : f[n + 1] = next[f[n]]
    BY ONLY <1>1, Iteration
  <2> QED  BY <2>1
<1>3. \A n \in Nat : f[n][1] = n
  <2> DEFINE Even == {n \in Nat : f[n][1] = n}
  <2>1. 0 \in Even
    BY <1>2
  <2>2. ASSUME NEW n \in Even PROVE n + 1 \in Even
    <3>1. f[n + 1] = next[f[n]] /\ f[n] \in Y /\ f[n][1] = n
      BY <1>2
    <3> QED  BY <3>1
  <2>3. Even \in SUBSET Nat
    OBVIOUS
  <2>4. Even = Nat
    <3> HIDE DEF Even
    <3> QED  BY <2>1, <2>2, <2>3, EveryNumber
  <2> QED  BY <2>4
<1> DEFINE g == [k \in 0..N |-> f[k][2]]
<1>4. Rec(g)
  <2>1. ASSUME NEW k \in 0..N PROVE g[k] = IF k = 0 THEN x ELSE step[k][g[k - 1]]
    <3>1. CASE k = 0
      BY <1>2, <3>1
    <3>2. CASE k # 0
      <4>1. k - 1 \in Nat /\ (k - 1) + 1 = k /\ k - 1 \in 0..N /\ k \in 1..N
        BY <3>2
      <4>2. f[k] = next[f[k - 1]] /\ f[k - 1] \in Y /\ f[k - 1][1] = k - 1
        BY <1>2, <1>3, <4>1
      <4>3. f[k - 1][1] + 1 = k
        BY <4>1, <4>2
      <4>4. next[f[k - 1]] = <<f[k - 1][1] + 1, step[k][f[k - 1][2]]>>
        BY <4>1, <4>2, <4>3
      <4> QED  BY <3>2, <4>1, <4>2, <4>4
    <3> QED  BY <3>1, <3>2
  <2>2. g = [k \in 0..N |-> g[k]]
    OBVIOUS
  <2> QED  BY <2>1, <2>2
<1>5. ASSUME NEW u, Rec(u) PROVE u \in [0..N -> X]
  <2>1. \A k \in 0..N : u[k] = IF k = 0 THEN x ELSE step[k][u[k - 1]]
    BY <1>5
  <2> DEFINE In == {k \in Nat : k <= N => u[k] \in X}
  <2>2. 0 \in In
    <3>1. 0 \in 0..N
      OBVIOUS
    <3>2. u[0] = x
      BY <2>1, <3>1
    <3> QED  BY <3>2
  <2>3. ASSUME NEW k \in In PROVE k + 1 \in In
    <3> SUFFICES ASSUME k + 1 <= N PROVE u[k + 1] \in X
      OBVIOUS
    <3>1. k \in Nat /\ k + 1 \in 0..N /\ k + 1 # 0 /\ (k + 1) - 1 = k /\ k + 1 \in 1..N /\ k <= N
      OBVIOUS
    <3>2. u[k + 1] = step[k + 1][u[k]] /\ u[k] \in X
      BY <2>1, <3>1
    <3> QED  BY <3>1, <3>2
  <2>4. In \in SUBSET Nat
    OBVIOUS
  <2>5. In = Nat
    <3> HIDE DEF In
    <3> QED  BY <2>2, <2>3, <2>4, EveryNumber
  <2>6. ASSUME NEW k \in 0..N PROVE u[k] \in X
    <3>1. k \in Nat /\ k <= N
      OBVIOUS
    <3>2. k \in In
      BY <2>5, <3>1
    <3> QED  BY <3>1, <3>2
  <2> QED  BY <1>5, <2>6
<1> QED  BY <1>4, <1>5 DEF Stepped

(* Quotients.                                                              *)
LEMMA QuotientNatural ==
    ASSUME NEW s \in Nat, NEW n \in Nat \ {0}
    PROVE  s \div n \in Nat
OBVIOUS

LEMMA QuotientAtMost ==
    ASSUME NEW s \in Int, NEW n \in Nat \ {0}, s <= 1000 * n
    PROVE  s \div n \in Int /\ s \div n <= 1000
<1> DEFINE q == s \div n
<1>1. q \in Int /\ n * q <= s
  OBVIOUS
<1> HIDE DEF q
<1>2. q >= 1001 => n * q >= n * 1001
  BY <1>1
<1> QED  BY <1>1, <1>2 DEF q

(* The mean of whole signals is one; it is at most 1000 when they are, and *)
(* no less than 0 when none is.                                            *)
SignalOf(signal, none, p) == IF p \in Programs THEN signal[p] ELSE none

LEMMA MeanIsWhole ==
    ASSUME NEW signal, NEW none, NEW U, NEW members, members \in Seq(U),
           \A p : SignalOf(signal, none, p) \in Int
    PROVE  /\ Mean(signal, none, members) \in Int
           /\ (\A p : SignalOf(signal, none, p) <= 1000) => Mean(signal, none, members) <= 1000
           /\ (\A p : SignalOf(signal, none, p) >= 0) => Mean(signal, none, members) >= 0
<1> DEFINE N == Len(members)
           step == [k \in 1..N |-> [s \in Int |-> s + SignalOf(signal, none, members[k])]]
           Sum(h) == h = [k \in 0..N |-> IF k = 0 THEN 0
                       ELSE h[k - 1] + (IF members[k] \in Programs THEN signal[members[k]] ELSE none)]
           Rec(h) == h = [k \in 0..N |-> IF k = 0 THEN 0 ELSE step[k][h[k - 1]]]
           sum == CHOOSE h : Sum(h)
<1>1. N \in Nat
  OBVIOUS
<1>2. (\E h : Rec(h)) /\ \A h : Rec(h) => h \in [0..N -> Int]
  <2>1. step \in [1..N -> [Int -> Int]]
    OBVIOUS
  <2>2. 0 \in Int
    OBVIOUS
  <2> HIDE DEF step, N
  <2>3. /\ \E h : Stepped(h, N, 0, step)
        /\ \A h : Stepped(h, N, 0, step) => h \in [0..N -> Int]
    BY ONLY <1>1, <2>1, <2>2, StepByStep
  <2> QED  BY <2>3 DEF Stepped
<1>3. ASSUME NEW h, Rec(h) PROVE Sum(h)
  <2>1. h \in [0..N -> Int]
    <3> HIDE DEF Rec
    <3> QED  BY <1>2, <1>3
  <2>2. ASSUME NEW k \in 1..N
        PROVE  step[k][h[k - 1]] = h[k - 1] + (IF members[k] \in Programs THEN signal[members[k]] ELSE none)
    <3>1. h[k - 1] \in Int
      BY <1>1, <2>1
    <3> QED  BY <3>1 DEF SignalOf
  <2>3. \A k \in 0..N : k # 0 => k \in 1..N
    BY <1>1
  <2> HIDE DEF step, N
  <2> QED  BY <1>3, <2>2, <2>3
<1>4. Sum(sum)
  <2> HIDE DEF Rec, Sum
  <2> QED  BY <1>2, <1>3
<1> HIDE DEF sum
<1>5. sum[0] = 0 /\ \A k \in Nat : k < N => sum[k + 1] = sum[k] + SignalOf(signal, none, members[k + 1])
  <2>1. \A k \in 0..N : sum[k] = IF k = 0 THEN 0
            ELSE sum[k - 1] + (IF members[k] \in Programs THEN signal[members[k]] ELSE none)
    BY <1>4
  <2>2. 0 \in 0..N
    BY <1>1
  <2>3. \A k \in Nat : k < N => k + 1 \in 0..N /\ k + 1 # 0 /\ (k + 1) - 1 = k
    BY <1>1
  <2> HIDE DEF N
  <2> QED  BY <2>1, <2>2, <2>3 DEF SignalOf
<1> DEFINE high == \A p : SignalOf(signal, none, p) <= 1000
           low == \A p : SignalOf(signal, none, p) >= 0
           Good(s, k) == s \in Int /\ (high => s <= 1000 * k) /\ (low => s >= 0)
           All == {k \in Nat : k <= N => Good(sum[k], k)}
<1>6. All = Nat
  <2>1. 0 \in All
    BY <1>5
  <2>2. ASSUME NEW k \in All PROVE k + 1 \in All
    <3> SUFFICES ASSUME k + 1 <= N PROVE Good(sum[k + 1], k + 1)
      OBVIOUS
    <3>1. k \in Nat /\ k < N /\ Good(sum[k], k)
      BY <1>1
    <3> DEFINE x == SignalOf(signal, none, members[k + 1])
    <3>2. x \in Int /\ (high => x <= 1000) /\ (low => x >= 0)
      OBVIOUS
    <3>3. sum[k + 1] = sum[k] + x
      BY <1>5, <3>1
    <3> HIDE DEF x, high, low
    <3> QED  BY <3>1, <3>2, <3>3
  <2>3. All \in SUBSET Nat
    OBVIOUS
  <2> HIDE DEF All
  <2> QED  BY <2>1, <2>2, <2>3, EveryNumber
<1>7. Good(sum[N], N)
  <2> HIDE DEF N, Good
  <2>1. N \in All
    BY <1>1, <1>6
  <2> QED  BY <1>1, <2>1
<1>8. Mean(signal, none, members) = IF members = <<>> THEN 0 ELSE sum[N] \div N
  BY DEF Mean, sum
<1>9. members # <<>> => N \in Nat \ {0}
  OBVIOUS
<1> HIDE DEF N, high, low
<1>10. CASE members = <<>>
  BY <1>8, <1>10
<1>11. CASE members # <<>>
  <2>1. sum[N] \div N \in Int
    BY <1>7, <1>9, <1>11
  <2>2. high => sum[N] \div N <= 1000
    BY <1>7, <1>9, <1>11, QuotientAtMost
  <2>3. low => sum[N] \div N >= 0
    BY <1>7, <1>9, <1>11, QuotientNatural
  <2> QED  BY <1>8, <1>11, <2>1, <2>2, <2>3 DEF high, low
<1> QED  BY <1>10, <1>11

(* The signals of the extraction score, of any reference a context has.    *)
LEMMA Signals ==
    ASSUME NEW parsed, ParsedGraph(parsed), NEW p \in Programs
    PROVE  /\ Business(parsed, p) \in Int /\ Business(parsed, p) <= 1000
           /\ Isolation(parsed, p) \in Int /\ Isolation(parsed, p) <= 1000
           /\ DataOwnership(parsed, p) \in Int
           /\ Risk(parsed, p) \in Int /\ Risk(parsed, p) >= 0
<1> DEFINE fanIns == [q \in Programs |-> parsed[q].fanIn]
           churns == [q \in Programs |-> parsed[q].churn]
<1>1. parsed[p].fanIn \in Nat /\ parsed[p].churn \in Nat
  BY DEF ParsedGraph
<1>2. Peak(fanIns) \in Nat \ {0} /\ Peak(churns) \in Nat \ {0}
  <2>1. fanIns \in [Programs -> Nat] /\ churns \in [Programs -> Nat]
    BY DEF ParsedGraph
  <2> HIDE DEF fanIns, churns
  <2>2. /\ Peak(fanIns) \in Nat /\ Peak(fanIns) >= 1
        /\ Peak(churns) \in Nat /\ Peak(churns) >= 1
    BY <2>1, PeakIsPositive
  <2> QED  BY <2>2
<1>3. Business(parsed, p) \in Int /\ Business(parsed, p) <= 1000
  <2>1. Business(parsed, p) =
            AtMost(1000, (1000 * parsed[p].fanIn) \div Peak(fanIns) + (IF parsed[p].entry THEN 250 ELSE 0))
    BY DEF Business
  <2> HIDE DEF fanIns
  <2>2. (1000 * parsed[p].fanIn) \div Peak(fanIns) \in Nat
    BY <1>1, <1>2, QuotientNatural
  <2> QED  BY <2>1, <2>2 DEF AtMost
<1>4. SharedBy(parsed, p) \subseteq Touched(parsed, p) /\ IsFiniteSet(Touched(parsed, p))
  BY TouchedFinite DEF SharedBy
<1>5. ASSUME NEW part, part \subseteq Touched(parsed, p), Touched(parsed, p) # {}
      PROVE  Share(part, Touched(parsed, p)) \in Nat
  <2> DEFINE whole == Touched(parsed, p)
  <2>1. Cardinality(part) \in Nat /\ Cardinality(whole) \in Nat \ {0}
    BY <1>4, <1>5, FS_Subset, FS_CardinalityType, FS_EmptySet
  <2> HIDE DEF whole
  <2>2. 1000 * Cardinality(part) \in Nat
    BY <2>1
  <2>3. (1000 * Cardinality(part)) \div Cardinality(whole) \in Nat
    BY <2>1, <2>2, QuotientNatural
  <2> QED  BY <2>3 DEF Share, whole
<1>6. Isolation(parsed, p) \in Int /\ Isolation(parsed, p) <= 1000
  <2>1. CASE Touched(parsed, p) = {}
    BY <2>1 DEF Isolation
  <2>2. CASE Touched(parsed, p) # {}
    <3>1. Share(SharedBy(parsed, p), Touched(parsed, p)) \in Nat
      BY <1>4, <1>5, <2>2
    <3> QED  BY <2>2, <3>1 DEF Isolation
  <2> QED  BY <2>1, <2>2
<1>7. DataOwnership(parsed, p) \in Int
  <2>1. Touched(parsed, p) \ SharedBy(parsed, p) \subseteq Touched(parsed, p)
    OBVIOUS
  <2> QED  BY <1>5, <2>1 DEF DataOwnership
<1>8. Risk(parsed, p) \in Int /\ Risk(parsed, p) >= 0
  <2>1. Risk(parsed, p) =
            (IF Writes(parsed, p) # {} THEN 500 ELSE 0)
                + (IF Touched(parsed, p) \cap Billing # {} THEN 300 ELSE 0)
                + (200 * parsed[p].churn) \div Peak(churns)
    BY DEF Risk
  <2> HIDE DEF churns
  <2>2. (200 * parsed[p].churn) \div Peak(churns) \in Nat
    BY <1>1, <1>2, QuotientNatural
  <2> QED  BY <2>1, <2>2
<1> QED  BY <1>3, <1>6, <1>7, <1>8

(* Contexts, of the references U, as an agent or the code makes them.      *)
IsContext(c, U) ==
    c.members \in Seq(U) /\ c.name \in U /\ c.depends_on \in SUBSET U

AreContexts(contexts, U) ==
    Len(contexts) \in Nat /\ DOMAIN contexts = 1..Len(contexts)
    /\ \A k \in DOMAIN contexts : IsContext(contexts[k], U)

LEMMA InboundIsNatural ==
    ASSUME NEW contexts, NEW U, AreContexts(contexts, U), NEW name
    PROVE  Inbound(contexts, name) \in Nat
<1> DEFINE D == DOMAIN contexts
           S == {k \in D : name \in contexts[k].depends_on}
<1>1. IsFiniteSet(D)
  <2>1. Len(contexts) \in Int /\ 1 \in Int /\ D = 1..Len(contexts)
    BY DEF AreContexts
  <2> HIDE DEF D
  <2> QED  BY <2>1, FS_Interval
<1>2. S \in SUBSET D
  OBVIOUS
<1> HIDE DEF S, D
<1>3. Cardinality(S) \in Nat
  BY <1>1, <1>2, FS_Subset, FS_CardinalityType
<1> QED  BY <1>3 DEF Inbound, S, D

(* The score of a context is high enough for a service of its own only     *)
(* where its programs have their data for themselves.                      *)
LEMMA ServicesOwnData ==
    ASSUME NEW parsed, ParsedGraph(parsed), NEW contexts, NEW U, AreContexts(contexts, U),
           NEW k \in DOMAIN contexts, DeploymentFor(ExtractScore(parsed, contexts, k)) = "microservice"
    PROVE  Mean([p \in Programs |-> DataOwnership(parsed, p)], 0, contexts[k].members) >= 200
<1> DEFINE ms   == contexts[k].members
           iso  == [p \in Programs |-> Isolation(parsed, p)]
           own  == [p \in Programs |-> DataOwnership(parsed, p)]
           biz  == [p \in Programs |-> Business(parsed, p)]
           risk == [p \in Programs |-> Risk(parsed, p)]
           name == contexts[k].name
           peak == Max({Inbound(contexts, n) : n \in Names(contexts)})
           fewer == IF peak = 0 THEN 0 ELSE (10000 * Inbound(contexts, name)) \div peak
<1>1. ms \in Seq(U)
  BY DEF AreContexts, IsContext
<1>2. /\ \A p : SignalOf(iso, 1000, p) \in Int /\ SignalOf(iso, 1000, p) <= 1000
      /\ \A p : SignalOf(own, 0, p) \in Int
      /\ \A p : SignalOf(biz, 0, p) \in Int /\ SignalOf(biz, 0, p) <= 1000
      /\ \A p : SignalOf(risk, 0, p) \in Int /\ SignalOf(risk, 0, p) >= 0
  BY Signals DEF SignalOf
<1> HIDE DEF ms, iso, own, biz, risk
<1>3. /\ Mean(iso, 1000, ms) \in Int /\ Mean(iso, 1000, ms) <= 1000
      /\ Mean(biz, 0, ms) \in Int /\ Mean(biz, 0, ms) <= 1000
      /\ Mean(own, 0, ms) \in Int
      /\ Mean(risk, 0, ms) \in Int /\ Mean(risk, 0, ms) >= 0
  <2>1. /\ Mean(iso, 1000, ms) \in Int /\ Mean(iso, 1000, ms) <= 1000
    BY <1>1, <1>2, MeanIsWhole
  <2>2. Mean(biz, 0, ms) \in Int /\ Mean(biz, 0, ms) <= 1000
    BY <1>1, <1>2, MeanIsWhole
  <2>3. Mean(own, 0, ms) \in Int
    BY <1>1, <1>2, MeanIsWhole
  <2>4. Mean(risk, 0, ms) \in Int /\ Mean(risk, 0, ms) >= 0
    BY <1>1, <1>2, MeanIsWhole
  <2> QED  BY <2>1, <2>2, <2>3, <2>4
<1>4. fewer \in Nat
  <2> DEFINE inbound == [n \in Names(contexts) |-> Inbound(contexts, n)]
             S == {inbound[n] : n \in Names(contexts)}
             D == DOMAIN contexts
             nameAt == [j \in D |-> contexts[j].name]
  <2>1. \A n : Inbound(contexts, n) \in Nat
    BY InboundIsNatural
  <2>2. Names(contexts) = {nameAt[j] : j \in D}
    BY DEF Names, Range
  <2>3. IsFiniteSet(D)
    <3>1. Len(contexts) \in Int /\ 1 \in Int /\ D = 1..Len(contexts)
      BY DEF AreContexts
    <3> HIDE DEF D
    <3> QED  BY <3>1, FS_Interval
  <2>4. IsFiniteSet({nameAt[j] : j \in D})
    <3>1. DOMAIN nameAt = D
      OBVIOUS
    <3> HIDE DEF nameAt, D
    <3> QED  BY <2>3, <3>1, FiniteImage
  <2>5. S \in SUBSET Nat /\ IsFiniteSet(S)
    <3>1. DOMAIN inbound = Names(contexts) /\ \A n \in Names(contexts) : inbound[n] \in Nat
      BY <2>1
    <3> HIDE DEF inbound
    <3>2. IsFiniteSet({inbound[n] : n \in Names(contexts)})
      BY <2>2, <2>4, <3>1, FiniteImage
    <3> QED  BY <3>1, <3>2
  <2>6. S # {}
    <3>1. contexts[k].name \in Names(contexts)
      BY DEF Names, Range
    <3> QED  BY <3>1
  <2>7. peak = Max(S)
    OBVIOUS
  <2>8. peak \in Nat
    <3> HIDE DEF S, peak
    <3>1. S \in SUBSET Int
      BY <2>5
    <3> QED  BY <2>5, <2>6, <2>7, <3>1, GreatestOfNumbers
  <2>9. 10000 * Inbound(contexts, name) \in Nat
    <3>1. Inbound(contexts, name) \in Nat
      BY <2>1
    <3> HIDE DEF name
    <3> QED  BY <3>1
  <2>10. peak # 0 => (10000 * Inbound(contexts, name)) \div peak \in Nat
    <3> HIDE DEF peak, name
    <3> QED  BY <2>8, <2>9, QuotientNatural
  <2> HIDE DEF peak, name
  <2> QED  BY <2>10
<1>5. ExtractScore(parsed, contexts, k) =
          30 * Mean(iso, 1000, ms) + 25 * Mean(own, 0, ms) + 20 * Mean(biz, 0, ms) - 15 * Mean(risk, 0, ms)
              - fewer
  BY DEF ExtractScore, ms, iso, own, biz, risk
<1>6. ExtractScore(parsed, contexts, k) >= 55000
  BY DEF DeploymentFor
<1> HIDE DEF fewer
<1>7. Mean(own, 0, ms) >= 200
  BY <1>3, <1>4, <1>5, <1>6
<1> QED  BY <1>7 DEF own, ms

(* The extraction order: each context has a rank of its own, and none that *)
(* others depend on comes before one that none does.                       *)
LEMMA RanksOfContexts ==
    ASSUME NEW parsed, ParsedGraph(parsed), NEW contexts, NEW U, AreContexts(contexts, U)
    PROVE  LET ranks == [k \in DOMAIN contexts |-> ExtractionRank(parsed, contexts, k)]
           IN  /\ Range(ranks) = DOMAIN contexts
               /\ \A j, k \in DOMAIN contexts :
                     /\ Inbound(contexts, contexts[j].name) > 0
                     /\ ~(Inbound(contexts, contexts[k].name) > 0)
                     => ranks[k] < ranks[j]
<1> DEFINE D == DOMAIN contexts
           N == Len(contexts)
           biz == [p \in Programs |-> Business(parsed, p)]
           value == [i \in D |-> Mean(biz, 0, contexts[i].members)]
           deps == [i \in D |-> Inbound(contexts, contexts[i].name)]
           before(j, k) == \/ deps[j] < deps[k]
                           \/ deps[j] = deps[k] /\ value[j] > value[k]
                           \/ deps[j] = deps[k] /\ value[j] = value[k] /\ j < k
           B == [k \in D |-> {j \in D : ExtractedBefore(parsed, contexts, j, k)}]
           ranks == [k \in D |-> ExtractionRank(parsed, contexts, k)]
<1>1. N \in Nat /\ D = 1..N /\ IsFiniteSet(D) /\ Cardinality(D) = N
  <2>1. N \in Nat /\ D = 1..N
    BY DEF AreContexts
  <2> HIDE DEF D, N
  <2>2. IsFiniteSet(D) /\ Cardinality(D) = IF 1 > N THEN 0 ELSE N - 1 + 1
    <3>1. 1 \in Int /\ N \in Int
      BY <2>1
    <3> QED  BY <2>1, <3>1, FS_Interval
  <2> QED  BY <2>1, <2>2
<1>2. ASSUME NEW i \in D PROVE deps[i] \in Nat /\ value[i] \in Int
  <2>1. Inbound(contexts, contexts[i].name) \in Nat
    BY InboundIsNatural
  <2>2. Mean(biz, 0, contexts[i].members) \in Int
    <3>1. \A p : SignalOf(biz, 0, p) \in Int
      BY Signals DEF SignalOf
    <3>2. contexts[i].members \in Seq(U)
      BY DEF AreContexts, IsContext
    <3> HIDE DEF biz
    <3> QED  BY <3>1, <3>2, MeanIsWhole
  <2> QED  BY <2>1, <2>2
<1>3. \A j, k \in D : ExtractedBefore(parsed, contexts, j, k) <=> before(j, k)
  BY DEF ExtractedBefore
<1>4. \A k \in D : B[k] = {j \in D : ExtractedBefore(parsed, contexts, j, k)}
  OBVIOUS
<1>5. \A k \in D : ranks[k] = 1 + Cardinality(B[k])
  BY DEF ExtractionRank
<1>6. B \in [D -> SUBSET D]
  OBVIOUS
<1>7. ranks = [k \in D |-> ranks[k]]
  OBVIOUS
<1>8. \A j : \A k \in D : j \in B[k] <=> j \in D /\ before(j, k)
  <2> HIDE DEF B, before
  <2> QED  BY <1>3, <1>4
<1>9. \A j, k \in D : deps[j] > 0 /\ ~(deps[k] > 0) => k \in B[j]
  <2> HIDE DEF B, deps, value, D
  <2> QED  BY <1>2, <1>8
<1>10. Precedes(D, B)
  <2> HIDE DEF B, deps, value
  <2>1. \A i \in D : i \in Int
    <3> HIDE DEF D
    <3> QED  BY <1>1
  <2> HIDE DEF D
  <2>2. \A k \in D : k \notin B[k]
    BY <1>2, <1>8, <2>1
  <2>3. \A j, k \in D : j # k => k \in B[j] \/ j \in B[k]
    BY <1>2, <1>8, <2>1
  <2>4. \A i, j, k \in D : before(i, j) /\ before(j, k) => before(i, k)
    BY <1>2, <2>1
  <2>5. \A j, k \in D : j \in B[k] => B[j] \subseteq B[k]
    <3> HIDE DEF before
    <3> QED  BY <1>8, <2>4
  <2> QED  BY <1>1, <1>6, <2>2, <2>3, <2>5 DEF Precedes
<1> HIDE DEF B, ranks, before, deps, value
<1>11. /\ Placed(D, B)
       /\ \A k \in D : Cardinality(B[k]) \in Nat /\ Cardinality(B[k]) + 1 \in 1..Cardinality(D)
  <2> HIDE DEF D
  <2> QED  BY <1>10, Ranks
<1> HIDE DEF D, N
<1>12. Range(ranks) = D
  <2>1. ASSUME NEW k \in D PROVE ranks[k] \in D
    <3>1. Cardinality(B[k]) + 1 \in 1..N /\ Cardinality(B[k]) \in Nat
      BY <1>1, <1>11
    <3> QED  BY <1>1, <1>5, <3>1
  <2>2. ASSUME NEW n \in D PROVE \E k \in D : ranks[k] = n
    <3>1. PICK k \in D : Cardinality(B[k]) = n - 1
      BY <1>1, <1>11 DEF Placed
    <3>2. n \in Int
      BY <1>1
    <3>3. ranks[k] = n
      BY <1>5, <3>1, <3>2
    <3> QED  BY <3>3
  <2>3. \A x : x \in Range(ranks) <=> \E k \in D : ranks[k] = x
    <3>1. DOMAIN ranks = D
      BY <1>7
    <3> QED  BY <3>1 DEF Range
  <2> QED  BY <2>1, <2>2, <2>3
<1>13. ASSUME NEW j \in D, NEW k \in D, deps[j] > 0, ~(deps[k] > 0) PROVE ranks[k] < ranks[j]
  <2>1. k \in B[j] /\ k \notin B[k] /\ B[k] \in SUBSET B[j] /\ B[j] \in SUBSET D
    BY <1>9, <1>10, <1>13 DEF Precedes
  <2>2. IsFiniteSet(B[j])
    BY <1>1, <2>1, FS_Subset
  <2>3. /\ Cardinality(B[k]) <= Cardinality(B[j])
        /\ Cardinality(B[j]) = Cardinality(B[k]) => B[j] = B[k]
    BY <2>1, <2>2, FS_Subset
  <2>4. Cardinality(B[k]) \in Nat /\ Cardinality(B[j]) \in Nat
    BY <1>11
  <2> QED  BY <1>5, <2>1, <2>3, <2>4
<1>14. \A j, k \in D : Inbound(contexts, contexts[j].name) > 0 /\ ~(Inbound(contexts, contexts[k].name) > 0)
          => ranks[k] < ranks[j]
  BY <1>13 DEF deps
<1> QED  BY <1>12, <1>14 DEF ranks, D

(* check_acyclic: what is below a context, level by level.                 *)
Levels(contexts, name, level) ==
    /\ level \in [Nat -> SUBSET Names(contexts)]
    /\ level[0] = TargetsOf(contexts, {name})
    /\ \A k \in Nat : level[k + 1] = level[k] \cup TargetsOf(contexts, level[k])

TargetsKnown(contexts) == TargetsOf(contexts, Names(contexts)) \subseteq Names(contexts)

LEMMA TargetsAreNames ==
    ASSUME NEW contexts, TargetsKnown(contexts), NEW S
    PROVE  TargetsOf(contexts, S) \in SUBSET Names(contexts)
BY DEF TargetsKnown, TargetsOf, Names

LEMMA BelowByLevels ==
    ASSUME NEW contexts, TargetsKnown(contexts), NEW name, NEW n, n \in Nat, n = Len(contexts)
    PROVE  \E level : Levels(contexts, name, level) /\ Below(contexts, name) = level[n]
<1> DEFINE X == SUBSET Names(contexts)
           step == [S \in X |-> S \cup TargetsOf(contexts, S)]
           start == TargetsOf(contexts, {name})
           Rec(L) == L = [k \in Nat |-> IF k = 0 THEN start
                                        ELSE L[k - 1] \cup TargetsOf(contexts, L[k - 1])]
           level == CHOOSE L : Rec(L)
<1>1. step \in [X -> X] /\ start \in X
  BY TargetsAreNames
<1>2. PICK f \in [Nat -> X] : f[0] = start /\ \A k \in Nat : f[k + 1] = step[f[k]]
  <2> HIDE DEF X, step, start
  <2>1. \E f \in [Nat -> X] : f[0] = start /\ \A k \in Nat : f[k + 1] = step[f[k]]
    BY ONLY <1>1, Iteration
  <2> QED  BY <2>1
<1>3. Rec(f)
  <2>1. ASSUME NEW k \in Nat
        PROVE  f[k] = IF k = 0 THEN start ELSE f[k - 1] \cup TargetsOf(contexts, f[k - 1])
    <3>1. CASE k = 0
      BY <1>2, <3>1
    <3>2. CASE k # 0
      <4>1. k - 1 \in Nat /\ (k - 1) + 1 = k
        BY <3>2
      <4>2. f[k] = step[f[k - 1]] /\ f[k - 1] \in X
        BY <1>2, <4>1
      <4> QED  BY <3>2, <4>2
    <3> QED  BY <3>1, <3>2
  <2>2. f = [k \in Nat |-> f[k]]
    BY <1>2
  <2> QED  BY <2>1, <2>2
<1>4. Rec(level)
  <2> HIDE DEF Rec
  <2> QED  BY <1>3
<1>5. Below(contexts, name) = level[n]
  BY DEF Below
<1> HIDE DEF level
<1>6. level[0] = start /\ \A k \in Nat : level[k + 1] = level[k] \cup TargetsOf(contexts, level[k])
  <2>1. \A k \in Nat : level[k] = IF k = 0 THEN start ELSE level[k - 1] \cup TargetsOf(contexts, level[k - 1])
    BY <1>4
  <2>2. \A k \in Nat : k + 1 \in Nat /\ k + 1 # 0 /\ (k + 1) - 1 = k
    OBVIOUS
  <2> HIDE DEF start
  <2> QED  BY <2>1, <2>2
<1>7. level \in [Nat -> X]
  <2> DEFINE In == {k \in Nat : level[k] \in X}
  <2>1. 0 \in In
    <3> HIDE DEF X, start
    <3> QED  BY <1>1, <1>6
  <2>2. ASSUME NEW k \in In PROVE k + 1 \in In
    <3>1. TargetsOf(contexts, level[k]) \in X
      BY TargetsAreNames
    <3> QED  BY <1>6, <3>1
  <2>3. In \in SUBSET Nat
    OBVIOUS
  <2>4. In = Nat
    <3> HIDE DEF In
    <3> QED  BY <2>1, <2>2, <2>3, EveryNumber
  <2>5. \A k \in Nat : level[k] \in X
    BY <2>4
  <2>6. level = [k \in Nat |-> level[k]]
    BY <1>4
  <2> QED  BY <2>5, <2>6
<1> QED  BY <1>5, <1>6, <1>7 DEF Levels

(* It holds all that a context leads to, and nothing else.                 *)
LEMMA BelowIsAll ==
    ASSUME NEW contexts, NEW U, AreContexts(contexts, U), TargetsKnown(contexts), NEW name
    PROVE  /\ Below(contexts, name) \in SUBSET Names(contexts) /\ IsFiniteSet(Below(contexts, name))
           /\ TargetsOf(contexts, {name}) \subseteq Below(contexts, name)
           /\ TargetsOf(contexts, Below(contexts, name)) \subseteq Below(contexts, name)
           /\ \A S : TargetsOf(contexts, {name}) \cup TargetsOf(contexts, S) \subseteq S
                        => Below(contexts, name) \subseteq S
<1> DEFINE n == Len(contexts)
           D == DOMAIN contexts
           names == Names(contexts)
           nameAt == [k \in D |-> contexts[k].name]
<1>1. n \in Nat /\ D = 1..n
  BY DEF AreContexts
<1>2. PICK level : Levels(contexts, name, level) /\ Below(contexts, name) = level[n]
  <2> HIDE DEF n
  <2>1. n = Len(contexts)
    BY DEF n
  <2> QED  BY <1>1, <2>1, BelowByLevels
<1>3. IsFiniteSet(names) /\ Cardinality(names) <= n
  <2>1. IsFiniteSet(D) /\ Cardinality(D) = n
    <3> HIDE DEF n, D
    <3>1. IsFiniteSet(D) /\ Cardinality(D) = IF 1 > n THEN 0 ELSE n - 1 + 1
      <4>1. 1 \in Int /\ n \in Int
        BY <1>1
      <4> QED  BY <1>1, <4>1, FS_Interval
    <3> QED  BY <1>1, <3>1
  <2>2. names = {nameAt[k] : k \in D}
    BY DEF Names, Range
  <2> HIDE DEF D, n, names
  <2>3. nameAt \in Surjection(D, names)
    <3>1. nameAt \in [D -> names] /\ \A x \in names : \E k \in D : nameAt[k] = x
      BY <2>2
    <3> HIDE DEF nameAt
    <3> QED  BY <3>1 DEF Surjection
  <2> HIDE DEF nameAt
  <2>4. IsFiniteSet(names) /\ Cardinality(names) <= Cardinality(D)
    BY <2>1, <2>3, FS_Surjection
  <2> QED  BY <2>1, <2>4
<1> HIDE DEF n, names, D
<1>4. \A k \in Nat : level[k] \subseteq level[k + 1]
  BY <1>2 DEF Levels
<1>5. \A k \in Nat : level[k] = level[k + 1] => level[k + 1] = level[(k + 1) + 1]
  <2>1. \A k \in Nat : k + 1 \in Nat
    OBVIOUS
  <2> QED  BY <1>2, <2>1 DEF Levels
<1>6. level \in [Nat -> SUBSET names]
  BY <1>2 DEF Levels, names
<1>7. level[n + 1] = level[n]
  BY <1>1, <1>3, <1>4, <1>5, <1>6, GrowthEnds
<1>8. TargetsOf(contexts, level[n]) \subseteq level[n]
  BY <1>1, <1>2, <1>7 DEF Levels
<1>9. ASSUME NEW S, TargetsOf(contexts, {name}) \cup TargetsOf(contexts, S) \subseteq S
      PROVE  level[n] \subseteq S
  <2> DEFINE In == {k \in Nat : level[k] \subseteq S}
  <2>1. 0 \in In
    BY <1>2, <1>9 DEF Levels
  <2>2. ASSUME NEW k \in In PROVE k + 1 \in In
    <3>1. TargetsOf(contexts, level[k]) \subseteq TargetsOf(contexts, S)
      BY DEF TargetsOf
    <3>2. level[k + 1] = level[k] \cup TargetsOf(contexts, level[k])
      BY <1>2 DEF Levels
    <3> QED  BY <1>9, <3>1, <3>2
  <2>3. In \in SUBSET Nat
    OBVIOUS
  <2>4. In = Nat
    <3> HIDE DEF In
    <3> QED  BY <2>1, <2>2, <2>3, EveryNumber
  <2> QED  BY <1>1, <2>4
<1>10. level[0] \subseteq level[n]
  <2> DEFINE In == {k \in Nat : level[0] \subseteq level[k]}
  <2>1. 0 \in In
    OBVIOUS
  <2>2. \A k \in In : k + 1 \in In
    BY <1>4
  <2>3. In \in SUBSET Nat
    OBVIOUS
  <2>4. In = Nat
    <3> HIDE DEF In
    <3> QED  BY <2>1, <2>2, <2>3, EveryNumber
  <2> QED  BY <1>1, <2>4
<1>11. level[n] \in SUBSET names /\ IsFiniteSet(level[n])
  <2>1. level[n] \in SUBSET names
    BY <1>1, <1>6
  <2> QED  BY <1>3, <2>1, FS_Subset
<1> QED  BY <1>2, <1>8, <1>9, <1>10, <1>11 DEF Levels, names

(* Of natural numbers one is the least.                                    *)
LEMMA LeastNatural ==
    ASSUME NEW T \in SUBSET Nat, T # {}
    PROVE  \E n \in T : \A m \in T : n <= m
<1> PICK a \in T : TRUE
  OBVIOUS
<1> DEFINE cut == T \cap 0..a
<1>1. IsFiniteSet(0..a)
  <2>1. 0 \in Int /\ a \in Int
    OBVIOUS
  <2> QED  BY <2>1, FS_Interval
<1>2. cut \in SUBSET (0..a) /\ a \in cut /\ cut \in SUBSET Int
  OBVIOUS
<1> HIDE DEF cut
<1>3. IsFiniteSet(cut) /\ cut # {}
  BY <1>1, <1>2, FS_Subset
<1>4. Min(cut) \in cut /\ \A y \in cut : Min(cut) <= y
  BY <1>2, <1>3, LeastOfNumbers
<1>5. \A m \in T : m \in cut \/ a < m
  BY DEF cut
<1>6. Min(cut) \in T /\ Min(cut) \in Nat
  BY <1>4 DEF cut
<1>7. Min(cut) <= a
  BY <1>2, <1>4
<1>8. \A m \in T : Min(cut) <= m
  BY <1>4, <1>5, <1>6, <1>7
<1> QED  BY <1>6, <1>8

(* Contexts that pass check_acyclic do not wait for one another.           *)
LEMMA NoContextsWait ==
    ASSUME NEW contexts, NEW U, AreContexts(contexts, U), CheckAcyclic(contexts)
    PROVE  ~HasCycle([n \in Names(contexts) |-> TargetsOf(contexts, {n})])
<1> DEFINE needs == [n \in Names(contexts) |-> TargetsOf(contexts, {n})]
           count == [n \in Names(contexts) |-> Cardinality(Below(contexts, n))]
<1>1. TargetsKnown(contexts) /\ \A n \in Names(contexts) : n \notin Below(contexts, n)
  BY DEF CheckAcyclic, TargetsKnown
<1>2. SUFFICES ASSUME NEW S \in SUBSET Names(contexts), S # {}, \A s \in S : needs[s] \cap S # {}
               PROVE  FALSE
  BY DEF HasCycle
<1>3. \A n \in S : count[n] \in Nat
  BY <1>1, BelowIsAll, FS_CardinalityType
<1>4. PICK s \in S : \A t \in S : count[s] <= count[t]
  <2> HIDE DEF count
  <2> DEFINE T == {n \in Nat : \E s \in S : count[s] = n}
  <2>1. T \in SUBSET Nat /\ T # {}
    BY <1>2, <1>3
  <2>2. PICK n \in T : \A m \in T : n <= m
    <3> HIDE DEF T
    <3> QED  BY <2>1, LeastNatural
  <2>3. PICK s \in S : count[s] = n
    OBVIOUS
  <2>4. \A t \in S : count[t] \in T
    BY <1>3
  <2> QED  BY <2>2, <2>3, <2>4
<1>5. PICK t \in S : t \in needs[s]
  BY <1>2
<1>6. s \in Names(contexts) /\ t \in Names(contexts) /\ t \in TargetsOf(contexts, {s})
  BY <1>2, <1>5
<1> HIDE DEF needs
<1>7. t \in Below(contexts, s) /\ TargetsOf(contexts, Below(contexts, s)) \subseteq Below(contexts, s)
  BY <1>1, <1>6, BelowIsAll
<1>8. TargetsOf(contexts, {t}) \subseteq TargetsOf(contexts, Below(contexts, s))
  BY <1>7 DEF TargetsOf
<1>9. Below(contexts, t) \in SUBSET Below(contexts, s)
  BY <1>1, <1>7, <1>8, BelowIsAll
<1>10. IsFiniteSet(Below(contexts, s))
  BY <1>1, BelowIsAll
<1>11. /\ Cardinality(Below(contexts, t)) <= Cardinality(Below(contexts, s))
       /\ Cardinality(Below(contexts, s)) = Cardinality(Below(contexts, t)) => Below(contexts, s) = Below(contexts, t)
  BY <1>9, <1>10, FS_Subset
<1>12. count[s] = Cardinality(Below(contexts, s)) /\ count[t] = Cardinality(Below(contexts, t))
  BY <1>6
<1> HIDE DEF count
<1>13. count[s] <= count[t] /\ count[s] \in Nat /\ count[t] \in Nat
  BY <1>3, <1>4
<1>14. Below(contexts, t) = Below(contexts, s)
  BY <1>11, <1>12, <1>13
<1> QED  BY <1>1, <1>6, <1>7, <1>14

LEMMA ParsedContexts ==
    ASSUME NEW U, NEW answer, answer \in Seq(AnsweredContext(U)), NEW known
    PROVE  /\ AreContexts(Parsed(answer, known), U)
           /\ answer = <<>> => Parsed(answer, known) = <<>>
<1> DEFINE n == Len(answer)
           cs == Parsed(answer, known)
<1>1. n \in Nat /\ DOMAIN answer = 1..n /\ \A k \in 1..n : answer[k] \in AnsweredContext(U)
  BY LenProperties
<1>2. cs = [k \in 1..n |-> [answer[k] EXCEPT !.cited = @ \cap known]]
  BY <1>1 DEF Parsed
<1>3. ASSUME NEW k \in 1..n PROVE IsContext(cs[k], U)
  <2> DEFINE c == answer[k]
  <2>1. c \in AnsweredContext(U)
    BY <1>1
  <2>2. cs[k] = [c EXCEPT !.cited = @ \cap known]
    BY <1>2
  <2> HIDE DEF c, cs
  <2>3. cs[k].name = c.name /\ cs[k].members = c.members /\ cs[k].depends_on = c.depends_on
    BY <2>1, <2>2 DEF AnsweredContext
  <2> QED  BY <2>1, <2>3 DEF AnsweredContext, IsContext
<1>4. Len(cs) = n /\ DOMAIN cs = 1..n
  <2> HIDE DEF n, cs
  <2> QED  BY <1>1, <1>2
<1>5. answer = <<>> => cs = <<>>
  <2>1. answer = <<>> => n = 0
    OBVIOUS
  <2> HIDE DEF n, cs
  <2> QED  BY <1>2, <2>1
<1> HIDE DEF n, cs
<1>6. AreContexts(cs, U)
  BY <1>1, <1>3, <1>4 DEF AreContexts
<1> QED  BY <1>5, <1>6 DEF cs

LEMMA DecomposedMeetsGates ==
    ASSUME NEW U, NEW answers, answers \in Seq(Seq(AnsweredContext(U))),
           NEW writers, NEW known, NEW maxRepairs \in Nat
    PROVE  LET contexts == Decompose(answers, writers, known, maxRepairs)
           IN  /\ AreContexts(contexts, U)
               /\ contexts = <<>> \/ RunPhase1Gates(contexts, writers, known)
<1> DEFINE m == AtMost(maxRepairs + 1, Len(answers))
           tried == SubSeq(answers, 1, m)
           meets(k) == RunPhase1Gates(Parsed(tried[k], known), writers, known)
           ends == {k \in DOMAIN tried : tried[k] = <<>> \/ meets(k)}
           contexts == Decompose(answers, writers, known, maxRepairs)
<1>1. m \in Nat /\ m <= Len(answers)
  BY LenProperties DEF AtMost
<1>2. DOMAIN tried = 1..m /\ \A k \in 1..m : tried[k] = answers[k]
  <2> HIDE DEF m
  <2> QED  BY <1>1
<1>3. ASSUME NEW k \in DOMAIN tried PROVE tried[k] \in Seq(AnsweredContext(U))
  <2>1. k \in 1..Len(answers)
    <3> HIDE DEF m, tried
    <3>1. Len(answers) \in Nat
      BY LenProperties
    <3> QED  BY <1>1, <1>2, <3>1
  <2>2. answers[k] \in Seq(AnsweredContext(U))
    BY <2>1
  <2> HIDE DEF tried, m
  <2> QED  BY <1>2, <2>2
<1>4. contexts = IF ends = {} THEN <<>> ELSE Parsed(tried[Min(ends)], known)
  BY DEF Decompose
<1>5. IsFiniteSet(ends) /\ ends \in SUBSET Int
  <2> HIDE DEF tried, m, meets
  <2>1. IsFiniteSet(1..m)
    <3>1. 1 \in Int /\ m \in Int
      BY <1>1
    <3> QED  BY <3>1, FS_Interval
  <2>2. ends \in SUBSET (1..m)
    BY <1>2
  <2>3. ends \in SUBSET Int
    BY <2>2
  <2> HIDE DEF ends
  <2>4. IsFiniteSet(ends)
    BY <2>1, <2>2, FS_Subset
  <2> QED  BY <2>3, <2>4
<1> DEFINE Goal == /\ AreContexts(contexts, U)
                   /\ contexts = <<>> \/ RunPhase1Gates(contexts, writers, known)
<1>6. ASSUME ends = {} PROVE Goal
  <2>1. contexts = <<>>
    <3> HIDE DEF contexts, ends
    <3> QED  BY <1>4, <1>6
  <2> HIDE DEF contexts
  <2>2. Len(<<>>) = 0 /\ DOMAIN <<>> = 1..0 /\ DOMAIN <<>> = {}
    OBVIOUS
  <2> QED  BY <2>1, <2>2 DEF AreContexts
<1>7. ASSUME ends # {} PROVE Goal
  <2> DEFINE k == Min(ends)
  <2>1. k \in ends
    <3> HIDE DEF ends
    <3> QED  BY <1>5, <1>7, LeastOfNumbers
  <2>2. contexts = Parsed(tried[k], known)
    <3> HIDE DEF contexts, ends
    <3> QED  BY <1>4, <1>7
  <2> HIDE DEF contexts, k, tried
  <2>3. k \in DOMAIN tried /\ (tried[k] = <<>> \/ meets(k))
    BY <2>1
  <2>4. tried[k] \in Seq(AnsweredContext(U))
    BY <1>3, <2>3
  <2>5. AreContexts(Parsed(tried[k], known), U) /\ (tried[k] = <<>> => Parsed(tried[k], known) = <<>>)
    BY <2>4, ParsedContexts
  <2> HIDE DEF ends
  <2> QED  BY <2>2, <2>3, <2>5
<1>8. Goal
  <2> HIDE DEF Goal, ends
  <2> QED  BY <1>6, <1>7
<1> QED  BY <1>8

(* Programs that check_coverage finds once are in one context each.        *)
LEMMA OneMention ==
    ASSUME NEW contexts, NEW U, AreContexts(contexts, U), NEW p,
           Cardinality(Mentions(contexts, p)) = 1
    PROVE  \E k \in DOMAIN contexts : ContextsWith(contexts, p) = {k}
<1> DEFINE M == Mentions(contexts, p)
           D == DOMAIN contexts
           at == [k \in D |-> {<<k, i>> : i \in {j \in DOMAIN contexts[k].members : contexts[k].members[j] = p}}]
           parts == {at[k] : k \in D}
<1>1. IsFiniteSet(D)
  <2>1. Len(contexts) \in Int /\ 1 \in Int /\ D = 1..Len(contexts)
    BY DEF AreContexts
  <2> HIDE DEF D
  <2> QED  BY <2>1, FS_Interval
<1>2. ASSUME NEW k \in D PROVE IsFiniteSet(at[k])
  <2> DEFINE members == contexts[k].members
             F == {j \in DOMAIN members : members[j] = p}
             f == [i \in F |-> <<k, i>>]
  <2>1. Len(members) \in Nat /\ DOMAIN members = 1..Len(members)
    <3>1. members \in Seq(U)
      BY DEF AreContexts, IsContext
    <3> HIDE DEF members
    <3> QED  BY <3>1, LenProperties
  <2>2. IsFiniteSet(F)
    <3> HIDE DEF members
    <3>1. IsFiniteSet(1..Len(members))
      <4>1. 1 \in Int /\ Len(members) \in Int
        BY <2>1
      <4> QED  BY <4>1, FS_Interval
    <3>2. F \in SUBSET (1..Len(members))
      BY <2>1
    <3> HIDE DEF F
    <3> QED  BY <3>1, <3>2, FS_Subset
  <2>3. at[k] = {f[i] : i \in F}
    OBVIOUS
  <2>4. DOMAIN f = F
    OBVIOUS
  <2> HIDE DEF at, f, F
  <2> QED  BY <2>2, <2>3, <2>4, FiniteImage
<1>3. M = UNION parts
  BY DEF Mentions
<1>4. IsFiniteSet(parts)
  <2>1. DOMAIN at = D
    OBVIOUS
  <2> HIDE DEF at, D
  <2> QED  BY <1>1, <2>1, FiniteImage
<1>5. \A T \in parts : IsFiniteSet(T)
  <2> HIDE DEF at
  <2> QED  BY <1>2
<1>6. IsFiniteSet(M)
  <2> HIDE DEF M, parts
  <2> QED  BY <1>3, <1>4, <1>5, FS_UNION
<1>7. PICK x : M = {x}
  <2> HIDE DEF M
  <2>1. Cardinality(M) = 1
    BY DEF M
  <2> QED  BY <1>6, <2>1, FS_Singleton
<1>8. \A k \in D : k \in ContextsWith(contexts, p) <=> \E i \in DOMAIN contexts[k].members : <<k, i>> \in M
  BY DEF ContextsWith, Mentions, Range
<1>9. PICK k \in D : \E i \in DOMAIN contexts[k].members : x = <<k, i>>
  BY <1>7 DEF Mentions
<1>10. \A j \in D : j \in ContextsWith(contexts, p) <=> j = k
  <2> HIDE DEF M, D
  <2> QED  BY <1>7, <1>8, <1>9
<1>11. ContextsWith(contexts, p) \subseteq D
  BY DEF ContextsWith
<1>12. ContextsWith(contexts, p) = {k}
  <2> HIDE DEF D
  <2> QED  BY <1>10, <1>11
<1> QED  BY <1>12

(* A resource that check_data_ownership passes has one owner.              *)
LEMMA OneOwner ==
    ASSUME NEW contexts, NEW U, AreContexts(contexts, U), CheckDataOwnership(contexts),
           NEW r \in Owned(contexts)
    PROVE  \E n \in Names(contexts) : Owners(contexts, r) = {n}
<1> DEFINE D == DOMAIN contexts
           E == {k \in D : r \in contexts[k].owned}
           nameAt == [k \in E |-> contexts[k].name]
           os == Owners(contexts, r)
<1>1. IsFiniteSet(D)
  <2>1. Len(contexts) \in Int /\ 1 \in Int /\ D = 1..Len(contexts)
    BY DEF AreContexts
  <2> HIDE DEF D
  <2> QED  BY <2>1, FS_Interval
<1>2. IsFiniteSet(E)
  <2>1. E \in SUBSET D
    OBVIOUS
  <2> HIDE DEF D, E
  <2> QED  BY <1>1, <2>1, FS_Subset
<1>3. os = {nameAt[k] : k \in E}
  BY DEF Owners, Range
<1>4. os \subseteq Names(contexts) /\ os # {}
  BY DEF Owners, Names, Owned, Range
<1>5. DOMAIN nameAt = E
  OBVIOUS
<1> HIDE DEF E, nameAt
<1>6. IsFiniteSet(os)
  BY <1>2, <1>3, <1>5, FiniteImage
<1>7. Cardinality(os) <= 1
  BY DEF CheckDataOwnership
<1> HIDE DEF os
<1>8. Cardinality(os) \in Nat /\ Cardinality(os) # 0
  BY <1>4, <1>6, FS_CardinalityType, FS_EmptySet
<1>9. Cardinality(os) = 1
  BY <1>7, <1>8
<1>10. \E n : os = {n}
  BY <1>6, <1>9, FS_Singleton
<1> QED  BY <1>4, <1>10 DEF os

(* A decomposition that is returned holds each writing program once, no    *)
(* resource of two owners and no circle, whatever an agent answered; its   *)
(* extraction order is a permutation that leaves contexts others depend on *)
(* for last, and no context shares its data and is a service of its own.   *)
THEOREM DecompositionsAreCovered ==
    ASSUME NEW parsed, ParsedGraph(parsed), NEW U, NEW answers, answers \in Seq(Seq(AnsweredContext(U))),
           NEW writers, NEW known, NEW maxRepairs \in Nat
    PROVE  DecomposedIsCovered(parsed, answers, writers, known, maxRepairs)
<1> DEFINE contexts == Decompose(answers, writers, known, maxRepairs)
           ranks    == [k \in DOMAIN contexts |-> ExtractionRank(parsed, contexts, k)]
           needs    == [n \in Names(contexts) |-> TargetsOf(contexts, {n})]
           owning   == [p \in Programs |-> DataOwnership(parsed, p)]
<1>1. /\ AreContexts(contexts, U)
      /\ contexts = <<>> \/ RunPhase1Gates(contexts, writers, known)
  BY DecomposedMeetsGates
<1> HIDE DEF contexts
<1>2. ASSUME contexts # <<>>, NEW p \in writers
      PROVE  \E k \in DOMAIN contexts : ContextsWith(contexts, p) = {k}
  BY <1>1, <1>2, OneMention DEF RunPhase1Gates, CheckCoverage
<1>3. contexts = <<>> => Range(contexts) = {}
  BY DEF Range
<1>4. \A r \in Owned(contexts) : \E n \in Names(contexts) : Owners(contexts, r) = {n}
  <2>1. contexts = <<>> => Owned(contexts) = {}
    BY <1>3 DEF Owned
  <2> QED  BY <1>1, <2>1, OneOwner DEF RunPhase1Gates
<1>5. ~HasCycle(needs)
  <2>1. CASE contexts = <<>>
    <3>1. Names(contexts) = {}
      BY <1>3, <2>1 DEF Names
    <3> QED  BY <3>1 DEF HasCycle
  <2>2. CASE contexts # <<>>
    BY <1>1, <2>2, NoContextsWait DEF RunPhase1Gates
  <2> QED  BY <2>1, <2>2
<1>6. /\ Range(ranks) = DOMAIN contexts
      /\ \A j, k \in DOMAIN contexts :
            Inbound(contexts, contexts[j].name) > 0 /\ ~(Inbound(contexts, contexts[k].name) > 0)
            => ranks[k] < ranks[j]
  BY <1>1, RanksOfContexts
<1>7. \A k \in DOMAIN contexts : DeploymentFor(ExtractScore(parsed, contexts, k)) = "microservice" =>
          Mean(owning, 0, contexts[k].members) >= 200
  BY <1>1, ServicesOwnData
<1> HIDE DEF ranks, needs, owning
<1> QED  BY <1>2, <1>4, <1>5, <1>6, <1>7 DEF DecomposedIsCovered, contexts, ranks, needs, owning

(* The derived design (deterministic.py): its contexts, and what is kept   *)
(* while groups are added: a program is unassigned, or a context has it.   *)
DerivedContexts(writes, known, titles) ==
    {ContextOf(writes, t, m, r) : t \in titles, m \in SUBSET DOMAIN writes, r \in SUBSET known}

Designs(writes, known, titles) ==
    {at \in [contexts : Seq(DerivedContexts(writes, known, titles)), unassigned : SUBSET DOMAIN writes] :
        \A p \in DOMAIN writes :
            p \in at.unassigned \/ \E k \in 1..Len(at.contexts) : p \in Range(at.contexts[k].members)}

LEMMA SortedPrograms ==
    ASSUME NEW writes, Numbered(writes), NEW S \in SUBSET DOMAIN writes
    PROVE  /\ IsFiniteSet(S) /\ Lists(Sorted(S), S) /\ Len(Sorted(S)) = Cardinality(S)
           /\ S # {} => 1 \in 1..Len(Sorted(S)) /\ Sorted(S)[1] \in S
<1>1. IsFiniteSet(S) /\ S \subseteq Int
  BY FS_Subset DEF Numbered
<1>2. Lists(Sorted(S), S) /\ Len(Sorted(S)) = Cardinality(S)
  BY <1>1, SortedLists
<1>3. ASSUME S # {} PROVE 1 \in 1..Len(Sorted(S)) /\ Sorted(S)[1] \in S
  <2>1. Cardinality(S) \in Nat /\ Cardinality(S) # 0
    BY <1>1, <1>3, FS_CardinalityType, FS_EmptySet
  <2>2. Sorted(S) \in Seq(S)
    BY <1>2 DEF Lists
  <2>3. 1 \in 1..Len(Sorted(S))
    BY <1>2, <2>1
  <2> QED  BY <2>2, <2>3
<1> QED  BY <1>1, <1>2, <1>3

LEMMA DerivedContext ==
    ASSUME NEW writes, Numbered(writes), NEW known, NEW titles, NEW c \in DerivedContexts(writes, known, titles)
    PROVE  \E m \in SUBSET DOMAIN writes :
              /\ c.members \in Seq(m) /\ Range(c.members) = m
              /\ \A i, j \in 1..Len(c.members) : c.members[i] = c.members[j] => i = j
              /\ c.owned = UNION {writes[p] : p \in m} /\ c.depends_on = {}
              /\ m \subseteq c.cited /\ c.name \in {SlugOf(t) : t \in titles}
<1>1. PICK t \in titles, m \in SUBSET DOMAIN writes, r \in SUBSET known : c = ContextOf(writes, t, m, r)
  BY DEF DerivedContexts
<1>2. /\ c.members = Sorted(m) /\ c.owned = UNION {writes[p] : p \in m} /\ c.depends_on = {}
      /\ m \subseteq c.cited /\ c.name = SlugOf(t)
  BY <1>1 DEF ContextOf
<1>3. Lists(Sorted(m), m)
  BY SortedPrograms
<1>4. /\ c.members \in Seq(m) /\ Range(c.members) = m
      /\ \A i, j \in 1..Len(c.members) : c.members[i] = c.members[j] => i = j
  BY <1>2, <1>3 DEF Lists
<1> QED  BY <1>2, <1>4

LEMMA AddGroupStays ==
    ASSUME NEW writes, Numbered(writes), NEW known, NEW titles, NEW group, group.title \in titles,
           NEW at \in Designs(writes, known, titles)
    PROVE  AddGroup(writes, known, at, group) \in Designs(writes, known, titles)
<1> DEFINE refs    == UNION {s.refs : s \in group.told}
           cited   == refs \cap DOMAIN writes
           members == IF cited = {} /\ at.unassigned # {}
                      THEN {Sorted(at.unassigned)[1]} ELSE cited
           c       == ContextOf(writes, group.title, members, refs \cap known)
           cs      == Append(at.contexts, c)
           left    == at.unassigned \ members
           C       == DerivedContexts(writes, known, titles)
<1>1. CASE group.told = {}
  BY <1>1 DEF AddGroup
<1>2. CASE group.told # {}
  <2>1. /\ at.contexts \in Seq(C) /\ at.unassigned \in SUBSET DOMAIN writes
        /\ \A p \in DOMAIN writes :
              p \in at.unassigned \/ \E k \in 1..Len(at.contexts) : p \in Range(at.contexts[k].members)
    BY DEF Designs
  <2>2. members \in SUBSET DOMAIN writes
    <3>1. at.unassigned # {} => Sorted(at.unassigned)[1] \in at.unassigned
      BY <2>1, SortedPrograms
    <3> HIDE DEF refs
    <3> QED  BY <2>1, <3>1
  <2>3. AddGroup(writes, known, at, group) = [contexts |-> cs, unassigned |-> left]
    BY <1>2 DEF AddGroup
  <2> HIDE DEF members
  <2>4. c \in C
    <3> DEFINE r == refs \cap known
    <3>1. r \in SUBSET known
      OBVIOUS
    <3> HIDE DEF r
    <3>2. ContextOf(writes, group.title, members, r) \in C
      BY <2>2, <3>1 DEF DerivedContexts
    <3> QED  BY <3>2 DEF r
  <2>5. Range(c.members) = members
    <3>1. c.members = Sorted(members)
      BY DEF ContextOf
    <3> QED  BY <2>2, <3>1, SortedPrograms DEF Lists
  <2> HIDE DEF c, C, refs
  <2>6. /\ cs \in Seq(C) /\ Len(cs) = Len(at.contexts) + 1 /\ Len(at.contexts) \in Nat
        /\ cs[Len(at.contexts) + 1] = c /\ \A k \in 1..Len(at.contexts) : cs[k] = at.contexts[k]
    <3>1. Len(at.contexts) \in Nat
      BY <2>1, LenProperties
    <3> QED  BY <2>1, <2>4, <3>1, AppendProperties
  <2>7. left \in SUBSET DOMAIN writes
    BY <2>1
  <2>8. ASSUME NEW p \in DOMAIN writes
        PROVE  p \in left \/ \E k \in 1..Len(cs) : p \in Range(cs[k].members)
    <3>1. CASE p \in members
      <4>1. Len(at.contexts) + 1 \in 1..Len(cs)
        BY <2>6
      <4>2. p \in Range(cs[Len(at.contexts) + 1].members)
        BY <2>5, <2>6, <3>1
      <4> QED  BY <4>1, <4>2
    <3>2. CASE p \notin members /\ p \in at.unassigned
      BY <3>2
    <3>3. CASE \E k \in 1..Len(at.contexts) : p \in Range(at.contexts[k].members)
      <4>1. PICK k \in 1..Len(at.contexts) : p \in Range(at.contexts[k].members)
        BY <3>3
      <4>2. k \in 1..Len(cs) /\ cs[k] = at.contexts[k]
        BY <2>6
      <4> HIDE DEF cs
      <4> QED  BY <4>1, <4>2
    <3> QED  BY <2>1, <3>1, <3>2, <3>3
  <2> HIDE DEF cs, left
  <2>9. [contexts |-> cs, unassigned |-> left] \in [contexts : Seq(C), unassigned : SUBSET DOMAIN writes]
    BY <2>6, <2>7
  <2> QED  BY <2>3, <2>8, <2>9 DEF Designs, C
<1> QED  BY <1>1, <1>2

LEMMA GroupsAreList ==
    ASSUME NEW writes, Numbered(writes), NEW epics, IsList(epics), NEW stories, IsList(stories)
    PROVE  Len(GroupsOf(writes, epics, stories)) \in Nat
<1> DEFINE groups == GroupsOf(writes, epics, stories)
<1>1. \A n \in Nat : \A f : f = [k \in 1..n |-> f[k]] => Len(f) = n
  OBVIOUS
<1>2. CASE stories = <<>>
  <2> DEFINE all == Sorted(DOMAIN writes)
  <2>1. Lists(all, DOMAIN writes)
    BY SortedPrograms
  <2>2. Len(all) \in Nat /\ DOMAIN all = 1..Len(all)
    BY <2>1, LenProperties DEF Lists
  <2> HIDE DEF all
  <2>3. groups = [k \in 1..Len(all) |-> Group(all[k], {[epic |-> NoEpic, refs |-> {all[k]}]})]
    BY <1>2, <2>2 DEF GroupsOf, all
  <2> QED  BY <2>2, <2>3
<1>3. CASE stories # <<>> /\ epics # <<>>
  <2> DEFINE n == Len(epics)
             some == [k \in 1..n |-> Group(epics[k].title, OfEpic(stories, epics[k].id))]
  <2>1. n \in Nat /\ DOMAIN epics = 1..n
    BY DEF IsList
  <2>2. groups = Append(some, Group(Coverage, Orphans(stories, epics)))
    BY <1>3, <2>1 DEF GroupsOf, GroupStories
  <2>3. Len(some) = n
    BY <2>1
  <2>4. Append(some, Group(Coverage, Orphans(stories, epics)))
            = [i \in 1..(Len(some) + 1) |-> IF i \in 1..Len(some) THEN some[i]
                                            ELSE Group(Coverage, Orphans(stories, epics))]
    BY <2>1
  <2> HIDE DEF some, n
  <2> QED  BY <2>1, <2>2, <2>3, <2>4
<1>4. CASE stories # <<>> /\ epics = <<>>
  <2> DEFINE said == [k \in DOMAIN stories |->
                         IF stories[k].epic = NoEpic THEN [stories[k] EXCEPT !.epic = Capability]
                         ELSE stories[k]]
             at == {k \in DOMAIN said : \A j \in 1..(k - 1) : said[j].epic # said[k].epic}
             firsts == Sorted(at)
             new == [k \in DOMAIN firsts |-> said[firsts[k]].epic]
  <2>1. Len(stories) \in Nat /\ DOMAIN said = 1..Len(stories)
    BY DEF IsList
  <2> HIDE DEF said
  <2>2. IsFiniteSet(at) /\ at \subseteq Int
    <3>1. IsFiniteSet(1..Len(stories))
      <4>1. 1 \in Int /\ Len(stories) \in Int
        BY <2>1
      <4> QED  BY <4>1, FS_Interval
    <3>2. at \in SUBSET (1..Len(stories))
      BY <2>1
    <3>3. at \subseteq Int
      BY <3>2
    <3> HIDE DEF at
    <3> QED  BY <3>1, <3>2, <3>3, FS_Subset
  <2>3. Len(firsts) \in Nat /\ DOMAIN firsts = 1..Len(firsts)
    <3>1. Lists(firsts, at)
      <4> HIDE DEF at
      <4> QED  BY <2>2, SortedLists
    <3> HIDE DEF at, firsts
    <3> QED  BY <3>1, LenProperties DEF Lists
  <2>4. firsts = Firsts(said)
    BY DEF Firsts
  <2>5. groups = [k \in DOMAIN new |-> Group(new[k], OfEpic(said, new[k]))]
    <3>1. groups = GroupStories(epics, stories)
      BY <1>4 DEF GroupsOf
    <3>2. GroupStories(epics, stories) =
              LET first == [k \in DOMAIN Firsts(said) |-> said[Firsts(said)[k]].epic]
              IN  [k \in DOMAIN first |-> Group(first[k], OfEpic(said, first[k]))]
      BY <1>4, Zenon DEF GroupStories, said
    <3> HIDE DEF said, groups, at, firsts
    <3> QED  BY <2>4, <3>1, <3>2
  <2> HIDE DEF at, firsts
  <2>6. groups = [k \in 1..Len(firsts) |-> Group(new[k], OfEpic(said, new[k]))]
    BY <2>3, <2>5
  <2> HIDE DEF new, groups
  <2> QED  BY <2>3, <2>6
<1> HIDE DEF groups
<1> QED  BY <1>2, <1>3, <1>4 DEF groups

(* What is computed group by group ends with every program in a context.   *)
DesignTitles(writes, epics, stories) ==
    LET groups == GroupsOf(writes, epics, stories)
    IN  {groups[k].title : k \in 1..Len(groups)} \cup DOMAIN writes

LEMMA DesignHasAll ==
    ASSUME NEW writes, Numbered(writes), NEW known,
           NEW epics, IsList(epics), NEW stories, IsList(stories)
    PROVE  LET contexts == DeterministicDesign(writes, known, epics, stories)
           IN  /\ contexts \in Seq(DerivedContexts(writes, known, DesignTitles(writes, epics, stories)))
               /\ \A p \in DOMAIN writes :
                     \E k \in DOMAIN contexts : p \in Range(contexts[k].members)
<1> DEFINE groups == GroupsOf(writes, epics, stories)
           titles == DesignTitles(writes, epics, stories)
           N == Len(groups)
           C == DerivedContexts(writes, known, titles)
           X == Designs(writes, known, titles)
           x == [contexts |-> <<>>, unassigned |-> DOMAIN writes]
           step == [k \in 1..N |-> [at \in X |-> AddGroup(writes, known, at, groups[k])]]
           Adding(h) == h = [k \in 0..N |-> IF k = 0 THEN [contexts |-> <<>>, unassigned |-> DOMAIN writes]
                                            ELSE AddGroup(writes, known, h[k - 1], groups[k])]
           At == CHOOSE h : Adding(h)
           contexts == DeterministicDesign(writes, known, epics, stories)
<1>1. N \in Nat
  BY GroupsAreList
<1>2. contexts = WithCoverage(writes, At[N])
  BY DEF DeterministicDesign
<1>3. \A k \in 1..N : groups[k].title \in titles
  BY DEF DesignTitles
<1>4. DOMAIN writes \subseteq titles
  BY DEF DesignTitles
<1> HIDE DEF groups, titles, contexts
<1>5. step \in [1..N -> [X -> X]]
  <2>1. ASSUME NEW k \in 1..N, NEW at \in X PROVE AddGroup(writes, known, at, groups[k]) \in X
    BY <1>3, <2>1, AddGroupStays
  <2> HIDE DEF X
  <2> QED  BY <2>1
<1>6. x \in X
  BY DEF Designs
<1>7. (\E h : Stepped(h, N, x, step)) /\ \A h : Stepped(h, N, x, step) => h \in [0..N -> X]
  <2> HIDE DEF N, X, x, step
  <2> QED  BY ONLY <1>1, <1>5, <1>6, StepByStep
<1>8. ASSUME NEW h, Stepped(h, N, x, step) PROVE Adding(h)
  <2>1. h \in [0..N -> X]
    BY <1>7, <1>8
  <2>2. ASSUME NEW k \in 1..N PROVE step[k][h[k - 1]] = AddGroup(writes, known, h[k - 1], groups[k])
    <3>1. h[k - 1] \in X
      <4> HIDE DEF X, N
      <4> QED  BY <1>1, <2>1
    <3> HIDE DEF X
    <3> QED  BY <3>1
  <2>3. \A k \in 0..N : k # 0 => k \in 1..N
    BY <1>1
  <2>4. h = [k \in 0..N |-> IF k = 0 THEN x ELSE step[k][h[k - 1]]]
    BY <1>8 DEF Stepped
  <2> HIDE DEF step, N
  <2> QED  BY <2>2, <2>3, <2>4
<1>9. Adding(At)
  <2> HIDE DEF Adding, step, x, X, N
  <2> QED  BY <1>7, <1>8
<1> HIDE DEF At, Adding, step
<1>10. At[N] \in X
  <2>1. \A k \in 0..N : At[k] = IF k = 0 THEN x ELSE AddGroup(writes, known, At[k - 1], groups[k])
    BY <1>9 DEF Adding
  <2> HIDE DEF x, X
  <2> DEFINE In == {k \in Nat : k <= N => At[k] \in X}
  <2>2. 0 \in In
    <3>1. 0 \in 0..N
      BY <1>1
    <3> QED  BY <1>6, <2>1, <3>1
  <2>3. ASSUME NEW k \in In PROVE k + 1 \in In
    <3> SUFFICES ASSUME k + 1 <= N PROVE At[k + 1] \in X
      OBVIOUS
    <3>1. k \in Nat /\ k + 1 \in 0..N /\ k + 1 # 0 /\ (k + 1) - 1 = k /\ k + 1 \in 1..N /\ k <= N
      BY <1>1
    <3>2. At[k + 1] = AddGroup(writes, known, At[k], groups[k + 1]) /\ At[k] \in X
      BY <2>1, <3>1
    <3> QED  BY <1>3, <3>1, <3>2, AddGroupStays DEF X
  <2>4. In \in SUBSET Nat
    OBVIOUS
  <2>5. In = Nat
    <3> HIDE DEF In
    <3> QED  BY <2>2, <2>3, <2>4, EveryNumber
  <2>6. N \in In
    BY <1>1, <2>5
  <2> QED  BY <1>1, <2>6
<1> DEFINE end == At[N]
           left == Sorted(end.unassigned)
           alone == [k \in DOMAIN left |-> ContextOf(writes, left[k], {left[k]}, {})]
<1>11. /\ end.contexts \in Seq(C) /\ end.unassigned \in SUBSET DOMAIN writes
       /\ \A p \in DOMAIN writes :
             p \in end.unassigned \/ \E k \in 1..Len(end.contexts) : p \in Range(end.contexts[k].members)
  <2> HIDE DEF end
  <2>1. end \in X
    BY <1>10 DEF end
  <2> QED  BY <2>1 DEF Designs
<1>12. contexts = end.contexts \o alone
  BY <1>2 DEF WithCoverage
<1> HIDE DEF end
<1>13. Lists(left, end.unassigned)
  BY <1>11, SortedPrograms
<1>14. /\ Len(left) \in Nat /\ DOMAIN left = 1..Len(left)
       /\ \A k \in 1..Len(left) : left[k] \in end.unassigned
       /\ \A p \in end.unassigned : \E k \in 1..Len(left) : left[k] = p
  <2> HIDE DEF left
  <2>1. left \in Seq(end.unassigned) /\ Range(left) = end.unassigned
    BY <1>13 DEF Lists
  <2> QED  BY <2>1, LenProperties, ListRange
<1> HIDE DEF left
<1>15. ASSUME NEW k \in 1..Len(left) PROVE alone[k] \in C /\ Range(alone[k].members) = {left[k]}
  <2> DEFINE q == left[k]
  <2>1. q \in DOMAIN writes /\ q \in titles
    BY <1>4, <1>11, <1>14
  <2>2. alone[k] = ContextOf(writes, q, {q}, {})
    BY <1>14
  <2> HIDE DEF q
  <2>3. {q} \in SUBSET DOMAIN writes /\ {} \in SUBSET known
    BY <2>1
  <2>4. ContextOf(writes, q, {q}, {}) \in C
    BY <2>1, <2>3 DEF DerivedContexts
  <2>5. ContextOf(writes, q, {q}, {}).members = Sorted({q})
    BY DEF ContextOf
  <2>6. Range(Sorted({q})) = {q}
    BY <2>3, SortedPrograms DEF Lists
  <2> HIDE DEF alone
  <2> QED  BY <2>2, <2>4, <2>5, <2>6 DEF q
<1>16. alone \in Seq(C) /\ Len(alone) = Len(left)
  <2>1. alone = [k \in 1..Len(left) |-> alone[k]]
    BY <1>14
  <2> HIDE DEF alone, C
  <2> QED  BY <1>14, <1>15, <2>1
<1> HIDE DEF alone, C
<1>17. /\ contexts \in Seq(C) /\ Len(end.contexts) \in Nat
       /\ DOMAIN contexts = 1..(Len(end.contexts) + Len(left))
       /\ \A k \in 1..Len(end.contexts) : contexts[k] = end.contexts[k]
       /\ \A k \in 1..Len(left) : contexts[Len(end.contexts) + k] = alone[k]
  <2>1. /\ contexts \in Seq(C)
        /\ Len(contexts) = Len(end.contexts) + Len(left)
        /\ \A i \in 1..(Len(end.contexts) + Len(left)) :
              contexts[i] = IF i <= Len(end.contexts) THEN end.contexts[i] ELSE alone[i - Len(end.contexts)]
    <3> DEFINE e == end.contexts
    <3>1. e \in Seq(C) /\ alone \in Seq(C) /\ contexts = e \o alone
      BY <1>11, <1>12, <1>16
    <3> HIDE DEF e
    <3>2. /\ e \o alone \in Seq(C) /\ Len(e \o alone) = Len(e) + Len(alone)
          /\ \A i \in 1..(Len(e) + Len(alone)) :
                (e \o alone)[i] = IF i <= Len(e) THEN e[i] ELSE alone[i - Len(e)]
      BY ONLY <3>1, ConcatProperties
    <3>3. /\ contexts \in Seq(C) /\ Len(contexts) = Len(e) + Len(left)
          /\ \A i \in 1..(Len(e) + Len(left)) :
                contexts[i] = IF i <= Len(e) THEN e[i] ELSE alone[i - Len(e)]
      BY ONLY <1>16, <3>1, <3>2
    <3> QED  BY <3>3 DEF e
  <2>2. Len(end.contexts) \in Nat
    BY <1>11, LenProperties
  <2>3. \A k \in 1..Len(left) : /\ Len(end.contexts) + k \in 1..(Len(end.contexts) + Len(left))
                                /\ ~(Len(end.contexts) + k <= Len(end.contexts))
                                /\ (Len(end.contexts) + k) - Len(end.contexts) = k
    BY <1>14, <2>2
  <2>4. \A k \in 1..Len(end.contexts) : k \in 1..(Len(end.contexts) + Len(left)) /\ k <= Len(end.contexts)
    BY <1>14, <2>2
  <2>5. DOMAIN contexts = 1..Len(contexts)
    BY <2>1, LenProperties
  <2> QED  BY <2>1, <2>2, <2>3, <2>4, <2>5
<1>18. ASSUME NEW p \in DOMAIN writes PROVE \E k \in DOMAIN contexts : p \in Range(contexts[k].members)
  <2>1. CASE p \in end.unassigned
    <3>1. PICK k \in 1..Len(left) : left[k] = p
      BY <1>14, <2>1
    <3>2. contexts[Len(end.contexts) + k] = alone[k] /\ p \in Range(alone[k].members)
      BY <1>15, <1>17, <3>1
    <3>3. Len(end.contexts) + k \in DOMAIN contexts
      BY <1>14, <1>17
    <3> QED  BY <3>2, <3>3
  <2>2. CASE \E k \in 1..Len(end.contexts) : p \in Range(end.contexts[k].members)
    <3>1. PICK k \in 1..Len(end.contexts) : p \in Range(end.contexts[k].members)
      BY <2>2
    <3>2. k \in DOMAIN contexts /\ contexts[k] = end.contexts[k]
      BY <1>14, <1>17
    <3> QED  BY <3>1, <3>2
  <2> QED  BY <1>11, <2>1, <2>2
<1> QED  BY <1>17, <1>18 DEF contexts, C, titles

(* What such a context has of its programs.                                *)
OwnsOfPrograms(writes, c) ==
    /\ \A i, j \in DOMAIN c.members : c.members[i] = c.members[j] => i = j
    /\ \A p \in Range(c.members) : p \in DOMAIN writes /\ writes[p] \subseteq c.owned
    /\ \A r \in c.owned : \E p \in Range(c.members) : r \in writes[p]
    /\ c.depends_on = {}

LEMMA DesignIsContexts ==
    ASSUME NEW writes, Numbered(writes), NEW known, NEW titles,
           NEW contexts, contexts \in Seq(DerivedContexts(writes, known, titles))
    PROVE  /\ AreContexts(contexts, DOMAIN writes \cup {SlugOf(t) : t \in titles})
           /\ \A k \in DOMAIN contexts : OwnsOfPrograms(writes, contexts[k])
<1> DEFINE D == DOMAIN contexts
           U == DOMAIN writes \cup {SlugOf(t) : t \in titles}
<1>1. Len(contexts) \in Nat /\ D = 1..Len(contexts)
      /\ \A k \in D : contexts[k] \in DerivedContexts(writes, known, titles)
  BY LenProperties
<1>2. ASSUME NEW k \in D
      PROVE  IsContext(contexts[k], U) /\ OwnsOfPrograms(writes, contexts[k])
  <2> DEFINE c == contexts[k]
  <2>1. c \in DerivedContexts(writes, known, titles)
    BY <1>1
  <2> HIDE DEF c
  <2>2. PICK m \in SUBSET DOMAIN writes :
           /\ c.members \in Seq(m) /\ Range(c.members) = m
           /\ \A i, j \in 1..Len(c.members) : c.members[i] = c.members[j] => i = j
           /\ c.owned = UNION {writes[p] : p \in m} /\ c.depends_on = {}
           /\ m \subseteq c.cited /\ c.name \in {SlugOf(t) : t \in titles}
    BY <2>1, DerivedContext
  <2>3. c.members \in Seq(U) /\ DOMAIN c.members = 1..Len(c.members)
    <3>1. Len(c.members) \in Nat /\ c.members \in [1..Len(c.members) -> m] /\ DOMAIN c.members = 1..Len(c.members)
      BY <2>2, LenProperties
    <3>2. c.members \in [1..Len(c.members) -> U]
      BY <3>1
    <3> HIDE DEF U
    <3> QED  BY <3>1, <3>2, SeqDef
  <2>4. IsContext(c, U)
    BY <2>2, <2>3 DEF IsContext
  <2>5. /\ \A p \in Range(c.members) : p \in DOMAIN writes /\ writes[p] \subseteq c.owned
        /\ \A r \in c.owned : \E p \in Range(c.members) : r \in writes[p]
    BY <2>2
  <2>6. OwnsOfPrograms(writes, c)
    BY <2>2, <2>3, <2>5 DEF OwnsOfPrograms
  <2> QED  BY <2>4, <2>6 DEF c
<1> QED  BY <1>1, <1>2 DEF AreContexts

(* In a design of quality a program that writes is in one context: two     *)
(* would both own what it writes.                                          *)
LEMMA WriterOnce ==
    ASSUME NEW writes, NEW known, NEW contexts, NEW U, AreContexts(contexts, U),
           \A k \in DOMAIN contexts : OwnsOfPrograms(writes, contexts[k]),
           DomainQuality(contexts, known),
           NEW p, writes[p] # {}, NEW j \in DOMAIN contexts, NEW k \in DOMAIN contexts,
           p \in Range(contexts[j].members), p \in Range(contexts[k].members)
    PROVE  j = k
<1>1. PICK r \in writes[p] : r \in contexts[j].owned /\ r \in contexts[k].owned
  BY DEF OwnsOfPrograms
<1>2. r \in Owned(contexts) /\ CheckDataOwnership(contexts)
  BY <1>1 DEF Owned, Range, DomainQuality
<1>3. PICK n : Owners(contexts, r) = {n}
  BY <1>2, OneOwner
<1>4. contexts[j].name \in Owners(contexts, r) /\ contexts[k].name \in Owners(contexts, r)
  BY <1>1 DEF Owners, Range
<1>5. contexts[j].name = contexts[k].name
  BY <1>3, <1>4
<1> QED  BY <1>5 DEF DomainQuality

(* The derived design leaves no program out, whatever the backlog cites;   *)
(* and one that passes the quality gate also meets those an agent's answer *)
(* is held to, and tags each story with the context of its program.        *)
THEOREM DerivedDesignsAreCovered ==
    ASSUME NEW writes, Numbered(writes), NEW known,
           NEW epics, IsList(epics), NEW stories, IsList(stories)
    PROVE  DerivedIsCovered(writes, known, epics, stories)
<1> DEFINE contexts == DeterministicDesign(writes, known, epics, stories)
           titles == DesignTitles(writes, epics, stories)
           U == DOMAIN writes \cup {SlugOf(t) : t \in titles}
           D == DOMAIN contexts
           writers == {p \in DOMAIN writes : writes[p] # {}}
<1>1. /\ contexts \in Seq(DerivedContexts(writes, known, titles))
      /\ \A p \in DOMAIN writes : \E k \in D : p \in Range(contexts[k].members)
  BY DesignHasAll
<1> HIDE DEF contexts, titles
<1>2. AreContexts(contexts, U) /\ \A k \in D : OwnsOfPrograms(writes, contexts[k])
  BY <1>1, DesignIsContexts
<1> HIDE DEF U
<1>3. \A p \in DOMAIN writes : \E c \in Range(contexts) : p \in Range(c.members)
  BY <1>1 DEF Range
<1>4. ASSUME DomainQuality(contexts, known)
      PROVE  /\ RunPhase1Gates(contexts, writers, known)
             /\ \A p \in writers : \A c \in Range(contexts) :
                   TagOf(contexts, p) = {c.name} <=> p \in Range(c.members)
  <2>1. ASSUME NEW p \in writers, NEW j \in D, NEW k \in D,
               p \in Range(contexts[j].members), p \in Range(contexts[k].members)
        PROVE  j = k
    BY <1>2, <1>4, <2>1, WriterOnce
  <2>2. ASSUME NEW p \in writers
        PROVE  \E k \in D : /\ ContextsWith(contexts, p) = {k} /\ p \in Range(contexts[k].members)
                            /\ Cardinality(Mentions(contexts, p)) = 1
    <3>1. PICK k \in D : p \in Range(contexts[k].members)
      BY <1>1
    <3>2. PICK i \in DOMAIN contexts[k].members : contexts[k].members[i] = p
      BY <3>1 DEF Range
    <3>3. ContextsWith(contexts, p) = {k}
      <4>1. \A j \in D : p \in Range(contexts[j].members) <=> j = k
        BY <2>1, <3>1
      <4> QED  BY <4>1 DEF ContextsWith
    <3>4. Mentions(contexts, p) = {<<k, i>>}
      <4>1. \A j \in D : \A n \in DOMAIN contexts[j].members : contexts[j].members[n] = p => j = k /\ n = i
        <5> SUFFICES ASSUME NEW j \in D, NEW n \in DOMAIN contexts[j].members, contexts[j].members[n] = p
                     PROVE  j = k /\ n = i
          OBVIOUS
        <5>1. p \in Range(contexts[j].members)
          BY DEF Range
        <5>2. j = k
          BY <2>1, <3>1, <5>1
        <5> QED  BY <1>2, <3>2, <5>2 DEF OwnsOfPrograms
      <4> QED  BY <3>2, <4>1 DEF Mentions
    <3> QED  BY <3>1, <3>3, <3>4, FS_Singleton
  <2>3. CheckCoverage(contexts, writers)
    <3>1. \A p \in writers : Cardinality(Mentions(contexts, p)) = 1
      BY <2>2
    <3> HIDE DEF writers
    <3> QED  BY <3>1 DEF CheckCoverage
  <2>4. CheckAcyclic(contexts)
    <3>1. \A S : TargetsOf(contexts, S) = {}
      BY <1>2 DEF TargetsOf, Range, OwnsOfPrograms
    <3>2. TargetsKnown(contexts)
      BY <3>1 DEF TargetsKnown
    <3>3. \A n : Below(contexts, n) = {}
      <4> SUFFICES ASSUME NEW n PROVE Below(contexts, n) \subseteq {}
        OBVIOUS
      <4>1. TargetsOf(contexts, {n}) \cup TargetsOf(contexts, {}) \subseteq {}
        BY <3>1
      <4> QED  BY <1>2, <3>2, <4>1, BelowIsAll
    <3> QED  BY <3>1, <3>3 DEF CheckAcyclic
  <2>5. CheckGrounded(contexts, known)
    <3> SUFFICES ASSUME NEW c \in Range(contexts)
                 PROVE  c.cited \cup Range(c.members) # {} /\ c.cited \cup Range(c.members) \subseteq known
      BY DEF CheckGrounded, GroundedIn
    <3>1. c.members # <<>> /\ c.cited \cup Range(c.members) \cup c.mapping \subseteq known
      BY <1>4 DEF DomainQuality
    <3>2. Range(c.members) # {}
      <4>1. c.members \in Seq(U)
        BY <1>2 DEF AreContexts, IsContext, Range
      <4>2. Len(c.members) \in Nat /\ Len(c.members) # 0 /\ DOMAIN c.members = 1..Len(c.members)
        BY <3>1, <4>1, LenProperties, EmptySeq
      <4>3. 1 \in DOMAIN c.members
        BY <4>2
      <4> QED  BY <4>3 DEF Range
    <3> QED  BY <3>1, <3>2
  <2>6. CheckDataOwnership(contexts)
    BY <1>4 DEF DomainQuality
  <2>7. ASSUME NEW p \in writers, NEW c \in Range(contexts)
        PROVE  TagOf(contexts, p) = {c.name} <=> p \in Range(c.members)
    <3>1. PICK k \in D : ContextsWith(contexts, p) = {k} /\ p \in Range(contexts[k].members)
      BY <2>2
    <3>2. PICK j \in D : c = contexts[j]
      BY DEF Range
    <3>3. k \in Int
      BY <1>2 DEF AreContexts
    <3>4. Max({k}) = k
      <4>1. {k} \in SUBSET Int /\ {k} # {}
        BY <3>3
      <4>2. IsFiniteSet({k})
        BY FS_Singleton
      <4>3. Max({k}) \in {k}
        BY <4>1, <4>2, GreatestOfNumbers
      <4> QED  BY <4>3
    <3>5. TagOf(contexts, p) = {contexts[k].name}
      BY <3>1, <3>4 DEF TagOf
    <3>6. contexts[j].name = contexts[k].name <=> j = k
      BY <1>4 DEF DomainQuality
    <3>7. p \in Range(contexts[j].members) <=> j = k
      BY <2>1, <3>1
    <3> QED  BY <3>2, <3>5, <3>6, <3>7
  <2> QED  BY <2>3, <2>4, <2>5, <2>6, <2>7 DEF RunPhase1Gates
<1> QED  BY <1>3, <1>4 DEF DerivedIsCovered, contexts

(* Sets with at most one element.                                          *)
LEMMA AtMostOne ==
    ASSUME NEW S, IsFiniteSet(S)
    PROVE  Cardinality(S) <= 1 <=> \A a, b \in S : a = b
<1>1. Cardinality(S) \in Nat /\ (Cardinality(S) = 0 <=> S = {}) /\ (Cardinality(S) = 1 <=> \E x : S = {x})
  BY FS_CardinalityType, FS_EmptySet, FS_Singleton
<1>2. ASSUME Cardinality(S) <= 1 PROVE \A a, b \in S : a = b
  <2>1. S = {} \/ \E x : S = {x}
    BY <1>1, <1>2
  <2> QED  BY <2>1
<1>3. ASSUME \A a, b \in S : a = b PROVE Cardinality(S) <= 1
  <2>1. S = {} \/ \E x : S = {x}
    BY <1>3
  <2> QED  BY <1>1, <2>1
<1> QED  BY <1>2, <1>3

(* The design of each program that writes is high exactly when the graph   *)
(* knows the program and nothing else writes what it owns; where all are,  *)
(* the derived domain design gives no resource two owners unless it has a  *)
(* program in two contexts.                                                *)
THEOREM SlicesAreJudged ==
    ASSUME NEW writes, Numbered(writes), NEW known, known # {},
           NEW epics, IsList(epics), NEW stories, IsList(stories)
    PROVE  SlicesOwnTheirData(writes, known, epics, stories)
<1> DEFINE W == Writing(writes)
           all == Sorted(W)
           n == Cardinality(W)
           designs == ComputeDesigns(writes, known)
           contexts == DeterministicDesign(writes, known, epics, stories)
           High(k) == designs[k].report.rating = "high"
           shares(j, k) == designs[j].design.owned \cap designs[k].design.owned # {}
<1>1. W \in SUBSET DOMAIN writes
  BY DEF Writing
<1>2. Lists(all, W) /\ Len(all) = n /\ IsFiniteSet(W)
  BY <1>1, SortedPrograms
<1>3. n \in Nat /\ DOMAIN all = 1..n /\ (\A k \in 1..n : all[k] \in W)
      /\ (\A p \in W : \E k \in 1..n : all[k] = p) /\ \A j, k \in 1..n : all[j] = all[k] => j = k
  <2> HIDE DEF all, W, n
  <2>1. all \in Seq(W) /\ Range(all) = W /\ \A j, k \in 1..n : all[j] = all[k] => j = k
    BY <1>2 DEF Lists
  <2> QED  BY <1>2, <2>1, LenProperties, ListRange
<1> HIDE DEF all, n
<1>4. designs = [k \in 1..n |-> [design |-> ServiceDesign(writes, all[k]),
                                 report |-> JudgeDesign(ServiceDesign(writes, all[k]), known,
                                                        ExternalWriters(writes, all[k]))]]
  BY <1>3 DEF ComputeDesigns, all
<1> HIDE DEF designs
<1>5. ASSUME NEW k \in 1..n
      PROVE  /\ designs[k].design.slice_id = all[k] /\ designs[k].design.owned = writes[all[k]]
             /\ High(k) <=> all[k] \in known /\ \A r \in writes[all[k]] : OtherWriters(writes, all[k], r) = {}
  <2> DEFINE p == all[k]
             ext == ExternalWriters(writes, p)
             d == ServiceDesign(writes, p)
  <2>1. designs[k].design = d /\ designs[k].report = JudgeDesign(d, known, ext)
    BY <1>4
  <2> HIDE DEF p
  <2>2. d.slice_id = p /\ d.owned = writes[p] /\ d.evidence = {p}
    BY DEF ServiceDesign
  <2>3. DOMAIN ext = {x \in writes[p] : OtherWriters(writes, p, x) # {}}
    BY DEF ExternalWriters
  <2> HIDE DEF d, ext
  <2>4. JudgeDesign(d, known, ext).rating = "high" <=> d.evidence \ known = {} /\ d.owned \cap DOMAIN ext = {}
    BY DEF JudgeDesign
  <2>5. JudgeDesign(d, known, ext).rating = "high" <=>
            p \in known /\ \A r \in writes[p] : OtherWriters(writes, p, r) = {}
    BY <2>2, <2>3, <2>4
  <2> QED  BY <2>1, <2>2, <2>5 DEF p
<1>6. Len(designs) = n /\ DOMAIN designs = 1..n
  BY <1>3, <1>4
<1>7. {d.design.slice_id : d \in Range(designs)} = W
  <2> DEFINE ids == {d.design.slice_id : d \in Range(designs)}
  <2>1. \A x : x \in ids <=> \E k \in 1..n : x = designs[k].design.slice_id
    BY <1>6 DEF Range
  <2>2. \A k \in 1..n : designs[k].design.slice_id = all[k]
    BY <1>5
  <2> HIDE DEF W, ids
  <2>3. \A x : x \in ids <=> x \in W
    BY <1>3, <2>1, <2>2
  <2>4. ids = W
    BY <2>3
  <2> QED  BY <2>4 DEF ids
<1>8. ASSUME NEW j \in 1..n, NEW k \in 1..n, j # k, shares(j, k) PROVE ~High(j)
  <2>1. PICK r \in writes[all[j]] : r \in writes[all[k]]
    BY <1>5, <1>8
  <2>2. all[k] \in OtherWriters(writes, all[j], r)
    BY <1>1, <1>3, <1>8, <2>1 DEF OtherWriters
  <2> QED  BY <1>5, <2>1, <2>2
<1>9. ASSUME NEW k \in 1..n, ~High(k)
      PROVE  all[k] \notin known \/ \E j \in 1..n \ {k} : shares(j, k)
  <2> SUFFICES ASSUME all[k] \in known PROVE \E j \in 1..n \ {k} : shares(j, k)
    OBVIOUS
  <2>1. PICK r \in writes[all[k]] : OtherWriters(writes, all[k], r) # {}
    BY <1>5, <1>9
  <2>2. PICK q \in DOMAIN writes : q # all[k] /\ r \in writes[q]
    BY <2>1 DEF OtherWriters
  <2>3. q \in W
    BY <2>2 DEF Writing
  <2>4. PICK j \in 1..n : all[j] = q
    BY <1>3, <2>3
  <2>5. j # k /\ r \in designs[j].design.owned /\ r \in designs[k].design.owned
    BY <1>5, <2>1, <2>2, <2>4
  <2> QED  BY <2>5
<1>10. ASSUME \A k \in 1..n : High(k), \A p \in DOMAIN writes : Cardinality(ContextsWith(contexts, p)) <= 1
       PROVE  CheckDataOwnership(contexts)
  <2> DEFINE titles == DesignTitles(writes, epics, stories)
             U == DOMAIN writes \cup {SlugOf(t) : t \in titles}
             D == DOMAIN contexts
  <2>1. contexts \in Seq(DerivedContexts(writes, known, titles))
    BY DesignHasAll
  <2> HIDE DEF contexts, titles
  <2>2. AreContexts(contexts, U) /\ \A k \in D : OwnsOfPrograms(writes, contexts[k])
    BY <2>1, DesignIsContexts
  <2>3. IsFiniteSet(D)
    <3>1. Len(contexts) \in Int /\ 1 \in Int /\ D = 1..Len(contexts)
      BY <2>2 DEF AreContexts
    <3> HIDE DEF D
    <3> QED  BY <3>1, FS_Interval
  <2>4. ASSUME NEW r, NEW j \in D, NEW k \in D, r \in contexts[j].owned, r \in contexts[k].owned
        PROVE  j = k
    <3>1. PICK p \in Range(contexts[j].members) : p \in DOMAIN writes /\ r \in writes[p]
      BY <2>2, <2>4 DEF OwnsOfPrograms
    <3>2. PICK q \in Range(contexts[k].members) : q \in DOMAIN writes /\ r \in writes[q]
      BY <2>2, <2>4 DEF OwnsOfPrograms
    <3>3. p \in W
      BY <3>1 DEF Writing
    <3>4. OtherWriters(writes, p, r) = {}
      BY <1>3, <1>5, <1>10, <3>1, <3>3
    <3>5. p = q
      BY <3>1, <3>2, <3>4 DEF OtherWriters
    <3>6. ContextsWith(contexts, p) \in SUBSET D
      BY DEF ContextsWith
    <3>7. IsFiniteSet(ContextsWith(contexts, p))
      BY <2>3, <3>6, FS_Subset
    <3>8. \A a, b \in ContextsWith(contexts, p) : a = b
      BY <1>10, <3>1, <3>7, AtMostOne
    <3>9. j \in ContextsWith(contexts, p) /\ k \in ContextsWith(contexts, p)
      BY <3>1, <3>2, <3>5 DEF ContextsWith
    <3> QED  BY <3>8, <3>9
  <2>5. ASSUME NEW r \in Owned(contexts) PROVE Cardinality(Owners(contexts, r)) <= 1
    <3>1. \A a, b \in Owners(contexts, r) : a = b
      BY <2>4 DEF Owners, Range
    <3>2. Owners(contexts, r) = {} \/ \E x : Owners(contexts, r) = {x}
      BY <3>1
    <3>3. IsFiniteSet(Owners(contexts, r))
      BY <3>2, FS_EmptySet, FS_Singleton
    <3> QED  BY <3>1, <3>3, AtMostOne
  <2> QED  BY <2>5 DEF CheckDataOwnership
<1>11. \A j, k \in 1..n : j # k /\ shares(j, k) => ~High(j) /\ ~High(k)
  <2>1. \A j, k : shares(j, k) => shares(k, j)
    OBVIOUS
  <2> HIDE DEF High, shares
  <2> QED  BY <1>8, <2>1
<1>12. \A k \in 1..n : ~High(k) => \/ designs[k].design.slice_id \notin known
                                   \/ \E j \in 1..n \ {k} : shares(j, k)
  <2>1. \A k \in 1..n : designs[k].design.slice_id = all[k]
    BY <1>5
  <2> HIDE DEF High, shares
  <2> QED  BY <1>9, <2>1
<1> HIDE DEF contexts, W
<1> QED  BY <1>6, <1>7, <1>10, <1>11, <1>12 DEF SlicesOwnTheirData, designs, contexts, W, n

(* What is kept of an answer is the last item about a thing.               *)
LEMMA LastItem ==
    ASSUME NEW items, IsList(items), NEW id, id \in {it.of : it \in Range(items)}
    PROVE  LastAbout(items, id) \in Range(items) /\ LastAbout(items, id).of = id
<1> DEFINE D == DOMAIN items
           S == {k \in D : items[k].of = id}
<1>1. D = 1..Len(items) /\ Len(items) \in Nat
  BY DEF IsList
<1>2. S # {}
  BY DEF Range
<1>3. IsFiniteSet(S) /\ S \in SUBSET Int
  <2> HIDE DEF D
  <2>1. IsFiniteSet(1..Len(items))
    <3>1. 1 \in Int /\ Len(items) \in Int
      BY <1>1
    <3> QED  BY <3>1, FS_Interval
  <2>2. S \in SUBSET (1..Len(items))
    BY <1>1
  <2>3. S \in SUBSET Int
    BY <2>2
  <2> HIDE DEF S
  <2>4. IsFiniteSet(S)
    BY <2>1, <2>2, FS_Subset
  <2> QED  BY <2>3, <2>4
<1>4. Max(S) \in S
  <2> HIDE DEF S
  <2> QED  BY <1>2, <1>3, GreatestOfNumbers
<1>5. LastAbout(items, id) = items[Max(S)]
  BY DEF LastAbout
<1> QED  BY <1>4, <1>5 DEF Range

(* ground_refs keeps what is known, in its order.                          *)
LEMMA GroundedAreKnown ==
    ASSUME NEW cited, IsList(cited), NEW known
    PROVE  Range(GroundRefs(cited, known)) \subseteq known
<1> DEFINE S == {k \in DOMAIN cited : cited[k] \in known}
           kept == Sorted(S)
<1>1. DOMAIN cited = 1..Len(cited) /\ Len(cited) \in Nat
  BY DEF IsList
<1>2. IsFiniteSet(S) /\ S \subseteq Int
  <2>1. IsFiniteSet(1..Len(cited))
    <3>1. 1 \in Int /\ Len(cited) \in Int
      BY <1>1
    <3> QED  BY <3>1, FS_Interval
  <2>2. S \in SUBSET (1..Len(cited))
    BY <1>1
  <2>3. S \subseteq Int
    BY <2>2
  <2> HIDE DEF S
  <2>4. IsFiniteSet(S)
    BY <2>1, <2>2, FS_Subset
  <2> QED  BY <2>3, <2>4
<1>3. \A k \in DOMAIN kept : kept[k] \in S
  <2> HIDE DEF S
  <2>1. Range(kept) = S
    BY <1>2, SortedLists DEF Lists
  <2> HIDE DEF kept
  <2> QED  BY <2>1 DEF Range
<1>4. GroundRefs(cited, known) = [k \in DOMAIN kept |-> cited[kept[k]]]
  BY DEF GroundRefs
<1>5. \A k \in DOMAIN kept : cited[kept[k]] \in known
  BY <1>3
<1> HIDE DEF kept
<1> QED  BY <1>4, <1>5 DEF Range

LEMMA InvestInRange ==
    ASSUME NEW n \in Int
    PROVE  CoerceInvest(n) \in 1..5 /\ Min({CoerceInvest(n), 2}) \in 1..2
<1>1. \A a, b \in Int : /\ Min({a, b}) \in {a, b} /\ Min({a, b}) <= a /\ Min({a, b}) <= b
                        /\ Max({a, b}) \in {a, b} /\ Max({a, b}) >= a /\ Max({a, b}) >= b
  <2> SUFFICES ASSUME NEW a \in Int, NEW b \in Int
               PROVE  /\ Min({a, b}) \in {a, b} /\ Min({a, b}) <= a /\ Min({a, b}) <= b
                      /\ Max({a, b}) \in {a, b} /\ Max({a, b}) >= a /\ Max({a, b}) >= b
    OBVIOUS
  <2> DEFINE S == {a, b}
  <2>1. IsFiniteSet(S)
    <3>1. S = {a} \cup {b}
      OBVIOUS
    <3> HIDE DEF S
    <3> QED  BY <3>1, FS_Singleton, FS_Union
  <2>2. S \in SUBSET Int /\ a \in S /\ b \in S
    OBVIOUS
  <2>3. Min(S) \in S /\ (\A y \in S : Min(S) <= y) /\ Max(S) \in S /\ \A y \in S : Max(S) >= y
    <3> HIDE DEF S
    <3> QED  BY <2>1, <2>2, LeastOfNumbers, GreatestOfNumbers
  <2> QED  BY <2>2, <2>3
<1>2. Min({5, n}) \in Int /\ Min({5, n}) <= 5
  <2> DEFINE five == 5
  <2>1. five \in Int /\ n \in Int
    OBVIOUS
  <2> HIDE DEF five
  <2>2. Min({five, n}) \in {five, n} /\ Min({five, n}) <= five
    BY <1>1, <2>1
  <2>3. Min({five, n}) \in Int
    BY <2>1, <2>2
  <2> QED  BY <2>2, <2>3 DEF five
<1>3. CoerceInvest(n) \in 1..5
  <2> DEFINE m == Min({5, n})
  <2>1. CoerceInvest(n) = Max({1, m})
    BY DEF CoerceInvest
  <2> HIDE DEF m
  <2>2. m \in Int /\ m <= 5
    BY <1>2 DEF m
  <2>3. Max({1, m}) \in {1, m} /\ Max({1, m}) >= 1
    BY <1>1, <2>2
  <2> QED  BY <2>1, <2>2, <2>3
<1> DEFINE c == CoerceInvest(n)
<1> HIDE DEF c
<1>4. c \in 1..5
  BY <1>3 DEF c
<1>5. Min({c, 2}) \in {c, 2} /\ Min({c, 2}) <= c /\ Min({c, 2}) <= 2
  BY <1>1, <1>4
<1> QED  BY <1>4, <1>5 DEF c

(* Whatever is answered, a narrative is of a program of the plan or of a   *)
(* design, is grounded only if all it cited is known, and rates a story's  *)
(* value above 2 only if the graph knows its evidence.                     *)
THEOREM NarrativesGrounded ==
    ASSUME NEW parsed, ParsedGraph(parsed), NEW known, NEW items, AreItems(items)
    PROVE  NarrativesAreGrounded(parsed, known, items)
<1> DEFINE cands == Ranked(parsed, Limit)
           seams == EnrichSeams(cands, known, items)
           plan0 == EnrichPlan(Stories(cands), known, items)
           designs == ComputeDesigns([p \in Programs |-> Writes(parsed, p)], known)
           said  == EnrichDesign(designs, known, items)
           m == AtMost(Limit, Cardinality(Programs))
           at == RankOf(parsed)
           ofs == {it.of : it \in Range(items)}
           ids == {c.program : c \in Range(cands)}
<1>1. m \in Nat /\ \A k \in 1..m : at[k] \in Programs
  <2>1. /\ Lists(RankOf(parsed), Programs) /\ Len(RankOf(parsed)) = Cardinality(Programs)
        /\ Cardinality(Programs) \in Nat
    BY RankingLists
  <2>2. RankOf(parsed) \in Seq(Programs)
    BY <2>1 DEF Lists
  <2>3. m \in Nat /\ m <= Cardinality(Programs)
    BY <2>1 DEF AtMost, Limit
  <2> QED  BY <2>1, <2>2, <2>3
<1> HIDE DEF at
<1>2. cands = [k \in 1..m |-> Candidate(parsed, at[k])]
  BY RankedIsFirst DEF at
<1> HIDE DEF m, cands
<1>3. \A k \in 1..m : cands[k].program = at[k] /\ cands[k].evidence = {at[k]}
  BY <1>2 DEF Candidate
<1>4. ids = {at[k] : k \in 1..m} /\ ids \subseteq Programs
  <2>1. ids = {at[k] : k \in 1..m}
    BY <1>2, <1>3 DEF Range
  <2> QED  BY <1>1, <2>1
<1>5. DOMAIN Stories(cands) = 1..m
      /\ \A k \in 1..m : Stories(cands)[k] = [seam |-> at[k], evidence |-> {at[k]}]
  <2>1. DOMAIN cands = 1..m
    BY <1>2
  <2> QED  BY <1>3, <2>1 DEF Stories
<1>6. {s.seam : s \in Range(Stories(cands))} = ids
  <2> DEFINE list == Stories(cands)
  <2>1. DOMAIN list = 1..m /\ \A k \in 1..m : list[k].seam = at[k]
    BY <1>5
  <2> HIDE DEF list
  <2>2. {s.seam : s \in Range(list)} = {at[k] : k \in 1..m}
    <3>1. ASSUME NEW s \in Range(list) PROVE s.seam \in {at[k] : k \in 1..m}
      BY ONLY <2>1, s \in Range(list) DEF Range
    <3>2. ASSUME NEW k \in 1..m PROVE \E s \in Range(list) : s.seam = at[k]
      BY ONLY <2>1, k \in 1..m DEF Range
    <3> QED  BY ONLY <3>1, <3>2
  <2>3. ids = {at[k] : k \in 1..m}
    BY <1>4
  <2> HIDE DEF ids
  <2> QED  BY ONLY <2>2, <2>3 DEF list
<1> HIDE DEF ids
<1>7. ASSUME NEW p \in ids \cap ofs
      PROVE  LET it == LastAbout(items, p)
             IN  /\ it \in Range(items) /\ it.of = p /\ IsList(it.cited) /\ it.invest \in Int
                 /\ Range(GroundRefs(it.cited, known)) \subseteq known
  <2>1. LastAbout(items, p) \in Range(items) /\ LastAbout(items, p).of = p
    BY LastItem DEF AreItems
  <2> DEFINE it == LastAbout(items, p)
  <2> HIDE DEF it
  <2>2. it \in Range(items) /\ it.of = p
    BY <2>1 DEF it
  <2>3. IsList(it.cited) /\ it.invest \in Int
    BY <2>2 DEF AreItems
  <2>4. Range(GroundRefs(it.cited, known)) \subseteq known
    BY <2>3, GroundedAreKnown
  <2> QED  BY <2>2, <2>3, <2>4 DEF it
<1>8. DOMAIN seams = ids \cap ofs
      /\ \A p \in ids \cap ofs :
            /\ seams[p].cited_refs = GroundRefs(LastAbout(items, p).cited, known)
            /\ seams[p].grounded = IsGrounded(LastAbout(items, p).cited, known)
  <2> DEFINE of == [it \in Range(items) |-> [cited_refs |-> GroundRefs(it.cited, known),
                                            grounded |-> IsGrounded(it.cited, known)]]
  <2>1. seams = [p \in ids \cap ofs |-> of[LastAbout(items, p)]]
    BY Zenon DEF EnrichSeams, Narratives, ids
  <2>2. \A p \in ids \cap ofs : LastAbout(items, p) \in Range(items)
    BY <1>7
  <2> HIDE DEF seams, ofs
  <2> QED  BY <2>1, <2>2
<1>9. \A p \in ids : UNION {s.evidence : s \in {x \in Range(Stories(cands)) : x.seam = p}} = {p}
  BY <1>4, <1>5 DEF Range
<1>10. DOMAIN plan0 = ids \cap ofs
       /\ \A p \in ids \cap ofs :
             /\ plan0[p].small \in 1..5 /\ plan0[p].valuable \in 1..5
             /\ plan0[p].valuable > 2 => p \in known
  <2> DEFINE EvidenceOf(id) == UNION {s.evidence : s \in {x \in Range(Stories(cands)) : x.seam = id}}
             of == [it \in Range(items) |->
                       [small |-> CoerceInvest(it.invest),
                        valuable |-> Floored(EvidenceOf(it.of), known, CoerceInvest(it.invest)),
                        groundedness_failures |-> EvidenceOf(it.of) \ known]]
  <2>1. plan0 = Narratives({s.seam : s \in Range(Stories(cands))}, items, of)
    BY DEF EnrichPlan
  <2> HIDE DEF of
  <2>2. plan0 = [p \in ids \cap ofs |-> of[LastAbout(items, p)]]
    BY <1>6, <2>1 DEF Narratives
  <2> HIDE DEF plan0
  <2>3. ASSUME NEW p \in ids \cap ofs
        PROVE  /\ plan0[p].small \in 1..5 /\ plan0[p].valuable \in 1..5
               /\ plan0[p].valuable > 2 => p \in known
    <3> DEFINE it == LastAbout(items, p)
               n == CoerceInvest(it.invest)
    <3>1. it \in Range(items) /\ it.of = p /\ it.invest \in Int
      BY <1>7
    <3> HIDE DEF it
    <3>2. n \in 1..5 /\ Min({n, 2}) \in 1..2
      BY <3>1, InvestInRange
    <3> HIDE DEF n
    <3>3. of[it].small = n /\ of[it].valuable = Floored({p}, known, n)
      <4>1. EvidenceOf(p) = {p}
        BY <1>9
      <4> HIDE DEF EvidenceOf
      <4> QED  BY <3>1, <4>1 DEF of, n
    <3>4. plan0[p] = of[it]
      <4> HIDE DEF ofs
      <4> QED  BY <2>2 DEF it
    <3>5. Floored({p}, known, n) = IF p \in known THEN n ELSE Min({n, 2})
      BY DEF Floored
    <3> QED  BY <3>2, <3>3, <3>4, <3>5
  <2> HIDE DEF ofs
  <2> QED  BY <2>2, <2>3
<1>11. DOMAIN said = {}
  <2>1. \A d \in Range(designs) : DOMAIN d = {"design", "report"}
    <3> DEFINE writes == [p \in Programs |-> Writes(parsed, p)]
               all == Sorted(Writing(writes))
               Of(p) == [design |-> ServiceDesign(writes, p),
                         report |-> JudgeDesign(ServiceDesign(writes, p), known, ExternalWriters(writes, p))]
    <3>1. designs = IF known = {} THEN <<>> ELSE [k \in DOMAIN all |-> Of(all[k])]
      BY DEF ComputeDesigns
    <3>2. \A p : DOMAIN Of(p) = {"design", "report"}
      OBVIOUS
    <3> HIDE DEF all, Of, designs
    <3>3. ASSUME NEW d \in Range(designs)
          PROVE  \E p : d = Of(p)
      <4>1. PICK k \in DOMAIN designs : d = designs[k]
        BY DEF Range
      <4>2. known # {} => designs = [i \in DOMAIN all |-> Of(all[i])]
        BY <3>1
      <4>3. known = {} => DOMAIN designs = {}
        BY <3>1
      <4> QED  BY <4>1, <4>2, <4>3
    <3> QED
      <4> SUFFICES ASSUME NEW d \in Range(designs)
                   PROVE  DOMAIN d = {"design", "report"}
        OBVIOUS
      <4>1. PICK p : d = Of(p)
        BY <3>3
      <4> QED  BY <3>2, <4>1
  <2> HIDE DEF designs
  <2>2. SliceIds(designs) = {}
    BY <2>1 DEF SliceIds
  <2> QED  BY <2>2 DEF EnrichDesign, Narratives
<1>12. ASSUME NEW p \in ids \cap ofs
       PROVE  /\ Range(seams[p].cited_refs) \subseteq known
              /\ seams[p].grounded =>
                    \E it \in Range(items) : it.of = p /\ it.cited = seams[p].cited_refs /\ it.cited # <<>>
  <2> DEFINE it == LastAbout(items, p)
  <2>1. it \in Range(items) /\ it.of = p /\ Range(GroundRefs(it.cited, known)) \subseteq known
    BY <1>7
  <2>2. seams[p].cited_refs = GroundRefs(it.cited, known) /\ seams[p].grounded = IsGrounded(it.cited, known)
    BY <1>8
  <2> HIDE DEF seams, it
  <2> QED  BY <2>1, <2>2 DEF IsGrounded
<1>13. DOMAIN seams = DOMAIN plan0 /\ DOMAIN seams \subseteq Programs
  BY <1>4, <1>8, <1>10
<1>14. \A p \in DOMAIN seams :
          /\ Range(seams[p].cited_refs) \subseteq known
          /\ seams[p].grounded =>
                \E it \in Range(items) : it.of = p /\ it.cited = seams[p].cited_refs /\ it.cited # <<>>
          /\ plan0[p].valuable \in 1..5 /\ plan0[p].small \in 1..5
          /\ plan0[p].valuable > 2 => p \in known
  <2> HIDE DEF seams, plan0, ofs
  <2> QED  BY <1>8, <1>10, <1>12
<1> HIDE DEF seams, plan0, said, designs
<1> QED  BY <1>11, <1>13, <1>14 DEF NarrativesAreGrounded, seams, plan0, said, designs, cands

----------------------------------------------------------------------------
(* The story plan (CodegenPlan). *)

(* A sequence with one more at its end, and with a sequence after it.      *)
LEMMA AppendedSeq ==
    ASSUME NEW S, NEW s \in Seq(S), NEW x \in S
    PROVE  /\ Append(s, x) \in Seq(S) /\ Len(Append(s, x)) = Len(s) + 1 /\ Len(s) \in Nat
           /\ \A i \in 1..Len(s) : Append(s, x)[i] = s[i]
           /\ Append(s, x)[Len(s) + 1] = x
           /\ Range(Append(s, x)) = Range(s) \cup {x}
           /\ NoRepeats(s) /\ x \notin Range(s) => NoRepeats(Append(s, x))
<1> DEFINE t == Append(s, x)
           n == Len(s)
<1>1. /\ t \in Seq(S) /\ Len(t) = n + 1 /\ n \in Nat
      /\ (\A i \in 1..n : t[i] = s[i]) /\ t[n + 1] = x
  OBVIOUS
<1>2. /\ \A y : y \in Range(s) <=> \E i \in 1..n : s[i] = y
      /\ \A y : y \in Range(t) <=> \E i \in 1..Len(t) : t[i] = y
  <2> HIDE DEF t
  <2> QED  BY <1>1, ListRange
<1> HIDE DEF t, n
<1>3. \A i \in 1..(n + 1) : i \in 1..n \/ i = n + 1
  BY <1>1
<1>4. \A i \in 1..n : i \in 1..(n + 1)
  BY <1>1
<1>5. n + 1 \in 1..(n + 1)
  BY <1>1
<1>6. Range(t) = Range(s) \cup {x}
  <2>1. ASSUME NEW y PROVE y \in Range(t) <=> y \in Range(s) \/ y = x
    BY <1>1, <1>2, <1>3, <1>4, <1>5
  <2> QED  BY <2>1
<1>7. ASSUME NoRepeats(s), x \notin Range(s) PROVE NoRepeats(t)
  <2> SUFFICES ASSUME NEW i \in 1..(n + 1), NEW j \in 1..(n + 1), t[i] = t[j] PROVE i = j
    BY <1>1 DEF NoRepeats
  <2>1. \A h \in 1..n : s[h] # x
    BY <1>2, <1>7
  <2> QED  BY <1>1, <1>3, <1>7, <2>1 DEF NoRepeats, n
<1> QED  BY <1>1, <1>6, <1>7 DEF t, n

LEMMA JoinedSeq ==
    ASSUME NEW S, NEW s \in Seq(S), NEW t \in Seq(S)
    PROVE  /\ s \o t \in Seq(S) /\ Len(s \o t) = Len(s) + Len(t) /\ Len(s) \in Nat /\ Len(t) \in Nat
           /\ \A i \in 1..Len(s) : (s \o t)[i] = s[i]
           /\ \A i \in 1..Len(t) : (s \o t)[Len(s) + i] = t[i]
           /\ \A i \in 1..Len(s \o t) : i \in 1..Len(s) \/ i - Len(s) \in 1..Len(t)
           /\ Range(s \o t) = Range(s) \cup Range(t)
           /\ NoRepeats(s) /\ NoRepeats(t) /\ Range(s) \cap Range(t) = {} => NoRepeats(s \o t)
<1> DEFINE u == s \o t
           m == Len(s)
           n == Len(t)
<1>1. /\ u \in Seq(S) /\ Len(u) = m + n /\ m \in Nat /\ n \in Nat
      /\ (\A i \in 1..m : u[i] = s[i]) /\ \A i \in 1..n : u[m + i] = t[i]
  <2>1. u \in Seq(S) /\ Len(u) = m + n /\ m \in Nat /\ n \in Nat
    OBVIOUS
  <2>2. \A i \in 1..m : u[i] = s[i]
    OBVIOUS
  <2>3. ASSUME NEW i \in 1..n PROVE u[m + i] = t[i]
    <3>1. m + i \in 1..(m + n) /\ m + i > m /\ (m + i) - m = i
      BY <2>1
    <3> QED  BY <3>1
  <2> QED  BY <2>1, <2>2, <2>3
<1>2. /\ \A y : y \in Range(s) <=> \E i \in 1..m : s[i] = y
      /\ \A y : y \in Range(t) <=> \E i \in 1..n : t[i] = y
      /\ \A y : y \in Range(u) <=> \E i \in 1..Len(u) : u[i] = y
  <2> HIDE DEF u
  <2> QED  BY <1>1, ListRange
<1> HIDE DEF u, m, n
<1>3. \A i \in 1..(m + n) : i \in 1..m \/ (i - m \in 1..n /\ m + (i - m) = i)
  BY <1>1
<1>4. /\ \A i \in 1..m : i \in 1..(m + n)
      /\ \A i \in 1..n : m + i \in 1..(m + n)
  BY <1>1
<1>5. Range(u) = Range(s) \cup Range(t)
  <2>1. ASSUME NEW y \in Range(u) PROVE y \in Range(s) \cup Range(t)
    <3>1. PICK i \in 1..(m + n) : u[i] = y
      BY <1>1, <1>2
    <3>2. CASE i \in 1..m
      BY <1>1, <1>2, <3>1, <3>2
    <3>3. CASE i - m \in 1..n /\ m + (i - m) = i
      <4>1. t[i - m] = y
        BY <1>1, <3>1, <3>3
      <4> QED  BY <1>2, <3>3, <4>1
    <3> QED  BY <1>3, <3>2, <3>3
  <2>2. Range(s) \subseteq Range(u)
    BY <1>1, <1>2, <1>4
  <2>3. Range(t) \subseteq Range(u)
    BY <1>1, <1>2, <1>4
  <2> QED  BY <2>1, <2>2, <2>3
<1>6. ASSUME NoRepeats(s), NoRepeats(t), Range(s) \cap Range(t) = {} PROVE NoRepeats(u)
  <2>1. ASSUME NEW i \in 1..(m + n), NEW j \in 1..(m + n), u[i] = u[j] PROVE i = j
    <3>1. CASE i \in 1..m /\ j \in 1..m
      BY <1>1, <1>6, <2>1, <3>1 DEF NoRepeats, m
    <3>2. CASE i - m \in 1..n /\ j - m \in 1..n
      <4>1. u[i] = t[i - m] /\ u[j] = t[j - m] /\ i \in Int /\ j \in Int
        <5>1. m + (i - m) = i /\ m + (j - m) = j
          BY <1>1, <2>1
        <5> QED  BY <1>1, <3>2, <5>1
      <4>2. i - m = j - m
        BY <1>6, <2>1, <3>2, <4>1 DEF NoRepeats, n
      <4> QED  BY <1>1, <4>1, <4>2
    <3>3. ASSUME NEW a \in 1..(m + n), NEW b \in 1..(m + n), a \in 1..m, b - m \in 1..n PROVE u[a] # u[b]
      <4>1. m + (b - m) = b
        BY <1>1, <3>3
      <4>2. u[a] = s[a] /\ u[b] = t[b - m]
        BY <1>1, <3>3, <4>1
      <4>3. u[a] \in Range(s) /\ u[b] \in Range(t)
        BY <1>2, <3>3, <4>2
      <4> QED  BY <1>6, <4>3
    <3> QED  BY <1>3, <2>1, <3>1, <3>2, <3>3
  <2> QED  BY <1>1, <2>1 DEF NoRepeats
<1> QED  BY <1>1, <1>3, <1>5, <1>6 DEF u, m, n

----------------------------------------------------------------------------

(* What is emitted and what is left make up the backlog; what was emitted  *)
(* was preceded by all it depends on; what a cycle holds up is left.       *)
Emittings(stories) ==
    {at \in [left : SUBSET DOMAIN stories, order : Seq(DOMAIN stories)] :
        /\ Range(at.order) = DOMAIN stories \ at.left /\ NoRepeats(at.order)
        /\ \A i \in 1..Len(at.order) : \A j \in DOMAIN stories :
              stories[j].id \in stories[at.order[i]].depends_on => \E h \in 1..(i - 1) : at.order[h] = j
        /\ HeldUp(stories) \subseteq at.left}

Emits(stories, at, k) ==
    k \in at.left /\ \A j \in at.left : stories[j].id \notin stories[k].depends_on

LEMMA HeldUpWaits ==
    ASSUME NEW stories
    PROVE  /\ HeldUp(stories) \subseteq DOMAIN stories
           /\ \A k \in HeldUp(stories) : \E j \in HeldUp(stories) : stories[j].id \in stories[k].depends_on
           /\ \A S \in SUBSET DOMAIN stories :
                 (\A k \in S : \E j \in S : stories[j].id \in stories[k].depends_on) => S \subseteq HeldUp(stories)
BY DEF HeldUp

LEMMA InPlaceCloses ==
    ASSUME NEW stories
    PROVE  /\ InPlace(stories) \subseteq DOMAIN stories
           /\ \A k \in InPlace(stories) : \A j \in DOMAIN stories :
                 stories[j].id \in stories[k].depends_on => j \in InPlace(stories) /\ j < k
BY DEF InPlace

(* A story is emitted when what it depends on is no longer left.           *)
LEMMA EmittedWhen ==
    ASSUME NEW stories, IsBacklog(stories), NEW at,
           at.left \subseteq DOMAIN stories, Range(at.order) = DOMAIN stories \ at.left, NEW k
    PROVE  Emitted(stories, at, k) =
              IF Emits(stories, at, k) THEN [left |-> at.left \ {k}, order |-> Append(at.order, k)] ELSE at
<1>1. stories[k].depends_on \cap StoryIds(stories) \subseteq {stories[j].id : j \in Range(at.order)}
         <=> \A j \in at.left : stories[j].id \notin stories[k].depends_on
  <2>1. StoryIds(stories) = {stories[j].id : j \in DOMAIN stories}
    BY DEF StoryIds, Range
  <2>2. \A i, j \in DOMAIN stories : stories[i].id = stories[j].id => i = j
    BY DEF IsBacklog
  <2> QED  BY <2>1, <2>2
<1> QED  BY <1>1 DEF Emitted, Emits

LEMMA EmittedStays ==
    ASSUME NEW stories, IsBacklog(stories), NEW at \in Emittings(stories), NEW k
    PROVE  /\ Emitted(stories, at, k) \in Emittings(stories)
           /\ Emitted(stories, at, k).left = IF Emits(stories, at, k) THEN at.left \ {k} ELSE at.left
           /\ Emitted(stories, at, k).order = IF Emits(stories, at, k) THEN Append(at.order, k) ELSE at.order
           /\ ~Emits(stories, at, k) => Emitted(stories, at, k) = at
<1> DEFINE D == DOMAIN stories
           next == Emitted(stories, at, k)
<1>1. /\ at \in [left : SUBSET D, order : Seq(D)] /\ at.left \subseteq D
      /\ Range(at.order) = D \ at.left /\ NoRepeats(at.order) /\ HeldUp(stories) \subseteq at.left
      /\ \A i \in 1..Len(at.order) : \A j \in D :
            stories[j].id \in stories[at.order[i]].depends_on => \E h \in 1..(i - 1) : at.order[h] = j
  BY DEF Emittings
<1>2. next = IF Emits(stories, at, k) THEN [left |-> at.left \ {k}, order |-> Append(at.order, k)] ELSE at
  BY <1>1, EmittedWhen
<1>3. ASSUME Emits(stories, at, k) PROVE next \in Emittings(stories)
  <2> DEFINE t == Append(at.order, k)
             n == Len(at.order)
  <2>1. k \in at.left /\ k \in D /\ \A j \in at.left : stories[j].id \notin stories[k].depends_on
    BY <1>1, <1>3 DEF Emits
  <2>2. at.order \in Seq(D)
    BY <1>1
  <2>3. /\ t \in Seq(D) /\ Len(t) = n + 1 /\ n \in Nat /\ Range(t) = Range(at.order) \cup {k}
        /\ (\A i \in 1..n : t[i] = at.order[i]) /\ t[n + 1] = k
        /\ (NoRepeats(at.order) /\ k \notin Range(at.order) => NoRepeats(t))
    <3> HIDE DEF D
    <3> QED  BY <2>1, <2>2, AppendedSeq
  <2>4. next = [left |-> at.left \ {k}, order |-> t]
    BY <1>2, <1>3
  <2> HIDE DEF t, next
  <2>5. Range(t) = D \ (at.left \ {k}) /\ NoRepeats(t)
    BY <1>1, <2>1, <2>3
  <2>6. ASSUME NEW i \in 1..Len(t), NEW j \in D, stories[j].id \in stories[t[i]].depends_on
        PROVE  \E h \in 1..(i - 1) : t[h] = j
    <3>1. CASE i \in 1..n
      <4>1. PICK h \in 1..(i - 1) : at.order[h] = j
        BY <1>1, <2>3, <2>6, <3>1
      <4>2. h \in 1..n
        <5> HIDE DEF n
        <5> QED  BY <2>3, <3>1
      <4> QED  BY <2>3, <4>1, <4>2
    <3>2. CASE i = n + 1
      <4>1. j \in Range(at.order)
        BY <1>1, <2>1, <2>3, <2>6, <3>2
      <4>2. PICK h \in 1..n : at.order[h] = j
        <5> HIDE DEF D
        <5> QED  BY <2>2, <4>1, ListRange
      <4>3. h \in 1..(i - 1)
        <5> HIDE DEF n
        <5> QED  BY <2>3, <3>2
      <4> QED  BY <2>3, <4>2, <4>3
    <3>3. i \in 1..n \/ i = n + 1
      <4> HIDE DEF n
      <4> QED  BY <2>3
    <3> QED  BY <3>1, <3>2, <3>3
  <2>7. HeldUp(stories) \subseteq at.left \ {k}
    <3>1. k \notin HeldUp(stories)
      BY <1>1, <2>1, HeldUpWaits
    <3> QED  BY <1>1, <3>1
  <2>8. next \in [left : SUBSET D, order : Seq(D)] /\ next.left = at.left \ {k} /\ next.order = t
    <3>1. at.left \ {k} \in SUBSET D
      BY <1>1
    <3> QED  BY <2>3, <2>4, <3>1
  <2> QED  BY <2>5, <2>6, <2>7, <2>8 DEF Emittings
<1> HIDE DEF next
<1>4. next.left = IF Emits(stories, at, k) THEN at.left \ {k} ELSE at.left
  BY <1>2
<1>5. next.order = IF Emits(stories, at, k) THEN Append(at.order, k) ELSE at.order
  BY <1>2
<1> QED  BY <1>2, <1>3, <1>4, <1>5 DEF next

(* One pass over the backlog, step by step.                                *)
PassBy(stories, at, u) ==
    /\ u \in [0..Len(stories) -> Emittings(stories)] /\ u[0] = at
    /\ \A k \in Nat : k < Len(stories) => u[k + 1] = Emitted(stories, u[k], k + 1)
    /\ OnePass(stories, at) = u[Len(stories)]

LEMMA PassSteps ==
    ASSUME NEW stories, IsBacklog(stories), NEW at \in Emittings(stories)
    PROVE  \E u : PassBy(stories, at, u)
<1> DEFINE N == Len(stories)
           X == Emittings(stories)
           step == [k \in 1..N |-> [y \in X |-> Emitted(stories, y, k)]]
           Passing(h) == h = [k \in 0..N |-> IF k = 0 THEN at ELSE Emitted(stories, h[k - 1], k)]
           u == CHOOSE h : Passing(h)
<1>1. N \in Nat
  BY DEF IsBacklog, IsList
<1>2. \A y \in X : \A k : Emitted(stories, y, k) \in X
  BY EmittedStays
<1>3. step \in [1..N -> [X -> X]]
  <2> HIDE DEF X, N
  <2> QED  BY <1>2
<1>4. (\E h : Stepped(h, N, at, step)) /\ \A h : Stepped(h, N, at, step) => h \in [0..N -> X]
  <2>1. at \in X
    OBVIOUS
  <2> HIDE DEF N, X, step
  <2> QED  BY ONLY <1>1, <1>3, <2>1, StepByStep
<1>5. ASSUME NEW h, Stepped(h, N, at, step) PROVE Passing(h)
  <2>1. h \in [0..N -> X]
    BY <1>4, <1>5
  <2>2. ASSUME NEW k \in 1..N PROVE step[k][h[k - 1]] = Emitted(stories, h[k - 1], k)
    <3>1. h[k - 1] \in X
      <4> HIDE DEF X, N
      <4> QED  BY <1>1, <2>1
    <3> HIDE DEF X
    <3> QED  BY <3>1
  <2>3. \A k \in 0..N : k # 0 => k \in 1..N
    BY <1>1
  <2>4. h = [k \in 0..N |-> IF k = 0 THEN at ELSE step[k][h[k - 1]]]
    BY <1>5 DEF Stepped
  <2> HIDE DEF step, N
  <2> QED  BY <2>2, <2>3, <2>4
<1>6. Passing(u)
  <2> HIDE DEF Passing, step, X, N
  <2> QED  BY <1>4, <1>5
<1>7. OnePass(stories, at) = u[N]
  BY DEF OnePass
<1> HIDE DEF u, step
<1>8. u[0] = at /\ \A k \in Nat : k < N => u[k + 1] = Emitted(stories, u[k], k + 1)
  <2>1. \A k \in 0..N : u[k] = IF k = 0 THEN at ELSE Emitted(stories, u[k - 1], k)
    BY <1>6
  <2>2. 0 \in 0..N /\ \A k \in Nat : k < N => k + 1 \in 0..N /\ k + 1 # 0 /\ (k + 1) - 1 = k
    BY <1>1
  <2> HIDE DEF N
  <2> QED  BY <2>1, <2>2
<1>9. u \in [0..N -> X]
  <2> DEFINE In == {k \in Nat : k <= N => u[k] \in X}
  <2>1. 0 \in In
    BY <1>8
  <2> HIDE DEF X
  <2>2. ASSUME NEW k \in In PROVE k + 1 \in In
    <3> SUFFICES ASSUME k + 1 <= N PROVE u[k + 1] \in X
      OBVIOUS
    <3>1. k \in Nat /\ k < N /\ u[k] \in X
      BY <1>1
    <3> QED  BY <1>2, <1>8, <3>1
  <2>3. In = Nat
    <3>1. In \in SUBSET Nat
      OBVIOUS
    <3> HIDE DEF In
    <3> QED  BY <2>1, <2>2, <3>1, EveryNumber
  <2>4. \A k \in 0..N : k \in Nat /\ k <= N
    BY <1>1
  <2>5. \A k \in 0..N : u[k] \in X
    BY <2>3, <2>4
  <2>6. u = [k \in 0..N |-> u[k]]
    <3> DEFINE f == [k \in 0..N |-> IF k = 0 THEN at ELSE Emitted(stories, u[k - 1], k)]
    <3>1. u = f
      BY <1>6
    <3>2. f = [k \in DOMAIN f |-> f[k]] /\ DOMAIN f = 0..N
      OBVIOUS
    <3> HIDE DEF f
    <3> QED  BY <3>1, <3>2
  <2> HIDE DEF N
  <2> QED  BY <2>5, <2>6
<1> QED  BY <1>7, <1>8, <1>9 DEF PassBy

(* A pass only takes away from what is left; one that takes nothing away   *)
(* changes nothing, and then each story left waits for another.            *)
LEMMA PassShrinks ==
    ASSUME NEW stories, IsBacklog(stories), NEW at \in Emittings(stories)
    PROVE  LET next == OnePass(stories, at)
           IN  /\ next \in Emittings(stories) /\ next.left \subseteq at.left
               /\ next.left = at.left => at.left \subseteq HeldUp(stories)
<1> DEFINE N == Len(stories)
           X == Emittings(stories)
<1>1. PICK u : PassBy(stories, at, u)
  BY PassSteps
<1>2. /\ N \in Nat /\ DOMAIN stories = 1..N
      /\ u \in [0..N -> X] /\ u[0] = at /\ OnePass(stories, at) = u[N]
  BY <1>1 DEF PassBy, IsBacklog, IsList
<1>3. ASSUME NEW k \in Nat, k < N
      PROVE  /\ u[k] \in X /\ u[k + 1] \in X
             /\ u[k + 1].left = IF Emits(stories, u[k], k + 1) THEN u[k].left \ {k + 1} ELSE u[k].left
             /\ ~Emits(stories, u[k], k + 1) => u[k + 1] = u[k]
  <2>1. k \in 0..N /\ k + 1 \in 0..N
    BY <1>2, <1>3
  <2>2. u[k + 1] = Emitted(stories, u[k], k + 1)
    BY <1>1, <1>3 DEF PassBy
  <2>3. u[k] \in X /\ u[k + 1] \in X
    BY <1>2, <2>1
  <2> QED  BY <2>2, <2>3, EmittedStays
<1>4. ASSUME NEW k \in 0..N PROVE u[N].left \subseteq u[k].left
  <2> DEFINE Down == {d \in Nat : d <= N => u[N].left \subseteq u[N - d].left}
  <2>1. 0 \in Down
    BY <1>2
  <2>2. ASSUME NEW d \in Down PROVE d + 1 \in Down
    <3> SUFFICES ASSUME d + 1 <= N PROVE u[N].left \subseteq u[N - (d + 1)].left
      OBVIOUS
    <3> DEFINE j == N - (d + 1)
    <3>1. j \in Nat /\ j < N /\ j + 1 = N - d /\ d <= N
      BY <1>2
    <3>2. u[j + 1].left \subseteq u[j].left
      BY <1>3, <3>1
    <3>3. u[N].left \subseteq u[N - d].left
      BY <3>1
    <3> QED  BY <3>1, <3>2, <3>3
  <2>3. Down = Nat
    <3>1. Down \in SUBSET Nat
      OBVIOUS
    <3> HIDE DEF Down
    <3> QED  BY <2>1, <2>2, <3>1, EveryNumber
  <2>4. N - k \in Nat /\ N - k <= N /\ N - (N - k) = k
    BY <1>2
  <2>5. N - k \in Down
    BY <2>3, <2>4
  <2> HIDE DEF N
  <2> QED  BY <2>4, <2>5
<1>5. u[N] \in X /\ u[N].left \subseteq at.left
  <2>1. 0 \in 0..N /\ N \in 0..N
    BY <1>2
  <2> QED  BY <1>2, <1>4, <2>1
<1>6. ASSUME u[N].left = at.left PROVE at.left \subseteq HeldUp(stories)
  <2> DEFINE Quiet == {k \in Nat : k <= N => u[k] = at}
  <2>1. 0 \in Quiet
    BY <1>2
  <2>2. ASSUME NEW k \in Quiet PROVE k + 1 \in Quiet
    <3> SUFFICES ASSUME k + 1 <= N PROVE u[k + 1] = at
      OBVIOUS
    <3>1. k \in Nat /\ k < N /\ k + 1 \in 0..N /\ u[k] = at
      BY <1>2
    <3>2. ~Emits(stories, at, k + 1)
      <4> SUFFICES ASSUME Emits(stories, at, k + 1) PROVE FALSE
        OBVIOUS
      <4>1. u[k + 1].left = at.left \ {k + 1}
        BY <1>3, <3>1
      <4>2. at.left \subseteq u[k + 1].left
        BY <1>4, <1>6, <3>1
      <4> QED  BY <4>1, <4>2 DEF Emits
    <3> QED  BY <1>3, <3>1, <3>2
  <2>3. Quiet = Nat
    <3>1. Quiet \in SUBSET Nat
      OBVIOUS
    <3> HIDE DEF Quiet
    <3> QED  BY <2>1, <2>2, <3>1, EveryNumber
  <2>4. at.left \subseteq 1..N
    BY <1>2 DEF Emittings
  <2>5. ASSUME NEW k \in at.left PROVE \E j \in at.left : stories[j].id \in stories[k].depends_on
    <3>1. k \in 1..N
      BY <2>4
    <3>2. k - 1 \in Nat /\ k - 1 < N /\ (k - 1) + 1 = k /\ k <= N /\ k - 1 <= N /\ k \in Nat
      BY <1>2, <3>1
    <3>3. u[k - 1] = at /\ u[k] = at
      BY <2>3, <3>2
    <3>4. ~Emits(stories, at, k)
      <4> SUFFICES ASSUME Emits(stories, at, k) PROVE FALSE
        OBVIOUS
      <4>1. u[k].left = at.left \ {k}
        BY <1>3, <3>2, <3>3
      <4> QED  BY <3>3, <4>1
    <3> QED  BY <3>4 DEF Emits
  <2> QED  BY <1>2, <2>4, <2>5, HeldUpWaits
<1> HIDE DEF X
<1> QED  BY <1>2, <1>5, <1>6 DEF X

(* Of the stories in place none is left, and none was overtaken.           *)
Ahead(stories, order) ==
    \A k \in InPlace(stories) : \A i \in 1..Len(order) :
        order[i] > k => \E h \in 1..(i - 1) : order[h] = k

Tidy(stories, at) == InPlace(stories) \cap at.left = {} /\ Ahead(stories, at.order)

LEMMA AheadOfMore ==
    ASSUME NEW stories, NEW s \in Seq(DOMAIN stories), NEW t \in Seq(DOMAIN stories),
           InPlace(stories) \subseteq Range(s), Ahead(stories, s)
    PROVE  Ahead(stories, s \o t)
<1> DEFINE D == DOMAIN stories
           u == s \o t
           m == Len(s)
<1>1. /\ Len(u) \in Nat /\ m \in Nat /\ (\A i \in 1..m : u[i] = s[i]) /\ u \in Seq(D)
      /\ \A i \in 1..Len(u) : i \in 1..m \/ i - m \in 1..Len(t)
      /\ \A x : x \in Range(s) <=> \E i \in 1..m : s[i] = x
  <2> HIDE DEF D
  <2>1. /\ u \in Seq(D) /\ Len(s) \in Nat /\ (\A i \in 1..m : u[i] = s[i])
        /\ \A i \in 1..Len(u) : i \in 1..m \/ i - m \in 1..Len(t)
    BY JoinedSeq DEF D
  <2>2. \A x : x \in Range(s) <=> \E i \in 1..m : s[i] = x
    BY ListRange DEF D
  <2> HIDE DEF u
  <2> QED  BY <2>1, <2>2, LenProperties
<1> HIDE DEF u, m, D
<1> SUFFICES ASSUME NEW k \in InPlace(stories), NEW i \in 1..Len(u), u[i] > k
             PROVE  \E h \in 1..(i - 1) : u[h] = k
  BY DEF Ahead, u
<1>2. CASE i \in 1..m
  <2>1. PICK h \in 1..(i - 1) : s[h] = k
    BY <1>1, <1>2 DEF Ahead, m
  <2>2. h \in 1..m
    BY <1>1, <1>2
  <2> QED  BY <1>1, <2>1, <2>2
<1>3. CASE i - m \in 1..Len(t)
  <2>1. PICK h \in 1..m : s[h] = k
    BY <1>1
  <2>2. h \in 1..(i - 1)
    BY <1>1, <1>3
  <2> QED  BY <1>1, <2>1, <2>2
<1> QED  BY <1>1, <1>2, <1>3

LEMMA TidyStays ==
    ASSUME NEW stories, IsBacklog(stories), NEW at \in Emittings(stories), NEW k, Tidy(stories, at)
    PROVE  Tidy(stories, Emitted(stories, at, k))
<1> DEFINE next == Emitted(stories, at, k)
<1>1. /\ at.order \in Seq(DOMAIN stories) /\ Range(at.order) = DOMAIN stories \ at.left
      /\ at.left \subseteq DOMAIN stories
  BY DEF Emittings
<1>2. /\ next.left = IF Emits(stories, at, k) THEN at.left \ {k} ELSE at.left
      /\ next.order = IF Emits(stories, at, k) THEN Append(at.order, k) ELSE at.order
  BY EmittedStays
<1>3. InPlace(stories) \subseteq Range(at.order)
  BY <1>1, InPlaceCloses DEF Tidy
<1>4. CASE Emits(stories, at, k)
  <2>1. k \in DOMAIN stories
    BY <1>1, <1>4 DEF Emits
  <2>2. <<k>> \in Seq(DOMAIN stories) /\ Append(at.order, k) = at.order \o <<k>>
    BY <1>1, <2>1
  <2>3. Ahead(stories, at.order \o <<k>>)
    BY <1>1, <1>3, <2>2, AheadOfMore DEF Tidy
  <2> QED  BY <1>2, <1>4, <2>2, <2>3 DEF Tidy
<1>5. CASE ~Emits(stories, at, k)
  BY <1>2, <1>5 DEF Tidy
<1> QED  BY <1>4, <1>5

LEMMA PassTidy ==
    ASSUME NEW stories, IsBacklog(stories), NEW at \in Emittings(stories), Tidy(stories, at)
    PROVE  Tidy(stories, OnePass(stories, at))
<1> DEFINE N == Len(stories)
<1>1. PICK u : PassBy(stories, at, u)
  BY PassSteps
<1>2. /\ N \in Nat /\ u \in [0..N -> Emittings(stories)] /\ u[0] = at /\ OnePass(stories, at) = u[N]
  BY <1>1 DEF PassBy, IsBacklog, IsList
<1> DEFINE All == {k \in Nat : k <= N => Tidy(stories, u[k])}
<1>3. 0 \in All
  BY <1>2
<1>4. ASSUME NEW k \in All PROVE k + 1 \in All
  <2> SUFFICES ASSUME k + 1 <= N PROVE Tidy(stories, u[k + 1])
    OBVIOUS
  <2>1. k \in Nat /\ k < N /\ k \in 0..N /\ Tidy(stories, u[k])
    BY <1>2
  <2>2. u[k + 1] = Emitted(stories, u[k], k + 1)
    BY <1>1, <2>1 DEF PassBy
  <2> QED  BY <1>2, <2>1, <2>2, TidyStays
<1>5. All = Nat
  <2>1. All \in SUBSET Nat
    OBVIOUS
  <2> HIDE DEF All
  <2> QED  BY <1>3, <1>4, <2>1, EveryNumber
<1>6. N \in All
  BY <1>2, <1>5
<1> QED  BY <1>2, <1>6

(* The first pass emits each story in place when it comes to it.           *)
Outset(stories) == [left |-> DOMAIN stories, order |-> <<>>]

LEMMA StartsEmitting ==
    ASSUME NEW stories, IsBacklog(stories)
    PROVE  Outset(stories) \in Emittings(stories)
<1>1. <<>> \in Seq(DOMAIN stories) /\ Range(<<>>) = {} /\ Len(<<>>) = 0 /\ NoRepeats(<<>>)
  BY DEF Range, NoRepeats
<1>2. HeldUp(stories) \subseteq DOMAIN stories
  BY HeldUpWaits
<1> QED  BY <1>1, <1>2 DEF Emittings, Outset

LEMMA FirstPassTidy ==
    ASSUME NEW stories, IsBacklog(stories)
    PROVE  Tidy(stories, OnePass(stories, Outset(stories)))
<1> DEFINE N == Len(stories)
           X == Emittings(stories)
           I == InPlace(stories)
           Early(at, m) ==
              /\ \A k \in I : k <= m => k \notin at.left
              /\ Range(at.order) \subseteq 1..m
              /\ Ahead(stories, at.order)
<1>1. PICK u : PassBy(stories, Outset(stories), u)
  BY StartsEmitting, PassSteps
<1>2. /\ N \in Nat /\ DOMAIN stories = 1..N /\ u \in [0..N -> X] /\ u[0] = Outset(stories)
      /\ OnePass(stories, Outset(stories)) = u[N]
  BY <1>1 DEF PassBy, IsBacklog, IsList
<1>3. I \subseteq 1..N /\ \A k \in I : \A j \in 1..N :
         stories[j].id \in stories[k].depends_on => j \in I /\ j < k
  BY <1>2, InPlaceCloses
<1> DEFINE All == {k \in Nat : k <= N => Early(u[k], k)}
<1>4. 0 \in All
  <2>1. u[0].order = <<>> /\ Range(<<>>) = {} /\ Len(<<>>) = 0
    BY <1>2 DEF Outset, Range
  <2>2. Ahead(stories, <<>>)
    BY <2>1 DEF Ahead
  <2>3. \A k \in I : ~(k <= 0)
    BY <1>2, <1>3
  <2> QED  BY <2>1, <2>2, <2>3
<1>5. ASSUME NEW m \in All PROVE m + 1 \in All
  <2> SUFFICES ASSUME m + 1 <= N PROVE Early(u[m + 1], m + 1)
    OBVIOUS
  <2> DEFINE at == u[m]
             x == m + 1
             next == u[m + 1]
             n == Len(at.order)
  <2>1. m \in Nat /\ m < N /\ m \in 0..N /\ x \in 1..N /\ Early(at, m)
    BY <1>2
  <2>2. at \in X /\ next = Emitted(stories, at, x)
    BY <1>1, <1>2, <2>1 DEF PassBy
  <2>3. /\ at.order \in Seq(1..N) /\ Range(at.order) = (1..N) \ at.left /\ at.left \subseteq 1..N
    BY <1>2, <2>2 DEF Emittings
  <2> HIDE DEF at, x, next
  <2>4. /\ next.left = IF Emits(stories, at, x) THEN at.left \ {x} ELSE at.left
        /\ next.order = IF Emits(stories, at, x) THEN Append(at.order, x) ELSE at.order
    BY <2>2, EmittedStays
  <2>5. ASSUME x \in I PROVE Emits(stories, at, x)
    <3>1. x \in at.left
      <4>1. x \notin 1..m
        BY <2>1 DEF x
      <4> QED  BY <2>1, <2>3, <4>1
    <3>2. ASSUME NEW j \in at.left PROVE stories[j].id \notin stories[x].depends_on
      <4> SUFFICES ASSUME stories[j].id \in stories[x].depends_on PROVE FALSE
        OBVIOUS
      <4>1. j \in I /\ j < x /\ j \in 1..N
        BY <1>3, <2>3, <2>5
      <4>2. j <= m
        BY <2>1, <4>1 DEF x
      <4> QED  BY <2>1, <4>1, <4>2
    <3> QED  BY <3>1, <3>2 DEF Emits
  <2>6. \A k \in I : k <= x => k \notin next.left
    <3> SUFFICES ASSUME NEW k \in I, k <= x PROVE k \notin next.left
      OBVIOUS
    <3>1. k = x \/ k <= m
      BY <1>2, <1>3, <2>1 DEF x
    <3> QED  BY <2>1, <2>4, <2>5, <3>1
  <2>7. 1..m \subseteq 1..x /\ x \in 1..x
    BY <2>1 DEF x
  <2>8. CASE ~Emits(stories, at, x)
    BY <2>1, <2>4, <2>6, <2>7, <2>8 DEF x, next
  <2>9. CASE Emits(stories, at, x)
    <3> DEFINE t == Append(at.order, x)
    <3>1. /\ t \in Seq(1..N) /\ Len(t) = n + 1 /\ n \in Nat /\ Range(t) = Range(at.order) \cup {x}
          /\ (\A i \in 1..n : t[i] = at.order[i]) /\ t[n + 1] = x
      <4> DEFINE S == 1..N
      <4>1. at.order \in Seq(S)
        BY <2>3
      <4>2. x \in S
        <5> HIDE DEF at, next
        <5> QED  BY <2>1
      <4> DEFINE l == at.order
      <4>3. l \in Seq(S)
        BY <4>1
      <4> HIDE DEF S, l, x
      <4>4. /\ Append(l, x) \in Seq(S) /\ Len(Append(l, x)) = Len(l) + 1 /\ Len(l) \in Nat
            /\ \A i \in 1..Len(l) : Append(l, x)[i] = l[i]
            /\ Append(l, x)[Len(l) + 1] = x
            /\ Range(Append(l, x)) = Range(l) \cup {x}
        BY ONLY <4>2, <4>3, AppendedSeq
      <4> DEFINE r == Append(l, x)
                 c == Len(l)
      <4>5. /\ r \in Seq(S) /\ Len(r) = c + 1 /\ c \in Nat /\ Range(r) = Range(l) \cup {x}
            /\ (\A i \in 1..c : r[i] = l[i]) /\ r[c + 1] = x
        BY ONLY <4>4
      <4> HIDE DEF r, c, t, n, at, next
      <4>6. r = t /\ c = n
        BY DEF r, c, t, n, l
      <4> QED  BY ONLY <4>5, <4>6 DEF S, l
    <3>2. next.order = t
      BY <2>4, <2>9
    <3> HIDE DEF t, n
    <3>3. Range(t) \subseteq 1..x
      BY <2>1, <2>7, <3>1
    <3>4. Ahead(stories, t)
      <4> SUFFICES ASSUME NEW k \in I, NEW i \in 1..Len(t), t[i] > k
                   PROVE  \E h \in 1..(i - 1) : t[h] = k
        BY DEF Ahead
      <4>1. CASE i \in 1..n
        <5>1. PICK h \in 1..(i - 1) : at.order[h] = k
          BY <2>1, <3>1, <4>1 DEF Ahead, n
        <5>2. h \in 1..n
          BY <3>1, <4>1
        <5> QED  BY <3>1, <5>1, <5>2
      <4>2. CASE i = n + 1
        <5>1. k < x /\ k \in 1..N
          BY <1>3, <2>1, <3>1, <4>2 DEF x
        <5>2. k \in Range(at.order)
          <6>1. k <= m
            BY <2>1, <5>1 DEF x
          <6> QED  BY <2>1, <2>3, <5>1, <6>1
        <5>3. PICK h \in 1..n : at.order[h] = k
          <6> DEFINE S == 1..N
          <6>1. at.order \in Seq(S)
            BY <2>3
          <6> HIDE DEF S
          <6> QED  BY <5>2, <6>1, ListRange DEF n
        <5>4. h \in 1..(i - 1)
          BY <3>1, <4>2
        <5> QED  BY <3>1, <5>3, <5>4
      <4> QED  BY <3>1, <4>1, <4>2
    <3> QED  BY <2>6, <3>2, <3>3, <3>4 DEF x, next
  <2> QED  BY <2>8, <2>9
<1>6. All = Nat
  <2>1. All \in SUBSET Nat
    OBVIOUS
  <2> HIDE DEF All
  <2> QED  BY <1>4, <1>5, <2>1, EveryNumber
<1>7. Early(u[N], N)
  <2>1. N \in All
    BY <1>2, <1>6
  <2> HIDE DEF Early
  <2> QED  BY <1>2, <2>1
<1>8. \A k \in I : k <= N
  BY <1>2, <1>3
<1> QED  BY <1>2, <1>7, <1>8 DEF Tidy

(* Where emission ends: what a cycle holds up comes after all the rest.    *)
Settled(stories, y) == y \in Emittings(stories) /\ y.left = HeldUp(stories) /\ Tidy(stories, y)

Final(stories) ==
    {at \in [left : {{}}, order : Seq(DOMAIN stories)] :
        \E y : Settled(stories, y) /\ at.order = y.order \o Sorted(HeldUp(stories))}

Underway(stories) == {at \in Emittings(stories) : Tidy(stories, at) \/ at = Outset(stories)}

LEMMA HeldUpListed ==
    ASSUME NEW stories, IsBacklog(stories)
    PROVE  /\ Lists(Sorted(HeldUp(stories)), HeldUp(stories))
           /\ Sorted(HeldUp(stories)) \in Seq(DOMAIN stories)
           /\ Range(Sorted(HeldUp(stories))) = HeldUp(stories) /\ NoRepeats(Sorted(HeldUp(stories)))
<1> DEFINE H == HeldUp(stories)
           N == Len(stories)
           s == Sorted(H)
<1>1. N \in Nat /\ DOMAIN stories = 1..N /\ H \subseteq 1..N
  BY HeldUpWaits DEF IsBacklog, IsList
<1>2. IsFiniteSet(H) /\ H \subseteq Int
  <2>1. 1 \in Int /\ N \in Int
    BY <1>1
  <2>2. IsFiniteSet(1..N)
    BY <2>1, FS_Interval
  <2> HIDE DEF H, N
  <2>3. IsFiniteSet(H)
    BY <1>1, <2>2, FS_Subset
  <2> QED  BY <1>1, <2>3
<1>3. Lists(s, H)
  <2> HIDE DEF H
  <2> QED  BY <1>2, SortedLists
<1> HIDE DEF s, H
<1>4. s \in Seq(1..N)
  <2>1. s \in Seq(H)
    BY <1>3 DEF Lists
  <2>2. \A i \in 1..Len(s) : s[i] \in 1..N
    <3>1. \A i \in 1..Len(s) : s[i] \in H
      BY <2>1
    <3> HIDE DEF N
    <3> QED  BY <1>1, <3>1
  <2>3. Len(s) \in Nat /\ s = [i \in 1..Len(s) |-> s[i]]
    BY <2>1
  <2> DEFINE m == Len(s)
             t == [i \in 1..m |-> s[i]]
  <2>4. t \in [1..m -> 1..N] /\ m \in Nat
    BY <2>2, <2>3
  <2>5. t \in Seq(1..N)
    <3> HIDE DEF t, m
    <3> QED  BY <2>4
  <2> QED  BY <2>3, <2>5
<1>5. Range(s) = H /\ NoRepeats(s)
  BY <1>3, <1>4, ListRange DEF Lists, NoRepeats
<1> QED  BY <1>1, <1>3, <1>4, <1>5 DEF s, H

LEMMA EmitStuckStays ==
    ASSUME NEW stories, IsBacklog(stories), NEW at \in Underway(stories)
    PROVE  LET next == EmitStuck(stories, at)
           IN  \/ next \in Final(stories)
               \/ /\ next \in Emittings(stories) /\ Tidy(stories, next)
                  /\ next.left \subseteq at.left /\ next.left # at.left
<1> DEFINE pass == OnePass(stories, at)
           next == EmitStuck(stories, at)
<1>1. at \in Emittings(stories) /\ (Tidy(stories, at) \/ at = Outset(stories))
  BY DEF Underway
<1>2. /\ pass \in Emittings(stories) /\ pass.left \subseteq at.left
      /\ (pass.left = at.left => at.left \subseteq HeldUp(stories))
  BY <1>1, PassShrinks
<1>3. Tidy(stories, pass)
  BY <1>1, PassTidy, FirstPassTidy
<1>4. next = IF pass.left = at.left THEN [left |-> {}, order |-> at.order \o Sorted(at.left)] ELSE pass
  BY DEF EmitStuck
<1> HIDE DEF pass, next
<1>5. CASE pass.left = at.left
  <2>1. at.left = HeldUp(stories)
    BY <1>1, <1>2, <1>5 DEF Emittings
  <2>2. Tidy(stories, at)
    <3> SUFFICES ASSUME at = Outset(stories) PROVE Tidy(stories, at)
      BY <1>1
    <3>1. InPlace(stories) \cap DOMAIN stories = {} /\ at.left = DOMAIN stories
      BY <1>3, <1>5 DEF Tidy, Outset
    <3>2. InPlace(stories) = {}
      BY <3>1, InPlaceCloses
    <3> QED  BY <3>2 DEF Tidy, Ahead
  <2>3. Settled(stories, at)
    BY <1>1, <2>1, <2>2 DEF Settled
  <2>4. at.order \o Sorted(HeldUp(stories)) \in Seq(DOMAIN stories)
    <3> DEFINE D == DOMAIN stories
    <3>1. at.order \in Seq(D) /\ Sorted(HeldUp(stories)) \in Seq(D)
      BY <1>1, HeldUpListed DEF Emittings
    <3> HIDE DEF D
    <3>2. at.order \o Sorted(HeldUp(stories)) \in Seq(D)
      BY <3>1
    <3> QED  BY <3>2 DEF D
  <2>5. next = [left |-> {}, order |-> at.order \o Sorted(HeldUp(stories))]
    BY <1>4, <1>5, <2>1
  <2>6. next \in [left : {{}}, order : Seq(DOMAIN stories)] /\ next.order = at.order \o Sorted(HeldUp(stories))
    BY <2>4, <2>5
  <2> QED  BY <2>3, <2>6 DEF Final, next
<1>6. CASE pass.left # at.left
  BY <1>2, <1>3, <1>4, <1>6 DEF next
<1> QED  BY <1>5, <1>6

LEMMA FinalStays ==
    ASSUME NEW stories, IsBacklog(stories), NEW at \in Final(stories)
    PROVE  EmitStuck(stories, at) = at
<1> DEFINE N == Len(stories)
           X == {at}
           D == DOMAIN stories
           step == [k \in 1..N |-> [y \in X |-> Emitted(stories, y, k)]]
           Passing(h) == h = [k \in 0..N |-> IF k = 0 THEN at ELSE Emitted(stories, h[k - 1], k)]
           u == CHOOSE h : Passing(h)
<1>1. N \in Nat
  BY DEF IsBacklog, IsList
<1>2. at.left = {} /\ at.order \in Seq(D) /\ at = [left |-> {}, order |-> at.order]
  BY DEF Final
<1>3. \A k : Emitted(stories, at, k) = at
  BY <1>2 DEF Emitted
<1>4. step \in [1..N -> [X -> X]]
  <2>1. \A y \in X : \A k : Emitted(stories, y, k) \in X
    BY <1>3
  <2> HIDE DEF X, N
  <2> QED  BY <2>1
<1>5. (\E h : Stepped(h, N, at, step)) /\ \A h : Stepped(h, N, at, step) => h \in [0..N -> X]
  <2>1. at \in X
    OBVIOUS
  <2> HIDE DEF N, X, step
  <2> QED  BY ONLY <1>1, <1>4, <2>1, StepByStep
<1>6. ASSUME NEW h, Stepped(h, N, at, step) PROVE Passing(h)
  <2>1. h \in [0..N -> X]
    BY <1>5, <1>6
  <2>2. ASSUME NEW k \in 1..N PROVE step[k][h[k - 1]] = Emitted(stories, h[k - 1], k)
    <3>1. h[k - 1] \in X
      <4> HIDE DEF X, N
      <4> QED  BY <1>1, <2>1
    <3> HIDE DEF X
    <3> QED  BY <3>1
  <2>3. \A k \in 0..N : k # 0 => k \in 1..N
    BY <1>1
  <2>4. h = [k \in 0..N |-> IF k = 0 THEN at ELSE step[k][h[k - 1]]]
    BY <1>6 DEF Stepped
  <2> HIDE DEF step, N
  <2> QED  BY <2>2, <2>3, <2>4
<1>7. Passing(u)
  <2> HIDE DEF Passing, step, X, N
  <2> QED  BY <1>5, <1>6
<1> HIDE DEF u, step
<1> DEFINE Stays == {k \in Nat : k <= N => u[k] = at}
<1>8. \A k \in 0..N : u[k] = IF k = 0 THEN at ELSE Emitted(stories, u[k - 1], k)
  BY <1>7
<1>9. 0 \in Stays
  BY <1>1, <1>8
<1>10. ASSUME NEW k \in Stays PROVE k + 1 \in Stays
  <2> SUFFICES ASSUME k + 1 <= N PROVE u[k + 1] = at
    OBVIOUS
  <2>1. k \in Nat /\ k + 1 \in 0..N /\ k + 1 # 0 /\ (k + 1) - 1 = k /\ u[k] = at
    BY <1>1
  <2> QED  BY <1>3, <1>8, <2>1
<1>11. Stays = Nat
  <2>1. Stays \in SUBSET Nat
    OBVIOUS
  <2> HIDE DEF Stays
  <2> QED  BY <1>9, <1>10, <2>1, EveryNumber
<1>12. OnePass(stories, at) = at
  <2>1. OnePass(stories, at) = u[N]
    BY DEF OnePass, u
  <2> QED  BY <1>1, <1>11, <2>1
<1>13. Sorted({}) = <<>> /\ at.order \o <<>> = at.order
  <2>1. IsFiniteSet({}) /\ Cardinality({}) = 0
    BY FS_EmptySet
  <2>2. Sorted({}) = <<>>
    BY <2>1 DEF Sorted
  <2>3. at.order \o <<>> = at.order
    <3> HIDE DEF D
    <3> QED  BY <1>2
  <2> QED  BY <2>2, <2>3
<1>14. EmitStuck(stories, at) = [left |-> {}, order |-> at.order \o Sorted({})]
  BY <1>2, <1>12 DEF EmitStuck
<1> QED  BY <1>2, <1>13, <1>14

(* Pass after pass, there are enough of them: the work-list is what was    *)
(* emitted, then what a cycle holds up in the order of the backlog.        *)
LEMMA EmissionSettles ==
    ASSUME NEW stories, IsBacklog(stories)
    PROVE  \E y : Settled(stories, y) /\ Emission(stories) = y.order \o Sorted(HeldUp(stories))
<1> DEFINE N == Len(stories)
           at == Outset(stories)
           X == Underway(stories) \cup Final(stories)
           step == [k \in 1..N |-> [y \in X |-> EmitStuck(stories, y)]]
           Passing(h) == h = [k \in 0..N |-> IF k = 0 THEN at ELSE EmitStuck(stories, h[k - 1])]
           u == CHOOSE h : Passing(h)
<1>1. N \in Nat /\ DOMAIN stories = 1..N
  BY DEF IsBacklog, IsList
<1>2. ASSUME NEW y \in Underway(stories)
      PROVE  \/ EmitStuck(stories, y) \in Final(stories)
             \/ /\ EmitStuck(stories, y) \in Underway(stories)
                /\ EmitStuck(stories, y).left \subseteq y.left /\ EmitStuck(stories, y).left # y.left
  BY EmitStuckStays DEF Underway
<1>3. \A y \in Final(stories) : EmitStuck(stories, y) = y
  BY FinalStays
<1>4. step \in [1..N -> [X -> X]]
  <2>1. \A y \in X : EmitStuck(stories, y) \in X
    BY <1>2, <1>3
  <2> HIDE DEF X, N
  <2> QED  BY <2>1
<1>5. at \in X /\ at \in Underway(stories)
  BY StartsEmitting DEF Underway
<1>6. (\E h : Stepped(h, N, at, step)) /\ \A h : Stepped(h, N, at, step) => h \in [0..N -> X]
  <2> HIDE DEF N, X, step, at
  <2> QED  BY ONLY <1>1, <1>4, <1>5, StepByStep
<1>7. ASSUME NEW h, Stepped(h, N, at, step) PROVE Passing(h)
  <2>1. h \in [0..N -> X]
    BY <1>6, <1>7
  <2>2. ASSUME NEW k \in 1..N PROVE step[k][h[k - 1]] = EmitStuck(stories, h[k - 1])
    <3>1. h[k - 1] \in X
      <4> HIDE DEF X, N
      <4> QED  BY <1>1, <2>1
    <3> HIDE DEF X
    <3> QED  BY <3>1
  <2>3. \A k \in 0..N : k # 0 => k \in 1..N
    BY <1>1
  <2>4. h = [k \in 0..N |-> IF k = 0 THEN at ELSE step[k][h[k - 1]]]
    BY <1>7 DEF Stepped
  <2> HIDE DEF step, N, at
  <2> QED  BY <2>2, <2>3, <2>4
<1>8. Passing(u)
  <2> HIDE DEF Passing, step, X, N, at
  <2> QED  BY <1>6, <1>7
<1>9. Emission(stories) = u[N].order
  BY DEF Emission, Outset
<1> HIDE DEF u, step
<1>10. \A k \in 0..N : u[k] = IF k = 0 THEN at ELSE EmitStuck(stories, u[k - 1])
  BY <1>8
<1> DEFINE Left(y, k) == Cardinality(y.left) + k <= N
           Well == {k \in Nat : k <= N => u[k] \in Final(stories) \/ (u[k] \in Underway(stories) /\ Left(u[k], k))}
<1>11. \A y \in Underway(stories) : /\ IsFiniteSet(y.left) /\ Cardinality(y.left) \in Nat /\ Cardinality(y.left) <= N
                                    /\ (Cardinality(y.left) = 0 => y.left = {})
  <2>1. IsFiniteSet(1..N) /\ Cardinality(1..N) = N
    <3>1. 1 \in Int /\ N \in Int
      BY <1>1
    <3>2. IsFiniteSet(1..N) /\ Cardinality(1..N) = IF 1 > N THEN 0 ELSE N - 1 + 1
      <4> HIDE DEF N
      <4> QED  BY <3>1, FS_Interval
    <3> QED  BY <1>1, <3>2
  <2> SUFFICES ASSUME NEW y \in Underway(stories)
               PROVE  /\ IsFiniteSet(y.left) /\ Cardinality(y.left) \in Nat /\ Cardinality(y.left) <= N
                      /\ (Cardinality(y.left) = 0 => y.left = {})
    OBVIOUS
  <2>2. y.left \subseteq 1..N
    BY <1>1 DEF Underway, Emittings
  <2> HIDE DEF N
  <2>3. IsFiniteSet(y.left) /\ Cardinality(y.left) <= Cardinality(1..N)
    BY <2>1, <2>2, FS_Subset
  <2> QED  BY <2>1, <2>3, FS_CardinalityType, FS_EmptySet
<1>12. 0 \in Well
  <2>1. u[0] = at
    BY <1>1, <1>10
  <2> HIDE DEF at, N
  <2> QED  BY <1>1, <1>5, <1>11, <2>1
<1>13. ASSUME NEW k \in Well PROVE k + 1 \in Well
  <2> SUFFICES ASSUME k + 1 <= N
               PROVE  u[k + 1] \in Final(stories) \/ (u[k + 1] \in Underway(stories) /\ Left(u[k + 1], k + 1))
    OBVIOUS
  <2>1. k \in Nat /\ k + 1 \in 0..N /\ k + 1 # 0 /\ (k + 1) - 1 = k /\ k <= N
    BY <1>1
  <2>2. u[k + 1] = EmitStuck(stories, u[k])
    BY <1>10, <2>1
  <2>3. CASE u[k] \in Final(stories)
    BY <1>3, <2>2, <2>3
  <2>4. CASE u[k] \in Underway(stories) /\ Left(u[k], k)
    <3> DEFINE a == u[k].left
               b == u[k + 1].left
    <3> SUFFICES ASSUME u[k + 1] \notin Final(stories) PROVE u[k + 1] \in Underway(stories) /\ Left(u[k + 1], k + 1)
      OBVIOUS
    <3>1. u[k + 1] \in Underway(stories) /\ b \subseteq a /\ b # a
      BY <1>2, <2>2, <2>4
    <3>2. IsFiniteSet(a) /\ Cardinality(a) \in Nat /\ Cardinality(b) \in Nat
      BY <1>11, <2>4, <3>1
    <3>3. Cardinality(b) < Cardinality(a)
      <4> HIDE DEF a, b
      <4> QED  BY <3>1, <3>2, FS_Subset
    <3>4. Cardinality(a) + k <= N
      BY <2>4
    <3>5. Cardinality(b) + (k + 1) <= N
      <4> HIDE DEF a, b, N
      <4> QED  BY <1>1, <2>1, <3>2, <3>3, <3>4
    <3> QED  BY <3>1, <3>5
  <2> QED  BY <2>1, <2>3, <2>4
<1>14. u[N] \in Final(stories) \/ (u[N] \in Underway(stories) /\ Left(u[N], N))
  <2>1. Well = Nat
    <3>1. Well \in SUBSET Nat
      OBVIOUS
    <3> HIDE DEF Well
    <3> QED  BY <1>12, <1>13, <3>1, EveryNumber
  <2>2. N \in Well
    BY <1>1, <2>1
  <2> HIDE DEF Left
  <2> QED  BY <1>1, <2>2
<1>15. CASE u[N] \in Final(stories)
  BY <1>9, <1>15 DEF Final
<1>16. CASE u[N] \in Underway(stories) /\ Left(u[N], N)
  <2> DEFINE y == u[N]
  <2>1. y.left = {}
    <3>1. Cardinality(y.left) \in Nat /\ (Cardinality(y.left) = 0 => y.left = {})
      BY <1>11, <1>16
    <3>2. Cardinality(y.left) + N <= N
      BY <1>16
    <3> HIDE DEF y, N
    <3> QED  BY <1>1, <3>1, <3>2
  <2>2. y \in Emittings(stories) /\ HeldUp(stories) = {} /\ y.order \in Seq(DOMAIN stories)
    BY <1>16, <2>1 DEF Underway, Emittings
  <2>3. Tidy(stories, y)
    <3> SUFFICES ASSUME y = Outset(stories) PROVE Tidy(stories, y)
      BY <1>16 DEF Underway
    <3>1. DOMAIN stories = {}
      BY <2>1 DEF Outset
    <3>2. InPlace(stories) = {}
      BY <3>1, InPlaceCloses
    <3> QED  BY <3>2 DEF Tidy, Ahead
  <2>4. Sorted(HeldUp(stories)) = <<>>
    <3>1. IsFiniteSet({}) /\ Cardinality({}) = 0
      BY FS_EmptySet
    <3> QED  BY <2>2, <3>1 DEF Sorted
  <2>5. y.order \o <<>> = y.order
    <3> DEFINE D == DOMAIN stories
    <3> HIDE DEF D, y
    <3>1. y.order \in Seq(D)
      BY <2>2 DEF D
    <3> QED  BY <3>1
  <2> HIDE DEF y
  <2>6. Settled(stories, y)
    BY <2>1, <2>2, <2>3 DEF Settled
  <2> QED  BY <1>9, <2>4, <2>5, <2>6 DEF y
<1> QED  BY <1>14, <1>15, <1>16

(* Each story has one place on the work-list.                              *)
OnceEach(stories, e, order) ==
    /\ order \in Seq(Range(stories)) /\ Len(order) = Len(stories) /\ Len(e) = Len(stories)
    /\ Range(order) = Range(stories)
    /\ \A k \in DOMAIN stories : \E h \in 1..Len(e) : e[h] = k
    /\ \A h \in 1..Len(e) : Position(order, stories[e[h]].id) = h

LEMMA OncePlaced ==
    ASSUME NEW stories, IsBacklog(stories), NEW e, e \in Seq(DOMAIN stories),
           Range(e) = DOMAIN stories, NoRepeats(e),
           NEW order, order = [k \in DOMAIN e |-> stories[e[k]]]
    PROVE  OnceEach(stories, e, order)
<1> DEFINE N == Len(stories)
           m == Len(e)
           D == DOMAIN stories
<1>1. /\ N \in Nat /\ D = 1..N /\ \A j, k \in D : stories[j].id = stories[k].id => j = k
  BY DEF IsBacklog, IsList
<1>2. /\ m \in Nat /\ DOMAIN e = 1..m /\ (\A h \in 1..m : e[h] \in D)
      /\ \A k \in D : \E h \in 1..m : e[h] = k
  <2>1. e \in Seq(D) /\ Range(e) = D
    OBVIOUS
  <2> HIDE DEF D
  <2> QED  BY <2>1, ListRange, LenProperties
<1>3. m = N
  <2>1. IsFiniteSet(D) /\ Cardinality(D) = m
    <3>1. e \in Seq(D) /\ Range(e) = D /\ NoRepeats(e)
      OBVIOUS
    <3> HIDE DEF D
    <3> QED  BY <3>1, OnceCounts
  <2>2. Cardinality(1..N) = N
    <3>1. 1 \in Int /\ N \in Int
      BY <1>1
    <3>2. Cardinality(1..N) = IF 1 > N THEN 0 ELSE N - 1 + 1
      <4> HIDE DEF N
      <4> QED  BY <3>1, FS_Interval
    <3> QED  BY <1>1, <3>2
  <2> QED  BY <1>1, <2>1, <2>2
<1> HIDE DEF m, N, D
<1>4. order = [h \in 1..m |-> stories[e[h]]]
  BY <1>2
<1>5. order \in Seq(Range(stories)) /\ Len(order) = m /\ DOMAIN order = 1..m
  <2> DEFINE S == Range(stories)
             f == [h \in 1..m |-> stories[e[h]]]
  <2>1. \A k \in D : stories[k] \in S
    BY DEF Range, D
  <2> HIDE DEF S
  <2>2. f \in [1..m -> S]
    BY <1>2, <2>1
  <2>3. f \in Seq(S) /\ Len(f) = m /\ DOMAIN f = 1..m
    <3> HIDE DEF f
    <3>1. DOMAIN f = 1..m
      BY <2>2
    <3>2. f \in Seq(S)
      BY <1>2, <2>2
    <3> QED  BY <1>2, <3>1, <3>2
  <2> QED  BY <1>4, <2>3 DEF S
<1>6. Range(order) = Range(stories)
  <2>1. Range(order) = {order[h] : h \in 1..m} /\ Range(stories) = {stories[k] : k \in D}
    BY <1>5 DEF Range, D
  <2>2. \A h \in 1..m : order[h] = stories[e[h]]
    BY <1>4
  <2> QED  BY <1>2, <2>1, <2>2
<1>7. ASSUME NEW h \in 1..m PROVE Position(order, stories[e[h]].id) = h
  <2>1. \A k \in 1..m : order[k].id = stories[e[h]].id <=> k = h
    <3> SUFFICES ASSUME NEW k \in 1..m, stories[e[k]].id = stories[e[h]].id PROVE k = h
      BY <1>4
    <3>1. e[k] = e[h]
      BY <1>1, <1>2
    <3> QED  BY <3>1 DEF NoRepeats, m
  <2>2. \A k \in DOMAIN order : order[k].id = stories[e[h]].id <=> k = h
    BY <1>5, <2>1
  <2>3. h \in DOMAIN order
    BY <1>5
  <2> QED  BY <2>2, <2>3 DEF Position
<1> QED  BY <1>2, <1>3, <1>5, <1>6, <1>7 DEF m, N, D, OnceEach

(* Every backlog, however its stories depend on one another, is worked     *)
(* through in the order WorkListIsOrdered asks for (_ordered_stories).     *)
THEOREM WorkListsAreOrdered ==
    ASSUME NEW stories, IsBacklog(stories)
    PROVE  WorkListIsOrdered(stories)
<1> DEFINE D == DOMAIN stories
           H == HeldUp(stories)
           hs == Sorted(H)
           e == Emission(stories)
           order == OrderedStories(stories)
           at == [k \in D |-> Position(order, stories[k].id)]
<1>1. PICK y : Settled(stories, y) /\ e = y.order \o hs
  BY EmissionSettles
<1> DEFINE s == y.order
           m == Len(s)
<1>2. /\ s \in Seq(D) /\ Range(s) = D \ H /\ NoRepeats(s) /\ H \subseteq D
      /\ \A i \in 1..m : \A j \in D :
            stories[j].id \in stories[s[i]].depends_on => \E h \in 1..(i - 1) : s[h] = j
  BY <1>1 DEF Settled, Emittings
<1>3. hs \in Seq(D) /\ Range(hs) = H /\ NoRepeats(hs)
  BY HeldUpListed
<1> HIDE DEF e, hs, order
<1>4. /\ e \in Seq(D) /\ Range(e) = D /\ NoRepeats(e) /\ m \in Nat /\ Len(e) \in Nat /\ m <= Len(e)
      /\ (\A i \in 1..m : e[i] = s[i])
      /\ \A i \in 1..Len(e) : i \in 1..m \/ i - m \in 1..Len(hs)
  <2> HIDE DEF D, H, s
  <2>1. /\ e \in Seq(D) /\ Len(e) = m + Len(hs) /\ m \in Nat /\ Len(hs) \in Nat
        /\ (\A i \in 1..m : e[i] = s[i])
        /\ (\A i \in 1..Len(e) : i \in 1..m \/ i - m \in 1..Len(hs))
        /\ Range(e) = Range(s) \cup Range(hs)
        /\ (NoRepeats(s) /\ NoRepeats(hs) /\ Range(s) \cap Range(hs) = {} => NoRepeats(e))
    <3>1. e = s \o hs
      BY <1>1 DEF s
    <3> QED  BY <1>2, <1>3, <3>1, JoinedSeq
  <2>2. Range(e) = D /\ NoRepeats(e)
    BY <1>2, <1>3, <2>1
  <2> QED  BY <2>1, <2>2
<1>5. order = [k \in DOMAIN e |-> stories[e[k]]]
  BY DEF OrderedStories, order, e
<1>6. /\ Len(order) = Len(stories) /\ Range(order) = Range(stories)
      /\ \A k \in D : \E h \in 1..Len(e) : e[h] = k
      /\ \A h \in 1..Len(e) : Position(order, stories[e[h]].id) = h
  <2>1. e \in Seq(DOMAIN stories) /\ Range(e) = DOMAIN stories /\ NoRepeats(e)
    BY <1>4
  <2>2. order = [k \in DOMAIN e |-> stories[e[k]]]
    BY <1>5
  <2>3. OnceEach(stories, e, order)
    BY ONLY IsBacklog(stories), <2>1, <2>2, OncePlaced
  <2> QED  BY <2>3 DEF OnceEach
<1>7. \A k \in D : at[k] \in 1..Len(e) /\ e[at[k]] = k
  BY <1>6
<1>8. \A h \in 1..Len(e) : e[h] \in D /\ at[e[h]] = h
  <2>1. \A h \in 1..Len(e) : e[h] \in D
    <3> HIDE DEF D
    <3> QED  BY <1>4
  <2> QED  BY <1>6, <2>1
<1> HIDE DEF at
<1>9. \A i \in 1..m : i \in 1..Len(e)
  <2> HIDE DEF m
  <2> QED  BY <1>4
<1>10. \A i : i \in 1..m => s[i] \in D \ H
  <2> HIDE DEF D, H, s
  <2>1. s \in Seq(D) /\ Range(s) = D \ H
    BY <1>2
  <2> QED  BY <2>1, ListRange
<1>11. ASSUME NEW k \in D \ H PROVE at[k] \in 1..m
  <2>1. k \in Range(s)
    BY <1>2
  <2>2. PICK i \in 1..m : s[i] = k
    <3> HIDE DEF D, H, s
    <3> QED  BY <1>2, <2>1, ListRange DEF m
  <2>3. e[i] = k /\ i \in 1..Len(e)
    BY <1>4, <1>9, <2>2
  <2> QED  BY <1>8, <2>2, <2>3
<1>12. ASSUME NEW k \in D \ H, NEW j \in D, stories[j].id \in stories[k].depends_on PROVE at[j] < at[k]
  <2> DEFINE i == at[k]
  <2>1. i \in 1..m /\ e[i] = k /\ s[i] = k
    BY <1>4, <1>7, <1>11
  <2>2. PICK h \in 1..(i - 1) : s[h] = j
    BY <1>2, <1>12, <2>1
  <2> HIDE DEF i, m
  <2>3. h \in 1..m /\ h < i
    BY <1>4, <2>1, <2>2
  <2>4. e[h] = j /\ h \in 1..Len(e)
    BY <1>4, <1>9, <2>2, <2>3
  <2>5. at[j] = h
    BY <1>8, <2>4
  <2> QED  BY <2>3, <2>5 DEF i
<1>13. ASSUME NEW k \in D \ H, NEW j \in H PROVE at[k] < at[j]
  <2>1. j \in D
    BY <1>2
  <2>2. at[k] \in 1..m /\ at[j] \in 1..Len(e) /\ e[at[j]] = j
    BY <1>7, <1>11, <2>1
  <2>3. at[j] \notin 1..m
    <3> SUFFICES ASSUME at[j] \in 1..m PROVE FALSE
      OBVIOUS
    <3>1. s[at[j]] = j
      BY <1>4, <2>2
    <3> QED  BY <1>10, <3>1
  <2> HIDE DEF m
  <2> QED  BY <1>4, <2>2, <2>3
<1>14. ASSUME NEW k \in InPlace(stories), NEW j \in D, j > k PROVE at[k] < at[j]
  <2>1. k \in D /\ k \in Range(s)
    <3>1. k \in D /\ k \notin y.left
      BY <1>1, InPlaceCloses DEF Settled, Tidy
    <3> QED  BY <1>1, <1>2, <3>1 DEF Settled
  <2>2. Ahead(stories, e)
    <3>1. InPlace(stories) \subseteq Range(s) /\ Ahead(stories, s)
      <4>1. \A x \in InPlace(stories) : x \in D /\ x \notin y.left
        BY <1>1, InPlaceCloses DEF Settled, Tidy
      <4> QED  BY <1>1, <1>2, <4>1 DEF Settled, Tidy
    <3>2. Ahead(stories, s \o hs)
      BY <1>2, <1>3, <3>1, AheadOfMore
    <3> QED  BY <1>1, <3>2
  <2>3. at[j] \in 1..Len(e) /\ e[at[j]] = j
    BY <1>7
  <2>4. PICK h \in 1..(at[j] - 1) : e[h] = k
    BY <1>14, <2>2, <2>3 DEF Ahead
  <2>5. h \in 1..Len(e) /\ h < at[j]
    BY <1>4, <2>3, <2>4
  <2>6. at[k] = h
    BY <1>8, <2>4, <2>5
  <2> QED  BY <2>5, <2>6
<1> HIDE DEF D, H
<1> QED  BY <1>6, <1>12, <1>13, <1>14 DEF WorkListIsOrdered, at, order, D, H

----------------------------------------------------------------------------

(* A list is a sequence of what is on it, whatever that is.                *)
LEMMA ListIn ==
    ASSUME NEW l, IsList(l), NEW S, Range(l) \subseteq S
    PROVE  l \in Seq(S) /\ DOMAIN l = 1..Len(l) /\ Len(l) \in Nat
<1> DEFINE n == Len(l)
           f == [k \in 1..n |-> l[k]]
<1>1. n \in Nat /\ l = f
  BY DEF IsList
<1> HIDE DEF n
<1>2. DOMAIN l = 1..n
  BY <1>1
<1>3. \A k \in 1..n : l[k] \in S
  BY <1>2 DEF Range
<1>4. f \in [1..n -> S]
  BY <1>3
<1>5. f \in Seq(S)
  <2> HIDE DEF f
  <2> QED  BY <1>1, <1>4
<1> HIDE DEF f
<1> QED  BY <1>1, <1>2, <1>5 DEF n

LEMMA SeqIsList ==
    ASSUME NEW S, NEW s, s \in Seq(S)
    PROVE  IsList(s) /\ DOMAIN s = 1..Len(s) /\ Range(s) \subseteq S
BY ListRange, LenProperties DEF IsList

LEMMA JoinedLists ==
    ASSUME NEW a, IsList(a), NEW b, IsList(b)
    PROVE  IsList(a \o b) /\ Range(a \o b) = Range(a) \cup Range(b)
<1> DEFINE S == Range(a) \cup Range(b)
<1>1. a \in Seq(S) /\ b \in Seq(S)
  BY ListIn
<1> HIDE DEF S
<1>2. a \o b \in Seq(S) /\ Range(a \o b) = Range(a) \cup Range(b)
  BY <1>1, JoinedSeq
<1>3. IsList(a \o b)
  BY <1>2, SeqIsList
<1> QED  BY <1>2, <1>3

(* What is chosen from a list is in the order of the list, each once.      *)
IsChoice(c, l, at) ==
    /\ IsList(c) /\ Len(c) = Cardinality(at) /\ Len(c) = Len(Sorted(at))
    /\ Range(c) = {l[k] : k \in at}
    /\ Lists(Sorted(at), at) /\ \A k \in 1..Len(Sorted(at)) : c[k] = l[Sorted(at)[k]]

LEMMA ChosenFrom ==
    ASSUME NEW l, IsList(l), NEW at, at \subseteq DOMAIN l
    PROVE  IsChoice(Chosen(l, at), l, at)
<1> DEFINE n == Len(l)
           kept == Sorted(at)
           m == Len(kept)
           c == [k \in DOMAIN kept |-> l[kept[k]]]
<1>1. n \in Nat /\ DOMAIN l = 1..n
  BY ListIn
<1>2. IsFiniteSet(at) /\ at \subseteq Int
  <2>1. 1 \in Int /\ n \in Int
    BY <1>1
  <2> HIDE DEF n
  <2>2. IsFiniteSet(1..n)
    BY <2>1, FS_Interval
  <2>3. at \subseteq 1..n
    BY <1>1
  <2>4. IsFiniteSet(at)
    BY <2>2, <2>3, FS_Subset
  <2> QED  BY <2>3, <2>4
<1>3. Lists(kept, at) /\ m = Cardinality(at)
  BY <1>2, SortedLists
<1> HIDE DEF kept
<1>4. /\ m \in Nat /\ DOMAIN kept = 1..m /\ \A k \in 1..m : kept[k] \in at
      /\ \A x \in at : \E k \in 1..m : kept[k] = x
  <2>1. kept \in Seq(at) /\ Range(kept) = at
    BY <1>3 DEF Lists
  <2> QED  BY <2>1, ListRange, LenProperties
<1> DEFINE S == {l[k] : k \in at}
<1>5. c \in [1..m -> S]
  <2>1. \A k \in 1..m : l[kept[k]] \in S
    BY <1>4
  <2> HIDE DEF S, m
  <2> QED  BY <1>4, <2>1
<1>6. c \in Seq(S) /\ DOMAIN c = 1..m
  <2> HIDE DEF c, S, m
  <2> QED  BY <1>4, <1>5
<1>7. Len(c) = m
  <2> HIDE DEF c, S, m
  <2> QED  BY <1>4, <1>6
<1>8. IsList(c)
  <2> HIDE DEF c, S
  <2> QED  BY <1>6, SeqIsList
<1>9. Range(c) = S
  <2>1. Range(c) = {c[k] : k \in 1..m}
    <3> HIDE DEF c
    <3> QED  BY <1>6 DEF Range
  <2>2. \A k \in 1..m : c[k] = l[kept[k]]
    BY <1>4
  <2> HIDE DEF c
  <2> QED  BY <1>4, <2>1, <2>2
<1>10. \A k \in 1..m : c[k] = l[kept[k]]
  BY <1>4
<1>11. Chosen(l, at) = c
  BY DEF Chosen, kept
<1> HIDE DEF c
<1> QED  BY <1>3, <1>7, <1>8, <1>9, <1>10, <1>11 DEF kept, m, IsChoice

(* References are deduplicated to each of them once.                       *)
LEMMA DedupeKeeps ==
    ASSUME NEW refs, IsList(refs)
    PROVE  IsList(Dedupe(refs)) /\ Range(Dedupe(refs)) = Range(refs) /\ NoRepeats(Dedupe(refs))
<1> DEFINE n == Len(refs)
           at == {k \in DOMAIN refs : \A j \in 1..(k - 1) : refs[j] # refs[k]}
           kept == Sorted(at)
           c == Chosen(refs, at)
<1>1. n \in Nat /\ DOMAIN refs = 1..n /\ at \subseteq DOMAIN refs
  BY ListIn
<1>2. Dedupe(refs) = c
  BY DEF Dedupe
<1>3. /\ IsList(c) /\ Len(c) = Len(kept) /\ Range(c) = {refs[k] : k \in at}
      /\ Lists(kept, at) /\ \A k \in 1..Len(kept) : c[k] = refs[kept[k]]
  <2> HIDE DEF at
  <2>1. IsChoice(c, refs, at)
    BY <1>1, ChosenFrom
  <2> HIDE DEF c
  <2> QED  BY <2>1 DEF IsChoice
<1>4. ASSUME NEW x \in Range(refs) PROVE \E k \in at : refs[k] = x
  <2> DEFINE T == {k \in 1..n : refs[k] = x}
             i == Min(T)
  <2>1. T # {}
    BY <1>1 DEF Range
  <2>2. T \in SUBSET Int /\ IsFiniteSet(T)
    <3>1. IsFiniteSet(1..n)
      <4>1. 1 \in Int /\ n \in Int
        BY <1>1
      <4> HIDE DEF n
      <4> QED  BY <4>1, FS_Interval
    <3>2. T \subseteq 1..n
      OBVIOUS
    <3>3. IsFiniteSet(T)
      <4> HIDE DEF T, n
      <4> QED  BY <3>1, <3>2, FS_Subset
    <3> HIDE DEF n
    <3> QED  BY <3>3
  <2>3. i \in T /\ \A y \in T : i <= y
    <3> HIDE DEF T
    <3> QED  BY <2>1, <2>2, LeastOfNumbers
  <2> HIDE DEF i
  <2>4. i \in 1..n /\ refs[i] = x
    BY <2>3
  <2>5. \A j \in 1..(i - 1) : refs[j] # refs[i]
    <3> SUFFICES ASSUME NEW j \in 1..(i - 1), refs[j] = x PROVE FALSE
      BY <2>4
    <3>1. j \in 1..n /\ j < i
      BY <1>1, <2>4
    <3>2. j \in T
      BY <3>1
    <3>3. i <= j
      BY <2>3, <3>2
    <3> QED  BY <2>4, <3>1, <3>3
  <2> QED  BY <1>1, <2>4, <2>5
<1>5. Range(c) = Range(refs)
  <2>1. {refs[k] : k \in at} \subseteq Range(refs)
    BY DEF Range
  <2> HIDE DEF at
  <2> QED  BY <1>3, <1>4, <2>1
<1>6. \A j, k \in at : refs[j] = refs[k] => j = k
  <2> SUFFICES ASSUME NEW j \in at, NEW k \in at, refs[j] = refs[k], j < k PROVE FALSE
    BY <1>1
  <2>1. j \in 1..(k - 1)
    BY <1>1
  <2> QED  BY <2>1
<1>7. NoRepeats(c)
  <2> SUFFICES ASSUME NEW j \in 1..Len(kept), NEW k \in 1..Len(kept), c[j] = c[k] PROVE j = k
    BY <1>3 DEF NoRepeats
  <2>1. kept \in Seq(at) /\ \A h, i \in 1..Len(kept) : kept[h] = kept[i] => h = i
    BY <1>3 DEF Lists
  <2>2. kept[j] \in at /\ kept[k] \in at
    <3> HIDE DEF at, kept
    <3> QED  BY <2>1
  <2>3. kept[j] = kept[k]
    <3> HIDE DEF at, kept, c
    <3> QED  BY <1>3, <1>6, <2>2
  <2> HIDE DEF kept
  <2> QED  BY <2>1, <2>3
<1> HIDE DEF c
<1> QED  BY <1>2, <1>3, <1>5, <1>7

(* The service of a story is one of the list, and there is none only when  *)
(* none names the story, or its context where no service names stories.    *)
Unserved(story, services) ==
    \A v \in Range(services) :
        /\ story.id \notin v.story_ids
        /\ \/ story.context = "" \/ v.context # story.context
           \/ \E w \in Range(services) : w.story_ids # {}

LEMMA FirstIsOne ==
    ASSUME NEW list, IsList(list), NEW at, at \subseteq DOMAIN list
    PROVE  /\ FirstOf(list, at) = {} <=> at = {}
           /\ at # {} => \E k \in DOMAIN list : FirstOf(list, at) = {list[k]}
<1>1. CASE at = {}
  BY <1>1 DEF FirstOf
<1>2. CASE at # {}
  <2> DEFINE n == Len(list)
  <2>1. n \in Nat /\ DOMAIN list = 1..n
    BY ListIn
  <2>2. IsFiniteSet(1..n)
    <3>1. 1 \in Int /\ n \in Int
      BY <2>1
    <3> HIDE DEF n
    <3> QED  BY <3>1, FS_Interval
  <2> HIDE DEF n
  <2>3. at \in SUBSET Int /\ IsFiniteSet(at)
    BY <2>1, <2>2, FS_Subset
  <2>4. Min(at) \in at
    BY <1>2, <2>3, LeastOfNumbers
  <2> QED  BY <1>2, <2>4 DEF FirstOf
<1> QED  BY <1>1, <1>2

LEMMA ServiceFound ==
    ASSUME NEW story, NEW services, IsList(services)
    PROVE  /\ ServiceOf(story, services) = {} <=> Unserved(story, services)
           /\ ServiceOf(story, services) # {} =>
                 \E v \in Range(services) : ServiceOf(story, services) = {v}
<1> DEFINE D == DOMAIN services
           byContext == {k \in D : story.context # "" /\ services[k].context = story.context}
           byName == {k \in D : story.id \in services[k].story_ids}
           found == ServiceOf(story, services)
           nameless == \A s \in Range(services) : s.story_ids = {}
<1>1. \A v : v \in Range(services) <=> \E k \in D : services[k] = v
  BY DEF Range
<1>2. found = IF nameless THEN FirstOf(services, byContext) ELSE FirstOf(services, byName)
  BY DEF ServiceOf
<1>3. /\ FirstOf(services, byContext) = {} <=> byContext = {}
      /\ byContext # {} => \E k \in D : FirstOf(services, byContext) = {services[k]}
      /\ FirstOf(services, byName) = {} <=> byName = {}
      /\ byName # {} => \E k \in D : FirstOf(services, byName) = {services[k]}
  <2>1. byContext \subseteq DOMAIN services /\ byName \subseteq DOMAIN services
    OBVIOUS
  <2> HIDE DEF byContext, byName
  <2> QED  BY <2>1, FirstIsOne
<1>4. CASE nameless
  <2>1. byContext = {} <=> Unserved(story, services)
    BY <1>1, <1>4 DEF Unserved
  <2> HIDE DEF byContext, byName
  <2> QED  BY <1>1, <1>2, <1>3, <1>4, <2>1
<1>5. CASE ~nameless
  <2>1. byName = {} <=> Unserved(story, services)
    BY <1>1, <1>5 DEF Unserved
  <2> HIDE DEF byContext, byName
  <2> QED  BY <1>1, <1>2, <1>3, <1>5, <2>1
<1> QED  BY <1>4, <1>5

LEMMA ItemOfStory ==
    ASSUME NEW story, IsList(story.evidence), NEW services, NEW design, AreServices(services, design)
    PROVE  /\ Item(story, services, design).story = story.id
           /\ Range(story.evidence) \subseteq Range(Item(story, services, design).refs)
           /\ Item(story, services, design).status = "blocked" <=> Unserved(story, services)
<1> DEFINE found == ServiceOf(story, services)
           item == Item(story, services, design)
<1>1. found = {} <=> Unserved(story, services)
  BY ServiceFound DEF AreServices
<1>2. CASE found = {}
  <2>1. item = [story |-> story.id, depends_on |-> story.depends_on, status |-> "blocked",
                refs |-> Dedupe(story.evidence)]
    BY <1>2 DEF Item
  <2>2. Range(Dedupe(story.evidence)) = Range(story.evidence)
    BY DedupeKeeps
  <2> HIDE DEF item, found
  <2> QED  BY <1>1, <1>2, <2>1, <2>2 DEF item, found
<1>3. CASE found # {}
  <2>1. PICK v \in Range(services) : found = {v}
    BY <1>3, ServiceFound DEF AreServices
  <2> DEFINE refs == story.evidence \o DomainRefs(design, v.context) \o v.evidence
  <2>2. (CHOOSE x \in found : TRUE) = v
    BY <2>1
  <2>3. item = [story |-> story.id, depends_on |-> story.depends_on, status |-> "pending",
                refs |-> Dedupe(refs)]
    BY <1>3, <2>2 DEF Item
  <2>4. IsList(refs) /\ Range(story.evidence) \subseteq Range(refs)
    <3> DEFINE d == DomainRefs(design, v.context)
               a == story.evidence \o d
    <3>1. IsList(d)
      BY JoinedLists DEF DomainRefs, AreServices
    <3> HIDE DEF d
    <3>2. IsList(a) /\ Range(story.evidence) \subseteq Range(a)
      BY <3>1, JoinedLists
    <3>3. refs = a \o v.evidence /\ IsList(v.evidence)
      BY DEF AreServices, d
    <3> HIDE DEF a, refs
    <3>4. IsList(refs) /\ Range(refs) = Range(a) \cup Range(v.evidence)
      BY <3>2, <3>3, JoinedLists
    <3> QED  BY <3>2, <3>4
  <2> HIDE DEF refs
  <2>5. Range(Dedupe(refs)) = Range(refs)
    BY <2>4, DedupeKeeps
  <2> HIDE DEF item, found
  <2> QED  BY <1>1, <1>3, <2>3, <2>4, <2>5 DEF item, found
<1> QED  BY <1>2, <1>3

(* Every story of a backlog is on the plan, as blocked exactly when no     *)
(* service builds it and else with the source of its evidence              *)
(* (build_story_codegen_plan).                                             *)
THEOREM StoriesAreListed ==
    ASSUME NEW stories, IsBacklog(stories), \A s \in Range(stories) : IsList(s.evidence),
           NEW services, NEW design, AreServices(services, design)
    PROVE  EveryStoryIsListed(stories, services, design)
<1> DEFINE order == OrderedStories(stories)
           plan == BuildStoryCodegenPlan(stories, services, design)
<1>1. Range(order) = Range(stories)
  BY WorkListsAreOrdered DEF WorkListIsOrdered
<1>2. plan = [k \in DOMAIN order |-> Item(order[k], services, design)]
  BY DEF BuildStoryCodegenPlan
<1> HIDE DEF plan, order
<1>3. Range(plan) = {Item(s, services, design) : s \in Range(stories)}
  BY <1>1, <1>2 DEF Range
<1>4. \A s \in Range(stories) :
        /\ Item(s, services, design).story = s.id
        /\ Range(s.evidence) \subseteq Range(Item(s, services, design).refs)
        /\ Item(s, services, design).status = "blocked" <=> Unserved(s, services)
  BY ItemOfStory
<1>5. {i.story : i \in Range(plan)} = StoryIds(stories)
  BY <1>3, <1>4 DEF StoryIds
<1>6. \A r, s \in Range(stories) : r.id = s.id => r = s
  BY DEF Range, IsBacklog
<1>7. ASSUME NEW i \in Range(plan), NEW s \in Range(stories), i.story = s.id
      PROVE  /\ Range(s.evidence) \subseteq Range(i.refs)
             /\ i.status = "blocked" <=> Unserved(s, services)
  <2>1. PICK r \in Range(stories) : i = Item(r, services, design)
    BY <1>3
  <2>2. r = s
    BY <1>4, <1>6, <1>7, <2>1
  <2> QED  BY <1>4, <2>1, <2>2
<1> QED  BY <1>5, <1>7 DEF EveryStoryIsListed, plan, Unserved

----------------------------------------------------------------------------

(* What the sources of a list add up to, one after the other.              *)
Sized(l) == IsList(l) /\ \A k \in DOMAIN l : l[k].size \in Int

SumsUp(l, u) ==
    /\ u \in [0..Len(l) -> Int] /\ u[0] = 0
    /\ \A k \in Nat : k < Len(l) => u[k + 1] = u[k] + l[k + 1].size
    /\ SizeOf(l) = u[Len(l)]

LEMMA SizesAdd ==
    ASSUME NEW l, Sized(l)
    PROVE  \E u : SumsUp(l, u)
<1> DEFINE N == Len(l)
           X == Int
           step == [k \in 1..N |-> [y \in X |-> y + l[k].size]]
           Adding(h) == h = [k \in 0..N |-> IF k = 0 THEN 0 ELSE h[k - 1] + l[k].size]
           u == CHOOSE h : Adding(h)
<1>1. N \in Nat /\ DOMAIN l = 1..N /\ \A k \in 1..N : l[k].size \in Int
  BY ListIn DEF Sized
<1>2. step \in [1..N -> [X -> X]]
  <2>1. \A y \in X, k \in 1..N : y + l[k].size \in X
    BY <1>1
  <2> HIDE DEF X, N
  <2> QED  BY <2>1
<1>3. (\E h : Stepped(h, N, 0, step)) /\ \A h : Stepped(h, N, 0, step) => h \in [0..N -> X]
  <2>1. 0 \in X
    OBVIOUS
  <2> HIDE DEF N, X, step
  <2> QED  BY ONLY <1>1, <1>2, <2>1, StepByStep
<1>4. ASSUME NEW h, Stepped(h, N, 0, step) PROVE Adding(h)
  <2>1. h \in [0..N -> X]
    BY <1>3, <1>4
  <2>2. ASSUME NEW k \in 1..N PROVE step[k][h[k - 1]] = h[k - 1] + l[k].size
    <3>1. h[k - 1] \in X
      <4> HIDE DEF X, N
      <4> QED  BY <1>1, <2>1
    <3> HIDE DEF X
    <3> QED  BY <3>1
  <2>3. \A k \in 0..N : k # 0 => k \in 1..N
    BY <1>1
  <2>4. h = [k \in 0..N |-> IF k = 0 THEN 0 ELSE step[k][h[k - 1]]]
    BY <1>4 DEF Stepped
  <2> HIDE DEF step, N
  <2> QED  BY <2>2, <2>3, <2>4
<1>5. Adding(u)
  <2> HIDE DEF Adding, step, X, N
  <2> QED  BY <1>3, <1>4
<1>6. SizeOf(l) = u[N]
  BY DEF SizeOf
<1> HIDE DEF u, step
<1>7. \A k \in 0..N : u[k] = IF k = 0 THEN 0 ELSE u[k - 1] + l[k].size
  BY <1>5
<1>8. u[0] = 0 /\ \A k \in Nat : k < N => u[k + 1] = u[k] + l[k + 1].size
  <2>1. 0 \in 0..N /\ \A k \in Nat : k < N => k + 1 \in 0..N /\ k + 1 # 0 /\ (k + 1) - 1 = k
    BY <1>1
  <2> HIDE DEF N
  <2> QED  BY <1>7, <2>1
<1> DEFINE AllInt == {k \in Nat : k <= N => u[k] \in Int}
<1>9. 0 \in AllInt
  BY <1>8
<1>10. ASSUME NEW k \in AllInt PROVE k + 1 \in AllInt
  <2> SUFFICES ASSUME k + 1 <= N PROVE u[k + 1] \in Int
    OBVIOUS
  <2>1. k \in Nat /\ k < N /\ u[k] \in Int /\ k + 1 \in 1..N
    BY <1>1
  <2> QED  BY <1>1, <1>8, <2>1
<1>11. AllInt = Nat
  <2>1. AllInt \in SUBSET Nat
    OBVIOUS
  <2> HIDE DEF AllInt
  <2> QED  BY <1>9, <1>10, <2>1, EveryNumber
<1>12. u \in [0..N -> Int]
  <2>1. \A k \in 0..N : u[k] \in Int
    BY <1>1, <1>11
  <2>2. DOMAIN u = 0..N /\ u = [k \in 0..N |-> u[k]]
    <3> DEFINE f == [k \in 0..N |-> IF k = 0 THEN 0 ELSE u[k - 1] + l[k].size]
    <3>1. u = f
      BY <1>5
    <3>2. f = [k \in DOMAIN f |-> f[k]] /\ DOMAIN f = 0..N
      OBVIOUS
    <3> HIDE DEF f
    <3> QED  BY <3>1, <3>2
  <2> HIDE DEF N
  <2> QED  BY <2>1, <2>2
<1> QED  BY <1>6, <1>8, <1>12 DEF SumsUp

LEMMA BeginningOf ==
    ASSUME NEW l, IsList(l), NEW j \in 0..Len(l)
    PROVE  /\ IsList(SubSeq(l, 1, j)) /\ Len(SubSeq(l, 1, j)) = j
           /\ \A k \in 1..j : SubSeq(l, 1, j)[k] = l[k]
<1> DEFINE S == Range(l)
<1>1. l \in Seq(S) /\ Len(l) \in Nat
  BY ListIn
<1> HIDE DEF S
<1>2. SubSeq(l, 1, j) \in Seq(S)
  <2>1. \A k \in 1..j : l[k] \in S
    BY <1>1
  <2> QED  BY <1>1, <2>1, SubSeqProperties
<1>3. Len(SubSeq(l, 1, j)) = j /\ \A k \in 1..j : SubSeq(l, 1, j)[k] = l[k]
  BY <1>1, SubSeqProperties
<1>4. IsList(SubSeq(l, 1, j))
  BY <1>2, SeqIsList
<1> QED  BY <1>3, <1>4

LEMMA OneMoreSized ==
    ASSUME NEW l, Sized(l), NEW j \in Nat, j < Len(l)
    PROVE  /\ SizeOf(SubSeq(l, 1, j + 1)) = SizeOf(SubSeq(l, 1, j)) + l[j + 1].size
           /\ SizeOf(SubSeq(l, 1, 0)) = 0
           /\ SizeOf(SubSeq(l, 1, j)) \in Int
<1> DEFINE a == SubSeq(l, 1, j)
           b == SubSeq(l, 1, j + 1)
           z == SubSeq(l, 1, 0)
<1>1. IsList(l) /\ Len(l) \in Nat /\ DOMAIN l = 1..Len(l) /\ \A k \in 1..Len(l) : l[k].size \in Int
  BY ListIn DEF Sized
<1>2. j \in 0..Len(l) /\ j + 1 \in 0..Len(l) /\ 0 \in 0..Len(l)
  BY <1>1
<1>3. /\ IsList(a) /\ Len(a) = j /\ (\A k \in 1..j : a[k] = l[k])
      /\ IsList(b) /\ Len(b) = j + 1 /\ (\A k \in 1..(j + 1) : b[k] = l[k])
      /\ IsList(z) /\ Len(z) = 0
  BY <1>1, <1>2, BeginningOf
<1> HIDE DEF a, b, z
<1>4. Sized(a) /\ Sized(b) /\ Sized(z)
  <2>1. DOMAIN a = 1..j /\ DOMAIN b = 1..(j + 1) /\ DOMAIN z = 1..0
    BY <1>3, ListIn
  <2>2. \A k \in 1..(j + 1) : k \in 1..Len(l)
    BY <1>1
  <2>3. \A k \in 1..j : k \in 1..(j + 1)
    OBVIOUS
  <2> QED  BY <1>1, <1>3, <2>1, <2>2, <2>3 DEF Sized
<1>5. PICK u : SumsUp(a, u)
  BY <1>4, SizesAdd
<1>6. PICK v : SumsUp(b, v)
  BY <1>4, SizesAdd
<1>7. PICK w : SumsUp(z, w)
  BY <1>4, SizesAdd
<1> DEFINE Alike == {k \in Nat : k <= j => u[k] = v[k]}
<1>8. 0 \in Alike
  BY <1>5, <1>6 DEF SumsUp
<1>9. ASSUME NEW k \in Alike PROVE k + 1 \in Alike
  <2> SUFFICES ASSUME k + 1 <= j PROVE u[k + 1] = v[k + 1]
    OBVIOUS
  <2>1. k \in Nat /\ k < j /\ k < j + 1 /\ k + 1 \in 1..j /\ k + 1 \in 1..(j + 1) /\ u[k] = v[k]
    OBVIOUS
  <2>2. u[k + 1] = u[k] + a[k + 1].size /\ v[k + 1] = v[k] + b[k + 1].size
    BY <1>3, <1>5, <1>6, <2>1 DEF SumsUp
  <2>3. a[k + 1] = b[k + 1]
    BY <1>3, <2>1
  <2> QED  BY <2>1, <2>2, <2>3
<1>10. u[j] = v[j]
  <2>1. Alike = Nat
    <3>1. Alike \in SUBSET Nat
      OBVIOUS
    <3> HIDE DEF Alike
    <3> QED  BY <1>8, <1>9, <3>1, EveryNumber
  <2>2. j \in Alike
    BY <2>1
  <2> QED  BY <2>2
<1>11. SizeOf(a) = u[j] /\ u[j] \in Int /\ SizeOf(z) = 0
  <2>1. j \in 0..j
    OBVIOUS
  <2> QED  BY <1>3, <1>5, <1>7, <2>1 DEF SumsUp
<1>12. SizeOf(b) = v[j] + b[j + 1].size
  <2>1. j < j + 1 /\ j \in Nat
    OBVIOUS
  <2> QED  BY <1>3, <1>6, <2>1 DEF SumsUp
<1>13. b[j + 1] = l[j + 1]
  <2>1. j + 1 \in 1..(j + 1)
    OBVIOUS
  <2> QED  BY <1>3, <2>1
<1> QED  BY <1>10, <1>11, <1>12, <1>13 DEF a, b, z

(* Induction up to a number. *)
LEMMA UpToNumber ==
    ASSUME NEW N \in Nat, NEW S, 0 \in S, \A k \in 1..N : k - 1 \in S => k \in S
    PROVE  \A k \in 0..N : k \in S
<1> DEFINE T == {k \in Nat : k <= N => k \in S}
<1>1. 0 \in T
  OBVIOUS
<1>2. ASSUME NEW k \in T PROVE k + 1 \in T
  <2> SUFFICES ASSUME k + 1 <= N PROVE k + 1 \in S
    OBVIOUS
  <2>1. k \in S /\ k + 1 \in 1..N /\ (k + 1) - 1 = k
    OBVIOUS
  <2> QED  BY <2>1
<1>3. T = Nat
  <2>1. T \in SUBSET Nat
    OBVIOUS
  <2> HIDE DEF T
  <2> QED  BY <1>1, <1>2, <2>1, EveryNumber
<1>4. \A k \in 0..N : k \in Nat /\ k <= N
  OBVIOUS
<1> QED  BY <1>3, <1>4

(* What is defined step by step is defined, and what each step keeps is    *)
(* kept.                                                                   *)
Stepwise(u, N, X, x, step) ==
    /\ u = [k \in 0..N |-> IF k = 0 THEN x ELSE step[k][u[k - 1]]]
    /\ \A k \in 1..N : u[k - 1] \in X

LEMMA StepsExist ==
    ASSUME NEW N \in Nat, NEW X, NEW x, x \in X, NEW step, step \in [1..N -> [X -> X]]
    PROVE  \E u : Stepwise(u, N, X, x, step)
<1>1. PICK u : Stepped(u, N, x, step) /\ u \in [0..N -> X]
  <2>1. (\E u : Stepped(u, N, x, step)) /\ \A u : Stepped(u, N, x, step) => u \in [0..N -> X]
    BY ONLY StepByStep, N \in Nat, x \in X, step \in [1..N -> [X -> X]]
  <2> QED  BY <2>1
<1>2. \A k \in 1..N : k - 1 \in 0..N
  OBVIOUS
<1> QED  BY <1>1, <1>2 DEF Stepped, Stepwise

(* Lists put together one after the other: a list of what they list.       *)
Joins(f, ll, S) ==
    /\ f[1] = ll[1]
    /\ \A i \in 2..Len(ll) : f[i] = f[i - 1] \o ll[i]
    /\ \A i \in 1..Len(ll) : f[i] \in Seq(S)

LEMMA JoinSteps ==
    ASSUME NEW S, NEW ll, ll \in Seq(Seq(S)), Len(ll) # 0
    PROVE  \E f : FlattenSeq(ll) = f[Len(ll)] /\ Joins(f, ll, S)
<1> DEFINE X == Seq(S)
           n == Len(ll)
           N == n - 1
           step == [k \in 1..N |-> [y \in X |-> y \o ll[k + 1]]]
           Joining(h) == h = [i \in 1..n |-> IF i = 1 THEN ll[i] ELSE h[i - 1] \o ll[i]]
           f == CHOOSE h : Joining(h)
<1>1. n \in Nat /\ \A k \in 1..n : ll[k] \in X
  <2>1. ll \in Seq(X)
    OBVIOUS
  <2> HIDE DEF X
  <2> QED  BY <2>1
<1>2. N \in Nat /\ 1 \in 1..n /\ \A k \in 1..N : k + 1 \in 1..n
  BY <1>1
<1>3. \A y, w \in X : y \o w \in X
  OBVIOUS
<1>4. step \in [1..N -> [X -> X]]
  <2>1. \A y \in X, k \in 1..N : y \o ll[k + 1] \in X
    BY <1>1, <1>2, <1>3
  <2> HIDE DEF X, N
  <2> QED  BY <2>1
<1>5. PICK u : /\ u = [k \in 0..N |-> IF k = 0 THEN ll[1] ELSE step[k][u[k - 1]]]
               /\ \A k \in 1..N : u[k - 1] \in X
  <2>1. ll[1] \in X
    BY <1>1, <1>2
  <2>2. \E h : Stepwise(h, N, X, ll[1], step)
    <3> HIDE DEF N, X, step
    <3> QED  BY ONLY <1>2, <1>4, <2>1, StepsExist
  <2> HIDE DEF N, X, step
  <2> QED  BY <2>2 DEF Stepwise
<1>6. \A i \in 1..n : i - 1 \in 0..N /\ (i - 1 # 0 <=> i # 1) /\ (i # 1 => i - 1 \in 1..N /\ (i - 1) + 1 = i /\ i - 1 \in 1..n)
  BY <1>1
<1>7. \A i \in 1..n : u[i - 1] = IF i = 1 THEN ll[i] ELSE u[(i - 1) - 1] \o ll[i]
  <2> SUFFICES ASSUME NEW i \in 1..n PROVE u[i - 1] = IF i = 1 THEN ll[i] ELSE u[(i - 1) - 1] \o ll[i]
    OBVIOUS
  <2>1. u[i - 1] = IF i = 1 THEN ll[1] ELSE step[i - 1][u[(i - 1) - 1]]
    <3> HIDE DEF N, X, step
    <3> QED  BY <1>5, <1>6
  <2>2. ASSUME i # 1 PROVE step[i - 1][u[(i - 1) - 1]] = u[(i - 1) - 1] \o ll[i]
    <3>1. i - 1 \in 1..N /\ (i - 1) + 1 = i
      BY <1>6, <2>2
    <3>2. u[(i - 1) - 1] \in X
      <4> HIDE DEF N, X, step
      <4> QED  BY <1>5, <3>1
    <3> HIDE DEF X
    <3> QED  BY <3>1, <3>2
  <2> HIDE DEF step
  <2> QED  BY <2>1, <2>2
<1>8. Joining(f)
  <2> DEFINE g == [i \in 1..n |-> u[i - 1]]
  <2>1. Joining(g)
    <3> HIDE DEF N, X, step
    <3> QED  BY <1>6, <1>7
  <2> HIDE DEF Joining, g
  <2> QED  BY <2>1
<1>9. FlattenSeq(ll) = f[n]
  BY DEF FlattenSeq
<1> HIDE DEF f, step
<1>10. \A i \in 1..n : f[i] = IF i = 1 THEN ll[i] ELSE f[i - 1] \o ll[i]
  BY <1>8
<1>11. \A i \in 1..n : f[i] \in X
  <2> DEFINE In == {k \in 0..N : f[k + 1] \in X}
  <2>1. 0 \in In
    <3> HIDE DEF X
    <3>1. f[0 + 1] \in X
      BY <1>1, <1>2, <1>10
    <3> QED  BY <1>2, <3>1
  <2>2. ASSUME NEW k \in 1..N, k - 1 \in In PROVE k \in In
    <3>1. k + 1 \in 1..n /\ k + 1 # 1 /\ (k + 1) - 1 = k /\ (k - 1) + 1 = k /\ k \in 0..N
      BY <1>2
    <3>2. f[k] \in X
      BY <2>2, <3>1
    <3>3. f[k + 1] = f[k] \o ll[k + 1]
      <4> DEFINE i == k + 1
      <4>1. i \in 1..n /\ i # 1 /\ i - 1 = k
        BY <3>1
      <4> HIDE DEF i
      <4>2. f[i] = f[i - 1] \o ll[i]
        BY <1>10, <4>1
      <4> QED  BY <4>1, <4>2 DEF i
    <3>4. f[k + 1] \in X
      <4> HIDE DEF X
      <4> QED  BY <1>1, <1>3, <3>1, <3>2, <3>3
    <3> QED  BY <3>1, <3>4
  <2> HIDE DEF In
  <2>3. \A k \in 0..N : k \in In
    <3> HIDE DEF N
    <3> QED  BY <1>2, <2>1, <2>2, UpToNumber
  <2>4. \A i \in 1..n : i - 1 \in 0..N /\ (i - 1) + 1 = i
    BY <1>1
  <2> HIDE DEF X
  <2> QED  BY <2>3, <2>4 DEF In
<1>12. f[1] = ll[1] /\ \A i \in 2..n : f[i] = f[i - 1] \o ll[i]
  <2>1. \A i \in 2..n : i \in 1..n /\ i # 1
    BY <1>1
  <2> QED  BY <1>2, <1>10, <2>1
<1>13. Joins(f, ll, S)
  BY <1>11, <1>12 DEF Joins
<1> HIDE DEF n
<1> QED  BY <1>9, <1>13 DEF n

LEMMA FlattenStays ==
    ASSUME NEW S, NEW ll, ll \in Seq(Seq(S))
    PROVE  FlattenSeq(ll) \in Seq(S)
<1>1. CASE Len(ll) = 0
  <2> DEFINE X == Seq(S)
  <2>1. ll = <<>>
    <3>1. ll \in Seq(X)
      OBVIOUS
    <3> HIDE DEF X
    <3> QED  BY <1>1, <3>1
  <2> QED  BY <1>1, <2>1 DEF FlattenSeq
<1>2. CASE Len(ll) # 0
  <2>1. PICK f : FlattenSeq(ll) = f[Len(ll)] /\ Joins(f, ll, S)
    BY <1>2, JoinSteps
  <2>2. Len(ll) \in 1..Len(ll)
    <3> DEFINE X == Seq(S)
    <3>1. ll \in Seq(X)
      OBVIOUS
    <3> HIDE DEF X
    <3> QED  BY <1>2, <3>1
  <2> QED  BY <2>1, <2>2 DEF Joins
<1> QED  BY <1>1, <1>2

LEMMA PairBounds ==
    ASSUME NEW a \in Int, NEW b \in Int
    PROVE  /\ Min({a, b}) \in {a, b} /\ Min({a, b}) <= a /\ Min({a, b}) <= b
           /\ Max({a, b}) \in {a, b} /\ Max({a, b}) >= a /\ Max({a, b}) >= b
<1> DEFINE S == {a, b}
<1>1. IsFiniteSet(S)
  <2>1. S = {a} \cup {b}
    OBVIOUS
  <2> HIDE DEF S
  <2> QED  BY <2>1, FS_Singleton, FS_Union
<1>2. S \in SUBSET Int /\ a \in S /\ b \in S
  OBVIOUS
<1>3. Min(S) \in S /\ (\A y \in S : Min(S) <= y) /\ Max(S) \in S /\ \A y \in S : Max(S) >= y
  <2> HIDE DEF S
  <2> QED  BY <1>1, <1>2, LeastOfNumbers, GreatestOfNumbers
<1> QED  BY <1>2, <1>3

LEMMA TurnsInBounds ==
    ASSUME NEW units \in Nat, NEW lo \in Int, NEW hi \in Int
    PROVE  TurnsFor(units, lo, hi) >= lo /\ (lo <= hi => TurnsFor(units, lo, hi) <= hi)
<1> DEFINE t == 12 + units \div 6
           m == Min({hi, t})
<1>1. t \in Int
  BY QuotientNatural
<1>2. TurnsFor(units, lo, hi) = Max({lo, m})
  BY DEF TurnsFor
<1> HIDE DEF t
<1>3. m \in Int /\ m <= hi
  <2>1. m \in {hi, t} /\ m <= hi
    BY <1>1, PairBounds
  <2> QED  BY <1>1, <2>1
<1> HIDE DEF m
<1>4. Max({lo, m}) \in {lo, m} /\ Max({lo, m}) >= lo
  BY <1>3, PairBounds
<1> QED  BY <1>2, <1>3, <1>4

(* As much of the sources as fits, from the first on.                      *)
LEMMA PackedUntilFull ==
    ASSUME NEW l, Sized(l), NEW budget \in Nat,
           NEW pack, pack = SubSeq(l, 1, Max({0} \cup {k \in DOMAIN l : Fits(l, k, budget)}))
    PROVE  /\ IsPrefix(pack, l) /\ SizeOf(pack) <= budget /\ IsList(pack)
           /\ Len(pack) \in 0..Len(l) /\ \A k \in 1..Len(pack) : pack[k] = l[k]
           /\ Len(pack) < Len(l) => SizeOf(pack) + l[Len(pack) + 1].size > budget
<1> DEFINE N == Len(l)
           F == {k \in DOMAIN l : Fits(l, k, budget)}
           Z == {0} \cup F
           m == Max(Z)
<1>1. IsList(l) /\ N \in Nat /\ DOMAIN l = 1..N /\ F \subseteq 1..N
  BY ListIn DEF Sized
<1>2. Z \in SUBSET Int /\ IsFiniteSet(Z) /\ Z # {} /\ Z \subseteq 0..N
  <2>1. 0 \in Int /\ N \in Int
    BY <1>1
  <2>2. IsFiniteSet(0..N)
    <3> HIDE DEF N
    <3> QED  BY <2>1, FS_Interval
  <2>3. Z \subseteq 0..N /\ 0 \in Z
    BY <1>1
  <2> HIDE DEF Z, N
  <2>4. IsFiniteSet(Z)
    BY <2>2, <2>3, FS_Subset
  <2> QED  BY <2>3, <2>4
<1>3. m \in Z /\ \A y \in Z : m >= y
  <2> HIDE DEF Z
  <2> QED  BY <1>2, GreatestOfNumbers
<1>4. pack = SubSeq(l, 1, m)
  OBVIOUS
<1> HIDE DEF m, F
<1>5. m \in 0..N /\ m \in Nat
  BY <1>1, <1>2, <1>3
<1>6. IsList(pack) /\ Len(pack) = m /\ \A k \in 1..m : pack[k] = l[k]
  BY <1>1, <1>4, <1>5, BeginningOf
<1>7. SizeOf(pack) <= budget
  <2>1. CASE m = 0
    <3>1. Sized(pack)
      <4>1. DOMAIN pack = 1..0
        BY <1>6, <2>1, ListIn
      <4> QED  BY <1>6, <4>1 DEF Sized
    <3>2. PICK u : SumsUp(pack, u)
      BY <3>1, SizesAdd
    <3>3. SizeOf(pack) = 0
      BY <1>6, <2>1, <3>2 DEF SumsUp
    <3> QED  BY <3>3
  <2>2. CASE m # 0
    <3>1. m \in F
      BY <1>3, <2>2
    <3>2. Fits(l, m, budget)
      BY <3>1 DEF F
    <3>3. m \in 1..m
      BY <1>5, <2>2
    <3> QED  BY <1>4, <3>2, <3>3 DEF Fits
  <2> QED  BY <2>1, <2>2
<1>8. ASSUME m < N PROVE SizeOf(pack) + l[m + 1].size > budget
  <2> DEFINE more == SizeOf(SubSeq(l, 1, m + 1))
  <2>1. more = SizeOf(pack) + l[m + 1].size /\ SizeOf(pack) \in Int
    BY <1>4, <1>5, <1>8, OneMoreSized
  <2>2. l[m + 1].size \in Int /\ m + 1 \in 1..N
    BY <1>1, <1>5, <1>8 DEF Sized
  <2> HIDE DEF more
  <2>3. ~(more <= budget)
    <3> SUFFICES ASSUME more <= budget PROVE FALSE
      OBVIOUS
    <3>1. \A j \in 1..m : SizeOf(SubSeq(l, 1, j)) <= budget
      <4>1. CASE m = 0
        BY <4>1
      <4>2. CASE m # 0
        <5>1. m \in F
          BY <1>3, <4>2
        <5> QED  BY <5>1 DEF F, Fits
      <4> QED  BY <4>1, <4>2
    <3>2. \A j \in 1..(m + 1) : j \in 1..m \/ j = m + 1
      BY <1>5
    <3>3. \A j \in 1..(m + 1) : SizeOf(SubSeq(l, 1, j)) <= budget
      BY <3>1, <3>2 DEF more
    <3>4. m + 1 \in F
      BY <1>1, <2>2, <3>3 DEF F, Fits
    <3>5. m >= m + 1
      BY <1>3, <3>4
    <3> QED  BY <1>5, <3>5
  <2> QED  BY <2>1, <2>2, <2>3
<1>9. IsPrefix(pack, l)
  <2>1. SubSeq(pack, 1, m) = pack
    <3> DEFINE q == SubSeq(pack, 1, m)
    <3>1. m \in 0..Len(pack)
      <4>1. m \in 0..m
        BY <1>5
      <4> QED  BY ONLY <1>6, <4>1
    <3>2. IsList(q) /\ Len(q) = m /\ \A k \in 1..m : q[k] = pack[k]
      BY <1>6, <3>1, BeginningOf
    <3> HIDE DEF q
    <3>3. q = [k \in 1..m |-> q[k]] /\ pack = [k \in 1..m |-> pack[k]]
      BY <1>6, <3>2 DEF IsList
    <3>4. q = pack
      BY <3>2, <3>3
    <3> QED  BY <3>4 DEF q
  <2>2. m <= N
    BY <1>5
  <2> QED  BY <1>4, <1>6, <2>1, <2>2 DEF IsPrefix
<1> HIDE DEF N
<1> QED  BY <1>5, <1>6, <1>7, <1>8, <1>9 DEF N

LEMMA DedupeOf ==
    ASSUME NEW S, NEW refs, refs \in Seq(S)
    PROVE  Dedupe(refs) \in Seq(S) /\ NoRepeats(Dedupe(refs))
<1>1. IsList(refs) /\ Range(refs) \subseteq S
  BY SeqIsList
<1>2. IsList(Dedupe(refs)) /\ Range(Dedupe(refs)) \subseteq S /\ NoRepeats(Dedupe(refs))
  BY <1>1, DedupeKeeps
<1> QED  BY <1>2, ListIn

LEMMA EntitiesOfSlice ==
    ASSUME NEW Refs, NEW InDesign, NEW design, NEW contained, NEW size,
           SliceOf(Refs, InDesign, design, contained, size),
           NEW contexts, contexts \in Seq(InDesign), NEW programs, programs \in Seq(Refs), NEW maxUnits \in Nat
    PROVE  LET entities == Expanded(Targets(TargetRefs(design, contexts), programs, maxUnits), contained)
           IN  entities \in Seq(Refs) /\ NoRepeats(entities)
<1> DEFINE R == Seq(Refs)
           n == Len(contexts)
           members == [k \in DOMAIN contexts |-> design[contexts[k]].members]
           ofMap == [k \in DOMAIN contexts |-> design[contexts[k]].mapped]
           named == TargetRefs(design, contexts)
           targets == Targets(named, programs, maxUnits)
           within == [k \in DOMAIN targets |-> <<targets[k]>> \o contained[targets[k]]]
<1>1. n \in Nat /\ DOMAIN contexts = 1..n /\ \A k \in 1..n : contexts[k] \in InDesign
  BY LenProperties
<1>2. \A c \in InDesign : design[c].members \in R /\ design[c].mapped \in R
  BY DEF SliceOf
<1>3. members \in Seq(R) /\ ofMap \in Seq(R)
  <2>1. \A k \in 1..n : design[contexts[k]].members \in R /\ design[contexts[k]].mapped \in R
    BY <1>1, <1>2
  <2>2. members \in [1..n -> R] /\ ofMap \in [1..n -> R]
    <3> HIDE DEF R, n
    <3> QED  BY <1>1, <2>1
  <2> HIDE DEF members, ofMap, R, n
  <2> QED  BY <1>1, <2>2
<1>4. named \in Seq(Refs)
  <2> DEFINE a == FlattenSeq(members)
             b == FlattenSeq(ofMap)
  <2>1. a \in Seq(Refs) /\ b \in Seq(Refs)
    <3> HIDE DEF members, ofMap
    <3> QED  BY <1>3, FlattenStays DEF R
  <2>2. named = Dedupe(a \o b)
    BY DEF TargetRefs
  <2> HIDE DEF a, b, named
  <2>3. a \o b \in Seq(Refs)
    BY <2>1
  <2> QED  BY <2>2, <2>3, DedupeOf
<1> HIDE DEF named
<1>5. targets \in Seq(Refs)
  <2> DEFINE p == IF Len(programs) < maxUnits THEN Len(programs) ELSE maxUnits
             q == SubSeq(programs, 1, p)
  <2>1. p \in 0..Len(programs)
    BY LenProperties
  <2>2. q \in Seq(Refs)
    <3> HIDE DEF p
    <3>1. IsList(programs) /\ \A k \in 1..Len(programs) : programs[k] \in Refs
      BY SeqIsList
    <3>2. IsList(q) /\ Len(q) = p /\ \A k \in 1..p : q[k] = programs[k]
      BY <2>1, <3>1, BeginningOf
    <3> HIDE DEF q
    <3>3. DOMAIN q = 1..p /\ \A k \in 1..p : k \in 1..Len(programs)
      BY <2>1, <3>2, ListIn, LenProperties
    <3>4. Range(q) \subseteq Refs
      BY <3>1, <3>2, <3>3 DEF Range
    <3> QED  BY <3>2, <3>4, ListIn
  <2> QED  BY <1>4, <2>2 DEF Targets
<1> HIDE DEF targets
<1>6. within \in Seq(R)
  <2> DEFINE m == Len(targets)
  <2>1. m \in Nat /\ DOMAIN targets = 1..m /\ \A k \in 1..m : targets[k] \in Refs
    BY <1>5, LenProperties
  <2>2. \A x \in Refs : <<x>> \o contained[x] \in R
    <3> SUFFICES ASSUME NEW x \in Refs PROVE <<x>> \o contained[x] \in R
      OBVIOUS
    <3>1. contained[x] \in Seq(Refs) /\ <<x>> \in Seq(Refs)
      BY DEF SliceOf
    <3> QED  BY <3>1
  <2>3. within \in [1..m -> R]
    <3> HIDE DEF R, m
    <3> QED  BY <2>1, <2>2
  <2> HIDE DEF within, R, m
  <2> QED  BY <2>1, <2>3
<1>7. FlattenSeq(within) \in Seq(Refs)
  <2> HIDE DEF within
  <2> QED  BY <1>6, FlattenStays DEF R
<1>8. Expanded(targets, contained) = Dedupe(FlattenSeq(within))
  BY DEF Expanded
<1> HIDE DEF within
<1>9. Expanded(targets, contained) \in Seq(Refs) /\ NoRepeats(Expanded(targets, contained))
  BY <1>7, <1>8, DedupeOf
<1> QED  BY <1>9 DEF targets, named

(* Whatever the slice, its pack is what PackIsAPrefix says of it           *)
(* (_slice_pack, _codegen_run_plan).                                       *)
THEOREM PacksArePrefixes ==
    ASSUME NEW Refs, NEW InDesign, NEW design, NEW contained, NEW size,
           SliceOf(Refs, InDesign, design, contained, size),
           NEW contexts, contexts \in Seq(InDesign), NEW programs, programs \in Seq(Refs),
           NEW maxUnits \in Nat, NEW maxChars \in Nat, NEW lo \in Int, NEW hi \in Int
    PROVE  PackIsAPrefix(design, contexts, contained, programs, size, maxUnits, maxChars, lo, hi)
<1> DEFINE entities == Expanded(Targets(TargetRefs(design, contexts), programs, maxUnits), contained)
           n == Len(entities)
           sources == [k \in DOMAIN entities |-> [of |-> entities[k], size |-> size[entities[k]]]]
           at == {k \in DOMAIN sources : k <= maxUnits /\ sources[k].size > 0}
           known == Sourced(sources, maxUnits)
           kept == Sorted(at)
           pack == SlicePack(sources, maxUnits, maxChars)
           plan == CodegenRunPlan(pack, Len(programs), lo, hi, 2)
<1>1. entities \in Seq(Refs) /\ NoRepeats(entities)
  BY EntitiesOfSlice
<1> HIDE DEF entities
<1>2. n \in Nat /\ DOMAIN entities = 1..n /\ \A k \in 1..n : entities[k] \in Refs
  BY <1>1, LenProperties
<1>3. DOMAIN sources = 1..n /\ \A k \in 1..n : sources[k].size \in Int /\ sources[k].of = entities[k]
  BY <1>2 DEF SliceOf
<1>4. IsList(sources)
  <2> DEFINE S == [of : Refs, size : Nat]
  <2>1. \A k \in 1..n : [of |-> entities[k], size |-> size[entities[k]]] \in S
    BY <1>2 DEF SliceOf
  <2>2. sources \in [1..n -> S]
    <3> HIDE DEF S, n
    <3> QED  BY <1>2, <2>1
  <2>3. sources \in Seq(S)
    <3> HIDE DEF S, n, sources
    <3> QED  BY <1>2, <2>2
  <2> HIDE DEF S, sources
  <2> QED  BY <2>3, SeqIsList
<1> HIDE DEF sources, n
<1>5. \A j, k \in 1..n : sources[j] = sources[k] => j = k
  BY <1>1, <1>3 DEF NoRepeats, n
<1>6. known = Chosen(sources, at) /\ at \subseteq 1..n /\ at \subseteq DOMAIN sources
  BY <1>3 DEF Sourced
<1>7. /\ IsList(known) /\ Len(known) = Cardinality(at) /\ Len(known) = Len(kept)
      /\ Lists(kept, at) /\ \A k \in 1..Len(kept) : known[k] = sources[kept[k]]
  <2> DEFINE c == Chosen(sources, at)
  <2> HIDE DEF at
  <2>1. IsChoice(c, sources, at)
    BY <1>4, <1>6, ChosenFrom
  <2> HIDE DEF c, known
  <2> QED  BY <1>6, <2>1 DEF IsChoice, c
<1>8. \A k \in 1..Len(known) : kept[k] \in at /\ known[k] = sources[kept[k]]
  <2>1. kept \in Seq(at)
    BY <1>7 DEF Lists
  <2> HIDE DEF at, known, kept
  <2> QED  BY <1>7, <2>1
<1>9. Sized(known)
  <2>1. DOMAIN known = 1..Len(known)
    <3> HIDE DEF known
    <3> QED  BY <1>7, ListIn
  <2> HIDE DEF known, kept, at
  <2> QED  BY <1>3, <1>6, <1>7, <1>8, <2>1 DEF Sized
<1>10. Len(known) <= maxUnits
  <2>1. IsFiniteSet(1..maxUnits) /\ Cardinality(1..maxUnits) = maxUnits
    <3>1. 1 \in Int /\ maxUnits \in Int
      OBVIOUS
    <3>2. IsFiniteSet(1..maxUnits) /\ Cardinality(1..maxUnits) = IF 1 > maxUnits THEN 0 ELSE maxUnits - 1 + 1
      BY <3>1, FS_Interval
    <3> QED  BY <3>2
  <2>2. at \subseteq 1..maxUnits
    BY <1>2, <1>3
  <2> HIDE DEF at, known
  <2>3. Cardinality(at) <= maxUnits
    BY <2>1, <2>2, FS_Subset
  <2> QED  BY <1>7, <2>3
<1>11. pack = SubSeq(known, 1, Max({0} \cup {k \in DOMAIN known : Fits(known, k, maxChars)}))
  BY DEF SlicePack
<1> HIDE DEF known, pack
<1>12. /\ IsPrefix(pack, known) /\ SizeOf(pack) <= maxChars /\ IsList(pack)
       /\ Len(pack) \in 0..Len(known) /\ \A k \in 1..Len(pack) : pack[k] = known[k]
       /\ Len(pack) < Len(known) => SizeOf(pack) + known[Len(pack) + 1].size > maxChars
  BY <1>9, <1>11, PackedUntilFull
<1>13. Len(pack) <= maxUnits /\ Len(known) \in Nat
  <2>1. Len(known) \in Nat
    BY <1>7, ListIn
  <2> QED  BY <1>10, <1>12, <2>1
<1>14. DOMAIN pack = 1..Len(pack)
  BY <1>12, ListIn
<1>15. \A j, k \in DOMAIN pack : j # k => pack[j] # pack[k]
  <2> SUFFICES ASSUME NEW j \in 1..Len(pack), NEW k \in 1..Len(pack), pack[j] = pack[k] PROVE j = k
    BY <1>14
  <2>1. j \in 1..Len(known) /\ k \in 1..Len(known)
    BY <1>12, <1>13
  <2>2. sources[kept[j]] = sources[kept[k]] /\ kept[j] \in at /\ kept[k] \in at
    <3> HIDE DEF at, kept
    <3> QED  BY <1>8, <1>12, <2>1
  <2>3. kept[j] = kept[k]
    <3> HIDE DEF at, kept
    <3> QED  BY <1>5, <1>6, <2>2
  <2> HIDE DEF at, kept
  <2> QED  BY <1>7, <2>1, <2>3 DEF Lists
<1>16. /\ plan.tools <=> pack = <<>>
       /\ plan.tools => plan.turns >= lo /\ (lo <= hi => plan.turns <= hi)
  <2>1. Len(programs) \in Nat
    BY LenProperties
  <2> DEFINE t == TurnsFor(Len(programs), lo, hi)
  <2>2. t >= lo /\ (lo <= hi => t <= hi)
    BY <2>1, TurnsInBounds
  <2>3. plan = IF pack # <<>> THEN [turns |-> 2, tools |-> FALSE] ELSE [turns |-> t, tools |-> TRUE]
    BY DEF CodegenRunPlan
  <2> HIDE DEF t, plan
  <2> QED  BY <2>2, <2>3
<1> QED  BY <1>12, <1>13, <1>15, <1>16 DEF PackIsAPrefix, pack, known, sources, entities

(* Whatever the cap and the number of stories, the pool a build has by     *)
(* default is what BuildIsFunded says of it (codegen/budget.py).           *)
THEOREM BuildsAreFunded ==
    ASSUME NEW cap \in Int, NEW count \in Int
    PROVE  BuildIsFunded(cap, count)
<1> SUFFICES ASSUME NEW built \in 0..(count - 1), NEW each \in 0..(cap + 1), ~TokensExceeded(cap, each)
             PROVE  PoolExhausted(DefaultPool(cap, count), built * each) <=> cap = 0
  BY DEF BuildIsFunded
<1>1. count \in Nat /\ count >= 1 /\ built \in Nat /\ built <= count - 1 /\ each \in Nat
  OBVIOUS
<1>2. DefaultPool(cap, count) = count * cap
  BY <1>1 DEF DefaultPool
<1>3. \A a, b, c \in Nat : a * b \in Nat /\ a * (b + c) = a * b + a * c /\ (a + b) * c = a * c + b * c
  OBVIOUS
<1>4. CASE cap = 0
  <2>1. count * cap = 0 /\ built * each \in Nat
    BY <1>1, <1>3, <1>4
  <2> QED  BY <1>2, <1>4, <2>1 DEF PoolExhausted
<1>5. CASE cap > 0
  <2>1. cap \in Nat /\ each <= cap
    BY <1>1, <1>5 DEF TokensExceeded
  <2>2. built * cap = built * each + built * (cap - each) /\ built * (cap - each) \in Nat
    <3>1. cap - each \in Nat /\ each + (cap - each) = cap
      BY <1>1, <2>1
    <3> QED  BY <1>1, <1>3, <3>1
  <2>3. count * cap = built * cap + (count - built) * cap
    <3>1. count - built \in Nat /\ built + (count - built) = count
      BY <1>1
    <3> QED  BY <1>1, <1>3, <2>1, <3>1
  <2>4. (count - built) * cap = (count - built - 1) * cap + cap /\ (count - built - 1) * cap \in Nat
    <3>1. count - built - 1 \in Nat /\ (count - built - 1) + 1 = count - built /\ 1 * cap = cap
      BY <1>1, <2>1
    <3> QED  BY <1>3, <2>1, <3>1
  <2>5. built * each \in Nat /\ count * cap \in Nat /\ built * cap \in Nat
    BY <1>1, <1>3, <2>1
  <2> DEFINE used == built * each
             pool == count * cap
  <2>6. used < pool /\ used \in Nat
    BY <1>5, <2>2, <2>3, <2>4, <2>5
  <2> HIDE DEF used, pool
  <2>7. ~PoolExhausted(pool, used)
    BY <2>6, <2>5 DEF PoolExhausted, pool
  <2> QED  BY <1>2, <1>5, <2>7 DEF used, pool
<1>6. CASE cap < 0
  <2>1. cap = -1
    BY <1>6
  <2>2. count * cap < 0
    BY <1>1, <2>1
  <2> QED  BY <1>2, <1>6, <2>2 DEF PoolExhausted
<1> QED  BY <1>4, <1>5, <1>6

----------------------------------------------------------------------------

(* Whatever is drawn is an input.                                          *)
LEMMA InputsAreDrawn == PlanSpec => [](sample = NoSample \/ IsInput(sample))
<1> DEFINE Drawn == sample = NoSample \/ IsInput(sample)
<1>1. PlanInit => Drawn
  BY DEF PlanInit
<1>2. Drawn /\ [Draw]_sample => Drawn'
  <2> SUFFICES ASSUME Drawn, [Draw]_sample PROVE Drawn'
    OBVIOUS
  <2>1. CASE Draw
    BY <2>1 DEF Draw
  <2>2. CASE UNCHANGED sample
    BY <2>2
  <2> QED  BY <2>1, <2>2
<1> QED  BY <1>1, <1>2, PTL DEF PlanSpec

(* The waves and the topological order of every plan, and the rest of what *)
(* EveryPlanIsOrdered says, of any graph that is parsed.                   *)
THEOREM PlansStayOrdered == PlanSpec => []EveryPlanIsOrdered
<1>1. ASSUME sample = NoSample \/ IsInput(sample) PROVE EveryPlanIsOrdered
  <2> SUFFICES ASSUME sample.kind = "graph" PROVE WavesAreOrdered(sample.graph)
    BY DEF EveryPlanIsOrdered
  <2>1. ParsedGraph(sample.graph)
    BY <1>1 DEF IsInput, NoSample
  <2> QED  BY <2>1, EveryPlanIsWhole
<1> QED  BY <1>1, InputsAreDrawn, PTL

(* Nothing of any backlog or slice is left out unsaid: every story is on   *)
(* the work-list, in order, and the pack is a prefix of the slice.         *)
THEOREM InputsStayWhole == PlanSpec => []EveryInputIsWhole
<1>1. ASSUME sample = NoSample \/ IsInput(sample) PROVE EveryInputIsWhole
  <2>1. ASSUME sample.kind = "backlog"
        PROVE  /\ WorkListIsOrdered(sample.stories)
               /\ EveryStoryIsListed(sample.stories, sample.services, sample.design)
    <3>1. /\ IsBacklog(sample.stories) /\ \A t \in Range(sample.stories) : IsList(t.evidence)
          /\ AreServices(sample.services, sample.design)
      BY <1>1, <2>1 DEF IsInput, NoSample
    <3> QED  BY <3>1, WorkListsAreOrdered, StoriesAreListed
  <2>2. ASSUME sample.kind = "slice"
        PROVE  /\ PackIsAPrefix(sample.design, sample.named, sample.contained, sample.programs, sample.size,
                                sample.units, sample.chars, sample.lo, sample.hi)
               /\ BuildIsFunded(sample.cap, sample.count)
    <3>1. /\ SliceOf(DOMAIN sample.size, DOMAIN sample.design, sample.design, sample.contained, sample.size)
          /\ sample.named \in Seq(DOMAIN sample.design) /\ sample.programs \in Seq(DOMAIN sample.size)
          /\ sample.units \in Nat /\ sample.chars \in Nat
          /\ {sample.lo, sample.hi, sample.cap, sample.count} \subseteq Int
      BY <1>1, <2>2 DEF IsInput, NoSample
    <3>2. sample.lo \in Int /\ sample.hi \in Int /\ sample.cap \in Int /\ sample.count \in Int
      BY <3>1
    <3> QED  BY <3>1, <3>2, PacksArePrefixes, BuildsAreFunded
  <2> QED  BY <2>1, <2>2 DEF EveryInputIsWhole, EveryWorkListIsWhole, EveryPackIsAPrefix
<1> QED  BY <1>1, InputsAreDrawn, PTL

(* Every design that meets its gates, derived or decomposed, holds each    *)
(* writing program once, and what is said of it is grounded.               *)
THEOREM WritersStayCovered == PlanSpec => []EveryWriterIsCovered
<1>1. ASSUME sample = NoSample \/ IsInput(sample) PROVE EveryWriterIsCovered
  <2>1. ASSUME sample.kind = "design"
        PROVE  /\ DerivedIsCovered(sample.writes, sample.known, sample.epics, sample.stories)
               /\ SlicesOwnTheirData(sample.writes, sample.known, sample.epics, sample.stories)
    <3>1. Numbered(sample.writes) /\ sample.known # {} /\ IsList(sample.epics) /\ IsList(sample.stories)
      BY <1>1, <2>1 DEF IsInput, NoSample
    <3> QED  BY <3>1, DerivedDesignsAreCovered, SlicesAreJudged
  <2>2. ASSUME sample.kind = "answer"
        PROVE  DecomposedIsCovered(sample.parsed, sample.answers, sample.writers, sample.known, sample.repairs)
    <3>1. /\ ParsedGraph(sample.parsed) /\ sample.answers \in Seq(Seq(AnsweredContext(Words)))
          /\ sample.repairs \in Nat
      BY <1>1, <2>2 DEF IsInput, NoSample
    <3> QED  BY <3>1, DecompositionsAreCovered
  <2>3. ASSUME sample.kind = "narrative"
        PROVE  NarrativesAreGrounded(sample.parsed, sample.known, sample.items)
    <3>1. ParsedGraph(sample.parsed) /\ AreItems(sample.items)
      BY <1>1, <2>3 DEF IsInput, NoSample
    <3> QED  BY <3>1, NarrativesGrounded
  <2> QED  BY <2>1, <2>2, <2>3 DEF EveryWriterIsCovered
<1> QED  BY <1>1, InputsAreDrawn, PTL
=============================================================================
