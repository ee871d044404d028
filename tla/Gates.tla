------------------------------- MODULE Gates -------------------------------
(***************************************************************************)
(* One gate row of a workspace: how a generation stage publishes its       *)
(* verdict (controlplane/gates_util.py) and how a person resolves it       *)
(* (controlplane/workspaces.py submit_approval).  No state of its own: the *)
(* stages that own gates keep the rows and use these operators.            *)
(***************************************************************************)

(* What an approval sets the gate to. *)
Decisions == {"passed", "failed", "waived"}

(* _HUMAN_RESOLVED: the statuses upsert_gate leaves alone. *)
Resolved == {"passed", "failed", "waived"}

(* status: "none" is a gate with no row yet; verdict: result and threshold, *)
(* as the one fact they decide; decision: the last Approval row's.          *)
GateRow == [status : {"none", "open"} \cup Resolved, verdict : BOOLEAN,
            decision : Decisions \cup {"none"}]

NoGate == [status |-> "none", verdict |-> FALSE, decision |-> "none"]

----------------------------------------------------------------------------
(* Mutated form: a re-run recomputes every status.                         *)
UpsertRecomputed(gate, loaded, passed) ==
    [gate EXCEPT !.verdict = passed, !.status = IF passed THEN "passed" ELSE "open"]

(* upsert_gate by a session that loaded the row with status loaded: only a *)
(* status it changes is written, so a decision committed after the load    *)
(* stands unless the run turns "open" into "passed".                       *)
Upsert(gate, loaded, passed) ==
    LET computed == IF passed THEN "passed" ELSE "open"
    IN  [gate EXCEPT !.verdict = passed,
                     !.status  = IF loaded \in Resolved \cup {computed}
                                 THEN gate.status ELSE computed]

(* submit_approval: the decision is recorded and resolves the gate. *)
Decide(gate, decision) == [gate EXCEPT !.status = decision, !.decision = decision]
=============================================================================
