------------------------------ MODULE StageJob ------------------------------
(***************************************************************************)
(* What every generation stage promises of its job, whatever it generates: *)
(* the artifact is stored as a new version in Neo4j at once, while what    *)
(* the job did besides (ledger, gates, stage row) is one transaction that  *)
(* lands with the job or not at all.  The stages are shown to implement    *)
(* this specification.                                                     *)
(***************************************************************************)
EXTENDS Naturals

VARIABLES phase,    \* idle, working on it, or stored but not committed
          runs,     \* how many jobs were started
          version,  \* the job that stored the latest version, 0 for none
          landed,   \* the jobs whose transaction was committed
          status    \* what the job runner says, "none" when it knows no job

vars == <<phase, runs, version, landed, status>>

Init ==
    /\ phase = "idle" /\ runs = 0 /\ version = 0
    /\ landed = {} /\ status = "none"

Start ==
    /\ phase = "idle"
    /\ phase' = "working" /\ runs' = runs + 1 /\ status' = "running"
    /\ UNCHANGED <<version, landed>>

Store ==
    /\ phase = "working"
    /\ phase' = "stored" /\ version' = runs
    /\ UNCHANGED <<runs, landed, status>>

Land(result) ==
    /\ phase = "stored"
    /\ phase' = "idle" /\ landed' = landed \cup {runs} /\ status' = result
    /\ UNCHANGED <<runs, version>>

(* The job raises, or the backend goes away under it or after it. *)
Abort ==
    /\ phase # "idle"
    /\ phase' = "idle" /\ status' = "failed"
    /\ UNCHANGED <<runs, version, landed>>

Vanish ==
    /\ phase' = "idle" /\ status' = "none"
    /\ UNCHANGED <<runs, version, landed>>

Next ==
    \/ Start
    \/ Store
    \/ \E result \in {"done", "incomplete"} : Land(result)
    \/ Abort
    \/ Vanish

Spec == Init /\ [][Next]_vars

----------------------------------------------------------------------------
TypeOK ==
    /\ phase \in {"idle", "working", "stored"}
    /\ runs \in Nat /\ version \in 0..runs /\ landed \subseteq 1..runs
    /\ status \in {"none", "running", "done", "incomplete", "failed"}

(* A job that reports an outcome of its own stored the latest version and  *)
(* its transaction was committed; no later job has got in between.         *)
DoneIsLanded ==
    status \in {"done", "incomplete"} => version = runs /\ runs \in landed
=============================================================================
