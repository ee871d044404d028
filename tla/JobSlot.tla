------------------------------ MODULE JobSlot ------------------------------
(***************************************************************************)
(* What jobs.JobRunner promises the status endpoints, one key at a time: a *)
(* slot holds one generation of a job; a generation is settled at most     *)
(* once and only while it is the one in the slot; a generation that was    *)
(* replaced never comes back; a process restart empties every slot.        *)
(* JobRunner implements this specification (JobRunner!SlotSpec).           *)
(***************************************************************************)
EXTENDS Naturals

CONSTANTS Keys,      \* the (kind, workspace) pairs
          MaxRuns    \* bound: how many generations are ever started

VARIABLES slot,      \* [Keys -> [gen, value]]: the generation a reader of the
                     \* key sees, and the one whose outcome it holds (0: none)
          started    \* how many generations were ever begun

slotVars == <<slot, started>>

Empty == [gen |-> 0, value |-> 0]

SlotInit ==
    /\ slot = [k \in Keys |-> Empty]
    /\ started = 0

(* A new generation takes the slot, whatever was in it. *)
Begin(k) ==
    /\ started < MaxRuns
    /\ started' = started + 1
    /\ slot' = [slot EXCEPT ![k] = [gen |-> started + 1, value |-> 0]]

(* The generation in the slot settles, once, with its own outcome. *)
Settle(k) ==
    /\ slot[k].gen # 0 /\ slot[k].value = 0
    /\ slot' = [slot EXCEPT ![k].value = slot[k].gen]
    /\ UNCHANGED started

(* The process restarts: the in-memory slots are gone. *)
Forget ==
    /\ slot' = [k \in Keys |-> Empty]
    /\ UNCHANGED started

SlotNext == Forget \/ \E k \in Keys : Begin(k) \/ Settle(k)

SlotSpec == SlotInit /\ [][SlotNext]_slotVars
=============================================================================
