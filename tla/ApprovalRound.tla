---------------------------- MODULE ApprovalRound ----------------------------
(***************************************************************************)
(* What the approval workflow promises about one conversation thread:      *)
(* rounds of planning follow each other; a round is decided only while it  *)
(* waits for a decision, only once, and is completed only when decided.    *)
(***************************************************************************)
EXTENDS Integers

CONSTANT Decision

VARIABLES
    round,      \* rounds started on the thread
    phase,      \* of the current round
    decision    \* in the current round, or "none"

roundVars == <<round, phase, decision>>

Init == round = 0 /\ phase = "new" /\ decision = "none"

Start ==
    /\ round' = round + 1
    /\ phase' = "planning"
    /\ decision' = "none"

Submit ==
    /\ phase = "planning"
    /\ phase' \in {"waiting", "blocked"}
    /\ UNCHANGED <<round, decision>>

Decide(d) ==
    /\ phase = "waiting"
    /\ phase' = "decided"
    /\ decision' = d
    /\ UNCHANGED round

Complete ==
    /\ phase = "decided"
    /\ phase' = "completed"
    /\ UNCHANGED <<round, decision>>

Next ==
    \/ Start
    \/ Submit
    \/ \E d \in Decision : Decide(d)
    \/ Complete

Spec == Init /\ [][Next]_roundVars

=============================================================================
