------------------------- MODULE MCApprovalWorkflow -------------------------
(* Instances of ApprovalWorkflow small enough for TLC.                     *)
EXTENDS ApprovalWorkflow

CONSTANTS r1, r2, w1, w2

TwoClients == {r1, r2}
TwoWorkers == {w1, w2}
OneWorker == {w1}
OwnWorker == [r \in TwoClients |-> IF r = r1 THEN w1 ELSE w2]
SameWorker == [r \in TwoClients |-> w1]

=============================================================================
