------------------------- MODULE MCSingleFlightCache -------------------------
(* Instances of SingleFlightCache small enough for TLC.                    *)
EXTENDS SingleFlightCache

CONSTANTS c1, c2, c3, k1, k2, k3

MCCallers == {c1, c2, c3}
MCTwoKeys == {k1, k2}
SharedKeys == [c \in Callers |-> Keys]
\* Two callers share k1, the third wants the one place of the cache for k2.
OneSharedKey == [c \in MCCallers |-> IF c = c1 THEN {k2} ELSE {k1}]

\* Eviction has a choice to make when two of three keys are stored.
MCTwoCallers == {c1, c2}
MCThreeKeys == {k1, k2, k3}

=============================================================================
