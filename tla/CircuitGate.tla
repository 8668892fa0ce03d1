---------------------------- MODULE CircuitGate ----------------------------
(***************************************************************************)
(* What a circuit breaker promises its callers, without counters: a gate   *)
(* in front of a dependency that lets calls pass, blocks them, or lets     *)
(* some of them probe the dependency.                                      *)
(*                                                                         *)
(* Only the answer to a call that was let in, or an operator, moves the    *)
(* gate, except that a blocked gate that has cooled down may be probed.    *)
(* Bad news while probing always blocks the gate again.                    *)
(***************************************************************************)
CONSTANT Users

VARIABLES
    gate,      \* "pass", "block" or "probe"
    cooled,    \* the cooldown since the last bad news is over
    busy       \* users whose call was let in and is not answered

gateVars == <<gate, cooled, busy>>

GateInit == gate = "pass" /\ cooled = TRUE /\ busy = {}

Start(u) ==
    /\ u \notin busy
    /\ busy' = busy \cup {u}
    /\ \/ gate # "block" /\ gate' = gate
       \/ gate = "block" /\ cooled = TRUE /\ gate' = "probe"
    /\ UNCHANGED cooled

GoodNews == gate' = "pass" /\ cooled' = cooled
NoNews == gate' = gate /\ cooled' = cooled
BadNews ==
    /\ cooled' = FALSE
    /\ \/ gate' = "block"
       \/ gate # "probe" /\ gate' = gate

Answer(u) ==
    /\ u \in busy
    /\ busy' = busy \ {u}
    /\ GoodNews \/ NoNews \/ BadNews

Cool == cooled = FALSE /\ cooled' = TRUE /\ UNCHANGED <<gate, busy>>

Override == gate' = "pass" /\ cooled' = TRUE /\ UNCHANGED busy

GateNext == (\E u \in Users : Start(u) \/ Answer(u)) \/ Cool \/ Override

GateSpec == GateInit /\ [][GateNext]_gateVars

=============================================================================
