------------------------ MODULE CircuitBreakerProofs ------------------------
(***************************************************************************)
(* Proofs about CircuitBreaker for every set of callers, every threshold,  *)
(* capacity and cooldown.                                                  *)
(***************************************************************************)
EXTENDS CircuitBreaker, FiniteSetTheorems, TLAPS

\* Every step leaves the variables in their types; in particular the counters
\* that the code decrements never go below zero.
THEOREM TypeCorrect == Spec => []TypeOK
<1> USE BreakerAssumption DEF TypeOK, CircuitState, Admission, ElapsedCap
<1>1. Init => TypeOK
  <2> SUFFICES ASSUME Init
               PROVE  TypeOK
    OBVIOUS
  <2>1. healthy \in BOOLEAN
    BY DEF Init
  <2> QED
    BY <2>1 DEF Init
<1>2. ASSUME TypeOK, [Next]_vars
      PROVE  TypeOK'
  <2> USE TypeOK
  <2>1. ASSUME NEW c \in Callers, Admit(c)
        PROVE  TypeOK'
    BY <2>1 DEF Admit, AdmitRegular, AdmitTrial, AdmitFirstTrial, CooldownOver, breakerVars,
                historyVars
  <2>2. ASSUME NEW c \in Callers, Succeed(c)
        PROVE  TypeOK'
    BY <2>2 DEF Succeed, Leave, ReleaseSlotIfHalfOpen, Decrement, Close
  <2>3. ASSUME NEW c \in Callers, FailTransient(c)
        PROVE  TypeOK'
    BY <2>3 DEF FailTransient, Trips, Leave, ReleaseSlotIfHalfOpen, Decrement, UpTo
  <2>4. ASSUME NEW c \in Callers, FailPermanent(c)
        PROVE  TypeOK'
    BY <2>4 DEF FailPermanent, Leave, ReleaseSlotIfHalfOpen, Decrement,
                historyVars
  <2>5. ASSUME NEW c \in Callers, TimeOut(c)
        PROVE  TypeOK'
    BY <2>5 DEF TimeOut, Leave, UpTo, breakerVars, historyVars
  <2>6. CASE reset
    BY <2>6 DEF reset
  <2>7. CASE Tick
    BY <2>7 DEF Tick, historyVars
  <2>8. CASE Heal
    BY <2>8 DEF Heal, breakerVars, historyVars
  <2>9. CASE UNCHANGED vars
    BY <2>9 DEF vars, breakerVars, historyVars
  <2> QED
    BY <1>2, <2>1, <2>2, <2>3, <2>4, <2>5, <2>6, <2>7, <2>8, <2>9
       DEF Next, Finish
<1> QED
  BY <1>1, <1>2, PTL DEF Spec

-----------------------------------------------------------------------------

\* The safety invariants are inductive together once the counter is placed
\* between the two histories: it never falls below the current streak of
\* failures, nor exceeds the failures since the circuit was closed, as far as
\* each of them is counted.
CounterBracketed ==
    /\ UpTo(FailureCountCap, failureStreak) <= failure_count
    /\ UpTo(HistoryCap, failure_count) <= failuresSinceClosed

IInv ==
    /\ CountersAgreeWithState
    /\ CounterBracketed

LEMMA InvariantPreserved ==
    ASSUME TypeOK, IInv, [Next]_vars
    PROVE  IInv'
<1> USE BreakerAssumption DEF TypeOK, IInv, CountersAgreeWithState,
        CounterBracketed, UpTo, CircuitState
<1>1. ASSUME NEW c \in Callers, Admit(c)
      PROVE  IInv'
  BY <1>1 DEF Admit, AdmitRegular, AdmitTrial, AdmitFirstTrial, CooldownOver, breakerVars,
              historyVars
<1>2. ASSUME NEW c \in Callers, Succeed(c)
      PROVE  IInv'
  BY <1>2 DEF Succeed, ReleaseSlotIfHalfOpen, Decrement, Close
<1>3. ASSUME NEW c \in Callers, FailTransient(c)
      PROVE  IInv'
  BY <1>3 DEF FailTransient, Trips, ReleaseSlotIfHalfOpen, Decrement, UpTo
<1>4. ASSUME NEW c \in Callers, FailPermanent(c)
      PROVE  IInv'
  BY <1>4 DEF FailPermanent, ReleaseSlotIfHalfOpen, Decrement, historyVars
<1>5. ASSUME NEW c \in Callers, TimeOut(c)
      PROVE  IInv'
  BY <1>5 DEF TimeOut, breakerVars, historyVars
<1>6. CASE reset
  BY <1>6 DEF reset
<1>7. CASE Tick
  BY <1>7 DEF Tick, historyVars
<1>8. CASE Heal
  BY <1>8 DEF Heal, breakerVars, historyVars
<1>9. CASE UNCHANGED vars
  BY <1>9 DEF vars, breakerVars, historyVars
<1> QED
  BY <1>1, <1>2, <1>3, <1>4, <1>5, <1>6, <1>7, <1>8, <1>9 DEF Next, Finish

LEMMA InvariantHolds == Spec => []IInv
<1>1. Init => IInv
  BY BreakerAssumption DEF Init, IInv, CountersAgreeWithState,
     CounterBracketed, UpTo
<1> QED
  BY <1>1, TypeCorrect, InvariantPreserved, PTL DEF Spec

\* The counters of the breaker agree with its state, whatever the order of
\* admissions, answers, time-outs and resets.
THEOREM CountersCorrect == Spec => []CountersAgreeWithState
BY InvariantHolds, PTL DEF IInv

\* The circuit is never tripped by less than failure_threshold transient
\* failures, provided the history counts as many.
THEOREM NoSpuriousTrip ==
    ASSUME HistoryCap >= failure_threshold
    PROVE  Spec => []TripsOnlyOnEvidence
<1>1. TypeOK /\ IInv => TripsOnlyOnEvidence
  BY BreakerAssumption DEF TypeOK, IInv, CountersAgreeWithState,
     CounterBracketed, UpTo, TripsOnlyOnEvidence
<1> QED
  BY <1>1, TypeCorrect, InvariantHolds, PTL

\* A streak of failure_threshold transient failures is never overlooked.
THEOREM StreakAlwaysTrips == Spec => []StreakTrips
<1>1. TypeOK /\ IInv => StreakTrips
  BY BreakerAssumption DEF TypeOK, IInv, CountersAgreeWithState,
     CounterBracketed, UpTo, StreakTrips
<1> QED
  BY <1>1, TypeCorrect, InvariantHolds, PTL

-----------------------------------------------------------------------------

\* Ending or starting the call of c changes the number of trials by at most
\* the membership of c.
LEMMA TrialsFinite == Trials \in SUBSET Callers /\ IsFiniteSet(Trials)
                      /\ Cardinality(Trials) \in Nat
BY CallersAssumption, FS_Subset, FS_CardinalityType DEF Trials

LEMMA AdmitAddsTrial ==
    ASSUME TypeOK, NEW c \in Callers, ~Running(c),
           admitted' = [admitted EXCEPT ![c] = "trial"]
    PROVE  Cardinality(Trials') = Cardinality(Trials) + 1
<1>1. Trials' = Trials \cup {c} /\ c \notin Trials
  BY DEF TypeOK, Trials, Running
<1> QED
  BY <1>1, TrialsFinite, FS_AddElement

LEMMA LeaveRemovesAtMostOne ==
    ASSUME TypeOK, NEW c \in Callers, Leave(c)
    PROVE  /\ Cardinality(Trials') \in Nat
           /\ Cardinality(Trials') >= Cardinality(Trials) - 1
<1>1. Trials' = Trials \ {c}
  BY DEF TypeOK, Trials, Leave
<1>2. CASE c \in Trials
  <2>1. Cardinality(Trials \ {c}) = Cardinality(Trials) - 1
    BY <1>2, TrialsFinite, FS_RemoveElement
  <2>2. Cardinality(Trials \ {c}) \in Nat
    BY TrialsFinite, FS_Subset, FS_CardinalityType
  <2> QED
    BY <1>1, <2>1, <2>2, TrialsFinite
<1>3. CASE c \notin Trials
  BY <1>1, <1>3, TrialsFinite
<1> QED
  BY <1>2, <1>3

\* While HALF_OPEN the slots taken never outnumber the running trials by more
\* than the calls that were cancelled.
THEOREM SlotsNeverLeak == Spec => []NoLeakedSlot
<1> USE BreakerAssumption, TrialsFinite DEF NoLeakedSlot
<1>1. Init => NoLeakedSlot
  BY DEF Init
<1>2. ASSUME TypeOK, CountersAgreeWithState, NoLeakedSlot, [Next]_vars
      PROVE  NoLeakedSlot'
  <2> SUFFICES ASSUME state' = "HALF_OPEN"
               PROVE  active_half_open_trials' <= Cardinality(Trials') + lostSlots'
    OBVIOUS
  <2> USE <1>2
  <2>1. ASSUME NEW c \in Callers, Admit(c)
        PROVE  active_half_open_trials' <= Cardinality(Trials') + lostSlots'
    <3>1. CASE AdmitRegular(c)
      BY <3>1 DEF AdmitRegular, breakerVars
    <3>2. CASE AdmitTrial(c)
      <4>1. /\ active_half_open_trials <= Cardinality(Trials) + lostSlots
            /\ active_half_open_trials' = active_half_open_trials + 1
            /\ lostSlots' = lostSlots
        BY <3>2 DEF AdmitTrial
      <4>2. Cardinality(Trials') = Cardinality(Trials) + 1
        BY <3>2, AdmitAddsTrial DEF AdmitTrial
      <4> QED
        BY <4>1, <4>2 DEF TypeOK
    <3>3. CASE AdmitFirstTrial(c)
      <4>1. active_half_open_trials' = 1 /\ lostSlots' = 0
        BY <3>3 DEF AdmitFirstTrial, CooldownOver
      <4>2. Cardinality(Trials') = Cardinality(Trials) + 1
        BY <3>3, AdmitAddsTrial DEF AdmitFirstTrial, CooldownOver
      <4> QED
        BY <4>1, <4>2
    <3> QED
      BY <2>1, <3>1, <3>2, <3>3 DEF Admit
  <2>2. ASSUME NEW c \in Callers,
               Succeed(c) \/ FailTransient(c) \/ FailPermanent(c)
        PROVE  active_half_open_trials' <= Cardinality(Trials') + lostSlots'
    <3>1. /\ Leave(c)
          /\ state = "HALF_OPEN"
          /\ active_half_open_trials' = Decrement(active_half_open_trials)
          /\ lostSlots' = lostSlots
      BY <2>2 DEF Succeed, FailTransient, Trips, FailPermanent,
                  ReleaseSlotIfHalfOpen, Close, TypeOK, CircuitState
    <3>2. active_half_open_trials <= Cardinality(Trials) + lostSlots
      BY <3>1
    <3> QED
      BY <3>1, <3>2, LeaveRemovesAtMostOne DEF Decrement, TypeOK
  <2>3. ASSUME NEW c \in Callers, TimeOut(c)
        PROVE  active_half_open_trials' <= Cardinality(Trials') + lostSlots'
    <3>1. /\ Leave(c)
          /\ state = "HALF_OPEN"
          /\ active_half_open_trials' = active_half_open_trials
          /\ lostSlots' = UpTo(half_open_max_trials, lostSlots + 1)
      BY <2>3 DEF TimeOut, breakerVars
    <3>2. /\ active_half_open_trials <= Cardinality(Trials) + lostSlots
          /\ active_half_open_trials <= half_open_max_trials
      BY <3>1 DEF CountersAgreeWithState
    <3> QED
      BY <3>1, <3>2, LeaveRemovesAtMostOne DEF UpTo, TypeOK
  <2>4. CASE reset
    BY <2>4 DEF reset
  <2>5. CASE Tick \/ Heal \/ UNCHANGED vars
    BY <2>5 DEF Tick, Heal, vars, breakerVars, historyVars, Trials
  <2> QED
    BY <2>1, <2>2, <2>3, <2>4, <2>5 DEF Next, Finish
<1> QED
  BY <1>1, <1>2, TypeCorrect, CountersCorrect, PTL DEF Spec

-----------------------------------------------------------------------------
(* The safety part of RecoversWithASlotLeft.                               *)

\* As long as one slot was not lost, a HALF_OPEN circuit is never stuck: the
\* next call is admitted as a trial, or a trial is running that will be counted
\* and gives its slot back.
RecoveryNotStuck ==
    state = "HALF_OPEN" /\ lostSlots < half_open_max_trials =>
        \/ active_half_open_trials < half_open_max_trials
        \/ \E c \in Callers : admitted[c] = "trial"

THEOREM NeverStuckHalfOpen == Spec => []RecoveryNotStuck
<1>1. TypeOK /\ NoLeakedSlot => RecoveryNotStuck
  <2> SUFFICES ASSUME TypeOK, NoLeakedSlot, state = "HALF_OPEN",
                      lostSlots < half_open_max_trials,
                      active_half_open_trials >= half_open_max_trials
               PROVE  \E c \in Callers : admitted[c] = "trial"
    BY BreakerAssumption DEF RecoveryNotStuck, TypeOK
  <2>1. Cardinality(Trials) > 0
    BY TrialsFinite, BreakerAssumption DEF NoLeakedSlot, TypeOK
  <2>2. Trials # {}
    BY <2>1, FS_EmptySet
  <2> QED
    BY <2>2 DEF Trials
<1> QED
  BY <1>1, TypeCorrect, SlotsNeverLeak, PTL

\* Once the dependency is healthy, no call, early or late, takes the circuit
\* farther from CLOSED: the cooldown runs on, OPEN is only left, and successes
\* counted in HALF_OPEN are not lost before it closes.
RecoveryAdvances ==
    [][healthy /\ state # "CLOSED" =>
          \/ state' = "CLOSED"
          \/ state = "OPEN" /\ state' = "OPEN" /\ elapsed' >= elapsed
          \/ state = "OPEN" /\ state' = "HALF_OPEN" /\ elapsed > cooldown_seconds
          \/ /\ state = "HALF_OPEN" /\ state' = "HALF_OPEN"
             /\ consecutive_successes' >= consecutive_successes]_vars

THEOREM HealthyOnlyAdvances == Spec => RecoveryAdvances
<1>1. ASSUME TypeOK, [Next]_vars, healthy, state # "CLOSED"
      PROVE  \/ state' = "CLOSED"
             \/ state = "OPEN" /\ state' = "OPEN" /\ elapsed' >= elapsed
             \/ state = "OPEN" /\ state' = "HALF_OPEN" /\ elapsed > cooldown_seconds
             \/ /\ state = "HALF_OPEN" /\ state' = "HALF_OPEN"
                /\ consecutive_successes' >= consecutive_successes
  <2> USE <1>1 DEF TypeOK, CircuitState
  <2>1. ASSUME NEW c \in Callers, Admit(c)
        PROVE  \/ state' = state /\ UNCHANGED <<elapsed, consecutive_successes>>
               \/ state = "OPEN" /\ state' = "HALF_OPEN" /\ elapsed > cooldown_seconds
    BY <2>1 DEF Admit, AdmitRegular, AdmitTrial, AdmitFirstTrial, CooldownOver, breakerVars
  <2>2. ASSUME NEW c \in Callers, Finish(c)
        PROVE  \/ state' = "CLOSED"
               \/ /\ state = "HALF_OPEN" /\ state' = "HALF_OPEN"
                  /\ consecutive_successes' = consecutive_successes + 1
    BY <2>2 DEF Finish, Succeed, Close, FailTransient, FailPermanent, TimeOut
  <2>3. CASE reset
    BY <2>3 DEF reset
  <2>4. CASE Tick \/ Heal \/ UNCHANGED vars
    <3>1. UNCHANGED <<state, consecutive_successes>> /\ elapsed' \in {elapsed, elapsed + 1}
      BY <2>4 DEF Tick, Heal, vars, breakerVars
    <3> QED
      BY <3>1
  <2> QED
    BY <2>1, <2>2, <2>3, <2>4, BreakerAssumption DEF Next, ElapsedCap
<1> QED
  BY <1>1, TypeCorrect, PTL DEF Spec, RecoveryAdvances

-----------------------------------------------------------------------------

\* The breaker implements the abstract gate: every step of the breaker is a
\* step of the gate or leaves the gate unchanged.
THEOREM ImplementsGate == Spec => KeepsGatePromise
<1> DEFINE gateBar == CASE state = "CLOSED" -> "pass"
                        [] state = "OPEN" -> "block"
                        [] OTHER -> "probe"
           cooledBar == elapsed > cooldown_seconds
           busyBar == {c \in Callers : Running(c)}
<1> USE BreakerAssumption
<1>1. Init => Gate!GateInit
  <2> SUFFICES ASSUME Init
               PROVE  Gate!GateInit
    OBVIOUS
  <2>1. gateBar = "pass"
    BY DEF Init
  <2>2. cooledBar = TRUE
    BY DEF Init, ElapsedCap
  <2>3. busyBar = {}
    BY DEF Init, Running
  <2> QED
    BY <2>1, <2>2, <2>3 DEF Gate!GateInit
<1>2. ASSUME TypeOK, [Next]_vars
      PROVE  [Gate!GateNext]_(Gate!gateVars)
  <2> USE <1>2
  <2>1. ASSUME NEW c \in Callers, Admit(c)
        PROVE  Gate!Start(c)
    <3>1. ~Running(c)
      BY <2>1 DEF Admit, AdmitRegular, AdmitTrial, AdmitFirstTrial, CooldownOver
    <3>2. busyBar' = busyBar \cup {c}
      BY <2>1, <3>1 DEF Admit, AdmitRegular, AdmitTrial, AdmitFirstTrial, CooldownOver,
                        Running, TypeOK
    <3>3. cooledBar' = cooledBar
      BY <2>1 DEF Admit, AdmitRegular, AdmitTrial, AdmitFirstTrial, CooldownOver,
                  breakerVars
    <3>4. \/ gateBar # "block" /\ gateBar' = gateBar
          \/ gateBar = "block" /\ cooledBar = TRUE /\ gateBar' = "probe"
      BY <2>1 DEF Admit, AdmitRegular, AdmitTrial, AdmitFirstTrial, CooldownOver,
                  breakerVars, TypeOK, CircuitState
    <3> QED
      BY <3>1, <3>2, <3>3, <3>4 DEF Gate!Start
  <2>2. ASSUME NEW c \in Callers, Finish(c)
        PROVE  Gate!Answer(c)
    <3>1. Leave(c)
      BY <2>2 DEF Finish, Succeed, FailTransient, Trips, FailPermanent, TimeOut
    <3>2. c \in busyBar /\ busyBar' = busyBar \ {c}
      BY <3>1 DEF Leave, Running, TypeOK
    <3>3. CASE Succeed(c)
      <4>1. cooledBar' = cooledBar
        BY <3>3 DEF Succeed
      <4>2. gateBar' = "pass" \/ gateBar' = gateBar
        BY <3>3 DEF Succeed, Close
      <4> QED
        BY <3>2, <4>1, <4>2 DEF Gate!Answer, Gate!GoodNews, Gate!NoNews
    <3>4. CASE FailTransient(c)
      <4>1. cooledBar' = FALSE
        BY <3>4 DEF FailTransient, Trips
      <4>2. gateBar' = "block" \/ (gateBar # "probe" /\ gateBar' = gateBar)
        BY <3>4 DEF FailTransient, Trips, TypeOK, CircuitState
      <4> QED
        BY <3>2, <4>1, <4>2 DEF Gate!Answer, Gate!BadNews
    <3>5. CASE FailPermanent(c) \/ TimeOut(c)
      <4>1. gateBar' = gateBar /\ cooledBar' = cooledBar
        BY <3>5 DEF FailPermanent, TimeOut, breakerVars
      <4> QED
        BY <3>2, <4>1 DEF Gate!Answer, Gate!NoNews
    <3> QED
      BY <2>2, <3>3, <3>4, <3>5 DEF Finish
  <2>3. CASE reset
    <3>1. gateBar' = "pass" /\ busyBar' = busyBar
      BY <2>3 DEF reset, Running
    <3>2. cooledBar' = TRUE
      BY <2>3 DEF reset, ElapsedCap
    <3> QED
      BY <3>1, <3>2 DEF Gate!GateNext, Gate!Override
  <2>4. CASE Tick
    <3>1. gateBar' = gateBar /\ busyBar' = busyBar
      BY <2>4 DEF Tick, Running
    <3>2. cooledBar = TRUE => cooledBar' = TRUE
      BY <2>4 DEF Tick, TypeOK, ElapsedCap
    <3>3. cooledBar \in BOOLEAN /\ cooledBar' \in BOOLEAN
      OBVIOUS
    <3> HIDE DEF gateBar, cooledBar, busyBar
    <3>4. \/ cooledBar' = cooledBar
          \/ cooledBar = FALSE /\ cooledBar' = TRUE
      BY <3>2, <3>3
    <3> USE DEF gateBar, cooledBar, busyBar
    <3> QED
      BY <3>1, <3>4 DEF Gate!GateNext, Gate!Cool, Gate!gateVars
  <2>5. CASE Heal \/ UNCHANGED vars
    <3>1. gateBar' = gateBar /\ busyBar' = busyBar /\ cooledBar' = cooledBar
      BY <2>5 DEF Heal, vars, breakerVars, Running
    <3> QED
      BY <3>1 DEF Gate!gateVars
  <2> QED
    BY <2>1, <2>2, <2>3, <2>4, <2>5 DEF Next, Gate!GateNext
<1> QED
  BY <1>1, <1>2, TypeCorrect, PTL DEF Spec, KeepsGatePromise, Gate!GateSpec

=============================================================================
