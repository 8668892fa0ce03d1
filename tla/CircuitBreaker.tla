--------------------------- MODULE CircuitBreaker ---------------------------
(***************************************************************************)
(* The circuit breaker of tripmate/integrations/circuit_breaker.py.        *)
(*                                                                         *)
(* One breaker guards one remote dependency and is shared by the           *)
(* coroutines of a process.  `call' has two critical sections under        *)
(* self._lock, one that admits the call and one that records its outcome,  *)
(* and awaits the dependency between them.  Neither section suspends, so   *)
(* each is one step here; everything may happen between the two.           *)
(*                                                                         *)
(* A call that is rejected (CircuitBreakerOpenException) changes nothing   *)
(* and is a stuttering step.                                               *)
(***************************************************************************)
EXTENDS Integers, FiniteSets

CONSTANTS
    Callers,              \* coroutines that use the breaker
    failure_threshold,
    cooldown_seconds,     \* in ticks of the clock
    success_threshold,
    half_open_max_trials,
    FailureCountCap,      \* failure_count is not counted beyond this bound
    HistoryCap            \* nor are the failures of the history variables; with
                          \* 0 there is no history

ASSUME CallersAssumption == IsFiniteSet(Callers)

ASSUME BreakerAssumption ==
    /\ failure_threshold \in Nat \ {0}
    /\ cooldown_seconds \in Nat
    /\ success_threshold \in Nat \ {0}
    /\ half_open_max_trials \in Nat \ {0}
    /\ FailureCountCap \in Nat /\ FailureCountCap >= failure_threshold
    /\ HistoryCap \in Nat

VARIABLES
    state,                     \* CircuitState
    failure_count,
    consecutive_successes,
    active_half_open_trials,
    elapsed,                   \* now - last_failure_time, see Tick
    admitted,                  \* admitted[c]: how c's running call got in
    healthy,                   \* the dependency has recovered for good
    failuresSinceClosed,       \* history: transient failures since CLOSED
    failureStreak,             \* history: the same, since the last success
    lostSlots                  \* history: calls cancelled since HALF_OPEN

breakerVars == <<state, failure_count, consecutive_successes,
                 active_half_open_trials, elapsed>>
historyVars == <<failuresSinceClosed, failureStreak>>
vars == <<breakerVars, admitted, healthy, historyVars, lostSlots>>

CircuitState == {"CLOSED", "OPEN", "HALF_OPEN"}

\* Not in a call, running since the circuit was CLOSED, or running as a trial.
Admission == {"none", "regular", "trial"}

Running(c) == admitted[c] # "none"
Trials == {c \in Callers : admitted[c] = "trial"}

\* Nothing tells apart two elapsed times beyond the cooldown, nor two failure
\* counts beyond the threshold: both are counted up to a bound.
ElapsedCap == cooldown_seconds + 1
UpTo(bound, n) == IF n > bound THEN bound ELSE n

Decrement(n) == IF n > 0 THEN n - 1 ELSE 0

Init ==
    /\ state = "CLOSED"
    /\ failure_count = 0
    /\ consecutive_successes = 0
    /\ active_half_open_trials = 0
    /\ elapsed = ElapsedCap          \* last_failure_time = 0.0 is long ago
    /\ admitted = [c \in Callers |-> "none"]
    /\ healthy = FALSE
    /\ failuresSinceClosed = 0
    /\ failureStreak = 0
    /\ lostSlots = 0

-----------------------------------------------------------------------------
(* First critical section of `call'.                                       *)

AdmitRegular(c) ==
    /\ ~Running(c)
    /\ state = "CLOSED"
    /\ admitted' = [admitted EXCEPT ![c] = "regular"]
    /\ UNCHANGED <<breakerVars, healthy, historyVars, lostSlots>>

AdmitTrial(c) ==
    /\ ~Running(c)
    /\ state = "HALF_OPEN"
    /\ active_half_open_trials < half_open_max_trials
    /\ active_half_open_trials' = active_half_open_trials + 1
    /\ admitted' = [admitted EXCEPT ![c] = "trial"]
    /\ UNCHANGED <<state, failure_count, consecutive_successes, elapsed,
                   healthy, historyVars, lostSlots>>

\* Mutation of CooldownOver: an off-by-one in the comparison.
CooldownReached == elapsed >= cooldown_seconds
CooldownOver == elapsed > cooldown_seconds

AdmitFirstTrial(c) ==
    /\ ~Running(c)
    /\ state = "OPEN"
    /\ CooldownOver
    /\ state' = "HALF_OPEN"
    /\ active_half_open_trials' = 1
    /\ consecutive_successes' = 0
    /\ lostSlots' = 0
    /\ admitted' = [admitted EXCEPT ![c] = "trial"]
    /\ UNCHANGED <<failure_count, elapsed, healthy, historyVars>>

Admit(c) == AdmitRegular(c) \/ AdmitTrial(c) \/ AdmitFirstTrial(c)

-----------------------------------------------------------------------------
(* Second critical section of `call', after func returned or raised.       *)

Leave(c) ==
    /\ Running(c)
    /\ admitted' = [admitted EXCEPT ![c] = "none"]

\* Mutation of Close: the failure counter survives.
CloseKeepingCount ==
    /\ state' = "CLOSED"
    /\ consecutive_successes' = 0
    /\ failuresSinceClosed' = 0
    /\ UNCHANGED failure_count
Close ==
    /\ state' = "CLOSED"
    /\ failure_count' = 0
    /\ consecutive_successes' = 0
    /\ failuresSinceClosed' = 0

\* Mutation of ReleaseSlotIfHalfOpen: the slot is never given back.
KeepSlot == UNCHANGED active_half_open_trials
\* Only the state is consulted: whether the call held a trial slot is not.
ReleaseSlotIfHalfOpen ==
    active_half_open_trials' =
        IF state = "HALF_OPEN" THEN Decrement(active_half_open_trials)
                               ELSE active_half_open_trials

Succeed(c) ==
    /\ Leave(c)
    /\ ReleaseSlotIfHalfOpen
    /\ failureStreak' = 0
    /\ \/ /\ state = "CLOSED"
          /\ failure_count' = Decrement(failure_count)
          /\ UNCHANGED <<state, consecutive_successes, failuresSinceClosed>>
       \/ /\ state = "HALF_OPEN"
          /\ consecutive_successes + 1 < success_threshold
          /\ consecutive_successes' = consecutive_successes + 1
          /\ UNCHANGED <<state, failure_count, failuresSinceClosed>>
       \/ /\ \/ state = "OPEN"
             \/ state = "HALF_OPEN" /\ consecutive_successes + 1 >= success_threshold
          /\ Close
    /\ UNCHANGED <<elapsed, healthy, lostSlots>>

\* Mutation of Trips: the threshold must be exceeded.
TripsLate == state = "HALF_OPEN" \/ failure_count >= failure_threshold
Trips == state = "HALF_OPEN" \/ failure_count + 1 >= failure_threshold

FailTransient(c) ==
    /\ ~healthy
    /\ Leave(c)
    /\ ReleaseSlotIfHalfOpen
    /\ failure_count' = UpTo(FailureCountCap, failure_count + 1)
    /\ elapsed' = 0
    /\ consecutive_successes' = 0
    /\ state' = IF Trips THEN "OPEN" ELSE state
    /\ failuresSinceClosed' = UpTo(HistoryCap, failuresSinceClosed + 1)
    /\ failureStreak' = UpTo(HistoryCap, failureStreak + 1)
    /\ UNCHANGED <<healthy, lostSlots>>

FailPermanent(c) ==
    /\ ~healthy
    /\ Leave(c)
    /\ ReleaseSlotIfHalfOpen
    /\ UNCHANGED <<state, failure_count, consecutive_successes, elapsed,
                   healthy, historyVars, lostSlots>>

\* asyncio.wait_for cancels the call: CancelledError is not an Exception, so
\* `except Exception' does not run and the breaker is not told.
TimeOut(c) ==
    /\ ~healthy
    /\ Leave(c)
    /\ lostSlots' = IF state = "HALF_OPEN" THEN UpTo(half_open_max_trials, lostSlots + 1)
                                           ELSE lostSlots
    /\ UNCHANGED <<breakerVars, healthy, historyVars>>

Finish(c) == Succeed(c) \/ FailTransient(c) \/ FailPermanent(c) \/ TimeOut(c)

-----------------------------------------------------------------------------

reset ==
    /\ state' = "CLOSED"
    /\ failure_count' = 0
    /\ consecutive_successes' = 0
    /\ active_half_open_trials' = 0
    /\ elapsed' = ElapsedCap
    /\ failuresSinceClosed' = 0
    /\ failureStreak' = 0
    /\ lostSlots' = 0
    /\ UNCHANGED <<admitted, healthy>>

\* time.time(), as far as `call' looks at it.
Tick ==
    /\ elapsed < ElapsedCap
    /\ elapsed' = elapsed + 1
    /\ UNCHANGED <<state, failure_count, consecutive_successes,
                   active_half_open_trials, admitted, healthy, historyVars, lostSlots>>

\* The dependency recovers: from here on every call it is given succeeds.
Heal ==
    /\ ~healthy
    /\ healthy' = TRUE
    /\ UNCHANGED <<breakerVars, admitted, historyVars, lostSlots>>

Next ==
    \/ \E c \in Callers : Admit(c) \/ Finish(c)
    \/ reset
    \/ Tick
    \/ Heal

Spec == Init /\ [][Next]_vars

\* The event loop runs every coroutine that can run, time passes, the
\* application keeps using the dependency, and a call that was let in is
\* answered.  An administrator's reset is never owed.
Fairness ==
    /\ \A c \in Callers : WF_vars(Admit(c)) /\ WF_vars(Finish(c))
    /\ WF_vars(Tick)

FairSpec == Spec /\ Fairness

-----------------------------------------------------------------------------

\* Types of the variables.
TypeOK ==
    /\ state \in CircuitState
    /\ failure_count \in 0..FailureCountCap
    /\ consecutive_successes \in Nat
    /\ active_half_open_trials \in Nat
    /\ elapsed \in 0..ElapsedCap
    /\ admitted \in [Callers -> Admission]
    /\ healthy \in BOOLEAN
    /\ failuresSinceClosed \in 0..HistoryCap
    /\ failureStreak \in 0..HistoryCap
    /\ lostSlots \in 0..half_open_max_trials

\* The counters agree with the state: the circuit is CLOSED exactly while the
\* failure count is below the threshold, whatever order late answers, trials
\* and resets come in, the trials counted never exceed the capacity, and
\* successes are only ever counted below the threshold that closes it.
CountersAgreeWithState ==
    /\ state = "CLOSED" <=> failure_count < failure_threshold
    /\ active_half_open_trials <= half_open_max_trials
    /\ consecutive_successes < success_threshold

\* The circuit is only ever OPEN or HALF_OPEN after failure_threshold transient
\* failures since it was last CLOSED: permanent errors, time-outs and successes
\* never contribute to a trip.  (The history has to be counted that far.)
TripsOnlyOnEvidence ==
    state # "CLOSED" => failuresSinceClosed >= failure_threshold

\* Conversely failure_threshold transient failures with no success between
\* them never leave the circuit CLOSED, although successes of other callers
\* decay the counter.
StreakTrips ==
    state = "CLOSED" => failureStreak < failure_threshold

\* No trial slot is lost but to a cancellation: while HALF_OPEN, a slot counted
\* as taken belongs to a trial that is still running, or there was a call that
\* timed out since the circuit is HALF_OPEN.
NoLeakedSlot ==
    state = "HALF_OPEN" =>
        active_half_open_trials <= Cardinality(Trials) + lostSlots

\* The breaker keeps the promise of CircuitGate to its callers: OPEN is left
\* only by a trial after the cooldown, by the answer to a call that was already
\* running, or by a reset, and a failed trial always reopens the circuit.
Gate == INSTANCE CircuitGate WITH
    Users <- Callers,
    gate <- CASE state = "CLOSED" -> "pass"
              [] state = "OPEN" -> "block"
              [] OTHER -> "probe",
    cooled <- elapsed > cooldown_seconds,
    busy <- {c \in Callers : Running(c)}
KeepsGatePromise == Gate!GateSpec

\* Once the dependency is healthy and the application keeps calling it, the
\* circuit closes, with no administrator involved.
RecoversOnceHealthy == healthy ~> state = "CLOSED"

\* It does so whatever timed out before, as long as one slot was left.
RecoversWithASlotLeft ==
    [](lostSlots < half_open_max_trials) => RecoversOnceHealthy

=============================================================================
