----------------------- MODULE SingleFlightCacheProofs -----------------------
(***************************************************************************)
(* Proofs about SingleFlightCache for every set of callers and keys, every *)
(* capacity and expiry.                                                    *)
(***************************************************************************)
EXTENDS SingleFlightCache, FiniteSetTheorems, SequenceTheorems, TLAPS

\* The part of TypeOK that the proofs need.
Types ==
    /\ inflight \in [Keys -> Flight \cup {NoFlight}]
    /\ pc \in [Callers -> Place]
    /\ key \in [Callers -> Keys]

LEMMA TypesHold == Spec => []Types
<1> USE DEF Types, Place, LockPoint, Continue, Suspend, Return
<1>1. Init => Types
  BY DEF Init
<1>2. ASSUME Types, [Next]_vars
      PROVE  Types'
  <2> USE Types
  <2>1. ASSUME NEW c \in Callers, NEW k \in Keys, Call(c, k)
        PROVE  Types'
    BY <2>1 DEF Call
  <2>2. ASSUME NEW c \in Callers, CallClear(c)
        PROVE  Types'
    BY <2>2 DEF CallClear
  <2>3. ASSUME NEW c \in Callers, Queue(c) \/ Get(c) \/ Answered(c)
        PROVE  Types'
    BY <2>3 DEF Queue, Get, Answered
  <2>4. ASSUME NEW c \in Callers, Lead(c)
        PROVE  Types'
    BY <2>4 DEF Lead, Flight, FutureState
  <2>5. ASSUME NEW c \in Callers, Follow(c)
        PROVE  Types'
    BY <2>5 DEF Follow
  <2>6. ASSUME NEW c \in Callers, FetchValue(c) \/ Shared(c)
        PROVE  Types'
    BY <2>6 DEF FetchValue, Shared, Set
  <2>7. ASSUME NEW c \in Callers, FetchNothing(c)
        PROVE  Types'
    BY <2>7 DEF FetchNothing, Resolve, Flight, FutureState, NoFlight
  <2>8. ASSUME NEW c \in Callers, Mirror(c) \/ Store(c)
        PROVE  Types'
    BY <2>8 DEF Mirror, Store, Inserts, Resolve, Flight, FutureState, NoFlight
  <2>9. ASSUME NEW c \in Callers, Cleanup(c) \/ Clear(c)
        PROVE  Types'
    BY <2>9 DEF Cleanup, Clear
  <2>10. ASSUME NEW c \in Callers, Cancel(c)
         PROVE  Types'
    BY <2>10 DEF Cancel, Flight, FutureState, NoFlight
  <2>11. CASE Tick \/ UNCHANGED vars
    BY <2>11 DEF Tick, vars
  <2> QED
    BY <1>2, <2>1, <2>2, <2>3, <2>4, <2>5, <2>6, <2>7, <2>8, <2>9, <2>10,
       <2>11 DEF Next, Step, Fetched
<1> QED
  BY <1>1, <1>2, PTL DEF Spec

-----------------------------------------------------------------------------

\* A registered flight has a leader and NoFlight has none.
LEMMA FlightIsNotNoFlight ==
    ASSUME NEW f \in Flight
    PROVE  f # NoFlight
BY CacheAssumption DEF Flight, NoFlight

\* Completing or cancelling futures neither registers nor removes a flight.
LEMMA ResolveKeepsFlights ==
    ASSUME Types, NEW c \in Callers, Resolve(c), NEW k \in Keys
    PROVE  /\ inflight'[k].leader = inflight[k].leader
           /\ inflight[k] # NoFlight => inflight'[k] # NoFlight
<1>1. CASE inflight[key[c]] = [leader |-> c, future |-> "pending"]
  <2>1. /\ inflight' = [inflight EXCEPT ![key[c]].future = "done"]
        /\ key[c] \in Keys
    BY <1>1 DEF Resolve, Types
  <2>2. CASE k = key[c]
    <3>1. inflight'[k] = [leader |-> c, future |-> "done"]
      BY <1>1, <2>1, <2>2 DEF Types
    <3> QED
      BY <1>1, <2>2, <3>1, CacheAssumption DEF NoFlight
  <2>3. CASE k # key[c]
    BY <2>1, <2>3 DEF Types
  <2> QED
    BY <2>2, <2>3
<1>2. CASE inflight[key[c]] # [leader |-> c, future |-> "pending"]
  BY <1>2 DEF Resolve
<1> QED
  BY <1>1, <1>2

\* A cancellation keeps every flight registered, with its leader.
LEMMA CancelKeepsFlights ==
    ASSUME Types, NEW c \in Callers, Cancel(c), NEW k \in Keys
    PROVE  /\ inflight'[k].leader = inflight[k].leader
           /\ inflight[k] # NoFlight => inflight'[k] # NoFlight
<1>1. CASE inflight' = inflight
  BY <1>1
<1>2. CASE inflight' # inflight
  <2>1. /\ inflight[key[c]].future = "pending"
        /\ inflight' = [inflight EXCEPT ![key[c]].future = "cancelled"]
        /\ key[c] \in Keys
    BY <1>2 DEF Cancel, Types
  <2>2. inflight[key[c]] \in Flight
    BY <2>1 DEF Types, NoFlight
  <2>3. CASE k = key[c]
    <3>1. inflight'[k] = [inflight[k] EXCEPT !.future = "cancelled"]
      BY <2>1, <2>3 DEF Types
    <3>2. inflight'[k] \in Flight /\ inflight'[k].leader = inflight[k].leader
      BY <2>2, <2>3, <3>1 DEF Flight, FutureState
    <3> QED
      BY <3>2, FlightIsNotNoFlight
  <2>4. CASE k # key[c]
    BY <2>1, <2>4 DEF Types
  <2> QED
    BY <2>3, <2>4
<1> QED
  BY <1>1, <1>2

-----------------------------------------------------------------------------

\* The future a suspended caller awaits is never taken out of the registry
\* under it, with or without cancellations and clears.
THEOREM AwaitedFutureSafe == Spec => []AwaitedFutureRegistered
<1> USE CacheAssumption DEF AwaitedFutureRegistered
<1>1. Init => AwaitedFutureRegistered
  BY DEF Init
<1>2. ASSUME Types, AwaitedFutureRegistered, [Next]_vars
      PROVE  AwaitedFutureRegistered'
  <2> USE <1>2
  <2> USE DEF Types, Place, LockPoint
  <2>1. ASSUME NEW c \in Callers, \/ \E k \in Keys : Call(c, k)
                                 \/ CallClear(c)
        PROVE  AwaitedFutureRegistered'
    BY <2>1 DEF Call, CallClear, Continue
  <2>2. ASSUME NEW c \in Callers, Queue(c)
        PROVE  AwaitedFutureRegistered'
    BY <2>2 DEF Queue
  <2>3. ASSUME NEW c \in Callers, Get(c)
        PROVE  AwaitedFutureRegistered'
    BY <2>3 DEF Get, Continue, Return, Suspend
  <2>4. ASSUME NEW c \in Callers, Lead(c) \/ Cleanup(c) \/ Clear(c)
        PROVE  AwaitedFutureRegistered'
    <3>1. holder = NoOne /\ pc' = [pc EXCEPT ![c] = pc'[c]] /\ pc'[c] # "follow"
      BY <2>4 DEF Lead, Cleanup, Clear, Acquire, Suspend, Return
    <3> QED
      BY <3>1
  <2>5. ASSUME NEW c \in Callers, Follow(c)
        PROVE  AwaitedFutureRegistered'
    <3>1. \A d \in Callers : pc[d] # "follow"
      BY <2>5 DEF Follow, Acquire
    <3>2. inflight' = inflight /\ key' = key /\ inflight[key[c]] # NoFlight
      BY <2>5 DEF Follow, NobodyFetches
    <3>3. CASE holder' = c /\ Suspend(c, "follow")
      BY <3>1, <3>2, <3>3 DEF Suspend
    <3>4. CASE Return(c)
      BY <3>1, <3>4 DEF Return, Suspend
    <3> QED
      BY <2>5, <3>3, <3>4 DEF Follow
  <2>6. ASSUME NEW c \in Callers, Answered(c)
        PROVE  AwaitedFutureRegistered'
    <3>1. \A d \in Callers \ {c} : pc[d] # "follow"
      BY <2>6 DEF Answered
    <3> QED
      BY <2>6, <3>1 DEF Answered, Return, Suspend
  <2>7. ASSUME NEW c \in Callers, FetchValue(c) \/ Shared(c) \/ Mirror(c)
        PROVE  AwaitedFutureRegistered'
    BY <2>7 DEF FetchValue, Shared, Set, Mirror, Inserts, Continue, Suspend
  <2>8. ASSUME NEW c \in Callers, FetchNothing(c) \/ Store(c)
        PROVE  AwaitedFutureRegistered'
    <3>1. /\ Resolve(c)
          /\ pc' = [pc EXCEPT ![c] = "cleanup"]
          /\ holder' = holder /\ key' = key
      BY <2>8 DEF FetchNothing, Store, Inserts, Continue
    <3> QED
      BY <3>1, ResolveKeepsFlights
  <2>9. ASSUME NEW c \in Callers, Cancel(c)
        PROVE  AwaitedFutureRegistered'
    <3>1. /\ pc' = [pc EXCEPT ![c] = pc'[c]] /\ pc'[c] # "follow"
          /\ key' = key
          /\ pc[c] # "follow" => holder' = holder
      BY <2>9 DEF Cancel, Continue, Return, Suspend
    <3>2. ASSUME NEW d \in Callers, pc'[d] = "follow"
          PROVE  holder' = d /\ inflight'[key'[d]] # NoFlight
      <4>1. d # c /\ pc[d] = "follow"
        BY <3>1, <3>2
      <4>2. pc[c] # "follow"
        BY <4>1
      <4> QED
        BY <2>9, <3>1, <4>1, <4>2, CancelKeepsFlights
    <3> QED
      BY <3>2
  <2>10. CASE Tick \/ UNCHANGED vars
    BY <2>10 DEF Tick, vars
  <2> QED
    BY <1>2, <2>1, <2>2, <2>3, <2>4, <2>5, <2>6, <2>7, <2>8, <2>9, <2>10
       DEF Next, Step, Fetched
<1> QED
  BY <1>1, <1>2, TypesHold, PTL DEF Spec

-----------------------------------------------------------------------------

ClearsInv == clears \in Nat

LEMMA ClearsCounted == Spec => []ClearsInv
<1>1. Init => ClearsInv
  BY DEF Init, ClearsInv
<1>2. ASSUME ClearsInv, [Next]_vars
      PROVE  ClearsInv'
  BY <1>2 DEF ClearsInv, Next, Step, Clear, vars
<1> QED
  BY <1>1, <1>2, PTL DEF Spec

\* The leader of every fetch is the one that is registered for its key.
LeadersRegistered == \A c \in Callers : Leading(c) => inflight[key[c]].leader = c

LeadersInv == clears = 0 => LeadersRegistered

LEMMA LeadersHold == Spec => []LeadersInv
<1> USE CacheAssumption DEF LeadersRegistered, Leading, InFlight
<1>1. Init => LeadersInv
  BY DEF Init, LeadersInv
<1>2. ASSUME Types, LeadersInv, ClearsInv, [Next]_vars
      PROVE  LeadersInv'
  <2> SUFFICES ASSUME clears' = 0
               PROVE  LeadersRegistered'
    BY DEF LeadersInv
  <2>0. LeadersRegistered /\ \A c \in Callers : ~Clear(c)
    <3>1. \A c \in Callers : ~Clear(c)
      BY <1>2 DEF Clear, ClearsInv
    <3>2. clears = 0
      BY <1>2, <3>1 DEF Next, Step, vars
    <3> QED
      BY <1>2, <3>1, <3>2 DEF LeadersInv
  <2> USE <2>0
  <2> USE <1>2 DEF Types, Place, LockPoint
  <2>1. ASSUME NEW c \in Callers, CallClear(c) \/ \E k \in Keys : Call(c, k)
        PROVE  LeadersRegistered'
    BY <2>1 DEF Call, CallClear, Continue
  <2>2. ASSUME NEW c \in Callers, Queue(c) \/ Get(c) \/ Follow(c) \/ Answered(c)
        PROVE  LeadersRegistered'
    <3>1. inflight' = inflight /\ key' = key
      BY <2>2 DEF Queue, Get, Follow, Answered
    <3>2. \/ pc' = pc
          \/ \E p \in {"idle", "join", "follow"} : pc' = [pc EXCEPT ![c] = p]
      BY <2>2 DEF Queue, Get, Follow, Answered, Continue, Return, Suspend
    <3> QED
      BY <3>1, <3>2
  <2>3. ASSUME NEW c \in Callers, Lead(c)
        PROVE  LeadersRegistered'
    <3>1. inflight[key[c]].leader \notin Callers
      BY <2>3 DEF Lead, NobodyFetches, NoFlight
    <3>2. \A d \in Callers : Leading(d) => key[d] # key[c]
      BY <3>1
    <3> QED
      BY <2>3, <3>2 DEF Lead, Suspend
  <2>4. ASSUME NEW c \in Callers, FetchValue(c) \/ Shared(c) \/ Mirror(c)
        PROVE  LeadersRegistered'
    BY <2>4 DEF FetchValue, Shared, Set, Mirror, Inserts, Continue, Suspend
  <2>5. ASSUME NEW c \in Callers, FetchNothing(c) \/ Store(c)
        PROVE  LeadersRegistered'
    <3>1. /\ Resolve(c)
          /\ pc' = [pc EXCEPT ![c] = "cleanup"]
          /\ key' = key /\ Leading(c)
      BY <2>5 DEF FetchNothing, Store, Inserts, Continue
    <3> QED
      BY <3>1, ResolveKeepsFlights
  <2>6. ASSUME NEW c \in Callers, Cleanup(c)
        PROVE  LeadersRegistered'
    <3>1. \A d \in Callers \ {c} : Leading(d) => key[d] # key[c]
      BY <2>6 DEF Cleanup
    <3> QED
      BY <2>6, <3>1 DEF Cleanup, Return, Suspend
  <2>7. ASSUME NEW c \in Callers, Cancel(c)
        PROVE  LeadersRegistered'
    <3>1. /\ key' = key
          /\ \/ Leading(c) /\ pc' = [pc EXCEPT ![c] = "cleanup"]
             \/ pc' = [pc EXCEPT ![c] = "idle"]
      BY <2>7 DEF Cancel, Continue, Return, Suspend
    <3> QED
      BY <2>7, <3>1, CancelKeepsFlights
  <2>8. CASE Tick \/ UNCHANGED vars
    BY <2>8 DEF Tick, vars
  <2> QED
    BY <1>2, <2>1, <2>2, <2>3, <2>4, <2>5, <2>6, <2>7, <2>8
       DEF Next, Step, Fetched
<1> QED
  BY <1>1, <1>2, TypesHold, ClearsCounted, PTL DEF Spec

-----------------------------------------------------------------------------
(* How many callers fetch a key at once.                                   *)

\* What the registry knows of a key's fetches.
Known(k) == IF inflight[k] = NoFlight THEN 0 ELSE 1

\* Every fetch but the registered one is owed to a clear().
CountInv ==
    \A k \in Keys : Cardinality(Leaders(k)) <= Known(k) + clears

LEMMA LeadersFinite ==
    ASSUME NEW k
    PROVE  IsFiniteSet(Leaders(k)) /\ Cardinality(Leaders(k)) \in Nat
<1>1. Leaders(k) \subseteq Callers
  BY DEF Leaders
<1> QED
  BY <1>1, CacheAssumption, FS_Subset, FS_CardinalityType

\* Where a step leaves the key's leaders, or takes one away, and registers or
\* keeps its flight.
LEMMA CountKept ==
    ASSUME ClearsInv, ClearsInv', NEW k \in Keys, NEW c \in Callers,
           Cardinality(Leaders(k)) <= Known(k) + clears, clears' = clears,
           \/ Leaders(k)' \subseteq Leaders(k) /\ (inflight[k] # NoFlight => inflight'[k] # NoFlight)
           \/ c \in Leaders(k) /\ Leaders(k)' = Leaders(k) \ {c}
           \/ /\ inflight[k] = NoFlight /\ inflight'[k] # NoFlight
              /\ Leaders(k)' = Leaders(k) \cup {c}
    PROVE  Cardinality(Leaders(k)') <= Known(k)' + clears'
<1>1. IsFiniteSet(Leaders(k)) /\ Cardinality(Leaders(k)) \in Nat /\ clears \in Nat
  BY LeadersFinite DEF ClearsInv
<1>2. CASE Leaders(k)' \subseteq Leaders(k) /\ (inflight[k] # NoFlight => inflight'[k] # NoFlight)
  <2>1. IsFiniteSet(Leaders(k)') /\ Cardinality(Leaders(k)') <= Cardinality(Leaders(k))
    BY <1>1, <1>2, FS_Subset
  <2>2. Cardinality(Leaders(k)') \in Nat
    BY <2>1, FS_CardinalityType
  <2> QED
    BY <1>1, <1>2, <2>1, <2>2 DEF Known
<1>3. CASE c \in Leaders(k) /\ Leaders(k)' = Leaders(k) \ {c}
  <2>1. Cardinality(Leaders(k)') = Cardinality(Leaders(k)) - 1
    BY <1>1, <1>3, FS_RemoveElement
  <2> QED
    BY <1>1, <2>1 DEF Known
<1>4. CASE /\ inflight[k] = NoFlight /\ inflight'[k] # NoFlight
           /\ Leaders(k)' = Leaders(k) \cup {c}
  <2>1. \/ Cardinality(Leaders(k)') = Cardinality(Leaders(k)) + 1
        \/ Cardinality(Leaders(k)') = Cardinality(Leaders(k))
    BY <1>1, <1>4, FS_AddElement
  <2> QED
    BY <1>1, <1>4, <2>1 DEF Known
<1> QED
  BY <1>2, <1>3, <1>4

LEMMA CountStep ==
    ASSUME Types, Types', ClearsInv, ClearsInv', CountInv, [Next]_vars
    PROVE  CountInv'
<1> USE DEF Leading, InFlight
<1> SUFFICES ASSUME NEW k \in Keys
             PROVE  Cardinality(Leaders(k)') <= Known(k)' + clears'
  BY DEF CountInv
<1>0. Cardinality(Leaders(k)) <= Known(k) + clears
  BY DEF CountInv
<1>1. ASSUME NEW c \in Callers,
             \/ Queue(c) \/ Get(c) \/ Follow(c) \/ Answered(c) \/ CallClear(c)
             \/ \E j \in Keys : Call(c, j)
      PROVE  inflight' = inflight /\ Leaders(k)' \subseteq Leaders(k)
  <2>1. /\ inflight' = inflight
        /\ \A d \in Callers : d # c => pc'[d] = pc[d] /\ key'[d] = key[d]
        /\ ~Leading(c)' \/ (pc' = pc /\ key' = key)
    BY <1>1 DEF Queue, Get, Follow, Answered, CallClear, Call, Continue, Suspend, Return, Types
  <2> QED
    BY <2>1 DEF Leaders
<1>2. ASSUME NEW c \in Callers, \/ FetchValue(c) \/ FetchNothing(c) \/ Shared(c)
                                \/ Mirror(c) \/ Store(c)
      PROVE  /\ Leaders(k)' = Leaders(k)
             /\ inflight[k] # NoFlight => inflight'[k] # NoFlight
  <2>1. /\ key' = key /\ Leading(c) /\ Leading(c)'
        /\ \A d \in Callers : d # c => pc'[d] = pc[d]
    BY <1>2 DEF FetchValue, FetchNothing, Shared, Set, Mirror, Store, Inserts, Continue,
                Suspend, Types
  <2>2. inflight' = inflight \/ Resolve(c)
    BY <1>2 DEF FetchValue, FetchNothing, Shared, Mirror, Store
  <2>3. inflight[k] # NoFlight => inflight'[k] # NoFlight
    BY <2>2, ResolveKeepsFlights
  <2> QED
    BY <2>1, <2>3 DEF Leaders
<1>3. ASSUME NEW c \in Callers, Lead(c), key[c] = k
      PROVE  /\ inflight[k] = NoFlight /\ inflight'[k] # NoFlight
             /\ Leaders(k)' = Leaders(k) \cup {c}
  <2>1. [leader |-> c, future |-> "pending"] # NoFlight
    BY FlightIsNotNoFlight DEF Flight, FutureState
  <2>2. /\ inflight[k] = NoFlight /\ inflight'[k] # NoFlight /\ key' = key
        /\ pc' = [pc EXCEPT ![c] = "fetch"]
    BY <1>3, <2>1 DEF Lead, NobodyFetches, Suspend, Types
  <2> QED
    BY <1>3, <2>2 DEF Leaders, Types
<1>4. ASSUME NEW c \in Callers, Lead(c) \/ Cleanup(c), key[c] # k
      PROVE  Leaders(k)' = Leaders(k) /\ inflight'[k] = inflight[k]
  BY <1>4 DEF Lead, Cleanup, Suspend, Return, Leaders, Types
<1>5. ASSUME NEW c \in Callers, Cleanup(c), key[c] = k
      PROVE  c \in Leaders(k) /\ Leaders(k)' = Leaders(k) \ {c}
  BY <1>5 DEF Cleanup, Suspend, Return, Leaders, Types
<1>6. ASSUME NEW c \in Callers, Cancel(c)
      PROVE  /\ Leaders(k)' \subseteq Leaders(k)
             /\ inflight[k] # NoFlight => inflight'[k] # NoFlight
  <2>1. /\ key' = key /\ (Leading(c)' => Leading(c))
        /\ \A d \in Callers : d # c => pc'[d] = pc[d]
    BY <1>6 DEF Cancel, Continue, Suspend, Return, Types
  <2> QED
    BY <1>6, <2>1, CancelKeepsFlights DEF Leaders
<1>7. ASSUME NEW c \in Callers, Clear(c)
      PROVE  Cardinality(Leaders(k)') <= Known(k)' + clears'
  <2>1. clears' = clears + 1 /\ Leaders(k)' = Leaders(k)
    BY <1>7 DEF Clear, Suspend, Return, Leaders, Types
  <2>2. Cardinality(Leaders(k)) \in Nat /\ clears \in Nat
    BY LeadersFinite DEF ClearsInv
  <2> QED
    BY <1>0, <2>1, <2>2 DEF Known
<1>8. CASE (Tick /\ UNCHANGED clears) \/ UNCHANGED vars
  BY <1>0, <1>8 DEF Tick, vars, Leaders, Known
<1>9. ASSUME NEW c \in Callers, Step(c)
       PROVE  Cardinality(Leaders(k)') <= Known(k)' + clears'
  <2>1. CASE Clear(c)
    BY <1>7, <2>1
  <2>2. CASE ~Clear(c)
    <3>1. clears' = clears
      BY <1>9, <2>2 DEF Step
    <3>2. CASE Queue(c) \/ Get(c) \/ Follow(c) \/ Answered(c)
      BY <1>0, <1>1, <3>1, <3>2, CountKept
    <3>3. CASE Fetched(c) \/ Mirror(c) \/ Store(c)
      BY <1>0, <1>2, <3>1, <3>3, CountKept DEF Fetched
    <3>4. CASE Lead(c) /\ key[c] = k
      BY <1>0, <1>3, <3>1, <3>4, CountKept
    <3>5. CASE (Lead(c) \/ Cleanup(c)) /\ key[c] # k
      BY <1>0, <1>4, <3>1, <3>5, CountKept
    <3>6. CASE Cleanup(c) /\ key[c] = k
      BY <1>0, <1>5, <3>1, <3>6, CountKept
    <3> QED
      BY <1>9, <2>2, <3>2, <3>3, <3>4, <3>5, <3>6 DEF Step
  <2> QED
    BY <2>1, <2>2
<1>10. ASSUME NEW c \in Callers, CallClear(c) \/ Cancel(c) \/ \E j \in Keys : Call(c, j),
              clears' = clears
       PROVE  Cardinality(Leaders(k)') <= Known(k)' + clears'
  BY <1>0, <1>1, <1>6, <1>10, CountKept
<1> QED
  BY <1>8, <1>9, <1>10 DEF Next

LEMMA CountHolds == Spec => []CountInv
<1>1. Init => CountInv
  <2> SUFFICES ASSUME Init, NEW k \in Keys
               PROVE  Cardinality(Leaders(k)) <= Known(k) + clears
    BY DEF CountInv
  <2>1. Leaders(k) = {}
    BY DEF Init, Leaders, Leading, InFlight
  <2>2. inflight[k] = NoFlight /\ clears = 0
    BY DEF Init
  <2> QED
    BY <2>1, <2>2, FS_EmptySet DEF Known
<1> QED
  BY <1>1, CountStep, TypesHold, ClearsCounted, PTL DEF Spec

\* Single flight for every number of callers and keys, cancelled or not: until
\* somebody clears the cache no two callers fetch the same key at once, and
\* afterwards no more than one for every clear() besides, although an orphaned
\* leader removes the future of its successor.
THEOREM SingleFlight == Spec => []FetchesPerKey
<1>1. ClearsInv /\ CountInv => FetchesPerKey
  <2> SUFFICES ASSUME ClearsInv, CountInv, NEW k \in Keys
               PROVE  Cardinality(Leaders(k)) <= 1 + clears
    BY DEF FetchesPerKey
  <2>1. Cardinality(Leaders(k)) <= Known(k) + clears /\ Cardinality(Leaders(k)) \in Nat
    BY LeadersFinite DEF CountInv
  <2> QED
    BY <2>1 DEF Known, ClearsInv
<1> QED
  BY <1>1, ClearsCounted, CountHolds, PTL

-----------------------------------------------------------------------------

\* What eviction leaves, together with the new key, fits the capacity.
LEMMA EvictionMakesRoom ==
    ASSUME IsFiniteSet(DOMAIN store), Cardinality(DOMAIN store) <= max_entries,
           NEW w, NEW K \in Kept(w), NEW k
    PROVE  /\ IsFiniteSet(K \cup {k})
           /\ Cardinality(K \cup {k}) <= max_entries
<1> USE CacheAssumption
<1>1. K \subseteq DOMAIN store
  BY DEF Kept
<1>2. IsFiniteSet(K) /\ Cardinality(K) \in Nat
  BY <1>1, FS_Subset, FS_CardinalityType
<1>3. Cardinality(K) <= max_entries - 1
  <2>1. Cardinality(DOMAIN store) \in Nat
    BY FS_CardinalityType
  <2>2. CASE Cardinality(DOMAIN store) < max_entries
    <3>1. K = DOMAIN store
      BY <2>2 DEF Kept
    <3> QED
      BY <2>1, <2>2, <3>1
  <2>3. CASE ~(Cardinality(DOMAIN store) < max_entries)
    <3>1. Cardinality(K) <= Room \/ Cardinality(K) = Room
      BY <2>3, Zenon DEF Kept
    <3> QED
      BY <1>2, <3>1 DEF Room
  <2> QED
    BY <2>2, <2>3
<1>4. /\ IsFiniteSet(K \cup {k})
      /\ Cardinality(K \cup {k}) = Cardinality(K) \/ Cardinality(K \cup {k}) = Cardinality(K) + 1
  BY <1>2, FS_AddElement
<1> QED
  BY <1>2, <1>3, <1>4

CapacityInv == IsFiniteSet(DOMAIN store) /\ Cardinality(DOMAIN store) <= max_entries

LEMMA CapacityHolds == Spec => []CapacityInv
<1> USE CacheAssumption DEF CapacityInv
<1>1. Init => CapacityInv
  BY FS_EmptySet DEF Init, EmptyStore
<1>2. ASSUME CapacityInv, [Next]_vars
      PROVE  CapacityInv'
  <2>1. CASE DOMAIN store' = DOMAIN store
    BY <1>2, <2>1
  <2>2. ASSUME NEW c \in Callers, Get(c)
        PROVE  CapacityInv'
    <3>1. DOMAIN store' \subseteq DOMAIN store
      BY <2>2 DEF Get, Without
    <3>2. IsFiniteSet(DOMAIN store') /\ Cardinality(DOMAIN store') <= Cardinality(DOMAIN store)
      BY <1>2, <3>1, FS_Subset
    <3>3. Cardinality(DOMAIN store') \in Nat /\ Cardinality(DOMAIN store) \in Nat
      BY <1>2, <3>2, FS_CardinalityType
    <3> QED
      BY <1>2, <3>2, <3>3
  <2>3. ASSUME NEW c \in Callers, Inserts(c)
        PROVE  CapacityInv'
    <3>1. PICK K \in Kept(ttl - life[c]) : store' = Insert(c, K)
      BY <2>3 DEF Inserts
    <3>2. DOMAIN store' = K \cup {key[c]}
      BY <3>1 DEF Insert
    <3>3. /\ IsFiniteSet(K \cup {key[c]})
          /\ Cardinality(K \cup {key[c]}) <= max_entries
      BY <1>2, EvictionMakesRoom, Zenon
    <3> QED
      BY <3>2, <3>3
  <2>4. ASSUME NEW c \in Callers, Clear(c)
        PROVE  CapacityInv'
    <3>1. DOMAIN store' = {}
      BY <2>4 DEF Clear, EmptyStore
    <3> QED
      BY <3>1, FS_EmptySet
  <2>5. ASSUME NEW c \in Callers,
               \/ \E k \in Keys : Call(c, k)
               \/ CallClear(c) \/ Queue(c) \/ Lead(c) \/ Follow(c) \/ Answered(c)
               \/ Fetched(c) \/ Cleanup(c) \/ Cancel(c)
        PROVE  store' = store
    BY <2>5 DEF Call, CallClear, Queue, Lead, Follow, Answered, Fetched,
                FetchValue, FetchNothing, Shared, Set, Cleanup, Cancel
  <2>6. CASE Tick \/ UNCHANGED vars
    BY <2>1, <2>6 DEF Tick, vars
  <2> QED
    BY <1>2, <2>1, <2>2, <2>3, <2>4, <2>5, <2>6 DEF Next, Step, Mirror, Store
<1> QED
  BY <1>1, <1>2, PTL DEF Spec

\* The cache respects its capacity, for every capacity and number of callers,
\* although set() decides about eviction with a clock read before it waited.
THEOREM CapacityRespected == Spec => []StoreBounded
<1>1. CapacityInv => StoreBounded
  BY DEF CapacityInv, StoreBounded
<1> QED
  BY <1>1, CapacityHolds, PTL

-----------------------------------------------------------------------------
(* The queue of the lock.                                                  *)

Queued(c) == \E i \in 1..Len(waiters) : waiters[i] = c
Before(c, d) == \A i, j \in 1..Len(waiters) : waiters[i] = c /\ waiters[j] = d => i < j

\* Nobody is queued twice, or while it runs; whoever is between the miss and the
\* single-flight check runs or is queued.
QueueInv ==
    /\ waiters \in Seq(Callers)
    /\ \A i, j \in 1..Len(waiters) : waiters[i] = waiters[j] => i = j
    /\ running \in Callers \cup {NoOne}
    /\ \A c \in Callers : Queued(c) => running # c /\ pc[c] \in LockPoint
    /\ \A c \in Callers : pc[c] = "join" => running = c \/ Queued(c)

\* What c does to the queue, other than to join it: nobody else leaves, nobody
\* joins, and who is queued stays in order.
KeepsOrder(c) ==
    /\ waiters' \in Seq(Callers)
    /\ \A i, j \in 1..Len(waiters') : waiters'[i] = waiters'[j] => i = j
    /\ \A d \in Callers : Queued(d)' => Queued(d)
    /\ \A d \in Callers : d # c /\ Queued(d) => Queued(d)'
    /\ \A d, e \in Callers : Before(d, e) => Before(d, e)'

\* Taking c out of place p.
LEMMA RemovalKeepsOrder ==
    ASSUME QueueInv, NEW c \in Callers, NEW p \in 1..Len(waiters), waiters[p] = c,
           waiters' \in Seq(Callers), Len(waiters') = Len(waiters) - 1,
           \A i \in 1..Len(waiters') : waiters'[i] = IF i < p THEN waiters[i] ELSE waiters[i + 1]
    PROVE  KeepsOrder(c) /\ ~Queued(c)'
<1>1. Len(waiters) \in Nat /\ Len(waiters') \in Nat
  BY DEF QueueInv
<1> DEFINE old(i) == IF i < p THEN i ELSE i + 1
<1>2. \A i \in 1..Len(waiters') : /\ old(i) \in 1..Len(waiters) /\ old(i) # p
                                  /\ waiters'[i] = waiters[old(i)]
  BY <1>1
<1>3. \A i, j \in 1..Len(waiters') : /\ old(i) = old(j) => i = j
                                     /\ old(i) < old(j) => i < j
  BY <1>1
<1>4. \A j \in 1..Len(waiters) : j # p => \E i \in 1..Len(waiters') : old(i) = j
  <2> SUFFICES ASSUME NEW j \in 1..Len(waiters), j # p
               PROVE  \E i \in 1..Len(waiters') : old(i) = j
    OBVIOUS
  <2>1. CASE j < p
    <3>1. j \in 1..Len(waiters') /\ old(j) = j
      BY <1>1, <2>1
    <3> QED
      BY <3>1
  <2>2. CASE j > p
    <3>1. j - 1 \in 1..Len(waiters') /\ old(j - 1) = j
      BY <1>1, <2>2
    <3> QED
      BY <3>1
  <2> QED
    BY <1>1, <2>1, <2>2
<1> HIDE DEF old
<1>5. \A i, j \in 1..Len(waiters) : waiters[i] = waiters[j] => i = j
  BY DEF QueueInv
<1>6. \A i, j \in 1..Len(waiters') : waiters'[i] = waiters'[j] => i = j
  BY <1>2, <1>3, <1>5
<1>7. \A d \in Callers : Queued(d)' => Queued(d)
  BY <1>2 DEF Queued
<1>8. \A d \in Callers : d # c /\ Queued(d) => Queued(d)'
  <2> SUFFICES ASSUME NEW d \in Callers, d # c, Queued(d)
               PROVE  \E i \in 1..Len(waiters') : waiters'[i] = d
    BY DEF Queued
  <2>1. PICK j \in 1..Len(waiters) : waiters[j] = d
    BY DEF Queued
  <2>2. PICK i \in 1..Len(waiters') : old(i) = j
    BY <1>4, <2>1
  <2>3. waiters'[i] = d
    BY <1>2, <2>1, <2>2
  <2> QED
    BY <2>3
<1>9. ASSUME NEW d \in Callers, NEW e \in Callers, Before(d, e)
      PROVE  Before(d, e)'
  <2> SUFFICES ASSUME NEW i \in 1..Len(waiters'), NEW j \in 1..Len(waiters'),
                      waiters'[i] = d, waiters'[j] = e
               PROVE  i < j
    BY DEF Before
  <2>1. waiters[old(i)] = d /\ waiters[old(j)] = e
    BY <1>2
  <2>2. old(i) < old(j)
    BY <1>2, <1>9, <2>1 DEF Before
  <2> QED
    BY <1>3, <2>2
<1>10. ~Queued(c)'
  BY <1>2, <1>5 DEF Queued
<1> QED
  BY <1>6, <1>7, <1>8, <1>9, <1>10 DEF KeepsOrder

LEMMA SameQueueKeepsOrder ==
    ASSUME QueueInv, NEW c \in Callers, waiters' = waiters
    PROVE  KeepsOrder(c)
BY DEF QueueInv, KeepsOrder, Queued, Before

LEMMA UnqueuedKeepsOrder ==
    ASSUME QueueInv, NEW c \in Callers, waiters' = Unqueued(c)
    PROVE  KeepsOrder(c) /\ ~Queued(c)'
<1>1. CASE Places(c) = {}
  <2>1. waiters' = waiters
    BY <1>1 DEF Unqueued
  <2>2. ~Queued(c)
    BY <1>1 DEF Places, Queued, QueueInv
  <2> QED
    BY <2>1, <2>2, SameQueueKeepsOrder DEF Queued
<1>2. CASE Places(c) # {}
  <2> DEFINE p == CHOOSE i \in Places(c) : TRUE
             front == SubSeq(waiters, 1, p - 1)
             back == SubSeq(waiters, p + 1, Len(waiters))
  <2>1. p \in 1..Len(waiters) /\ waiters[p] = c
    BY <1>2 DEF Places, QueueInv
  <2>2. waiters' = front \o back
    BY <1>2 DEF Unqueued
  <2>3. waiters \in Seq(Callers) /\ Len(waiters) \in Nat
    BY DEF QueueInv
  <2> HIDE DEF p
  <2>4. \A i \in 1..Len(waiters) : waiters[i] \in Callers
    BY <2>3, ElementOfSeq
  <2>5. /\ front \in Seq(Callers) /\ Len(front) = p - 1
        /\ \A i \in 1..p - 1 : front[i] = waiters[i]
    BY <2>1, <2>3, <2>4, SubSeqProperties
  <2>6. /\ back \in Seq(Callers) /\ Len(back) = Len(waiters) - p
        /\ \A i \in 1..Len(waiters) - p : back[i] = waiters[p + i]
    <3>1. \A i \in p + 1..Len(waiters) : waiters[i] \in Callers
      BY <2>1, <2>3, <2>4
    <3>2. /\ back \in Seq(Callers)
          /\ Len(back) = IF p + 1 <= Len(waiters) THEN Len(waiters) - (p + 1) + 1 ELSE 0
          /\ \A i \in 1..Len(waiters) - (p + 1) + 1 : back[i] = waiters[(p + 1) + i - 1]
      BY <2>1, <2>3, <3>1, SubSeqProperties
    <3> QED
      BY <2>1, <2>3, <3>2
  <2> HIDE DEF front, back
  <2>7. /\ front \o back \in Seq(Callers)
        /\ Len(front \o back) = Len(front) + Len(back)
        /\ \A i \in 1..Len(front) + Len(back) :
              (front \o back)[i] = IF i <= Len(front) THEN front[i] ELSE back[i - Len(front)]
    BY <2>5, <2>6, ConcatProperties
  <2>8. waiters' \in Seq(Callers) /\ Len(waiters') = Len(waiters) - 1
    BY <2>1, <2>2, <2>3, <2>5, <2>6, <2>7
  <2>9. \A i \in 1..Len(waiters') :
           waiters'[i] = IF i < p THEN waiters[i] ELSE waiters[i + 1]
    BY <2>1, <2>2, <2>3, <2>5, <2>6, <2>7, <2>8
  <2> QED
    BY <2>1, <2>8, <2>9, RemovalKeepsOrder
<1> QED
  BY <1>1, <1>2

\* Whoever takes the lock was running, or was the first of the queue.
LEMMA AcquireKeepsOrder ==
    ASSUME QueueInv, NEW c \in Callers, Acquire(c)
    PROVE  /\ KeepsOrder(c) /\ ~Queued(c)' /\ running \in {c, NoOne}
           /\ \A d \in Callers : Queued(d) => Before(c, d) \/ d = c
<1>1. CASE running = c /\ waiters = <<>> /\ waiters' = waiters
  BY <1>1, SameQueueKeepsOrder DEF Queued
<1>2. CASE running = NoOne /\ waiters # <<>> /\ Head(waiters) = c /\ waiters' = Tail(waiters)
  <2>1. waiters \in Seq(Callers) /\ Len(waiters) \in Nat \ {0} /\ waiters[1] = c
    BY <1>2, EmptySeq DEF QueueInv
  <2>2. /\ waiters' \in Seq(Callers) /\ Len(waiters') = Len(waiters) - 1
        /\ \A i \in 1..Len(waiters') : waiters'[i] = waiters[i + 1]
    BY <1>2, <2>1
  <2>3. KeepsOrder(c) /\ ~Queued(c)'
    BY <2>1, <2>2, RemovalKeepsOrder
  <2>4. \A d \in Callers : Queued(d) => Before(c, d) \/ d = c
    BY <2>1 DEF Queued, Before, QueueInv
  <2> QED
    BY <1>2, <2>3, <2>4
<1> QED
  BY <1>1, <1>2 DEF Acquire

LEMMA QueueInvKept ==
    ASSUME QueueInv, NEW c \in Callers, KeepsOrder(c),
           running \in {c, NoOne}, running' \in {c, NoOne},
           \A d \in Callers : d # c => pc'[d] = pc[d],
           Queued(c)' => running' # c /\ pc'[c] \in LockPoint,
           pc'[c] = "join" => running' = c \/ Queued(c)'
    PROVE  QueueInv'
<1>1. running' \in Callers \cup {NoOne}
  OBVIOUS
<1>2. \A d \in Callers : d # c => running # d /\ running' # d
  BY CacheAssumption
<1>3. ASSUME NEW d \in Callers, Queued(d)'
      PROVE  running' # d /\ pc'[d] \in LockPoint
  BY <1>2, <1>3 DEF KeepsOrder, QueueInv
<1>4. ASSUME NEW d \in Callers, pc'[d] = "join"
      PROVE  running' = d \/ Queued(d)'
  BY <1>2, <1>4 DEF KeepsOrder, QueueInv
<1> QED
  BY <1>1, <1>3, <1>4 DEF KeepsOrder, QueueInv

\* Queue(c): c joins the queue behind everybody else.
LEMMA JoinQueue ==
    ASSUME QueueInv, NEW c \in Callers, Queue(c)
    PROVE  /\ QueueInv'
           /\ \A d, e \in Callers : d # c /\ Before(d, e) => Before(d, e)'
           /\ \A d \in Callers : d # c => Before(d, c)'
<1>1. /\ waiters' = Append(waiters, c) /\ pc' = pc /\ pc[c] \in LockPoint
      /\ running = c /\ running' = NoOne
  BY DEF Queue
<1>2. /\ waiters' \in Seq(Callers) /\ Len(waiters) \in Nat
      /\ Len(waiters') = Len(waiters) + 1 /\ waiters'[Len(waiters) + 1] = c
      /\ \A i \in 1..Len(waiters) : waiters'[i] = waiters[i]
  BY <1>1 DEF QueueInv
<1>3. \A i \in 1..Len(waiters') : i \in 1..Len(waiters) \/ i = Len(waiters) + 1
  BY <1>2
<1>4. \A i \in 1..Len(waiters) : i < Len(waiters) + 1 /\ waiters[i] # c
  BY <1>1, <1>2 DEF QueueInv, Queued
<1>5. \A i, j \in 1..Len(waiters') : waiters'[i] = waiters'[j] => i = j
  BY <1>2, <1>3, <1>4 DEF QueueInv
<1>6. \A d \in Callers : Queued(d)' <=> Queued(d) \/ d = c
  BY <1>2, <1>3 DEF Queued
<1>7. QueueInv'
  <2>1. \A d \in Callers : running' # d
    BY <1>1, CacheAssumption
  <2>2. \A d \in Callers : Queued(d)' => pc'[d] \in LockPoint
    BY <1>1, <1>6 DEF QueueInv
  <2>3. \A d \in Callers : pc'[d] = "join" => Queued(d)'
    BY <1>1, <1>6 DEF QueueInv
  <2> QED
    BY <1>1, <1>2, <1>5, <2>1, <2>2, <2>3 DEF QueueInv
<1>8. ASSUME NEW d \in Callers, NEW e \in Callers, d # c, Before(d, e) \/ e = c
      PROVE  Before(d, e)'
  <2> SUFFICES ASSUME NEW i \in 1..Len(waiters'), NEW j \in 1..Len(waiters'),
                      waiters'[i] = d, waiters'[j] = e
               PROVE  i < j
    BY DEF Before
  <2>1. i \in 1..Len(waiters) /\ waiters[i] = d
    BY <1>2, <1>3, <1>8
  <2>2. CASE j = Len(waiters) + 1
    BY <1>4, <2>1, <2>2
  <2>3. CASE j \in 1..Len(waiters)
    BY <1>2, <1>4, <1>8, <2>1, <2>3 DEF Before
  <2> QED
    BY <1>3, <2>2, <2>3
<1> QED
  BY <1>7, <1>8

\* Every other step of c keeps the queue in order, and c runs after it, or nobody.
LEMMA StepKeepsOrder ==
    ASSUME QueueInv, Types, NEW c \in Callers,
           \/ Get(c) \/ Lead(c) \/ Follow(c) \/ Answered(c) \/ Fetched(c)
           \/ Mirror(c) \/ Store(c) \/ Cleanup(c) \/ Clear(c) \/ CallClear(c) \/ Cancel(c)
           \/ \E k \in Keys : Call(c, k)
    PROVE  /\ KeepsOrder(c) /\ running \in {c, NoOne} /\ running' \in {c, NoOne}
           /\ \A d \in Callers : d # c => pc'[d] = pc[d]
           /\ ~Queued(c)'
           /\ pc'[c] = "join" => running' = c
<1> USE DEF Types, Continue, Suspend, Return
<1>1. CASE Get(c) \/ Lead(c) \/ Follow(c) \/ Mirror(c) \/ Store(c) \/ Cleanup(c) \/ Clear(c)
  <2>1. Acquire(c)
    BY <1>1 DEF Get, Lead, Follow, Mirror, Store, Inserts, Cleanup, Clear
  <2>2. /\ running' \in {c, NoOne}
        /\ \A d \in Callers : d # c => pc'[d] = pc[d]
        /\ pc'[c] = "join" => running' = c
    BY <1>1 DEF Get, Lead, Follow, Mirror, Store, Inserts, Cleanup, Clear
  <2> QED
    BY <2>1, <2>2, AcquireKeepsOrder
<1>2. CASE Answered(c) \/ Fetched(c) \/ CallClear(c) \/ \E k \in Keys : Call(c, k)
  <2>1. /\ waiters' = waiters /\ running = NoOne /\ running' \in {c, NoOne}
        /\ pc[c] \in {"follow", "fetch", "share", "idle"}
        /\ \A d \in Callers : d # c => pc'[d] = pc[d]
        /\ pc'[c] # "join"
    BY <1>2 DEF Answered, Fetched, FetchValue, FetchNothing, Shared, Set, CallClear, Call
  <2>2. ~Queued(c)
    BY <2>1 DEF QueueInv, LockPoint
  <2>3. ~Queued(c)'
    BY <2>1, <2>2 DEF Queued
  <2> QED
    BY <2>1, <2>3, SameQueueKeepsOrder
<1>3. CASE Cancel(c)
  <2>1. waiters' = Unqueued(c) /\ running = NoOne
    BY <1>3 DEF Cancel
  <2>2. /\ running' \in {c, NoOne}
        /\ \A d \in Callers : d # c => pc'[d] = pc[d]
        /\ pc'[c] # "join"
    BY <1>3 DEF Cancel
  <2> QED
    BY <2>1, <2>2, UnqueuedKeepsOrder
<1> QED
  BY <1>1, <1>2, <1>3

LEMMA QueueInvStep ==
    ASSUME QueueInv, Types, [Next]_vars
    PROVE  QueueInv'
<1>1. ASSUME NEW c \in Callers, Queue(c)
      PROVE  QueueInv'
  BY <1>1, JoinQueue
<1>2. ASSUME NEW c \in Callers,
             \/ Get(c) \/ Lead(c) \/ Follow(c) \/ Answered(c) \/ Fetched(c)
             \/ Mirror(c) \/ Store(c) \/ Cleanup(c) \/ Clear(c) \/ CallClear(c) \/ Cancel(c)
             \/ \E k \in Keys : Call(c, k)
      PROVE  QueueInv'
  BY <1>2, StepKeepsOrder, QueueInvKept
<1>3. CASE Tick \/ UNCHANGED vars
  BY <1>3 DEF Tick, vars, QueueInv, Queued
<1> QED
  BY <1>1, <1>2, <1>3 DEF Next, Step

LEMMA QueueInvHolds == Spec => []QueueInv
<1>1. Init => QueueInv
  BY CacheAssumption DEF Init, QueueInv, Queued
<1> QED
  BY <1>1, QueueInvStep, TypesHold, PTL DEF Spec

-----------------------------------------------------------------------------
(* Between the miss and the single-flight check.                           *)

\* If the key is stored while c queues for the check, its future is registered,
\* and whoever is to remove it comes behind c.
MissInv ==
    \A c \in Callers : pc[c] = "join" /\ clears = 0 /\ key[c] \in DOMAIN store =>
        /\ running # c
        /\ inflight[key[c]] # NoFlight
        /\ \A d \in Callers :
              pc[d] = "cleanup" /\ key[d] = key[c] /\ running # d => Before(c, d)

LEMMA MissStep ==
    ASSUME Types, ClearsInv, QueueInv, QueueInv', LeadersInv, MissInv, [Next]_vars
    PROVE  MissInv'
<1> SUFFICES ASSUME NEW c \in Callers, pc'[c] = "join", clears' = 0,
                    key'[c] \in DOMAIN store'
             PROVE  /\ running' # c
                    /\ inflight'[key'[c]] # NoFlight
                    /\ \A d \in Callers :
                          pc'[d] = "cleanup" /\ key'[d] = key'[c] /\ running' # d =>
                              Before(c, d)'
  BY DEF MissInv
<1> DEFINE Goal == /\ running' # c
                   /\ inflight'[key'[c]] # NoFlight
                   /\ \A d \in Callers :
                         pc'[d] = "cleanup" /\ key'[d] = key'[c] /\ running' # d =>
                             Before(c, d)'
<1>1. clears = 0 /\ LeadersRegistered /\ \A e \in Callers : ~Clear(e)
  <2>1. \A e \in Callers : ~Clear(e)
    BY DEF Clear, ClearsInv
  <2>2. clears = 0
    BY <2>1 DEF Next, Step, vars
  <2> QED
    BY <2>1, <2>2 DEF LeadersInv
\* What is left to show of a step of another caller e that does not queue.
<1>2. ASSUME NEW e \in Callers, e # c, key[c] \in DOMAIN store,
             KeepsOrder(e), running \in {e, NoOne}, running' \in {e, NoOne},
             pc'[c] = pc[c], key'[c] = key[c],
             inflight[key[c]] # NoFlight => inflight'[key[c]] # NoFlight,
             \A d \in Callers : d # e => pc'[d] = pc[d] /\ key'[d] = key[d],
             pc'[e] = "cleanup" => running' = e
      PROVE  Goal
  <2>1. /\ inflight[key[c]] # NoFlight
        /\ \A d \in Callers :
              pc[d] = "cleanup" /\ key[d] = key[c] /\ running # d => Before(c, d)
    BY <1>1, <1>2 DEF MissInv
  <2>2. running' # c
    BY <1>2, CacheAssumption
  <2>3. ASSUME NEW d \in Callers, pc'[d] = "cleanup", key'[d] = key'[c], running' # d
        PROVE  Before(c, d)'
    <3>1. d # e /\ running # d
      BY <1>2, <2>3, CacheAssumption
    <3>2. Before(c, d)
      BY <1>2, <2>1, <2>3, <3>1
    <3> QED
      BY <1>2, <3>2 DEF KeepsOrder
  <2> QED
    BY <1>2, <2>1, <2>2, <2>3
<1>3. ASSUME NEW e \in Callers, Queue(e)
      PROVE  Goal
  <2>1. /\ UNCHANGED <<store, inflight, pc, key>> /\ running = e /\ running' = NoOne
    BY <1>3 DEF Queue
  <2>2. /\ c # e /\ inflight[key[c]] # NoFlight
        /\ \A d \in Callers :
              pc[d] = "cleanup" /\ key[d] = key[c] /\ running # d => Before(c, d)
    BY <1>1, <2>1 DEF MissInv
  <2>3. \A d \in Callers : pc[d] = "cleanup" /\ key[d] = key[c] => Before(c, d)'
    BY <1>3, <2>1, <2>2, JoinQueue
  <2> QED
    BY <2>1, <2>2, <2>3, CacheAssumption
<1>4. ASSUME NEW e \in Callers, \/ Get(e) \/ Lead(e) \/ Follow(e) \/ Answered(e) \/ Fetched(e)
                                \/ Cancel(e) \/ CallClear(e) \/ \E k \in Keys : Call(e, k)
      PROVE  Goal
  <2>1. /\ KeepsOrder(e) /\ running \in {e, NoOne} /\ running' \in {e, NoOne}
        /\ \A d \in Callers : d # e => pc'[d] = pc[d]
    BY <1>4, StepKeepsOrder
  <2>2. e # c
    <3>1. ASSUME Get(c)
          PROVE  FALSE
      BY <3>1 DEF Get, Without, Return, Suspend, Types
    <3>2. ASSUME \/ Lead(c) \/ Follow(c) \/ Answered(c) \/ Fetched(c) \/ Cancel(c)
                 \/ CallClear(c) \/ \E k \in Keys : Call(c, k)
          PROVE  FALSE
      BY <3>2 DEF Lead, Follow, Answered, Fetched, FetchValue, FetchNothing, Shared, Set, Cancel,
                  CallClear, Call,
                  Continue, Suspend, Return, Types
    <3> QED
      BY <1>4, <3>1, <3>2
  <2>3. \A d \in Callers : d # e => key'[d] = key[d]
    BY <1>4 DEF Get, Lead, Follow, Answered, Fetched, FetchValue, FetchNothing, Shared, Set, Cancel,
                  CallClear, Call,
                Types
  <2>4. DOMAIN store' \subseteq DOMAIN store
    BY <1>4 DEF Get, Without, Lead, Follow, Answered, Fetched, FetchValue, FetchNothing,
                Shared, Set, Cancel, CallClear, Call
  <2>5. pc'[e] = "cleanup" => running' = e
    BY <1>4 DEF Get, Lead, Follow, Answered, Fetched, FetchValue, FetchNothing, Shared, Set, Cancel,
                  CallClear, Call,
                Continue, Suspend, Return, Types
  <2>6. inflight[key[c]] # NoFlight => inflight'[key[c]] # NoFlight
    <3>1. key[c] \in Keys
      BY DEF Types
    <3>2. CASE Cancel(e)
      BY <3>1, <3>2, CancelKeepsFlights
    <3>3. CASE Fetched(e)
      BY <3>1, <3>3, ResolveKeepsFlights DEF Fetched, FetchValue, FetchNothing, Shared
    <3>4. CASE Lead(e)
      <4>1. [leader |-> e, future |-> "pending"] # NoFlight
        BY FlightIsNotNoFlight DEF Flight, FutureState
      <4> QED
        BY <3>1, <3>4, <4>1 DEF Lead, Types
    <3>5. CASE Get(e) \/ Follow(e) \/ Answered(e) \/ CallClear(e) \/ \E k \in Keys : Call(e, k)
      BY <3>5 DEF Get, Follow, Answered, CallClear, Call
    <3> QED
      BY <1>4, <3>2, <3>3, <3>4, <3>5
  <2> QED
    BY <1>2, <2>1, <2>2, <2>3, <2>4, <2>5, <2>6
<1>5. ASSUME NEW e \in Callers, Mirror(e) \/ Store(e)
      PROVE  Goal
  <2>1. /\ KeepsOrder(e) /\ running \in {e, NoOne} /\ running' \in {e, NoOne}
        /\ \A d \in Callers : d # e => pc'[d] = pc[d]
    BY <1>5, StepKeepsOrder
  <2>2. /\ Inserts(e) /\ key' = key /\ pc[e] \in {"mirror", "store"}
        /\ inflight' = inflight \/ Resolve(e)
        /\ pc'[e] = "share" \/ (pc'[e] = "cleanup" /\ running' = e)
    BY <1>5 DEF Mirror, Store, Inserts, Continue, Suspend, Types
  <2>3. e # c
    BY <2>2
  <2>4. key[c] \in Keys /\ key[e] \in Keys
    BY DEF Types
  <2>5. CASE key[c] \in DOMAIN store
    BY <1>2, <2>1, <2>2, <2>3, <2>4, <2>5, ResolveKeepsFlights
  <2>6. CASE key[c] \notin DOMAIN store
    <3>1. DOMAIN store' \subseteq DOMAIN store \cup {key[e]}
      BY <2>2 DEF Inserts, Insert, Kept
    <3>2. key[c] = key[e]
      BY <2>2, <2>6, <3>1
    <3>3. inflight[key[e]].leader = e
      BY <1>1, <2>2 DEF LeadersRegistered, Leading, InFlight
    <3>4. inflight[key[e]] # NoFlight
      BY <3>3, CacheAssumption DEF NoFlight
    <3>5. inflight'[key[e]] # NoFlight
      BY <2>2, <2>4, <3>4, ResolveKeepsFlights
    <3>6. \A d \in Callers : pc'[d] = "cleanup" /\ key[d] = key[e] => d = e
      BY <1>1, <2>1, <2>2, <3>3 DEF LeadersRegistered, Leading
    <3> QED
      BY <2>1, <2>2, <2>3, <3>2, <3>5, <3>6, CacheAssumption
  <2> QED
    BY <2>5, <2>6
<1>6. ASSUME NEW e \in Callers, Cleanup(e)
      PROVE  Goal
  <2>1. /\ KeepsOrder(e) /\ running \in {e, NoOne} /\ running' \in {e, NoOne}
        /\ \A d \in Callers : d # e => pc'[d] = pc[d]
    BY <1>6, StepKeepsOrder
  <2>2. /\ key' = key /\ store' = store /\ pc[e] = "cleanup" /\ pc'[e] = "idle"
        /\ inflight' = [inflight EXCEPT ![key[e]] = NoFlight] /\ Acquire(e)
    BY <1>6 DEF Cleanup, Return, Suspend, Types
  <2>3. e # c
    BY <2>2
  <2>4. Queued(c)
    BY <2>1, <2>3, CacheAssumption DEF QueueInv
  <2>5. key[c] # key[e]
    <3>1. Before(e, c)
      BY <2>2, <2>3, <2>4, AcquireKeepsOrder
    <3>2. running = NoOne /\ waiters # <<>> /\ Head(waiters) = e
      <4>1. waiters # <<>>
        BY <2>4 DEF Queued
      <4> QED
        BY <2>2, <4>1 DEF Acquire
    <3>3. Queued(e)
      <4>1. waiters \in Seq(Callers) /\ Len(waiters) \in Nat \ {0} /\ waiters[1] = e
        BY <3>2, EmptySeq DEF QueueInv
      <4> QED
        BY <4>1 DEF Queued
    <3>4. Len(waiters) \in Nat
      BY DEF QueueInv
    <3>5. ~Before(c, e)
      BY <2>4, <3>1, <3>3, <3>4 DEF Before, Queued
    <3>6. running # e
      BY <3>2, CacheAssumption
    <3> QED
      BY <1>1, <2>1, <2>2, <2>3, <3>5, <3>6 DEF MissInv
  <2>6. inflight'[key[c]] = inflight[key[c]]
    BY <2>2, <2>5 DEF Types
  <2> QED
    BY <1>2, <2>1, <2>2, <2>3, <2>6
<1>7. CASE Tick \/ UNCHANGED vars
  <2>1. /\ DOMAIN store' = DOMAIN store
        /\ UNCHANGED <<inflight, waiters, running, pc, key>>
    BY <1>7 DEF Tick, vars
  <2> QED
    BY <1>1, <2>1 DEF MissInv, Before
<1> QED
  BY <1>1, <1>3, <1>4, <1>5, <1>6, <1>7 DEF Next, Step

LEMMA MissInvHolds == Spec => []MissInv
<1>1. Init => MissInv
  BY DEF Init, MissInv
<1> QED
  BY <1>1, MissStep, TypesHold, ClearsCounted, QueueInvHolds, LeadersHold, PTL DEF Spec

\* Nobody fetches what was stored since it missed, for every number of callers,
\* although the lock is given up in between: the leader that stores the value
\* queues for the removal of its future behind everybody who has missed.
THEOREM FetchesNeeded == Spec => FetchOnlyOnMiss
<1>1. ASSUME Types, QueueInv, MissInv, [Next]_vars
      PROVE  [\A c \in Callers :
                 pc[c] = "join" /\ pc'[c] = "fetch" /\ clears = 0 => ~Fresh(key[c])]_vars
  <2> SUFFICES ASSUME NEW c \in Callers, pc[c] = "join", pc'[c] = "fetch", clears = 0
               PROVE  ~Fresh(key[c])
    OBVIOUS
  <2>1. ASSUME NEW e \in Callers, Queue(e)
        PROVE  FALSE
    BY <2>1 DEF Queue
  <2>2. ASSUME NEW e \in Callers,
               \/ Get(e) \/ Follow(e) \/ Answered(e) \/ Fetched(e) \/ Mirror(e) \/ Store(e)
               \/ Cleanup(e) \/ Clear(e) \/ CallClear(e) \/ Cancel(e) \/ \E k \in Keys : Call(e, k)
        PROVE  FALSE
    <3>1. c = e
      BY <1>1, <2>2, StepKeepsOrder
    <3> QED
      BY <1>1, <2>2, <3>1
         DEF Get, Follow, Answered, Fetched, FetchValue, FetchNothing, Shared, Set, Mirror, Store,
             Inserts, Cleanup, Clear,
             CallClear, Cancel, Call, Continue, Suspend, Return, Types
  <2>3. ASSUME NEW e \in Callers, Lead(e)
        PROVE  ~Fresh(key[c])
    <3>1. c = e
      BY <1>1, <2>3, StepKeepsOrder
    <3>2. inflight[key[c]] = NoFlight
      BY <2>3, <3>1 DEF Lead, NobodyFetches
    <3> QED
      BY <1>1, <3>2 DEF MissInv, Fresh
  <2>4. CASE Tick \/ UNCHANGED vars
    BY <2>4 DEF Tick, vars
  <2> QED
    BY <1>1, <2>1, <2>2, <2>3, <2>4 DEF Next, Step
<1> QED
  BY <1>1, TypesHold, QueueInvHolds, MissInvHolds, PTL DEF Spec, FetchOnlyOnMiss

-----------------------------------------------------------------------------
(* Who waits for whom.                                                     *)

\* The lock is held only by a caller that follows, and whoever wants it has the
\* loop or is queued.
LockInv ==
    /\ holder \in Callers \cup {NoOne}
    /\ \A c \in Callers : holder = c => pc[c] = "follow"
    /\ \A c \in Callers : pc[c] \in LockPoint <=> running = c \/ Queued(c)

LEMMA LockInvInit == Init => LockInv
BY CacheAssumption DEF Init, LockInv, LockPoint, Queued

\* What is left to show of a step of c that does not queue.
LEMMA LockInvKept ==
    ASSUME LockInv, QueueInv, NEW c \in Callers, KeepsOrder(c), ~Queued(c)',
           running \in {c, NoOne}, running' \in {c, NoOne},
           \A d \in Callers : d # c => pc'[d] = pc[d],
           pc'[c] \in LockPoint <=> running' = c,
           \/ holder' = holder /\ pc[c] # "follow"
           \/ holder' = NoOne
           \/ holder' = c /\ pc'[c] = "follow"
    PROVE  LockInv'
<1>1. \A d \in Callers : d # c => running # d /\ running' # d
  BY CacheAssumption
<1>2. ASSUME NEW d \in Callers
      PROVE  pc'[d] \in LockPoint <=> running' = d \/ Queued(d)'
  BY <1>1, <1>2 DEF LockInv, KeepsOrder
<1>3. /\ holder' \in Callers \cup {NoOne}
      /\ \A d \in Callers : holder' = d => pc'[d] = "follow"
  BY CacheAssumption DEF LockInv
<1> QED
  BY <1>2, <1>3 DEF LockInv

LEMMA LockInvStep ==
    ASSUME LockInv, QueueInv, Types, AwaitedFutureRegistered, [Next]_vars
    PROVE  LockInv'
<1> USE DEF Types, Continue, Suspend, Return, LockPoint
<1>1. ASSUME NEW c \in Callers, Queue(c)
      PROVE  LockInv'
  <2>1. /\ waiters' = Append(waiters, c) /\ UNCHANGED <<pc, holder>>
        /\ running = c /\ running' = NoOne
    BY <1>1 DEF Queue
  <2>2. /\ Len(waiters) \in Nat /\ Len(waiters') = Len(waiters) + 1
        /\ waiters'[Len(waiters) + 1] = c
        /\ \A i \in 1..Len(waiters) : waiters'[i] = waiters[i]
    BY <2>1 DEF QueueInv
  <2>3. \A i \in 1..Len(waiters') : i \in 1..Len(waiters) \/ i = Len(waiters) + 1
    BY <2>2
  <2>4. \A d \in Callers : Queued(d)' <=> Queued(d) \/ d = c
    BY <2>2, <2>3 DEF Queued
  <2>5. \A d \in Callers : running' # d
    BY <2>1, CacheAssumption
  <2> QED
    BY <2>1, <2>4, <2>5 DEF LockInv
<1>2. ASSUME NEW c \in Callers,
             \/ Get(c) \/ Lead(c) \/ Follow(c) \/ Answered(c) \/ Fetched(c)
             \/ Mirror(c) \/ Store(c) \/ Cleanup(c) \/ Clear(c) \/ CallClear(c) \/ Cancel(c)
             \/ \E k \in Keys : Call(c, k)
      PROVE  LockInv'
  <2>1. /\ KeepsOrder(c) /\ running \in {c, NoOne} /\ running' \in {c, NoOne}
        /\ \A d \in Callers : d # c => pc'[d] = pc[d]
        /\ ~Queued(c)'
    BY <1>2, StepKeepsOrder
  <2>2. /\ pc'[c] \in LockPoint <=> running' = c
        /\ \/ holder' = holder /\ pc[c] # "follow"
           \/ holder' = NoOne
           \/ holder' = c /\ pc'[c] = "follow"
    <3>1. CASE Get(c) \/ Lead(c) \/ Follow(c) \/ Mirror(c) \/ Store(c) \/ Cleanup(c) \/ Clear(c)
      BY <3>1, CacheAssumption DEF Get, Lead, Follow, Mirror, Store, Inserts, Cleanup, Clear
    <3>2. CASE Answered(c) \/ Fetched(c) \/ CallClear(c) \/ \E k \in Keys : Call(c, k)
      BY <3>2, CacheAssumption DEF Answered, Fetched, FetchValue, FetchNothing, Shared, Set, CallClear,
                                   Call
    <3>3. CASE Cancel(c)
      BY <3>3, CacheAssumption DEF Cancel, InFlight
    <3> QED
      BY <1>2, <3>1, <3>2, <3>3
  <2> QED
    BY <2>1, <2>2, LockInvKept
<1>3. CASE Tick \/ UNCHANGED vars
  BY <1>3 DEF Tick, vars, LockInv, Queued
<1> QED
  BY <1>1, <1>2, <1>3 DEF Next, Step

LEMMA LockInvHolds == Spec => []LockInv
BY LockInvInit, LockInvStep, TypesHold, QueueInvHolds, AwaitedFutureSafe, PTL DEF Spec

\* Where a caller has a step of its own to take, given that the tool and Redis
\* answer or time out.
Ready(c) ==
    \/ running = c /\ pc[c] \in LockPoint
    \/ /\ running = NoOne
       /\ \/ holder = NoOne /\ waiters # <<>> /\ Head(waiters) = c
          \/ pc[c] \in {"fetch", "share"}
          \/ pc[c] = "follow" /\ inflight[key[c]].future # "pending"

\* The safety part of OnlyLostLeadersHang: no state keeps everybody waiting,
\* queued for the lock or awaiting a future, but with a follower whose leader
\* needs the lock or is gone.
NobodyElseHangs ==
    /\ \A d \in Callers : ~FollowsNobody(d)
    /\ \E c \in Callers : pc[c] # "idle"
    => \E c \in Callers : Ready(c)

THEOREM OnlyFollowersBlock == Spec => []NobodyElseHangs
<1>1. Types /\ QueueInv /\ LockInv => NobodyElseHangs
  <2> SUFFICES ASSUME Types, QueueInv, LockInv,
                      \A d \in Callers : ~FollowsNobody(d),
                      NEW b \in Callers, pc[b] # "idle"
               PROVE  \E c \in Callers : Ready(c)
    BY DEF NobodyElseHangs
  <2>1. CASE running # NoOne
    BY <2>1 DEF QueueInv, LockInv, Ready
  <2>2. ASSUME running = NoOne, NEW d \in Callers, pc[d] = "follow"
        PROVE  \E c \in Callers : Ready(c)
    <3>1. CASE inflight[key[d]].future # "pending"
      BY <2>2, <3>1 DEF Ready
    <3>2. CASE inflight[key[d]].future = "pending"
      <4>1. inflight[key[d]] \in Flight
        BY <3>2 DEF Types, NoFlight
      <4>2. /\ pc[inflight[key[d]].leader] \in {"fetch", "share"}
            /\ inflight[key[d]].leader \in Callers
        BY <2>2, <3>2, <4>1 DEF FollowsNobody, Away, Flight
      <4> QED
        BY <2>2, <4>2 DEF Ready
    <3> QED
      BY <3>1, <3>2
  <2>3. CASE running = NoOne /\ pc[b] \in LockPoint
    <3>1. Queued(b)
      BY <2>3, CacheAssumption DEF LockInv
    <3>2. waiters # <<>> /\ Head(waiters) \in Callers
      BY <3>1 DEF Queued, QueueInv
    <3>3. CASE holder = NoOne
      BY <2>3, <3>2, <3>3 DEF Ready
    <3>4. CASE holder \in Callers
      BY <2>2, <2>3, <3>4 DEF LockInv
    <3> QED
      BY <3>3, <3>4 DEF LockInv
  <2>4. CASE running = NoOne /\ pc[b] \in {"fetch", "share"}
    BY <2>4 DEF Ready
  <2> QED
    BY <2>1, <2>2, <2>3, <2>4 DEF Types, Place
<1> QED
  BY <1>1, TypesHold, QueueInvHolds, LockInvHolds, PTL

\* The lock is handed over in the order in which callers asked for it: nobody
\* gets before a caller that is queued, whoever is cancelled in between.
NobodyOvertakes ==
    [][\A d, e \in Callers :
          Queued(d) /\ Before(d, e) => Before(d, e)' \/ ~Queued(d)']_vars

THEOREM LockIsFifo == Spec => NobodyOvertakes
<1>1. ASSUME Types, QueueInv, [Next]_vars
      PROVE  [\A d, e \in Callers :
                 Queued(d) /\ Before(d, e) => Before(d, e)' \/ ~Queued(d)']_vars
  <2> SUFFICES ASSUME NEW d \in Callers, NEW e \in Callers, Queued(d), Before(d, e)
               PROVE  Before(d, e)' \/ ~Queued(d)'
    OBVIOUS
  <2>1. ASSUME NEW c \in Callers, Queue(c)
        PROVE  Before(d, e)'
    <3>1. d # c
      BY <1>1, <2>1 DEF Queue, QueueInv
    <3> QED
      BY <1>1, <2>1, <3>1, JoinQueue
  <2>2. ASSUME NEW c \in Callers,
               \/ Get(c) \/ Lead(c) \/ Follow(c) \/ Answered(c) \/ Fetched(c)
               \/ Mirror(c) \/ Store(c) \/ Cleanup(c) \/ Clear(c) \/ CallClear(c) \/ Cancel(c)
               \/ \E k \in Keys : Call(c, k)
        PROVE  Before(d, e)'
    BY <1>1, <2>2, StepKeepsOrder DEF KeepsOrder
  <2>3. CASE Tick \/ UNCHANGED vars
    BY <1>1, <2>3 DEF Tick, vars, Before
  <2> QED
    BY <1>1, <2>1, <2>2, <2>3 DEF Next, Step
<1> QED
  BY <1>1, TypesHold, QueueInvHolds, PTL DEF Spec, NobodyOvertakes

-----------------------------------------------------------------------------
(* Types of the remaining variables.                                       *)

StoreTypes ==
    /\ DOMAIN store \subseteq Keys
    /\ \A k \in DOMAIN store : store[k] \in -ttl..ttl
    /\ life \in [Callers -> 0..ttl]
    /\ clears \in Nat

LEMMA StoreTypesStep ==
    ASSUME StoreTypes, Types, [Next]_vars
    PROVE  StoreTypes'
<1> USE CacheAssumption DEF StoreTypes, Types
<1>0. clears' \in Nat
  BY DEF Next, Step, Clear, vars
<1>1. ASSUME NEW c \in Callers,
             \/ Queue(c) \/ Lead(c) \/ Follow(c) \/ Answered(c) \/ FetchNothing(c) \/ Cleanup(c)
             \/ CallClear(c) \/ \E k \in Keys : Call(c, k)
      PROVE  UNCHANGED <<store, life>>
  BY <1>1 DEF Queue, Lead, Follow, Answered, FetchNothing, Cleanup, CallClear, Call
<1>2. ASSUME NEW c \in Callers, FetchValue(c) \/ Shared(c) \/ Cancel(c)
      PROVE  UNCHANGED store /\ life' \in [Callers -> 0..ttl]
  BY <1>2 DEF FetchValue, Shared, Set, Expiry, Cancel
<1>3. ASSUME NEW c \in Callers, Get(c)
      PROVE  StoreTypes'
  BY <1>0, <1>3 DEF Get, Without
<1>4. ASSUME NEW c \in Callers, Inserts(c)
      PROVE  StoreTypes'
  <2>1. PICK K \in Kept(ttl - life[c]) : store' = Insert(c, K)
    BY <1>4 DEF Inserts
  <2>2. K \subseteq DOMAIN store
    BY DEF Kept
  <2>3. /\ DOMAIN store' \subseteq Keys
        /\ \A k \in DOMAIN store' : store'[k] \in -ttl..ttl
    BY <2>1, <2>2 DEF Insert
  <2>4. life' \in [Callers -> 0..ttl]
    BY <1>4 DEF Inserts
  <2> QED
    BY <1>0, <2>3, <2>4
<1>5. ASSUME NEW c \in Callers, Clear(c)
      PROVE  StoreTypes'
  BY <1>0, <1>5 DEF Clear, EmptyStore
<1>6. CASE Tick
  <2>1. DOMAIN store' \subseteq Keys /\ \A k \in DOMAIN store' : store'[k] \in -ttl..ttl
    BY <1>6 DEF Tick
  <2>2. life' \in [Callers -> 0..ttl]
    BY <1>6 DEF Tick
  <2> QED
    BY <1>0, <2>1, <2>2
<1>7. CASE UNCHANGED vars
  BY <1>7 DEF vars
<1> QED
  BY <1>0, <1>1, <1>2, <1>3, <1>4, <1>5, <1>6, <1>7 DEF Next, Step, Fetched, Mirror, Store

LEMMA StoreTypesHold == Spec => []StoreTypes
<1>1. Init => StoreTypes
  <2> SUFFICES ASSUME Init
               PROVE  StoreTypes
    OBVIOUS
  <2>1. clears \in Nat
    BY DEF Init
  <2>2. DOMAIN store = {}
    BY DEF Init, EmptyStore
  <2> QED
    BY <2>1, <2>2, CacheAssumption DEF Init, StoreTypes
<1> QED
  BY <1>1, StoreTypesStep, TypesHold, PTL DEF Spec

\* The variables keep their types: an entry is never credited with more than
\* ttl, and the lock and the loop are only ever with one caller.
THEOREM CacheTypes == Spec => []TypeOK
<1>1. StoreTypes /\ Types /\ QueueInv /\ LockInv => TypeOK
  BY DEF StoreTypes, Types, QueueInv, LockInv, TypeOK
<1> QED
  BY <1>1, StoreTypesHold, TypesHold, QueueInvHolds, LockInvHolds, PTL

-----------------------------------------------------------------------------
(* To its callers the cache is a SingleFlight.                             *)

\* Only a caller that has a value to store has an expiry for it.
LifeInv == \A c \in Callers : pc[c] \notin {"mirror", "store"} => life[c] = 0

\* What a step of c leaves alone.
OthersStay(c) == \A d \in Callers : d # c => pc'[d] = pc[d] /\ key'[d] = key[d]

LEMMA CallersAlone ==
    ASSUME Types, NEW c \in Callers,
           \/ Queue(c) \/ Get(c) \/ Lead(c) \/ Follow(c) \/ Answered(c) \/ Fetched(c)
           \/ Mirror(c) \/ Store(c) \/ Cleanup(c) \/ Clear(c) \/ CallClear(c) \/ Cancel(c)
           \/ \E k \in Keys : Call(c, k)
    PROVE  OthersStay(c)
<1> USE DEF Types, Continue, Suspend, Return, OthersStay
<1>1. CASE Queue(c) \/ Get(c) \/ Lead(c) \/ Follow(c) \/ Answered(c)
  BY <1>1 DEF Queue, Get, Lead, Follow, Answered
<1>2. CASE Fetched(c) \/ Mirror(c) \/ Store(c) \/ Cleanup(c) \/ Clear(c)
  BY <1>2 DEF Fetched, FetchValue, FetchNothing, Shared, Set, Mirror, Store, Inserts, Cleanup,
              Clear
<1>3. CASE CallClear(c) \/ Cancel(c) \/ \E k \in Keys : Call(c, k)
  BY <1>3 DEF CallClear, Cancel, Call
<1> QED
  BY <1>1, <1>2, <1>3

LEMMA LifeStep ==
    ASSUME Types, StoreTypes, LifeInv, [Next]_vars
    PROVE  LifeInv'
<1> USE DEF LifeInv, Types, StoreTypes, Continue, Suspend, Return
<1>1. ASSUME NEW c \in Callers,
             \/ Get(c) \/ Lead(c) \/ Follow(c) \/ Answered(c) \/ FetchNothing(c) \/ Cleanup(c)
             \/ Clear(c) \/ CallClear(c) \/ \E k \in Keys : Call(c, k)
      PROVE  LifeInv'
  <2>1. /\ life' = life /\ pc[c] \notin {"mirror", "store"}
        /\ \A d \in Callers : d # c => pc'[d] = pc[d]
    BY <1>1 DEF Get, Lead, Follow, Answered, FetchNothing, Cleanup, Clear, CallClear, Call
  <2> QED
    BY <2>1
<1>2. ASSUME NEW c \in Callers, \/ FetchValue(c) \/ Shared(c) \/ Mirror(c)
                                \/ Store(c) \/ Cancel(c)
      PROVE  LifeInv'
  BY <1>2 DEF FetchValue, Shared, Set, Mirror, Store, Inserts, Cancel
<1>3. ASSUME NEW c \in Callers, Queue(c)
      PROVE  LifeInv'
  BY <1>3 DEF Queue
<1>4. CASE Tick \/ UNCHANGED vars
  BY <1>4 DEF Tick, vars
<1> QED
  BY <1>1, <1>2, <1>3, <1>4 DEF Next, Step, Fetched

LEMMA LifeHolds == Spec => []LifeInv
<1>1. Init => LifeInv
  BY DEF Init, LifeInv
<1> QED
  BY <1>1, LifeStep, TypesHold, StoreTypesHold, PTL DEF Spec

\* Who fetches and who has a value to store, before and after a step of c.
LEMMA AtMoves ==
    ASSUME NEW c \in Callers, OthersStay(c), NEW CONSTANT p
    PROVE  /\ pc[c] # p /\ pc'[c] # p => At(p)' = At(p)
           /\ key'[c] = key[c] /\ pc'[c] # p => At(p)' = At(p) \ {<<c, key[c]>>}
           /\ key'[c] = key[c] /\ pc'[c] = p => At(p)' = At(p) \cup {<<c, key[c]>>}
<1> USE DEF OthersStay
<1>1. ASSUME NEW e
      PROVE  /\ e \in At(p) <=> \E d \in Callers : pc[d] = p /\ e = <<d, key[d]>>
             /\ e \in At(p)' <=> \E d \in Callers : pc'[d] = p /\ e = <<d, key'[d]>>
  BY DEF At
<1>2. ASSUME pc[c] # p, pc'[c] # p
      PROVE  At(p)' = At(p)
  BY <1>1, <1>2
<1>3. ASSUME key'[c] = key[c], pc'[c] # p
      PROVE  At(p)' = At(p) \ {<<c, key[c]>>}
  BY <1>1, <1>3
<1>4. ASSUME key'[c] = key[c], pc'[c] = p
      PROVE  At(p)' = At(p) \cup {<<c, key[c]>>}
  BY <1>1, <1>4
<1> QED
  BY <1>2, <1>3, <1>4

\* c is among those at a place exactly if it is there.
LEMMA AtMeans ==
    ASSUME NEW c \in Callers, NEW k, NEW CONSTANT p
    PROVE  <<c, k>> \in At(p) <=> pc[c] = p /\ k = key[c]
BY DEF At

\* The library's cardinality is the same in both modules.
LEMMA SameCardinality ==
    ASSUME NEW S
    PROVE  Flights!Cardinality(S) = Cardinality(S)
BY DEF Flights!Cardinality, Flights!IsFiniteSet, Cardinality, IsFiniteSet

\* The lock and the registry keep every fetch apart from the others: a caller
\* that comes to lead finds no value and, but for the leaders that clears have
\* orphaned, nobody else.
LEMMA LeadIsNeeded ==
    ASSUME Types, QueueInv, MissInv, CountInv, ClearsInv, NEW c \in Callers, Lead(c)
    PROVE  /\ clears = 0 => key[c] \notin DOMAIN store
           /\ Flights!Cardinality({d \in Callers : <<d, key[c]>> \in Flights!Busy}) <= clears
<1>1. pc[c] = "join" /\ inflight[key[c]] = NoFlight /\ key[c] \in Keys
  BY DEF Lead, NobodyFetches, Types
<1>2. clears = 0 => key[c] \notin DOMAIN store
  BY <1>1 DEF MissInv
<1> DEFINE B == {d \in Callers : <<d, key[c]>> \in Flights!Busy}
<1>3. B \subseteq Leaders(key[c])
  BY DEF Flights!Busy, At, Leaders, Leading, InFlight
<1> HIDE DEF B
<1>4. IsFiniteSet(Leaders(key[c])) /\ Cardinality(Leaders(key[c])) \in Nat
  BY LeadersFinite
<1>5. /\ IsFiniteSet(B) /\ Cardinality(B) <= Cardinality(Leaders(key[c]))
  BY <1>3, <1>4, FS_Subset
<1>6. Cardinality(B) \in Nat
  BY <1>5, FS_CardinalityType
<1>7. Cardinality(Leaders(key[c])) <= clears
  BY <1>1, <1>4 DEF CountInv, Known, ClearsInv
<1>8. Cardinality(B) <= clears
  BY <1>4, <1>5, <1>6, <1>7 DEF ClearsInv
<1> QED
  BY <1>2, <1>8, SameCardinality DEF B

\* Insertion credits the key with what is left of its value and takes away what
\* expires first, although eviction looks at a clock that has moved on.
LEMMA StoreMakesRoom ==
    ASSUME StoreTypes, Types, NEW c \in Callers, Inserts(c)
    PROVE  \E gone \in SUBSET (Keys \ {key[c]}) :
              /\ Left' = [j \in Keys |-> IF j = key[c] THEN life[c]
                                         ELSE IF j \in gone THEN 0 ELSE Left[j]]
              /\ \A i \in Keys \ (gone \cup {key[c]}), j \in gone :
                    Left[i] > 0 => Left[i] >= Left[j]
<1>1. PICK K \in Kept(ttl - life[c]) : store' = Insert(c, K)
  BY DEF Inserts
<1> DEFINE gone == {j \in Keys : j # key[c] /\ j \notin K}
           waited == ttl - life[c]
<1>2. K \subseteq DOMAIN store /\ key[c] \in Keys /\ life[c] \in 0..ttl
  BY DEF Kept, StoreTypes, Types
<1>3. ttl \in Nat /\ waited \in Nat /\ \A j \in DOMAIN store : store[j] \in Int
  BY <1>2, CacheAssumption DEF StoreTypes
<1>4. /\ DOMAIN store' = K \cup {key[c]} /\ store'[key[c]] = life[c]
      /\ \A j \in K : j # key[c] => store'[j] = store[j]
  BY <1>1 DEF Insert
<1>5. ASSUME NEW j \in Keys
      PROVE  Left'[j] = IF j = key[c] THEN life[c] ELSE IF j \in gone THEN 0 ELSE Left[j]
  <2>1. CASE j = key[c]
    BY <1>2, <1>4, <2>1 DEF Left, Fresh
  <2>2. CASE j \in gone
    BY <1>4, <2>2 DEF Left, Fresh
  <2>3. CASE j # key[c] /\ j \notin gone
    <3>1. j \in K /\ j \in DOMAIN store
      BY <1>2, <2>3
    <3> QED
      BY <1>4, <2>3, <3>1 DEF Left, Fresh
  <2> QED
    BY <2>1, <2>2, <2>3
<1>6. ASSUME NEW i \in Keys \ (gone \cup {key[c]}), NEW j \in gone, Left[i] > 0
      PROVE  Left[i] >= Left[j]
  <2>1. i \in K /\ Left[i] = store[i] /\ store[i] > 0 /\ store[i] \in Int
    BY <1>2, <1>3, <1>6 DEF Left, Fresh
  <2>2. CASE Left[j] = 0
    BY <2>1, <2>2
  <2>3. CASE Left[j] # 0
    <3>1. j \in DOMAIN store /\ store[j] > 0 /\ Left[j] = store[j]
      BY <2>3 DEF Left, Fresh
    <3>2. store[j] + waited > 0 /\ j \notin K
      BY <1>3, <3>1
    <3>3. store[i] >= store[j]
      BY <1>1, <2>1, <3>1, <3>2 DEF Kept
    <3> QED
      BY <2>1, <3>1, <3>3
  <2> QED
    BY <2>2, <2>3
<1>7. Left' = [j \in Keys |-> IF j = key[c] THEN life[c] ELSE IF j \in gone THEN 0 ELSE Left[j]]
  <2>1. DOMAIN Left' = Keys /\ Left' = [j \in Keys |-> Left'[j]]
    BY DEF Left
  <2> HIDE DEF gone
  <2> QED
    BY <1>5, <2>1
<1>8. gone \in SUBSET (Keys \ {key[c]})
  OBVIOUS
<1> HIDE DEF gone
<1> QED
  BY <1>6, <1>7, <1>8

\* What an insertion does to the values the cache answers with.
LEMMA InsertionKeeps ==
    ASSUME StoreTypes, Types, CapacityInv', NEW c \in Callers, Inserts(c)
    PROVE  /\ life' = [life EXCEPT ![c] = 0]
           /\ \E gone \in SUBSET (Keys \ {key[c]}) :
                 /\ Left' = [j \in Keys |-> IF j = key[c] THEN life[c]
                                            ELSE IF j \in gone THEN 0 ELSE Left[j]]
                 /\ \A i \in Keys \ (gone \cup {key[c]}), j \in gone :
                       Left[i] > 0 => Left[i] >= Left[j]
           /\ Flights!Cardinality({j \in Keys : Left'[j] > 0}) <= max_entries
<1> DEFINE S == {j \in Keys : Left'[j] > 0}
<1>1. S \subseteq DOMAIN store'
  BY DEF Left, Fresh
<1>2. IsFiniteSet(DOMAIN store') /\ Cardinality(DOMAIN store') <= max_entries
  BY DEF CapacityInv
<1> HIDE DEF S
<1>3. IsFiniteSet(S) /\ Cardinality(S) <= Cardinality(DOMAIN store')
  BY <1>1, <1>2, FS_Subset
<1>4. Cardinality(S) \in Nat /\ Cardinality(DOMAIN store') \in Nat
  BY <1>2, <1>3, FS_CardinalityType
<1>5. Cardinality(S) <= max_entries
  BY <1>2, <1>3, <1>4, CacheAssumption
<1>6. Flights!Cardinality({j \in Keys : Left'[j] > 0}) <= max_entries
  BY <1>5, SameCardinality DEF S
<1>7. life' = [life EXCEPT ![c] = 0]
  BY DEF Inserts
<1> QED
  BY <1>6, <1>7, StoreMakesRoom

\* Nobody begins, ends or carries on a fetch.
FlightsStay == UNCHANGED <<At("fetch"), At("share"), At("mirror"), At("store")>>

LEMMA FlightsSimulate ==
    ASSUME Types, StoreTypes, QueueInv, MissInv, LifeInv, ClearsInv, CountInv, CapacityInv',
           [Next]_vars
    PROVE  [Flights!Next]_(Flights!vars)
<1> USE DEF Types, FlightsStay
\* A step of c that neither begins nor ends at one of the four places.
<1>0. ASSUME NEW c \in Callers, OthersStay(c), pc[c] \notin InFlight, pc'[c] \notin InFlight
      PROVE  FlightsStay
  BY <1>0, AtMoves DEF InFlight
\* A step of c from one of the four places to another one or away from them.
<1>a. ASSUME NEW c \in Callers, OthersStay(c), key'[c] = key[c], NEW p \in InFlight, pc'[c] = p
       PROVE  /\ At(p)' = At(p) \cup {<<c, key[c]>>}
              /\ \A q \in InFlight \ {p} : At(q)' = At(q) \ {<<c, key[c]>>}
  BY <1>a, AtMoves DEF InFlight
<1>1. ASSUME NEW c \in Callers,
             \/ Queue(c) \/ Follow(c) \/ Answered(c) \/ Cleanup(c) \/ CallClear(c)
             \/ \E k \in Keys : Call(c, k)
      PROVE  FlightsStay /\ UNCHANGED <<life, Left>>
  <2>1. UNCHANGED <<store, life>>
    BY <1>1 DEF Queue, Follow, Answered, Cleanup, CallClear, Call
  <2>2. OthersStay(c)
    BY <1>1, CallersAlone
  <2>3. \/ pc' = pc /\ key' = key
        \/ pc[c] \notin InFlight /\ pc'[c] \notin InFlight
    BY <1>1 DEF Queue, Follow, Answered, Cleanup, CallClear, Call, Continue, Suspend, Return,
                InFlight
  <2>4. CASE pc' = pc /\ key' = key
    BY <2>1, <2>4 DEF At, Left, Fresh
  <2>5. CASE pc[c] \notin InFlight /\ pc'[c] \notin InFlight
    BY <1>0, <2>1, <2>2, <2>5 DEF Left, Fresh
  <2> QED
    BY <2>3, <2>4, <2>5
<1>2. ASSUME NEW c \in Callers, Get(c)
      PROVE  FlightsStay /\ UNCHANGED <<life, Left>>
  <2>1. /\ pc[c] = "get" /\ pc'[c] \notin InFlight /\ life' = life
        /\ \/ store' = store
           \/ ~Fresh(key[c]) /\ store' = Without(store, {key[c]})
    BY <1>2 DEF Get, Continue, Suspend, Return, InFlight
  <2>2. FlightsStay
    BY <1>0, <1>2, <2>1, CallersAlone DEF InFlight
  <2>3. Left' = Left
    BY <2>1 DEF Left, Fresh, Without
  <2> QED
    BY <2>1, <2>2, <2>3
<1>3. ASSUME NEW c \in Callers, Lead(c), UNCHANGED clears
      PROVE  Flights!Begin(c, key[c])
  <2>1. /\ pc[c] = "join" /\ pc'[c] = "fetch" /\ key' = key
        /\ UNCHANGED <<store, life>>
    BY <1>3 DEF Lead, Suspend
  <2>2. /\ At("fetch")' = At("fetch") \cup {<<c, key[c]>>}
        /\ UNCHANGED <<At("share"), At("mirror"), At("store")>>
    BY <1>3, <2>1, CallersAlone, AtMoves
  <2>3. (At("fetch") \cup At("share"))' = (At("fetch") \cup At("share")) \cup {<<c, key[c]>>}
    BY <2>2
  <2>4. Left' = Left
    BY <2>1 DEF Left, Fresh
  <2>5. /\ clears = 0 => Left[key[c]] = 0
        /\ Flights!Cardinality({d \in Callers : <<d, key[c]>> \in Flights!Busy}) <= clears
    BY <1>3, LeadIsNeeded DEF Left, Fresh
  <2> QED
    BY <1>3, <2>1, <2>2, <2>3, <2>4, <2>5 DEF Flights!Begin
<1>4. ASSUME NEW c \in Callers, pc[c] \in {"fetch", "share"}, NEW p \in {"mirror", "store"},
             Set(c, p), UNCHANGED <<inflight, clears>>
      PROVE  Flights!Copy(c, key[c]) \/ Flights!Fetched(c, key[c])
  <2>1. /\ pc'[c] = p /\ key' = key /\ store' = store /\ life' = [life EXCEPT ![c] = ttl]
        /\ OthersStay(c)
    BY <1>4 DEF Set, Continue, Expiry, OthersStay
  <2>2. Left' = Left
    BY <2>1 DEF Left, Fresh
  <2>3. /\ At(p)' = At(p) \cup {<<c, key[c]>>}
        /\ \A q \in InFlight \ {p} : At(q)' = At(q) \ {<<c, key[c]>>}
    BY <1>a, <1>4, <2>1 DEF InFlight
  <2>4. (At("fetch") \cup At("share"))' = (At("fetch") \cup At("share")) \ {<<c, key[c]>>}
    BY <1>4, <2>3 DEF InFlight
  <2>5. <<c, key[c]>> \in At("fetch") \cup At("share")
    BY <1>4, AtMeans
  <2>6. <<c, key[c]>> \notin At("mirror") /\ <<c, key[c]>> \notin At("store")
    BY <1>4, AtMeans
  <2>7. CASE p = "mirror"
    <3>1. At("mirror")' = At("mirror") \cup {<<c, key[c]>>} /\ At("store")' = At("store")
      BY <2>3, <2>6, <2>7 DEF InFlight
    <3> QED
      BY <1>4, <2>1, <2>2, <2>4, <2>5, <3>1 DEF Flights!Copy
  <2>8. CASE p = "store"
    <3>1. At("store")' = At("store") \cup {<<c, key[c]>>} /\ At("mirror")' = At("mirror")
      BY <2>3, <2>6, <2>8 DEF InFlight
    <3> QED
      BY <1>4, <2>1, <2>2, <2>4, <2>5, <3>1 DEF Flights!Fetched
  <2> QED
    BY <2>7, <2>8
<1>5. ASSUME NEW c \in Callers, pc[c] \in InFlight, FetchNothing(c) \/ Cancel(c),
             UNCHANGED clears
      PROVE  Flights!Nothing(c, key[c])
  <2>1. /\ pc'[c] = "cleanup" /\ key' = key /\ store' = store
        /\ life' = [life EXCEPT ![c] = 0]
    BY <1>5 DEF FetchNothing, Cancel, Continue, LifeInv, StoreTypes, InFlight
  <2>2. OthersStay(c)
    BY <1>5, CallersAlone DEF Fetched
  <2>3. /\ At("fetch")' = At("fetch") \ {<<c, key[c]>>}
        /\ At("share")' = At("share") \ {<<c, key[c]>>}
        /\ At("mirror")' = At("mirror") \ {<<c, key[c]>>}
        /\ At("store")' = At("store") \ {<<c, key[c]>>}
    BY <2>1, <2>2, AtMoves
  <2>4. (At("fetch") \cup At("share"))' = (At("fetch") \cup At("share")) \ {<<c, key[c]>>}
    BY <2>3
  <2>5. <<c, key[c]>> \in Flights!Busy
    BY <1>5, AtMeans DEF Flights!Busy, InFlight
  <2>6. Left' = Left
    BY <2>1 DEF Left, Fresh
  <2> QED
    BY <1>5, <2>1, <2>3, <2>4, <2>5, <2>6 DEF Flights!Nothing
<1>6. ASSUME NEW c \in Callers, pc[c] \notin InFlight, Cancel(c)
      PROVE  FlightsStay /\ UNCHANGED <<life, Left>>
  <2>1. pc'[c] = "idle" /\ store' = store /\ life' = life
    BY <1>6 DEF Cancel, Return, Suspend, LifeInv, StoreTypes, InFlight
  <2>2. FlightsStay
    BY <1>0, <1>6, <2>1, CallersAlone DEF InFlight
  <2> QED
    BY <2>1, <2>2 DEF Left, Fresh
<1>7. ASSUME NEW c \in Callers, Mirror(c) \/ Store(c), UNCHANGED clears
      PROVE  Flights!Keep(c, key[c])
  <2>1. Inserts(c) /\ key' = key /\ OthersStay(c)
    BY <1>7, CallersAlone DEF Mirror, Store, Inserts
  <2>2. /\ \/ /\ <<c, key[c]>> \in At("mirror")
              /\ At("mirror")' = At("mirror") \ {<<c, key[c]>>}
              /\ (At("fetch") \cup At("share"))'
                     = (At("fetch") \cup At("share")) \cup {<<c, key[c]>>}
              /\ At("store")' = At("store")
           \/ /\ <<c, key[c]>> \in At("store")
              /\ At("store")' = At("store") \ {<<c, key[c]>>}
              /\ UNCHANGED <<At("mirror"), At("fetch") \cup At("share")>>
    <3>1. CASE Mirror(c)
      <4>1. pc[c] = "mirror" /\ pc'[c] = "share"
        BY <3>1 DEF Mirror, Suspend
      <4>2. /\ <<c, key[c]>> \in At("mirror")
            /\ At("mirror")' = At("mirror") \ {<<c, key[c]>>}
            /\ At("share")' = At("share") \cup {<<c, key[c]>>}
            /\ At("fetch")' = At("fetch") /\ At("store")' = At("store")
        BY <2>1, <4>1, AtMoves, AtMeans
      <4> QED
        BY <4>2
    <3>2. CASE Store(c)
      <4>1. pc[c] = "store" /\ pc'[c] = "cleanup"
        BY <3>2 DEF Store, Continue
      <4>2. /\ <<c, key[c]>> \in At("store")
            /\ At("store")' = At("store") \ {<<c, key[c]>>}
            /\ UNCHANGED <<At("mirror"), At("fetch"), At("share")>>
        BY <2>1, <4>1, AtMoves, AtMeans
      <4> QED
        BY <4>2
    <3> QED
      BY <1>7, <3>1, <3>2
  <2> QED
    BY <1>7, <2>1, <2>2, InsertionKeeps DEF Flights!Keep
<1>8. ASSUME NEW c \in Callers, Clear(c)
      PROVE  Flights!Clear
  <2>1. /\ pc[c] = "clear" /\ pc'[c] = "idle" /\ life' = life
        /\ DOMAIN store' = {} /\ clears' = clears + 1
    BY <1>8 DEF Clear, Return, Suspend, EmptyStore
  <2>2. FlightsStay
    BY <1>0, <1>8, <2>1, CallersAlone DEF InFlight
  <2>3. Left' = [k \in Keys |-> 0]
    BY <2>1 DEF Left, Fresh
  <2> QED
    BY <2>1, <2>2, <2>3 DEF Flights!Clear
<1>9. ASSUME Tick, UNCHANGED clears
      PROVE  Flights!Tick
  <2>1. FlightsStay
    BY <1>9 DEF Tick, At
  <2>2. life' = [c \in Callers |-> Flights!Older(life[c])]
    BY <1>9 DEF Tick, Flights!Older
  <2>3. Left' = [k \in Keys |-> Flights!Older(Left[k])]
    <3>1. /\ DOMAIN store' = DOMAIN store
          /\ \A k \in DOMAIN store : store'[k] = IF store[k] > -ttl THEN store[k] - 1 ELSE -ttl
      BY <1>9 DEF Tick
    <3>2. ttl \in Nat \ {0} /\ \A k \in DOMAIN store : store[k] \in Int
      BY CacheAssumption DEF StoreTypes
    <3>3. ASSUME NEW k \in Keys
          PROVE  (IF Fresh(k) THEN store[k] ELSE 0)' = Flights!Older(Left[k])
      BY <3>1, <3>2 DEF Left, Fresh, Flights!Older
    <3> QED
      BY <3>3 DEF Left
  <2> QED
    BY <1>9, <2>1, <2>2, <2>3 DEF Flights!Tick
<1>10. ASSUME NEW c \in Callers
       PROVE  key[c] \in Keys
  OBVIOUS
<1>11. ASSUME NEW c \in Callers, Step(c), ~Clear(c)
       PROVE  [Flights!Next]_(Flights!vars)
  <2>1. UNCHANGED clears
    BY <1>11 DEF Step
  <2>2. CASE Queue(c) \/ Get(c) \/ Follow(c) \/ Answered(c) \/ Cleanup(c)
    BY <1>1, <1>2, <2>1, <2>2 DEF Flights!vars
  <2>3. CASE Lead(c) \/ Mirror(c) \/ Store(c)
    BY <1>3, <1>7, <1>10, <2>1, <2>3 DEF Flights!Next
  <2>4. CASE FetchValue(c) \/ Shared(c)
    <3>1. /\ pc[c] \in {"fetch", "share"} /\ UNCHANGED inflight
          /\ Set(c, "mirror") \/ Set(c, "store")
      BY <2>4 DEF FetchValue, Shared
    <3>2. Flights!Copy(c, key[c]) \/ Flights!Fetched(c, key[c])
      BY <1>4, <2>1, <3>1
    <3> QED
      BY <1>10, <3>2 DEF Flights!Next
  <2>5. CASE FetchNothing(c)
    <3>1. pc[c] \in InFlight
      BY <2>5 DEF FetchNothing, InFlight
    <3>2. Flights!Nothing(c, key[c])
      BY <1>5, <2>1, <2>5, <3>1
    <3> QED
      BY <1>10, <3>2 DEF Flights!Next
  <2> QED
    BY <1>11, <2>2, <2>3, <2>4, <2>5 DEF Step, Fetched
<1>12. ASSUME NEW c \in Callers, Cancel(c), UNCHANGED clears
       PROVE  [Flights!Next]_(Flights!vars)
  <2>1. CASE pc[c] \in InFlight
    <3>1. Flights!Nothing(c, key[c])
      BY <1>5, <1>12, <2>1
    <3> QED
      BY <1>10, <3>1 DEF Flights!Next
  <2>2. CASE pc[c] \notin InFlight
    BY <1>6, <1>12, <2>2 DEF Flights!vars
  <2> QED
    BY <2>1, <2>2
<1>13. ASSUME NEW c \in Callers, CallClear(c) \/ \E k \in Keys : Call(c, k), UNCHANGED clears
       PROVE  [Flights!Next]_(Flights!vars)
  BY <1>1, <1>13 DEF Flights!vars
<1>14. CASE UNCHANGED vars
  BY <1>14 DEF vars, Flights!vars, At, Left, Fresh
<1> QED
  BY <1>8, <1>9, <1>11, <1>12, <1>13, <1>14 DEF Next, Step, Flights!Next

LEMMA FlightsInit == Init => Flights!Init
<1> SUFFICES ASSUME Init
             PROVE  Flights!Init
  OBVIOUS
<1>1. pc = [c \in Callers |-> "idle"] /\ life = [c \in Callers |-> 0] /\ DOMAIN store = {}
      /\ clears = 0
  BY DEF Init, EmptyStore
<1>2. /\ At("fetch") = {} /\ At("share") = {} /\ At("mirror") = {} /\ At("store") = {}
      /\ Left = [k \in Keys |-> 0]
  BY <1>1 DEF At, Left, Fresh
<1>3. At("fetch") \cup At("share") = {}
  BY <1>2
<1> QED
  BY <1>1, <1>2, <1>3 DEF Flights!Init

\* To its callers the cache is a SingleFlight, for every number of callers and
\* keys, every capacity and every expiry, with cancellations at every suspension
\* point and any number of clears: fetches of a key exclude each other but for
\* one a clear, and are needed, values answer for ttl ticks after their fetch,
\* and eviction takes what expires first.
THEOREM ImplementsSingleFlight == Spec => KeepsSingleFlight
BY FlightsInit, FlightsSimulate, TypesHold, StoreTypesHold, QueueInvHolds, CountHolds,
   ClearsCounted, MissInvHolds, LifeHolds, CapacityHolds, PTL DEF Spec, KeepsSingleFlight, Flights!Spec
=============================================================================
