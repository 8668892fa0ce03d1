-------------------------- MODULE SingleFlightCache --------------------------
(***************************************************************************)
(* BoundedAsyncTTLCache of tripmate/cache/ttl_cache.py: a bounded cache    *)
(* with expiry whose get_or_set coalesces concurrent fetches of a key.     *)
(*                                                                         *)
(* The cache lives on one asyncio event loop.  `running' is the coroutine  *)
(* that has the loop; it keeps it until it suspends, on the lock, on a     *)
(* fetch or on another caller's future, or returns.  asyncio.Lock hands    *)
(* itself over in FIFO order and, when free with nobody queued, is taken   *)
(* without suspending.                                                     *)
(*                                                                         *)
(* What callers of get_or_set_mcp (redis_cache.py) have get_or_set fetch   *)
(* is _mcp_wrapper: it awaits the tool and then, still inside the fetch,   *)
(* set_mcp, which puts the value into this same cache, and so takes its    *)
(* lock, and into Redis, before get_or_set stores it a second time.        *)
(*                                                                         *)
(* Hit and miss statistics are left out; HybridCache has the looks into    *)
(* Redis and into this cache that get_or_set_mcp takes first.              *)
(***************************************************************************)
EXTENDS Integers, Sequences, FiniteSets

CONSTANTS
    Callers,
    Keys,
    KeysOf,        \* KeysOf[c]: the keys that c asks for
    Outcomes,      \* how fetches may end: "value", "none" (None), "error"
    max_entries,
    ttl,           \* in ticks
    Cancellable,   \* callers whose tasks may be cancelled
    Clearing,      \* callers that may call clear()
    MaxClears,     \* bound: after so many nobody calls clear() any more
    NoOne

ASSUME CacheAssumption ==
    /\ KeysOf \in [Callers -> SUBSET Keys]
    /\ Outcomes \subseteq {"value", "none", "error"}
    /\ max_entries \in Nat \ {0}
    /\ ttl \in Nat \ {0}
    /\ IsFiniteSet(Callers) /\ Cancellable \cup Clearing \subseteq Callers
    /\ MaxClears \in Nat
    /\ NoOne \notin Callers

VARIABLES
    store,      \* _store: key -> ticks left before it expires
    inflight,   \* _inflight: key -> future and the caller that completes it
    holder,     \* the caller that is suspended with the lock held
    waiters,    \* callers queued for the lock
    running,
    pc,         \* where each caller is, see Place
    key,        \* the key of its current call
    life,       \* ticks left in the expiry that its set() computed
    clears      \* history: how often the cache has been cleared

vars == <<store, inflight, holder, waiters, running, pc, key, life, clears>>

FutureState == {"pending", "done", "cancelled"}
NoFlight == [leader |-> NoOne, future |-> "done"]
EmptyStore == [k \in {} |-> 0]
Flight == [leader : Callers, future : FutureState]

\* The places where a caller takes the lock: in get, at the single-flight
\* check, in the set of set_mcp, in that of get_or_set, in the finally clause,
\* in clear.
LockPoint == {"get", "join", "mirror", "store", "cleanup", "clear"}
Place == {"idle", "fetch", "share", "follow"} \cup LockPoint
\* Between registration and the finally clause.
InFlight == {"fetch", "mirror", "share", "store"}
Leading(c) == pc[c] \in InFlight \cup {"cleanup"}

Init ==
    /\ store = EmptyStore
    /\ inflight = [k \in Keys |-> NoFlight]
    /\ holder = NoOne
    /\ waiters = <<>>
    /\ running = NoOne
    /\ pc = [c \in Callers |-> "idle"]
    /\ key \in {[c \in Callers |-> k] : k \in Keys}
    /\ life = [c \in Callers |-> 0]
    /\ clears = 0

-----------------------------------------------------------------------------
(* The event loop and the lock.                                            *)

\* c keeps the loop and goes on at p.
Continue(c, p) == pc' = [pc EXCEPT ![c] = p] /\ running' = c
\* c suspends at p, or returns from its call.
Suspend(c, p) == pc' = [pc EXCEPT ![c] = p] /\ running' = NoOne
Return(c) == Suspend(c, "idle")

Acquire(c) ==
    /\ holder = NoOne
    /\ \/ running = c /\ waiters = <<>> /\ waiters' = waiters
       \/ /\ running = NoOne
          /\ waiters # <<>>
          /\ Head(waiters) = c
          /\ waiters' = Tail(waiters)

Queue(c) ==
    /\ running = c
    /\ pc[c] \in LockPoint
    /\ holder # NoOne \/ waiters # <<>>
    /\ waiters' = Append(waiters, c)
    /\ running' = NoOne
    /\ UNCHANGED <<store, inflight, holder, pc, key, life>>

-----------------------------------------------------------------------------
(* get_or_set, step by step.                                               *)

Fresh(k) == k \in DOMAIN store /\ store[k] > 0
Without(s, K) == [k \in DOMAIN s \ K |-> s[k]]

Call(c, k) ==
    /\ running = NoOne
    /\ pc[c] = "idle"
    /\ k \in KeysOf[c]
    /\ key' = [key EXCEPT ![c] = k]
    /\ Continue(c, "get")
    /\ UNCHANGED <<store, inflight, holder, waiters, life>>

\* Mutation of Get: the hit path returns without releasing the lock.
GetKeepingLock(c) ==
    /\ pc[c] = "get"
    /\ Acquire(c)
    /\ \/ Fresh(key[c]) /\ Return(c) /\ UNCHANGED store /\ holder' = c
       \/ /\ ~Fresh(key[c])
          /\ store' = Without(store, {key[c]})
          /\ Continue(c, "join")
          /\ UNCHANGED holder
    /\ UNCHANGED <<inflight, key, life>>
Get(c) ==
    /\ pc[c] = "get"
    /\ Acquire(c)
    /\ \/ Fresh(key[c]) /\ Return(c) /\ UNCHANGED store
       \/ /\ ~Fresh(key[c])
          /\ store' = Without(store, {key[c]})
          /\ Continue(c, "join")
    /\ UNCHANGED <<inflight, holder, key, life>>

NobodyFetches(k) == inflight[k] = NoFlight

Lead(c) ==
    /\ pc[c] = "join"
    /\ NobodyFetches(key[c])
    /\ Acquire(c)
    /\ inflight' = [inflight EXCEPT ![key[c]] = [leader |-> c, future |-> "pending"]]
    /\ Suspend(c, "fetch")
    /\ UNCHANGED <<store, holder, key, life>>

\* `return await future' inside `async with self.lock'.
Follow(c) ==
    /\ pc[c] = "join"
    /\ ~NobodyFetches(key[c])
    /\ Acquire(c)
    /\ \/ /\ inflight[key[c]].future = "pending"
          /\ holder' = c
          /\ Suspend(c, "follow")
       \/ /\ inflight[key[c]].future # "pending"
          /\ Return(c)
          /\ UNCHANGED holder
    /\ UNCHANGED <<store, inflight, key, life>>

Answered(c) ==
    /\ pc[c] = "follow"
    /\ running = NoOne
    /\ inflight[key[c]].future # "pending"
    /\ holder' = NoOne
    /\ Return(c)
    /\ UNCHANGED <<store, inflight, waiters, key, life>>

\* set_result or set_exception on the future that c created, which is no
\* longer in _inflight after a clear() and may have been cancelled.
Resolve(c) ==
    inflight' = IF inflight[key[c]] = [leader |-> c, future |-> "pending"]
                THEN [inflight EXCEPT ![key[c]].future = "done"]
                ELSE inflight

Expiry == ttl

\* set() fixes the expiry, then wants the lock.
Set(c, place) ==
    /\ life' = [life EXCEPT ![c] = Expiry]
    /\ Continue(c, place)
    /\ UNCHANGED <<store, holder, waiters, key>>

\* Mutation of FetchValue: completes and removes the future before set().
FetchValueAnnouncing(c) ==
    /\ "value" \in Outcomes
    /\ pc[c] = "fetch"
    /\ running = NoOne
    /\ inflight' = [inflight EXCEPT ![key[c]] = NoFlight]
    /\ Set(c, "mirror") \/ Set(c, "store")
\* The tool returned a value.  set_mcp leaves out what is too large for it; a
\* coro_func that stores nothing itself goes on to the second set() as well.
FetchValue(c) ==
    /\ "value" \in Outcomes
    /\ pc[c] = "fetch"
    /\ running = NoOne
    /\ Set(c, "mirror") \/ Set(c, "store")
    /\ UNCHANGED inflight

\* set_mcp has written to Redis, or has failed to within its time-out; without
\* Redis it is back at once.  The wrapper returns the value.
Shared(c) ==
    /\ pc[c] = "share"
    /\ running = NoOne
    /\ Set(c, "store")
    /\ UNCHANGED inflight

\* The tool returned None or raised: nothing is stored.
FetchNothing(c) ==
    /\ Outcomes \cap {"none", "error"} # {}
    /\ pc[c] = "fetch"
    /\ running = NoOne
    /\ Resolve(c)
    /\ Continue(c, "cleanup")
    /\ UNCHANGED <<store, holder, waiters, key, life>>

\* Mutation of Room: evicts only what is over the limit before the insertion.
RoomOffByOne == max_entries
Room == max_entries - 1
\* _evict_if_full: nothing while there is room, else what had expired when
\* set() read the clock, then the entries closest to expiry.
Kept(waited) ==
    LET unexpired == {k \in DOMAIN store : store[k] + waited > 0}
    IN  IF Cardinality(DOMAIN store) < max_entries THEN {DOMAIN store}
        ELSE IF Cardinality(unexpired) <= Room THEN {unexpired}
        ELSE {K \in SUBSET unexpired :
                 /\ Cardinality(K) = Room
                 /\ \A a \in K, b \in unexpired \ K : store[a] >= store[b]}

Insert(c, K) ==
    [k \in K \cup {key[c]} |-> IF k = key[c] THEN life[c] ELSE store[k]]

Inserts(c) ==
    /\ Acquire(c)
    /\ \E K \in Kept(ttl - life[c]) : store' = Insert(c, K)
    /\ life' = [life EXCEPT ![c] = 0]
    /\ UNCHANGED <<holder, key>>

\* in_memory.set() of set_mcp, inside the fetch: the future stays pending.
Mirror(c) ==
    /\ pc[c] = "mirror"
    /\ Inserts(c)
    /\ Suspend(c, "share")
    /\ UNCHANGED inflight

\* set() of get_or_set, and the completion of the future.
Store(c) ==
    /\ pc[c] = "store"
    /\ Inserts(c)
    /\ Resolve(c)
    /\ Continue(c, "cleanup")

\* Pops whatever future is registered for the key.
Cleanup(c) ==
    /\ pc[c] = "cleanup"
    /\ Acquire(c)
    /\ inflight' = [inflight EXCEPT ![key[c]] = NoFlight]
    /\ Return(c)
    /\ UNCHANGED <<store, holder, key, life>>

-----------------------------------------------------------------------------

CallClear(c) ==
    /\ c \in Clearing
    /\ clears < MaxClears
    /\ running = NoOne
    /\ pc[c] = "idle"
    /\ Continue(c, "clear")
    /\ UNCHANGED <<store, inflight, holder, waiters, key, life>>

\* Mutation of Clear: it does not wait for the lock.
ClearUnlocked(c) ==
    /\ pc[c] = "clear"
    /\ running = c
    /\ store' = EmptyStore
    /\ inflight' = [k \in Keys |-> NoFlight]
    /\ clears' = clears + 1
    /\ Return(c)
    /\ UNCHANGED <<holder, waiters, key, life>>
Clear(c) ==
    /\ pc[c] = "clear"
    /\ Acquire(c)
    /\ store' = EmptyStore
    /\ inflight' = [k \in Keys |-> NoFlight]
    /\ clears' = clears + 1
    /\ Return(c)
    /\ UNCHANGED <<holder, key, life>>

Places(c) == {i \in DOMAIN waiters : waiters[i] = c}
Unqueued(c) ==
    IF Places(c) = {} THEN waiters
    ELSE LET i == CHOOSE i \in Places(c) : TRUE
         IN  SubSeq(waiters, 1, i - 1) \o SubSeq(waiters, i + 1, Len(waiters))

\* task.cancel() of a suspended caller.  CancelledError passes `except
\* Exception' and runs the finally clause; a cancelled follower cancels the
\* future it awaits; a leader cancelled in the finally clause pops nothing.
Cancel(c) ==
    /\ c \in Cancellable
    /\ running = NoOne
    /\ pc[c] # "idle"
    /\ waiters' = Unqueued(c)
    /\ IF pc[c] \in InFlight THEN Continue(c, "cleanup") ELSE Return(c)
    /\ IF pc[c] = "follow"
       THEN /\ holder' = NoOne
            /\ inflight' = IF inflight[key[c]].future = "pending"
                           THEN [inflight EXCEPT ![key[c]].future = "cancelled"]
                           ELSE inflight
       ELSE UNCHANGED <<holder, inflight>>
    /\ life' = [life EXCEPT ![c] = 0]
    /\ UNCHANGED <<store, key>>

\* time.time(); nobody looks further back than ttl ticks.
Tick ==
    /\ running = NoOne
    /\ store' = [k \in DOMAIN store |-> IF store[k] > -ttl THEN store[k] - 1 ELSE -ttl]
    /\ life' = [c \in Callers |-> IF life[c] > 0 THEN life[c] - 1 ELSE 0]
    /\ UNCHANGED <<inflight, holder, waiters, running, pc, key>>

Fetched(c) == FetchValue(c) \/ FetchNothing(c) \/ Shared(c)
Step(c) ==
    \/ /\ \/ Queue(c) \/ Get(c) \/ Lead(c) \/ Follow(c) \/ Answered(c)
          \/ Fetched(c) \/ Mirror(c) \/ Store(c) \/ Cleanup(c)
       /\ UNCHANGED clears
    \/ Clear(c)

Next ==
    \/ \E c \in Callers : Step(c)
    \/ /\ \/ \E c \in Callers : CallClear(c) \/ Cancel(c) \/ \E k \in Keys : Call(c, k)
          \/ Tick
       /\ UNCHANGED clears

Spec == Init /\ [][Next]_vars

\* The event loop gives every ready coroutine its turn (strong fairness: others
\* have the loop in between), and what a caller awaits outside of this cache
\* ends: the tool under the time-outs of integrations/mcp.py, the command to
\* Redis under that of redis_cache.py.  The rest of a fetch, set_mcp's write
\* into this cache, ends only if it gets the lock.  Nobody owes a call or a
\* cancellation.
FairSpec == Spec /\ \A c \in Callers : SF_vars(Step(c))

-----------------------------------------------------------------------------

\* Types of the variables.
TypeOK ==
    /\ DOMAIN store \subseteq Keys
    /\ \A k \in DOMAIN store : store[k] \in -ttl..ttl
    /\ inflight \in [Keys -> Flight \cup {NoFlight}]
    /\ holder \in Callers \cup {NoOne}
    /\ waiters \in Seq(Callers)
    /\ running \in Callers \cup {NoOne}
    /\ pc \in [Callers -> Place]
    /\ key \in [Callers -> Keys]
    /\ life \in [Callers -> 0..ttl]
    /\ clears \in Nat

\* The cache never holds more than max_entries, whoever waits to store.
StoreBounded == Cardinality(DOMAIN store) <= max_entries

\* Single flight: until somebody clears the cache no two callers fetch the same
\* key at once, whoever is cancelled, and every clear() lets at most one more
\* fetch it at once, although the leader it has orphaned goes on to remove the
\* future of the next one.
Leaders(k) == {c \in Callers : Leading(c) /\ key[c] = k}
FetchesPerKey == \A k \in Keys : Cardinality(Leaders(k)) <= 1 + clears

\* Whatever is cleared or cancelled, the future a suspended caller awaits stays
\* registered until the caller has seen it complete, because that caller holds
\* the lock: the lock and the registry change hands together.
AwaitedFutureRegistered ==
    \A c \in Callers : pc[c] = "follow" =>
        holder = c /\ inflight[key[c]] # NoFlight

\* The lock is given up between the miss and the single-flight check, yet no
\* fetch starts for a key that has been stored meanwhile: the lock's queue
\* puts the check before the removal of the future.
FetchOnlyOnMiss ==
    [][\A c \in Callers :
          pc[c] = "join" /\ pc'[c] = "fetch" /\ clears = 0 => ~Fresh(key[c])]_vars

\* To its callers the cache is a SingleFlight: its lock, its queue, its registry
\* of futures and its cancellations do not show.  In particular no more callers
\* fetch a key at once than clears allow, none fetches what was stored between
\* its miss and its check, no value outlives the end of its fetch by more than
\* ttl although its insertion waits for the lock, and eviction takes what
\* expires first although it reads the clock before that wait.
At(place) == {<<c, key[c]>> : c \in {d \in Callers : pc[d] = place}}
Left == [k \in Keys |-> IF Fresh(k) THEN store[k] ELSE 0]
Flights == INSTANCE SingleFlight WITH
    fetching <- At("fetch") \cup At("share"), copying <- At("mirror"),
    keeping <- At("store"), worth <- life, left <- Left
KeepsSingleFlight == Flights!Spec

\* Every call of get_or_set returns or raises.
EveryCallEnds == \A c \in Callers : pc[c] # "idle" ~> pc[c] = "idle"

\* It does, unless a follower waits with the lock in hand for a leader that needs
\* the lock itself, be it for either of its two writes of the value, the one
\* inside its fetch or the one after it, or that is gone for a cancellation.  No
\* other interleaving of hits, misses, failures, cancellations and clears keeps
\* a caller for ever.
Away(c, k) == pc[c] \in {"fetch", "share"} /\ key[c] = k
FollowsNobody(d) ==
    LET flight == inflight[key[d]]
    IN  pc[d] = "follow" /\ flight.future = "pending" /\ ~Away(flight.leader, key[d])
OnlyLostLeadersHang == [](\A d \in Callers : ~FollowsNobody(d)) => EveryCallEnds

=============================================================================
