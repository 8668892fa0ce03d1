----------------------------- MODULE RateLimiter -----------------------------
(***************************************************************************)
(* SlidingWindowRateLimiter of tripmate/middleware/__init__.py, in several *)
(* worker processes that share one Redis.  The address and the user of a   *)
(* request are counted in Redis in one pipeline.  A worker whose Redis     *)
(* fails or is too slow falls back to its own memory, with this and with   *)
(* every later request: hybrid_cache._use_redis is not set again.          *)
(*                                                                         *)
(* Of the stamps kept under a name only the ages of the youngest matter:   *)
(* record[i] is the age of the i-th youngest stamp, Gone if there is none  *)
(* that anyone could still count.  A tick is a fraction of a second, and a *)
(* worker has at most one pipeline under way.                              *)
(***************************************************************************)
EXTENDS Integers, FiniteSets

CONSTANTS
    Workers, Addresses, Users,
    max_requests,
    emergency_limit,     \* EMERGENCY_IN_MEMORY_RATE_LIMIT
    Window,              \* window_seconds, in ticks
    Second,              \* ticks in a second
    FAIL_OPEN_REDIS,
    max_tracked_ips,
    Timeout,             \* of a pipeline, in ticks
    NoUser, NoRequest

ASSUME LimiterAssumption ==
    /\ max_requests \in Nat \ {0} /\ emergency_limit \in 1..max_requests
    /\ Window \in Nat \ {0} /\ Second \in Nat \ {0}
    /\ Timeout \in 0..Window
    /\ max_tracked_ips \in Nat \ {0}
    /\ FAIL_OPEN_REDIS \in BOOLEAN
    /\ NoUser \notin Users

VARIABLES
    use_redis,    \* use_redis[w]: hybrid_cache._use_redis of w
    redis,        \* redis[k]: the sorted set "ratelimit:<k>"
    memory,       \* memory[w][k]: _requests and _user_requests of w
    asking,       \* asking[w]: w's request whose pipeline is under way
    watched,      \* the name whose requests the next two look at
    admitted,     \* when Redis let requests of that name pass that it counted
    told          \* told[w]: ticks until a refused client may return to w

limiterVars == <<redis, memory, asking, watched, admitted, told>>

Gone == Window + Timeout
Record(n) == [1..n -> 0..Gone]
NoStamps(n) == [i \in 1..n |-> Gone]

\* In memory an address has two records, one as "emergency_<ip>".
Emergency(a) == <<"emergency", a>>
Names == Addresses \cup Users
MemoryNames == Names \cup {Emergency(a) : a \in Addresses}
Limit(k) == IF k \in Names THEN max_requests ELSE emergency_limit

Requests == [address : Addresses, user : Users \cup {NoUser}, llm : BOOLEAN]
Ordinary == {r \in Requests : ~r.llm}
KeysOf(r) == {r.address, r.user} \ {NoUser}

\* The record with one more stamp.
Stamped(record, age) ==
    [i \in DOMAIN record |->
        IF record[i] <= age THEN record[i]
        ELSE IF i = 1 \/ record[i - 1] <= age THEN age
        ELSE record[i - 1]]

\* Are there n stamps in the window that ended `age' ticks ago?
Full(record, n, age) == record[n] < Window + age

NoPromise == -1
NoMemory == [k \in MemoryNames |-> NoStamps(Limit(k))]

LimiterInit ==
    /\ use_redis = [w \in Workers |-> TRUE]
    /\ redis = [k \in Names |-> NoStamps(max_requests)]
    /\ memory = [w \in Workers |-> NoMemory]
    /\ asking = [w \in Workers |-> NoRequest]
    /\ watched \in MemoryNames
    /\ admitted = NoStamps(max_requests + 1)
    /\ told = [w \in Workers |-> NoPromise]

-----------------------------------------------------------------------------
(* The sliding window in a worker's memory.                                *)

\* _cleanup_stale_records: too many addresses, and the older half is forgotten.
Tracked(records) == {k \in MemoryNames \ Users : records[k][1] < Window}
Oldest(records) ==
    CHOOSE K \in SUBSET Tracked(records) :
        /\ Cardinality(Tracked(records) \ K) = max_tracked_ips \div 2
        /\ \A k \in K, l \in Tracked(records) \ K : records[k][1] >= records[l][1]
CleanedUp(records) ==
    [k \in MemoryNames |->
        IF Cardinality(Tracked(records)) >= max_tracked_ips /\ k \in Oldest(records)
        THEN NoStamps(Limit(k)) ELSE records[k]]

Refuses(records, k) == Full(records[k], Limit(k), 0)

\* Mutation of Counted: a refused request leaves its stamp as well.
CountedAlways(records, k) == [records EXCEPT ![k] = Stamped(@, 0)]
Counted(records, k) ==
    IF Refuses(records, k) THEN records ELSE [records EXCEPT ![k] = Stamped(@, 0)]

\* The Retry-After of the answer, in seconds.
RetryAfter(record, n) ==
    LET seconds == (Window - record[n]) \div Second
    IN  IF seconds > 1 THEN seconds ELSE 1

\* Whoever is refused may come back one second later than he was told, because
\* the answer is rounded down; the promise lasts until a request is let pass.
Promise(w, records, k) ==
    told' = IF k # watched \/ (Refuses(records, k) /\ told[w] # NoPromise) THEN told
            ELSE [told EXCEPT ![w] =
                     IF Refuses(records, k) THEN (RetryAfter(records[k], Limit(k)) + 1) * Second
                     ELSE NoPromise]

Check(w, k) ==
    LET records == CleanedUp(memory[w])
    IN  /\ memory' = [memory EXCEPT ![w] = Counted(records, k)]
        /\ Promise(w, records, k)

CheckBoth(w, k, user) ==
    LET records == CleanedUp(memory[w])
        then    == CleanedUp(Counted(records, k))
    IN  /\ ~Refuses(records, k)
        /\ memory' = [memory EXCEPT ![w] = Counted(then, user)]
        /\ Promise(w, IF watched = k THEN records ELSE then, IF watched = k THEN k ELSE user)

AddressName(r) ==
    IF r.llm /\ ~FAIL_OPEN_REDIS THEN Emergency(r.address) ELSE r.address

\* The part of dispatch without Redis; the user is checked after the address.
CheckInMemory(w, r) ==
    \/ /\ r.user = NoUser \/ Refuses(CleanedUp(memory[w]), AddressName(r))
       /\ Check(w, AddressName(r))
    \/ /\ r.user # NoUser
       /\ CheckBoth(w, AddressName(r), r.user)

-----------------------------------------------------------------------------
(* dispatch.                                                               *)

Dispatch(w, r) ==
    /\ ~use_redis[w]
    /\ asking[w] = NoRequest
    /\ CheckInMemory(w, r)
    /\ UNCHANGED <<use_redis, redis, asking, watched, admitted>>

\* The time is read, and the pipeline sent.
Ask(w, r) ==
    /\ use_redis[w]
    /\ asking[w] = NoRequest
    /\ asking' = [asking EXCEPT ![w] = [request |-> r, age |-> 0, verdict |-> "none"]]
    /\ UNCHANGED <<use_redis, redis, memory, watched, admitted, told>>

Request(w) == asking[w].request
Awaits(w, verdicts) == asking[w] # NoRequest /\ asking[w].verdict \in verdicts

\* zremrangebyscore
Removed(set, age) == [i \in DOMAIN set |-> IF set[i] < Window + age THEN set[i] ELSE Gone]

\* Mutation of zadd: the members are whole seconds.
ZaddSeconds(set, age, same) ==
    IF same \/ \E i \in DOMAIN set : set[i] \in age - Second + 1..age + Second - 1
    THEN set ELSE Stamped(set, age)
\* The members of the set are the times themselves: a request of the same time
\* as another adds none.
zadd(set, age, same) == IF same THEN set ELSE Stamped(set, age)

Verdict(w) ==
    IF \E k \in KeysOf(Request(w)) : Full(redis[k], max_requests, asking[w].age)
    THEN "refused" ELSE "passed"

\* Requests of one tick are of the same time or not, for each name.
Coincidences(w) ==
    SUBSET {k \in KeysOf(Request(w)) : \E i \in 1..max_requests : redis[k][i] = asking[w].age}

\* Redis executes the pipeline, with the time the request was asked at.  Those
\* who are refused leave their stamps, too.
RunPipeline(w) ==
    /\ Awaits(w, {"none"})
    /\ asking' = [asking EXCEPT ![w].verdict = Verdict(w)]
    /\ \E same \in Coincidences(w) :
          /\ redis' = [k \in Names |->
                          IF k \in KeysOf(Request(w))
                          THEN zadd(Removed(redis[k], asking[w].age), asking[w].age, k \in same)
                          ELSE redis[k]]
          /\ admitted' = IF watched \in KeysOf(Request(w)) \ same /\ Verdict(w) = "passed"
                         THEN Stamped(admitted, 0) ELSE admitted
    /\ UNCHANGED <<use_redis, memory, watched, told>>

\* Those whom Redis lets pass are counted as users in memory, too.
ReceiveVerdict(w) ==
    /\ Awaits(w, {"passed", "refused"})
    /\ asking' = [asking EXCEPT ![w] = NoRequest]
    /\ IF asking[w].verdict = "passed" /\ Request(w).user # NoUser
       THEN Check(w, Request(w).user)
       ELSE UNCHANGED <<memory, told>>
    /\ UNCHANGED <<use_redis, redis, watched, admitted>>

\* An exception or a time-out, of the pipeline or, after a refusal, of zrange:
\* the request is judged once more in memory.
LoseRedis(w) ==
    /\ asking[w] # NoRequest
    /\ use_redis' = [use_redis EXCEPT ![w] = FALSE]
    /\ asking' = [asking EXCEPT ![w] = NoRequest]
    /\ CheckInMemory(w, Request(w))
    /\ UNCHANGED <<redis, watched, admitted>>

\* A new process in the worker's place.
RestartLimiter(w) ==
    /\ memory' = [memory EXCEPT ![w] = NoMemory]
    /\ asking' = [asking EXCEPT ![w] = NoRequest]
    /\ told' = [told EXCEPT ![w] = NoPromise]
    /\ UNCHANGED <<redis, watched, admitted>>

\* Stamps in memory are of no use once they are out of the window.
Aged(record, limit) ==
    [i \in DOMAIN record |-> IF record[i] + 1 < limit THEN record[i] + 1 ELSE Gone]

\* A pipeline is answered or given up within its time-out.
LimiterTick ==
    /\ \A w \in Workers : asking[w] # NoRequest => asking[w].age < Timeout
    /\ redis' = [k \in Names |-> Aged(redis[k], Gone)]
    /\ memory' = [w \in Workers |-> [k \in MemoryNames |-> Aged(memory[w][k], Window)]]
    /\ admitted' = Aged(admitted, Gone)
    /\ told' = [w \in Workers |-> IF told[w] > 0 THEN told[w] - 1 ELSE told[w]]
    /\ asking' = [w \in Workers |-> IF asking[w] = NoRequest THEN NoRequest
                                    ELSE [asking[w] EXCEPT !.age = @ + 1]]
    /\ UNCHANGED <<use_redis, watched>>

LimiterStep(w, requests) ==
    \/ \E r \in requests : Dispatch(w, r) \/ Ask(w, r)
    \/ RunPipeline(w) \/ ReceiveVerdict(w)

-----------------------------------------------------------------------------

\* Types of the variables.
LimiterTypeOK ==
    /\ use_redis \in [Workers -> BOOLEAN]
    /\ redis \in [Names -> Record(max_requests)]
    /\ \A w \in Workers, k \in MemoryNames : memory[w][k] \in Record(Limit(k))
    /\ watched \in MemoryNames
    /\ admitted \in Record(max_requests + 1)
    /\ told \in [Workers -> NoPromise..(Window + 2 * Second)]

\* However the pipelines of the workers are delayed and overtake each other,
\* remove stamps and leave some for the refused, Redis lets requests of an
\* address or a user pass at no more than max_requests distinct times within a
\* window, less the time-out of a pipeline: a slow pipeline counts the window
\* that ended when its request arrived.  (Those of the very same time count as
\* one request, so more requests than that may pass.)
RedisWindowKept == admitted[max_requests + 1] >= Window - Timeout

\* Whoever a worker's memory has refused and who comes back a second later than
\* Retry-After said finds room in the window, unless another request was let
\* pass in his place: refusals of impatient clients do not push him back.
RefusedMayReturn ==
    \A w \in Workers : told[w] = 0 => ~Refuses(memory[w], watched)

=============================================================================
