# A verification of TripMate (Multi_AI_Agent)

TripMate is a FastAPI/LangGraph service: a graph of LLM agents plans a trip, stops for a
human decision, and then writes the final answer. Around the graph stand the parts that
carry the state and the concurrency: circuit breakers in front of every remote
dependency, caches, a rate limiter, an MCP session manager, an in-process task queue, a
dual (PostgreSQL and in-memory) data store, and the service that starts, streams,
approves and replays runs. This directory holds TLA+ modules for these parts, TLC
configurations that check them on small instances, and TLAPS proofs.

Paths below are relative to `src/tripmate/` unless they name `app.py` or `mcp_client.py`
at the top of `src/`, or a document.

Contents: 1 inventory, 2 plan, 3 the modules and the code, 4 runs, 5 fairness, 6 proofs,
7 observations, 8 what is not modelled, 9 running it.

## 1. Inventory

All application code runs on one asyncio event loop per worker process: what happens
between two `await`s that really suspend is one step. (An `await` of a coroutine that
does not suspend, or of a free `asyncio.Lock` with no waiters, is no interleaving point.)
Several workers (gunicorn) share only PostgreSQL and Redis.

| Component | State it keeps | Operations | Hard behaviour | Correct means |
|---|---|---|---|---|
| Circuit breaker (`integrations/circuit_breaker.py`) | state, failure count, consecutive successes, trials in flight, time of the last failure | `call`, `reset` | answers that come back in a later state than the one that admitted them; callers' time-outs; trial slots | trips on enough evidence and only then; no slot leaks; recovers by itself |
| Single-flight cache (`cache/ttl_cache.py`) | entries with expiry, one future per key in flight, one lock | `get`, `set`, `get_or_set`, `clear` | a follower waits for the leader with the lock in hand; the fetch writes into the cache itself; clear during a flight; cancellation | one fetch per key, and one more for every clear; bounded; every call returns |
| Approval workflow (`services/travel_service.py`, `graph/`) | checkpoint per thread, decision history, time stamps, run store, thread owners | execute, stream, decide, replay | two decisions at once, a decision repeated, expiry, failure and restart half-way | nothing passes the human; one decision per round; decided plans complete |
| MCP manager and tool calls (`mcp_client.py`, `integrations/mcp.py`) | sessions, tools, failure counts and back-off per server; one lock | `get_tool`, `handle_tool_crash`, shutdown; `safe_*_call` | one lock over network calls; cached tools used without it; retries, back-off and breaker in series | cached tools are usable; dead sessions are replaced; no starvation |
| Task queue (`tasks/queue.py`, `tasks/workers.py`) | records, queue of ids, coroutines, a semaphore | submit, cancel, loop, start, stop | cancellation in every phase, shutdown with work left | permits balance, records tell the truth, tasks end |
| Hybrid cache (`cache/redis_cache.py`) | the single-flight cache, a Redis client, `_use_redis` | `get`, `set`, `get_or_set`, MCP variants, `clear` | one Redis failure switches all callers to memory for ever; the two halves differ | a user never reads another user's entry; no answer is older than its time to live |
| Rate limiter (`middleware/__init__.py`) | window of time stamps per client and user | admit, clean up | boundary of the window, retry-after, eviction, switch from Redis to memory | in Redis requests pass at no more distinct times than the limit per window; who waits is let in |
| Data store (`database/store.py`) | PostgreSQL rows, in-memory mirrors | users, keys, reset tokens, owners, lists | a failing write is swallowed; memory is stale; check and update are separate; a lost answer | what was acknowledged is kept; what was deleted, spent or replaced comes back only to a request whose own query failed |
| Booking (`repositories/store_repositories.py`, `integrations/gds.py`) | price locks, reservations | lock, reserve, look up | expiry, redeeming twice | a lock is redeemed at most once and not late |
| Lifespan (`app.py`) | the order of startup and shutdown | startup, shutdown | requests, handlers and threads that run on while their services stop | shutdown ends; only what was left over can leak |
| Agents and LLM calls (`agents/`, `integrations/llm_resilience.py`, `strategies/`) | the stage of a plan, attempts, one breaker | the nodes, `invoke_llm_with_resilience` | time-out and retry around the breaker, every exception turned into a fallback text, parallel specialists | every plan ends; the breaker works among them |
| Singleton metaclass (`core/singleton.py`) | one instance and lock per class | construct, reset | double-checked locking between threads | one instance |
| Event dispatcher (`events/`) | subscribers | subscribe, publish | failing subscribers; change during publish | each subscriber gets each event once |
| Database pools (`database/__init__.py`) | pools, checkpointer | open, close | creation races, fallback to memory | one pool, closed at the end |

Leaves without behaviour over time (settings, schemas, adapters, metrics, logging, routes
that only call a service, agents' prompts) are listed in `PROJECT.json`.

How the parts call each other:

    routes -> TravelService -> graph -> agents -> safe_*_call --> cache (get_or_set_mcp)
                    |                      |           |             '-> Redis, in-memory half
                    |                      |           '-> breaker.call -> MCPManager.get_tool -> session
                    |                      '-> llm_resilience -> wait_for(breaker.call)
                    '-> checkpointer (PostgreSQL), DataStore, dispatcher
    routes -> task queue -> handlers -> TravelService
    app.py lifespan: starts manager and queue; at the end cancels ACTIVE_RUNS, stops queue, manager, cache, pools

Nearly everything is wrapped in `asyncio.wait_for` somewhere above, so cancellation can
reach nearly every `await`; that is the source of most hazards listed in `PROJECT.json`.

## 2. Plan

The order in which the modules were written: the parts every request goes through and that hold
state across requests first.

1. `CircuitBreaker`, with its abstract specification `CircuitGate`.
2. `SingleFlightCache`, with its abstract specification `SingleFlight`.
3. `ApprovalWorkflow`, with its abstract specification `ApprovalRound`.
4. `TaskQueue`, with its abstract specification `TaskPool`.
5. `ToolCalls`, which composes the breaker with the tool calls and the MCP manager; `ToolSource` is the
   abstract specification of the manager.
6. `AgentPipeline`, which composes the breaker with the agents and their LLM calls.
7. `DataStore`: the pattern "PostgreSQL first, swallow, mirror in memory".
8. `RateLimiter` and `HybridCache`, and `RedisPath`, which composes them.
9. `Lifespan`, which composes the task queue with requests, threads, the MCP manager and the
   database pool, from the start of a worker process to its exit.

Each component's theorems are in a `*Proofs` module that EXTENDS it. `Lifespan`, which is a
process around the task queue, is proved about in `TaskQueueProofs`; `AgentPipelineProofs` and
`ToolCallsProofs` use the theorems of `CircuitBreakerProofs` for the breaker inside them.

Every invariant, action property and refinement of a passing run has its theorem, and so has every
module's type invariant; of liveness, three properties are proved from their fairness and what is
enabled, the others stay with TLC (see 6).

The store and the Redis path have no abstract specification of their own. What they promise is that of
a table or a map only as long as no query fails and nobody overlaps; the properties of these modules
say what is left of it otherwise (see 7), and a map that may do all that would say no more than they do.

## 3. Modules and code

`PROJECT.json` maps every definition to its lines. Rules that hold for all modules:
one action is the code between two suspensions; a call that changes nothing (a rejection)
is a stuttering step; time is a `Tick` that ages what the code compares with `time.time()`,
and ages are not counted beyond the largest bound the code compares them with; logging,
metrics and the contents of texts are left out. Definitions called `Mutation of X` are
plausible bugs in `X`; they are used by nothing and serve to show that each property
can fail.

**CircuitBreaker** (`integrations/circuit_breaker.py`). Variables carry the code's names.
`call` is two critical sections with the dependency in between, hence `Admit*` and
`Succeed`, `FailTransient`, `FailPermanent`, `TimeOut`. `admitted[c]` remembers in which
state a call was let in. `elapsed` is `now - last_failure_time`. `failure_count` is
counted to `FailureCountCap`. `failuresSinceClosed`, `failureStreak` and `lostSlots` are
history variables: no guard reads them.

**CircuitGate** is what callers may rely on without counters: pass, block or probe;
blocked is left only after the cooldown, by the answer to a call that was already running,
or by a reset; bad news while probing always blocks.

**SingleFlightCache** (`cache/ttl_cache.py`). `running` is the coroutine that has the event
loop, so that lock acquisitions that do not suspend are no interleaving points; `waiters`
is the lock's FIFO queue. `get_or_set` is `Call`, `Get`, `Lead` or `Follow`, the fetch, `Store`,
`Cleanup`. What its callers have it fetch is `_mcp_wrapper` (`cache/redis_cache.py:213-224`), which
ends with `set_mcp`, and that is modelled as a part of the fetch: after `FetchValue`, the end of the tool
call, it takes the same lock to put the value into this cache (`Mirror`), writes to Redis (`Shared`),
and only then is the value given to the `set` of `get_or_set` (`Store`); a value that `set_mcp` leaves out
goes to `Store` at once, and `FetchNothing` stores nothing. `Set` fixes an expiry before the lock is
wanted. `Cancel` is `Task.cancel` at any point of suspension, with what `async with`, `except` and
`finally` then do; `clears` counts the calls of `clear`, of which there are `MaxClears`.
**SingleFlight** is what callers may rely on without lock, queue and futures: a fetch of a key
begins only if nobody fetches it or has a value of it to store and the cache has no answer; every
`clear` lets one more of them overlap the others; a value answers for `ttl` from the time it was given
to the cache, however long its insertion waits; the cache answers for at most `max_entries`
keys and gives up those that expire first. The refinement mapping reads who is at "fetch" or "share",
at "mirror" and at "store" and, of `_store`, what has not expired.

**ApprovalWorkflow** (`services/travel_service.py`, `graph/workflow.py`). One thread.
`checkpoint` is its state in the checkpointer, shared by all workers; `history` and `stamp`
are `_approval_history` and `_approval_timestamps` of each worker, lost on `Restart`.
`RunNode` executes one node of the graph and writes the checkpoint; `Edges` is the routing
table. A decision is `Ask` (or `Replay` of a stored answer), then `Refuse`, `Recall` or
`Accept`, `Load`, `Decide`, and the resumed run. `waited` is how long the thread has waited for a
decision since the stamp was due: `execute` stamps an interrupted run in the same step in which it ends
(`Executed`), so that no `Tick` comes between; a stream is consumed by its client first, time passes, and
the stamp comes afterwards (`Streamed`), or never if the client leaves. LangGraph itself is external and modelled
by its contract. **ApprovalRound** is the abstract view: rounds that are planned, wait, are
decided once and completed.

**TaskQueue** (`tasks/queue.py`). Tasks are numbered in the order of submission and every
queue they pass is FIFO, so `phase` alone says where each one stands. `cancelling` holds the
coroutines to which `Task.cancel` is still to be delivered. **TaskPool** is what callers may rely on
without queue, semaphore and coroutines: a pool of tasks whose handlers start while it is open,
never more than `max_concurrent` at once and none for a task that was cancelled, and whose final
statuses stay, except that a cancelled task's handler that was at work may still report its outcome.

**ToolCalls** (`integrations/mcp.py`, `mcp_client.py`). One server, its callers, its breaker
(an instance of `CircuitBreaker` whose variables are this module's), the manager's lock
with the other servers as further users. Sessions are numbers that are used again when
nobody refers to them. A tick is half a second; no tick passes while a coroutine that was
handed the lock is ready to run. `CrashesReported` tells `safe_tavily_search` (FALSE) from
the others. **ToolSource** is what the manager promises about a server to those who ask it for tools: one
caller at a time opens a session and loads its tools, none of them while the server rests after a
failure; a new session is one whose tools are in nobody's hands; a reported crash gives up the session
and starts a rest; and every tool that is handed out belongs to the session in use. The mapping reads
the callers that connect or load, and whether the back-off would refuse a caller now.

**AgentPipeline** (`agents/`, `graph/workflow.py`, `integrations/llm_resilience.py`,
`strategies/llm_strategies.py`, `services/model_router.py`) EXTENDS `CircuitBreaker`: a plan is one
of the breaker's callers, since it never has two LLM calls under way, and the other
callers stand for everybody else. `stage` is the agent whose turn it is, `call` how far its
LLM call is: `Send`, `Refuse`, `Receive`, `TypeErrorRaised` (the call is repeated without
`config`), `AttemptFails` with the retry. Every agent is an action that ends its turn
with an answer, without an LLM, or with its fallback. `get_model` is the choice of a
provider by its configuration and priority; as in the code no breaker has a say in it.

**DataStore** (`database/store.py` with the services, routes, repositories and CQRS handlers
above it). `table` holds one row of each table, `memory` the dictionaries of each worker.
Every operation is a request in a thread: `Begin`, then the statements of the store one by
one. `Transaction` either commits and goes on, or raises, committed or not. What follows
(`... found`, `... inserted`) brings the dictionaries up to date, or falls back to them, and
answers. Resets and log-ins are called with a password: `MarkUsed` writes that of the request, so that two
resets of one token with different passwords can both succeed, and `Asked` are the passwords of the
resets that have begun. `calls` is the group of operations that a behaviour uses; `known` and `knew` are
history: what clients had been told or had asked for, now and when the request began.

**RateLimiter** (`middleware/__init__.py`) keeps of a window the ages of its youngest stamps.
`Ask` reads the time, `RunPipeline` is Redis executing the pipeline with that time, later,
`ReceiveVerdict` the worker going on, `LoseRedis` its falling back. The pipeline is `Removed`
(`zremrangebyscore`) and `zadd`, whose members are the times themselves (`{str(now): now}`): a request of
the same time as another adds none. Requests of one tick may be of the same time or not, each of
them for each name (`Coincidences`). `admitted`, `watched` and `told` are history; `admitted`
holds the times of the requests that passed and added a member. **HybridCache** (`cache/redis_cache.py`) is `get_or_set_mcp` statement by
statement; its entries know for whom and when they were fetched. **RedisPath** puts both
around the flag `_use_redis` of each worker, which either of them turns off for both; to
keep the product small a behaviour asks one `question`.

**Lifespan** (`app.py`, `database/__init__.py`, `mcp_client.py`) EXTENDS `TaskQueue`. `stage` is how
far `lifespan()` is; `StartUp`, `ShutDownRuns`, `StopQueue`, `ShutDownManager`, `ClosePools` are
its lines in their order, `EndLoop` and `Exit` what asyncio and `atexit` do after it. `Streams`
are clients that register in `ACTIVE_RUNS`, `Requests` those that do not. `holder` has the
manager's lock; `opener` is who opened the oldest open session. `thread[c]` is a call of the
store in a thread, which no cancellation reaches; `lostPools` records that an open pool was
overwritten. The queue's actions are those of `TaskQueue`, so its properties are checked
here, in its only use.

## 4. Runs

| Run | Instance | States | Shows |
|---|---|---|---|
| `agents` | 1 plan and 1 other caller, 1 retry, threshold 2, 2 successes and 2 trial slots, cooldown 1 tick, with and without a provider | 77 k | the breaker's counters agree with its state; it trips on evidence, and always on a streak; slots do not leak; it implements `CircuitGate` and recovers while a slot is left; every plan ends |
| `breaker_timeout_stuck` | 3 callers, 1 success, 1 slot | - | **violation**: a trial that times out keeps its slot for ever |
| `cache` | 3 callers, of whom one may be cancelled and one clears once; two of them want one key, the third the other; capacity 1, expiry 1 tick | 121 k | bounded; the cache implements `SingleFlight`; an awaited future stays registered; nobody hangs unless a follower awaits a leader who needs the lock, within its fetch or after it, or who was cancelled |
| `cache_coalescing_stuck` | 3 callers, 2 keys, no cancellation, no `clear` | - | **violation**: leader and follower wait for each other |
| `approval_turns` | 2 clients in turn, 2 workers, 2 rounds, failures, restarts, disconnects | 68 k | the thread implements `ApprovalRound`; replies about a round agree; no late draft is resumed by a worker that has its stamp |
| `approval_overlap` | 2 clients at once on 1 worker, 2 rounds, liveness | 148 k | nothing passes the human; all requests end and decided plans complete |
| `approval_second_round` | 2 clients in turn on 1 worker | - | **violation**: the second decision is answered with the first plan |
| `tool_calls` | 2 callers, threshold 2, 1 trial slot, back-off and cooldown 1 tick, 1 retry, other servers at the lock | 126 k | the lock's queue is exactly the calls that want it; cached tools belong to the session in use; the manager implements `ToolSource`; every call ends; service comes back |
| `tool_calls_dead_session` | the same | - | **violation**: a dead session is kept for ever |
| `data_store` | 2 threads in 2 workers (symmetric), 2 users, 3 passwords, 6 groups of operations | 1,764 k | acknowledged rows are kept; deleted items, spent tokens and old passwords come back only to requests whose own query failed, also when two resets of a token overlap; threads are taken only by overlapping or failing requests |
| `redis_path` | 2 workers, 1 address, 1 user, 2 requests (emergency: 1) per window of 3 ticks, 2 ticks to the second, 2 scopes, expiry 2 ticks, time-out 1 tick; an address is watched where the workers share the limits | 852 k | requests pass Redis at no more distinct times than the limit within a window, less the time-out; whom the memory refuses finds room when told; cached answers are the caller's and fresh |
| `lifespan` | 1 stream, 1 request, 2 tasks, 1 permit | 126 k | permits and records agree with the coroutines; the queue implements `TaskPool`; tasks end; shutdown ends; only leftovers leak |

Why the bounds are enough. *Agents*: the other caller gives the plan late answers from
CLOSED and a second trial; one retry separates the attempt that trips the circuit from the
one that it rejects; threshold 2 separates "first" from "last" failure; two slots separate
"all lost" from "one left". *Cache*: three callers are a leader, a follower who holds the
lock, and one who waits for it, clears or wants the other key; capacity 1 makes every store
of the second key evict; one `clear` is enough to orphan a leader and let a second one follow, and
`FetchesPerKey` is proved for any number. With one place eviction has no choice; which entry goes is the theorem's matter (`StoreMakesRoom`, for every capacity),
and `cache_eviction.cfg`, which is no run of its own, lets TLC choose among three keys for two places and
ages of one and two ticks: `SingleFlight` holds in its 1,359 k states, and not if eviction takes the
youngest. *Approval*: two clients contain every race of two decisions, and of
a decision with a new plan; two rounds are needed for stale history; two workers, for stale
time stamps. `approval_overlap` stays on one worker without failures because its liveness
needs the graph to go on. *Tool calls*: two callers are the one who crashes and the one whose
session is replaced; with threshold 2 the trip happens on either caller's failure. `CanHang`
is FALSE and `CrashesReported` TRUE in both runs, as for the weather and aviation servers when
sessions die with an error; see 7 for the other values. *Data store*: two threads contain
every overlap of two requests, in one worker or in two; a third request is a thread's
second one, so that "delete, then look up, then look up after an outage" happens; of three passwords
one is the first and two are those of resets that overlap; the groups are the operations that meet in a
row. *Redis path*: a limit of 2 separates the first from the
last free place; with a window of 3 ticks and a time-out of 1 a pipeline can overtake another and
see a window that has moved on; two ticks to the second let `Retry-After` be rounded. Where both
workers ask Redis the watched name is an address (`MCWatched`): Redis counts a user's name by the same
commands, and `RedisKeepsWindow` is proved for every name. `FAIL_OPEN_REDIS`
is FALSE, the default, which has the emergency cap. *Lifespan*: one permit makes the second
task wait; a stream and a request are one client that is cancelled by `lifespan()` and one
that is not, and their two threads open two pools.

`lifespan` checks no deadlock: a process that has exited does nothing more. `MCWatched`, which
constrains initial states only, is the one constraint of a run. Other bounds are constants that guards name (`MaxTasks`, `MaxRounds`, one row of
each kind and one created item and token in `DataStore`) and caps beyond which the code does not
tell values apart (`FailureCountCap`, `HistoryCap`, `ElapsedCap`, `FailuresCap`, `APPROVAL_TTL + 1`,
`-ttl`, `Gone`, `Oldest`). `FailureCountCap` loses nothing: the count is only ever decremented while
CLOSED, where it is below the threshold (`CountersCorrect`).

## 5. Fairness

The event loop runs every coroutine that is ready, time passes, and what is awaited on the network ends
because it is under a time-out (`EXTERNAL_API_TIMEOUT_SECONDS` in `integrations/mcp.py`,
the time-out of `integrations/llm_resilience.py`).

One premise does not hold in the whole program. `EveryCallEnds` of the tool calls, `EveryPlanEnds` and
`EveryTaskEnds` are about modules without the cache in front of the tools: they assume that what an
agent asks of a tool ends, and that a handler ends (`tasks/queue.py:182` awaits it without a time-out).
A call that meets the deadlock of `cache_coalescing_stuck` does not end, since
`safe_tavily_search` and the others wait for the cache without a time-out (theirs are inside the fetch);
an agent or a task behind them waits for ever. So these three say that breaker, manager, agents and queue add no way to hang of their
own, and `OnlyLostLeadersHang` says exactly when the cache does.

From this:

- breaker and agents: weak fairness of each plan's next step, of the other callers' `Admit`
  and `Finish`, and of `Tick`. Callers keep calling; nobody owes a plan, a human decision, a
  reset or a recovery. `RecoversOnceHealthy` speaks about the time after the dependency has
  healed.
- cache: strong fairness of each caller's `Step`, because the loop is with others in
  between and a step is enabled again and again rather than continuously. Of a fetch it claims that
  the tool call and the command to Redis end, each under its time-out; the write into the cache in
  between (`redis_cache.py:188`) is a step that is enabled only when the lock is free, as in the code,
  where it waits without a time-out. `Call`, `Cancel`, `clear` and `Tick` are not fair.
- approval: weak fairness of each request's `Progress`. No fairness for clients, failures,
  restarts.
- lifespan and tasks: weak fairness of the lines of `lifespan()`, of the queue's loop, of each
  coroutine's `Step`, of threads (statements and connects have time-outs), of whoever holds the
  manager's lock, and of the end of a client that was cancelled. A client that was not
  cancelled owes nothing, since a stream may wait for a reader that never reads. Strong
  fairness of the manager's shutdown, because others may take the lock in between, and
  `asyncio.Lock` is FIFO. Nobody owes a submission, a cancellation or a shutdown.
- data store and Redis: no liveness is claimed.
- tool calls: weak fairness of each caller's `Progress`, of the other servers' giving the
  lock back, and of `Tick`. It suffices, although callers compete for the lock, since
  `asyncio.Lock` is FIFO and the model's queue is.

## 6. Proofs

Each `*Proofs` module EXTENDS its component and proves, for all values of the constants
that satisfy the component's named assumptions:

| Theorem | Says | Inductive invariant |
|---|---|---|
| `CountersCorrect`, `NoSpuriousTrip`, `StreakAlwaysTrips` | `[]CountersAgreeWithState`, `[]TripsOnlyOnEvidence`, `[]StreakTrips` | `IInv`: the counters agree with the state, and `failure_count` lies between the current streak and the failures since CLOSED. Neither bound follows from the properties: decay by other callers' successes lowers the count, so it has to be bracketed by both histories. `NoSpuriousTrip` assumes `HistoryCap >= failure_threshold`, or the history is too short to show it |
| `SlotsNeverLeak` | `[]NoLeakedSlot` | itself with `CountersAgreeWithState`; the cardinality of the running trials changes by at most one (`AdmitAddsTrial`, `LeaveRemovesAtMostOne`) |
| `ImplementsGate` | the breaker implements `CircuitGate` | step simulation under `CountersAgreeWithState` |
| `NeverStuckHalfOpen`, `HealthyOnlyAdvances` | the safety half of `RecoversWithASlotLeft`: HALF_OPEN with a slot left has a trial running or room for one, and once the dependency is healthy every step leads towards CLOSED or leaves the breaker where it is | `NoLeakedSlot` and the types: the trials that run are no empty set |
| `AwaitedFutureSafe` | `[]AwaitedFutureRegistered` | itself: the follower has the lock, and whoever removes a future needs it |
| `SingleFlight` | `[]FetchesPerKey`: at most one caller fetches a key, and one more for every `clear` | `CountInv`: of the callers that fetch a key one is accounted for by the registered future, if there is one, and the others by the clears. (`LeadersInv`, that until a `clear` every leader's future is the one registered for its key, serves `FetchesNeeded`) |
| `ImplementsSingleFlight` | `KeepsSingleFlight`: the cache implements `SingleFlight`, with cancellations and clears | step simulation under the invariants of the cache's other theorems: `LeadersInv` and `MissInv` make a fetch needed (`LeadIsNeeded`), `CapacityInv` bounds the answers, and an entry that `set` takes away had expired or goes before those that stay, although it looks at an earlier time (`StoreMakesRoom`); `LifeInv`: only who has a value to store, inside its fetch or after it, has an expiry for it |
| `CapacityRespected` | `[]StoreBounded` | finiteness and the bound; `EvictionMakesRoom` is the arithmetic of `set` |
| `FetchesNeeded` | `FetchOnlyOnMiss` | `MissInv`: if the key is stored while a caller queues for the single-flight check, its future is still registered, and the leader who is to remove it comes later in the lock's queue. It rests on `QueueInv` (a caller is queued once, in order) and `LeadersInv` |
| `OnlyFollowersBlock`, `LockIsFifo` | the safety half of `OnlyLostLeadersHang`: no state keeps everybody waiting unless a follower's leader needs the lock or is gone, and nobody in the lock's queue is overtaken, whoever is cancelled | `QueueInv`, `LockInv`: a lock that is held or was handed over has a user who can run |
| `HumanDecides` | `[]NothingPastTheHuman`, however requests overlap | `Inv`: every copy of a thread's state, in checkpoint, histories, runs and replies, is one that was decided before it passed the human. Copies travel, so all have to be good |
| `TurnsKeepRounds` | if clients take turns, the thread implements `ApprovalRound` | `TurnsInv`: one request at a time, whose run equals the checkpoint; from acceptance on the thread waits |
| `TurnsDecideInTime` | if clients take turns, `NoLateDecision` | `AgesInv`: a stamp is never younger than the wait it belongs to: an executed run is stamped in the step that ends it, and a stream's wait is counted from its stamp |
| `TurnsAgree` | if clients take turns, `[]RepliesAgree` | `Agreement`: a round that anybody was told about (in a reply or a worker's history) is over, and all that was told of it is one state; `CarriesDecision`: a request that plans was given no decision |
| `RequestsEnd` | every request comes to its end, from the fairness of `FairSpec` and the hypothesis `[]RequestsCanGoOn` | a rank: the steps a request still has before it, which its own steps lower and others leave alone; see below |
| `DecidedComplete` | `DecidedPlansComplete` without failures and restarts, from the same | `FinalInv`: a thread that waits for its final node has a request that is about to execute it |
| `PermitsBalanced`, `RecordsCorrect`, `OnlyPendingStart` (`NoUnwantedStart`), `FinalStatusKept` (`FinalStaysFinal`) | the queue's safety properties | `Sound` for every task relates phase, status and pending cancellation, with `LiveTasksReachable`: who has work to do is in the registry or being cancelled; the semaphore by the cardinality of the handlers |
| `ImplementsTaskPool`, `ProcessKeepsTaskPool` | `KeepsTaskPool`: the queue implements `TaskPool`, by itself and in the process | step simulation under `Sound` and the balance of permits: a permit taken is a handler more, so that a start finds room; `status`, the handlers at work and "`stop` has not ended" are the mapping |
| `ProcessPermits`, `ProcessRecords`, `ProcessStarts`, `ProcessFinal` | the queue keeps its safety properties in the whole process, from its start to its exit | the queue's own invariants: every step of `Lifespan` is one of the queue, leaves it alone, or is `EndLoop`, the end of the event loop, which cancels coroutines. `LifespanAssumption` keeps clients, tasks and the process apart |
| `LeftoversOnly` | `[]OnlyLeftoversLeak` | `Leftovers`: who may still be at work in each stage - no stream once the runs are shut down, no thread opening a pool while there is one, and at the exit no stream, thread or task at all. So whoever opens a resource after the stage that closes it is one of the leftovers the property names |
| `ShutdownReachesAll`, `ShutdownOnlyShrinks` | the safety half of `ShutdownEnds`: whoever holds the manager's lock is still at work, at the end of the loop everybody left over has been cancelled (`EveryoneInReach`), and the stages of the process follow one another in their order, in which clients, and from `stop` on handlers, only get fewer (`FewerAtWork`) | the queue's types, with who is present, cancelled or holds the lock in each stage |
| `ToolsUsable` | `[]CachedToolsUsable` | `LockInv`: whoever opens a session or loads its tools is the head of the lock's queue and found no tools when it got the lock |
| `ImplementsToolSource` | `KeepsToolSource`: the manager implements `ToolSource` | step simulation under `LockInv` (only the head of the queue opens or loads), the types (a fresh session exists and is in nobody's hands) and `SourceInv`: a caller has a tool exactly while it invokes it, whoever loads has a session, and nobody works on a server that rests, because the clock ends rests and begins none (`NoNewRest`). That a reported crash always starts a rest needs the rest to be longer than nothing, for every number of failures: `BackoffBounds` counts subsets, as there is no induction on exponents |
| `LockHasItsUsers` | `[]QueueMatchesCalls` | itself with `LockInv`: joining, leaving and cancelling move a call's step and its place in the queue together; a place taken out of a sequence without duplicates leaves the others (`WithoutMembers`, `AppendMembers`) |
| `CallsLeaveBreaker` | a call is in the breaker exactly while its attempt runs, so that nobody who sleeps, reports or is done keeps a trial slot | itself: admission and step change together |
| `TypesCorrect` | `[]TypeOK` of `ToolCalls` | the types with `LockInv`; that a number is free for a new session is a count (`FreshSessionExists`): there is one more than there are callers, and nothing else refers to one while none is in use |
| `CallsUseBreaker`, `BreakerAmongCalls` | every behaviour of the tool calls is one of the breaker, and so the breaker's invariants, its recovery's safety half and `CircuitGate` hold | step simulation, as for the agents |
| `PlansUseBreaker`, `BreakerAmongPlans`, `PlansTripOnEvidence` | every behaviour of the agents is one of the breaker, and so the breaker's invariants, its recovery's safety half and `CircuitGate` hold under `PipelineSpec` | step simulation: a plan's LLM call is one of the breaker's callers |
| `PlansEnd` | `EveryPlanEnds`, with at most one retry as everywhere in the code, from the fairness and the hypothesis `[]PlansCanGoOn` | a rank: the agents that are still to come, then the steps of the current one's call, its retry included; see below |
| `RedisKeepsWindow` | `[]RedisWindowKept` | `StampsCoverAdmissions`: the i-th youngest member of the set is at most `Timeout` older than the i-th youngest of the distinct times at which requests passed, unless those are out of the window already (`Covers`; removals take what is out of it, `RemovedCovers`). A pipeline carries a time that is up to `Timeout` old, which is why the window that the set keeps is that much shorter |
| `PromisesKept` | `[]RefusedMayReturn` | `PromiseInv`: the age of the limit-th youngest stamp in a worker's memory and what is left of the promise (what the client was told, and the second that the rounding may lose) reach the window together |
| `AnswersSound` | `[]AnswersOwnAndFresh` | for every entry, in Redis or in memory, and every value on its way: its age and the time it has left are at most the time to live and one time-out, and its key contains the user it was fetched for |
| `TypeCorrect` (breaker, approval, queue), `PlansTypeCorrect`, `CacheTypes`, `ProcessTypes`, `TypesCorrect` (Redis) | the type invariants of these modules, which no run spends a check on | `TypeOK` itself, where necessary with the component's invariant: the ages of approvals (`AgeTypes`), the queue's `Sound`, the promise of the limiter (`PromiseBounded`: nobody is sent away for longer than a window and two seconds) |
| `TypesCorrect` | `[]TypeOK` of `DataStore` | `Fits`: which call may be at which step, and what it has then found. Without it nothing says that what a step remembers is a row of its table |
| `RowsKept`, `DeletedStayGone` | `[]AcknowledgedRowsKept`, `DeletedItemsGone` | `ItemInv`: one creator, who finds no item; from its insertion on the item is there unless its owner asks for its deletion, which other users' deletions do not disturb; after the deletion nobody can insert it again (`Gone`). `UserInv` for accounts |
| `ResetPasswordsStick` | `PasswordsStick` | `PasswordInv`: once the database has spent the token, the table has the password of a reset that had begun, and a look-up begun after that has found such a one or has failed; with `TokenInv` (no reset that begins later spends it in the database again) and `UserInv` (the account stays) |
| `SpentTokensRefused` | `SpentTokenRefused` | `TokenInv`: one request for a token, so that no token is issued again after one was spent; a spent token is marked where it was spent, in the table or in a worker's dictionary, which a restart forgets altogether |
| `OwnersKeepThreads` | `OnlyOverlapsTakeThreads` | in `Fits`: on the way to the upsert a request has found no owner or its own user |

The run of a component checks the properties first on a small instance; the theorem is for
every value of the constants. `StoreAssumption` says that `NoRow` is none of the data, that workers
are not names of events, and that clients call operations as the routes do, with a user, a
password or neither; the lock's other
users in `ToolCalls` are none of the callers; the other assumptions are ranges of numbers and finite
sets.

**Liveness.** The prover takes an ENABLED expression for an atom: it can use `WF_vars(A)` together with
`[](P => ENABLED <<A>>_vars)`, but not show the latter. So what must be enabled is a
hypothesis, `RequestsCanGoOn` and `PlansCanGoOn`, of the theorems `RequestsEnd`, `DecidedComplete` and
`PlansEnd`. `RequestsHaveBranches` and `PlansHaveBranches` prove for all constants what lies behind
it: the guards of the actions, written out by hand, leave out no state. On the instances of
`approval_overlap` and `agents` TLC checks the conclusions themselves, without the hypothesis. What is proved from it is that
each fair step lowers a rank, that nobody else's step raises it, and that a rank of zero is the end:
one lemma per rank, chained by temporal logic. This needs a rank with a bound that does not
depend on the constants, as here, where others cannot keep a request or a plan back.

It does not work where somebody waits for the others (the cache's lock, the lock of the tool calls, the
permits of the queue, the stages of the shutdown, the trials of the breaker): the rank counts callers or
tasks, and induction over a set or a number inside a temporal formula is out of the
prover's reach. `OnlyLostLeadersHang`, `EveryCallEnds` and `ServedAgain`, `EveryTaskEnds`,
`ShutdownEnds` and `RecoversWithASlotLeft` are therefore only model-checked. Their safety halves, which say that somebody can always move and that nobody goes
backwards, are theorems: `OnlyFollowersBlock` and `LockIsFifo`; `LockHasItsUsers` and
`CallsLeaveBreaker`; `ShutdownReachesAll` and `ShutdownOnlyShrinks`; `NeverStuckHalfOpen` and
`HealthyOnlyAdvances`.

Every other property of the passing runs has a theorem; where one holds only until a `clear` or
with clients that take turns, the property or the theorem says so. No module has a RECURSIVE operator.

## 7. Observations

Violations, each with a run (`PROJECT.json`, "findings"):

- **Breaker stuck in HALF_OPEN** (`breaker_timeout_stuck`). `call` does not see the
  `CancelledError` that `wait_for` raises in it. The time-out is not counted (although
  `circuit_breaker.py:18-19` lists time-outs as transient errors) and a trial keeps its
  slot. `RecoversWithASlotLeft` shows that this is the only way not to recover.
- **Cache deadlock** (`cache_coalescing_stuck`). Line 106 awaits the leader with the lock
  held; the leader needs the lock, and with `get_or_set_mcp` it does so inside its fetch already
  (`set_mcp`, `redis_cache.py:188`), before the `set` of `get_or_set`. `OnlyLostLeadersHang` shows that
  nobody hangs otherwise, but behind the future of a leader that was cancelled. A fetch that returns None or raises does not `set`, which is why tests of failing
  fetches do not meet it.
- **Second round answered from the first** (`approval_second_round`).
- **A dead session is kept** (`tool_calls_dead_session`): the rejection of the retry hides
  the crash from `handle_tool_crash`.

Seen while modelling; the models contain this behaviour, the properties are stated so that
they hold with it, and no run is spent on it:

- Breaker: an answer to a call from before the trip gives back a trial slot of somebody
  else, so more than `half_open_max_trials` trials may run (`circuit_breaker.py:139`;
  `docs/DESIGN_PATTERNS.md:98` promises a limit). Its success closes the circuit without
  a trial (`:174`). This is why `CircuitGate` allows any running call to move the gate.
- Cache: `clear` drops futures of flights under way, so that a second fetch of the key
  starts, and the first leader then removes the second's future (`ttl_cache.py:131,138`). Each `clear`
  allows one more flight of a key, and no more (`FetchesPerKey`). A
  cancellation while the `finally` clause waits for the lock leaves the future in the
  registry for good: later callers that miss are given its old result, or wait for ever if
  it never got one. This is why `OnlyLostLeadersHang` makes an exception for them.
- Approval: two decisions at once both pass the idempotency check (`travel_service.py:155`)
  and the later one is given to whatever the thread then waits for (`:189`, the state read
  at `:174`). `approval_created_at` is read (`:182`) and never written, so that a
  restarted worker knows no age and `NoLateDecision` has to except it; the README of the
  repository (line 960) promises expiry without this exception, and its way to force a
  resolution is itself refused with 410 (`:183`). A worker that did not serve the
  decision keeps the old stamp (`:201`) and refuses the next draft as expired. After a crash
  between decision and final answer only a new request moves the thread on: the
  `get_recoverable_checkpoint` that `services/recovery.py:7` names does not exist.
- Tasks: `stop` leaves tasks that wait for the semaphore PENDING (`tasks/queue.py:60`, the
  `try` begins inside the semaphore). A task cancelled in the queue stays in
  `_running_asyncio_tasks` for ever and is counted in `active_workers` (`:166,211`). A
  cancelled task may still become COMPLETED (`:184`). There are no priority levels
  (README of the repository, line 119).
- Tool calls: `safe_tavily_search` never calls `handle_tool_crash` (`integrations/mcp.py:103`), so a dead
  Tavily session is never replaced (`CrashesReported = FALSE` shows it in few steps). A
  session that hangs only ever times out, which is not reported (`CanHang = TRUE`); an
  error in a caller's arguments is, and recycles the session of all callers. A stale report
  recycles a healthy session (`mcp_client.py:212`). Recycled sessions are not closed until
  shutdown (`:191,212`). A failure is dated with the clock as it was before the attempt
  (`:148,187`), so that a slow failure has little or no back-off.
- Streams: an exception before `run_id` is assigned makes the handler raise
  UnboundLocalError, and the stream ends without an error event (`travel_service.py:375`).
- Agents: `docs/ARCHITECTURE.md:174` and `README.md:111` of the repository promise failover
  from Groq to OpenRouter to HuggingFace with a breaker each. `get_model` consults no breaker,
  and every call goes through the one named "groq" whichever provider answers, so that one
  provider's failures reject the other's calls. Specialists mark data VERIFIED although
  the tool returned its fallback text; the supervisor ignores the planner's selection and,
  with `MAX_PARALLEL_AGENTS` 4, its list leaves out the itinerary agent, which runs all the same; the critic runs
  before the itinerary is written and routes nothing.
- Data store: a password reset accepted only in memory during an outage is undone when the
  database answers again; a token may be spent once in the database and once in the memory of
  each worker, and twice by overlapping requests (`store.py:506` calls it single-use), which is
  why `SpentTokenRefused` speaks of resets begun after it was spent, and where. Two overlapping resets
  with different passwords are both acknowledged and the later update wins (`store.py:546-555`), so
  that a log-in with the password of the other is refused: `PasswordsStick` promises that the
  password is that of one of the resets that had begun, and no longer the old one; users are
  looked up in the dictionary also when the database says that there is none; deletion of a
  watchlist or asset after a failed transaction removes only the dictionary entry, or raises
  KeyError; the owner of a thread is checked and registered in two transactions
  (`travel_service.py:227-234`; `docs/THREAT_MODEL.md:41` promises isolation).
- Redis: `_use_redis` is never set back, so that one slow command turns a worker to its memory for
  good. `retry_after` is rounded down (`middleware/__init__.py:291`), so a client that obeys is
  refused once more: `RefusedMayReturn` grants it a second. The Redis variant also records refused
  requests (`:257`), so that a client that keeps asking is never let in. Requests of exactly the same time are one
  member of its set and count as one, so that more of them than the limit may pass within a
  window, which is why `RedisWindowKept` counts distinct times. A slow pipeline counts a window that has
  moved on, hence the `Timeout` in `RedisWindowKept`. `MCP_CACHE_MAX_BYTES` limits what is written to Redis
  only: `in_memory.get_or_set` stores the value anyway. Clearing the cache leaves other workers'
  memory as it is.
- Lifespan: requests outside of `ACTIVE_RUNS` and handlers that outlive their cancellation may open
  sessions after the manager was shut down, which nobody closes. `get_db_pool` ("singleton
  thread-safe", `database/__init__.py:175`) takes no lock: two threads may open two pools, and
  the first is never closed. At startup the pool is opened before any thread runs, so that this
  needs a thread that is still running when the pools are closed.
- Runs: the replay route uses the final answer as the prompt of the new run
  (`api/v1/routes/runs.py:109`), where its description says "from initial inputs".

## 8. What is not modelled

The components marked `not_modelled` in `PROJECT.json`, because they have no behaviour over time,
are pure I/O or consist of operations on one dictionary without a suspension: a price lock is
checked and marked in one step of one worker, and a lock that another worker made does not
exist there. Inside the modelled components:

- breaker: statistics and the registry;
- cache: hit and miss counters, hashing of keys (distinct keys are assumed to stay distinct);
- approval: ownership checks (they are in `DataStore`), `RUN_STORE` and telemetry, events,
  texts of plans; LangGraph and the checkpointer are external: latest write wins;
- tasks: payloads, results, progress, owners, a second `start`; of the handlers' work what they do with the
  manager and the pool;
- tool calls: the cache in front of them (it is in `HybridCache`), missing API keys, tools a server
  lacks, startup of the manager, capping of output;
- agents: prompts, answers, evidence, latencies; the tools of the specialists are in `ToolCalls`;
- data store: seeding, `create_api_key`, `delete_user`, token budgets (no service calls them), more than
  one row of a table, expiry of tokens by a real clock (it is a flag);
- Redis: `get`, `set` and `get_or_set` of the hybrid cache, which nobody calls;
  the other middlewares, which look at one request only;
- lifespan: the connection of the cache and the checkpointer's pool, migrations, pages and
  exception handlers.

## 9. Running it

    tlc -workers 2 -config agents.cfg MCAgentPipeline
    tlapm CircuitBreakerProofs.tla

and likewise for the other configurations, with the module that `PROJECT.json` gives for each
run, and the other `*Proofs` modules. TLC needs the community modules and TLAPS's library
module on its path; the longest runs (`data_store`, about three minutes; `redis_path`, `lifespan` and `tool_calls`, about
two; `cache`, `agents` and `approval_overlap`, about one) are those with the most states or with liveness.
