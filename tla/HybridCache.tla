----------------------------- MODULE HybridCache -----------------------------
(***************************************************************************)
(* RedisHybridCache of tripmate/cache/redis_cache.py, as the safe_*_call   *)
(* functions of tripmate/integrations/mcp.py use it: get_or_set_mcp looks  *)
(* into Redis, then into the worker's memory, and else fetches and stores  *)
(* in both.  A worker whose Redis fails goes on with its memory.           *)
(*                                                                         *)
(* A scope stands for one question asked on behalf of one user, or of the  *)
(* public.  The in-memory half is a table with expiry here; SingleFlight-  *)
(* Cache is its model, and sees to it that calls of one scope do not       *)
(* overlap in a worker.  Those of different scopes do not meet, so one     *)
(* call per worker is under way.                                           *)
(***************************************************************************)
EXTENDS Integers

CONSTANTS
    Workers, Scopes,
    TTL,             \* MCP_CACHE_TTL_SECONDS, in ticks
    Timeout,         \* of a Redis command, in ticks
    NoEntry

VARIABLES
    use_redis,       \* _use_redis of each worker
    remote,          \* Redis
    in_memory,       \* in_memory[w]
    call,            \* call[w]: how far get_or_set_mcp is, and for whom
    answer           \* the answer given in the last step

cacheVars == <<remote, in_memory, call, answer>>

\* The data of an entry: whom it was fetched for and how old it is.  `left' is
\* the time it stays in its store.
Oldest == TTL + Timeout + 1
Data == [owner : Scopes, age : 0..Oldest]
Entry == [data : Data, left : 1..TTL]
Steps == {"idle", "reading", "fetching", "writing"}

\* Mutation of RedisKey: the user's scope is not part of the key.
SharedKey(s) == CHOOSE t \in Scopes : TRUE
\* _build_mcp_cache_key, and the name space "mcp:<name>:<scope>" in memory.
RedisKey(s) == s
MemoryKey(s) == s

Idle == [at |-> "idle", scope |-> NoEntry, data |-> NoEntry, waited |-> 0]
Empty == [s \in Scopes |-> NoEntry]

CacheInit ==
    /\ remote = Empty
    /\ in_memory = [w \in Workers |-> Empty]
    /\ call = [w \in Workers |-> Idle]
    /\ answer = NoEntry

At(w, s, step) == call[w].at = step /\ call[w].scope = s
Go(w, s, step, data) ==
    /\ call' = [call EXCEPT ![w] = [at |-> step, scope |-> s, data |-> data, waited |-> 0]]
    /\ answer' = NoEntry
Answer(w, s, data) ==
    /\ answer' = [to |-> s, data |-> data]
    /\ call' = [call EXCEPT ![w] = Idle]

\* get_mcp without Redis and, after another look, the fetch.
LookInMemory(w, s) ==
    \/ /\ in_memory[w][MemoryKey(s)] # NoEntry
       /\ Answer(w, s, in_memory[w][MemoryKey(s)].data)
    \/ /\ in_memory[w][MemoryKey(s)] = NoEntry
       /\ Go(w, s, "fetching", NoEntry)

get_or_set_mcp(w, s) ==
    /\ call[w] = Idle
    /\ IF use_redis[w] THEN Go(w, s, "reading", NoEntry)
       ELSE LookInMemory(w, s)
    /\ UNCHANGED <<use_redis, remote, in_memory>>

ReadRedis(w, s) ==
    /\ At(w, s, "reading")
    /\ IF remote[RedisKey(s)] # NoEntry THEN Answer(w, s, remote[RedisKey(s)].data)
       ELSE LookInMemory(w, s)
    /\ UNCHANGED <<use_redis, remote, in_memory>>

ReadFails(w, s) ==
    /\ At(w, s, "reading")
    /\ use_redis' = [use_redis EXCEPT ![w] = FALSE]
    /\ LookInMemory(w, s)
    /\ UNCHANGED <<remote, in_memory>>

\* Neither the exception nor the caller's fallback text is stored.
FetchFails(w, s) ==
    /\ At(w, s, "fetching")
    /\ call' = [call EXCEPT ![w] = Idle]
    /\ answer' = NoEntry
    /\ UNCHANGED <<use_redis, remote, in_memory>>

Kept(data) == [data |-> data, left |-> TTL]

\* in_memory.get_or_set stores the result, for a second time, and returns it.
Finish(w, s, data) ==
    /\ in_memory' = [in_memory EXCEPT ![w][MemoryKey(s)] = Kept(data)]
    /\ Answer(w, s, data)

\* set_mcp leaves out what is larger than MCP_CACHE_MAX_BYTES.
Fetched(w, s, large) ==
    LET data == [owner |-> s, age |-> 0]
    IN  /\ At(w, s, "fetching")
        /\ IF use_redis[w] /\ ~large
           THEN /\ in_memory' = [in_memory EXCEPT ![w][MemoryKey(s)] = Kept(data)]
                /\ Go(w, s, "writing", data)
           ELSE Finish(w, s, data)
        /\ UNCHANGED <<use_redis, remote>>

WriteRedis(w, s) ==
    /\ At(w, s, "writing")
    /\ remote' = [remote EXCEPT ![RedisKey(s)] = Kept(call[w].data)]
    /\ Finish(w, s, call[w].data)
    /\ UNCHANGED use_redis

\* Redis may have executed the command all the same.
WriteFails(w, s) ==
    /\ At(w, s, "writing")
    /\ use_redis' = [use_redis EXCEPT ![w] = FALSE]
    /\ \/ UNCHANGED remote
       \/ remote' = [remote EXCEPT ![RedisKey(s)] = Kept(call[w].data)]
    /\ Finish(w, s, call[w].data)

\* clear() empties Redis and the memory of one worker; nobody waits for Redis
\* in between who could see a difference.
clear(w) ==
    /\ in_memory' = [in_memory EXCEPT ![w] = Empty]
    /\ IF use_redis[w] THEN remote' \in {Empty, remote} ELSE UNCHANGED remote
    /\ answer' = NoEntry
    /\ UNCHANGED <<use_redis, call>>

RestartCache(w) ==
    /\ in_memory' = [in_memory EXCEPT ![w] = Empty]
    /\ call' = [call EXCEPT ![w] = Idle]
    /\ answer' = NoEntry
    /\ UNCHANGED remote

Older(data) == [data EXCEPT !.age = IF @ < Oldest THEN @ + 1 ELSE Oldest]
Aging(entry) ==
    IF entry = NoEntry \/ entry.left = 1 THEN NoEntry
    ELSE [data |-> Older(entry.data), left |-> entry.left - 1]

WaitsForRedis(w) == call[w].at \in {"reading", "writing"}

\* A command is answered or given up within its time-out.
CacheTick ==
    /\ \A w \in Workers : WaitsForRedis(w) => call[w].waited < Timeout
    /\ remote' = [s \in Scopes |-> Aging(remote[s])]
    /\ in_memory' = [w \in Workers |-> [s \in Scopes |-> Aging(in_memory[w][s])]]
    /\ call' = [w \in Workers |->
                   IF ~WaitsForRedis(w) THEN call[w]
                   ELSE [call[w] EXCEPT
                            !.waited = @ + 1,
                            !.data = IF @ = NoEntry THEN NoEntry ELSE Older(@)]]
    /\ answer' = NoEntry
    /\ UNCHANGED use_redis

CacheStep(w) ==
    \/ \E s \in Scopes :
          \/ get_or_set_mcp(w, s) \/ ReadRedis(w, s) \/ ReadFails(w, s)
          \/ FetchFails(w, s) \/ (\E large \in BOOLEAN : Fetched(w, s, large))
          \/ WriteRedis(w, s) \/ WriteFails(w, s)
    \/ clear(w)

-----------------------------------------------------------------------------

\* Types of the variables.
CacheTypeOK ==
    /\ use_redis \in [Workers -> BOOLEAN]
    /\ remote \in [Scopes -> Entry \cup {NoEntry}]
    /\ in_memory \in [Workers -> [Scopes -> Entry \cup {NoEntry}]]
    /\ \A w \in Workers :
          /\ call[w].at \in Steps
          /\ call[w].scope \in Scopes \cup {NoEntry}
          /\ call[w].waited \in 0..Timeout
          /\ call[w].data \in Data \cup {NoEntry}

\* Whichever store answers, before and after the worker or another one has lost
\* Redis: data is given to the user only it was fetched for, and not when it is
\* older than its time to live and the wait for one command of Redis.
AnswersOwnAndFresh ==
    answer # NoEntry =>
        /\ answer.data.owner = answer.to
        /\ answer.data.age <= TTL + Timeout

=============================================================================
