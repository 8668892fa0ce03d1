------------------------------ MODULE RedisPath ------------------------------
(***************************************************************************)
(* The two users of Redis, RateLimiter and HybridCache, in the workers of  *)
(* one deployment.  They meet in one flag per worker, hybrid_cache's       *)
(* _use_redis: whoever finds Redis failing turns it off for both, and only *)
(* a new process turns it on.                                              *)
(*                                                                         *)
(* A behaviour answers one question: what limits workers keep on ordinary  *)
(* routes while Redis answers, what limits one worker keeps on all routes  *)
(* and may lose Redis, or what the cache answers in workers that may.      *)
(***************************************************************************)
EXTENDS RateLimiter

CONSTANTS Scopes, TTL, NoEntry

ASSUME CacheAssumption == TTL \in Nat \ {0}

VARIABLES remote, in_memory, call, answer, question

Cache == INSTANCE HybridCache
cacheVars == <<remote, in_memory, call, answer>>

vars == <<use_redis, limiterVars, cacheVars, question>>

Question == {"limits", "cache"} \cup Workers

\* The limiter's history does not matter to the cache, and Redis knows no
\* emergency names.
Init ==
    /\ LimiterInit
    /\ Cache!CacheInit
    /\ question \in Question
    /\ question = "cache" => watched \in Addresses
    /\ question = "limits" => watched \in Names

\* The cache's failures, as the limiter sees them, and the limiter's.
OtherLosesRedis(w) ==
    /\ question \in {"cache", w}
    /\ use_redis[w]
    /\ use_redis' = [use_redis EXCEPT ![w] = FALSE]
    /\ answer' = NoEntry
    /\ UNCHANGED <<limiterVars, remote, in_memory, call>>

SharedLimits ==
    /\ question = "limits"
    /\ LimiterTick \/ \E w \in Workers : LimiterStep(w, Ordinary)
    /\ UNCHANGED cacheVars

LimitsOfOne ==
    /\ question \in Workers
    /\ LimiterTick \/ LimiterStep(question, Requests) \/ LoseRedis(question)
    /\ UNCHANGED cacheVars

Caching ==
    /\ question = "cache"
    /\ Cache!CacheTick \/ \E w \in Workers : Cache!CacheStep(w)
    /\ UNCHANGED limiterVars

Restart(w) ==
    /\ question \in {"limits", "cache", w}
    /\ RestartLimiter(w)
    /\ Cache!RestartCache(w)
    /\ use_redis' = [use_redis EXCEPT ![w] = TRUE]

Next ==
    /\ UNCHANGED question
    /\ \/ SharedLimits \/ LimitsOfOne \/ Caching
       \/ \E w \in Workers : OtherLosesRedis(w) \/ Restart(w)

Spec == Init /\ [][Next]_vars

-----------------------------------------------------------------------------

\* Types of the variables of both.
TypeOK == LimiterTypeOK /\ Cache!CacheTypeOK

\* AnswersOwnAndFresh of HybridCache, with the rate limiter's failures.
AnswersOwnAndFresh == Cache!AnswersOwnAndFresh

=============================================================================
