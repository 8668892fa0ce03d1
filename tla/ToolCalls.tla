------------------------------ MODULE ToolCalls ------------------------------
(***************************************************************************)
(* The path of a tool call to one MCP server: the safe_*_call functions of *)
(* tripmate/integrations/mcp.py with their retries and time-outs, the      *)
(* server's circuit breaker, and the MCPManager of mcp_client.py, which    *)
(* keeps one session per server, backs off after failures and serialises   *)
(* everything it does with one lock that all servers share.                *)
(*                                                                         *)
(* The breaker is the module CircuitBreaker: an attempt of caller c begins *)
(* with its Admit(c) and ends with its Succeed(c), FailTransient(c),       *)
(* FailPermanent(c) or TimeOut(c).  The other servers are present as       *)
(* holders of the lock.  One step is the code between two awaits that      *)
(* really suspend.                                                         *)
(***************************************************************************)
EXTENDS Integers, FiniteSets, Sequences

CONSTANTS
    Callers, failure_threshold, cooldown_seconds, success_threshold,
    half_open_max_trials, FailureCountCap, HistoryCap,
    max_retries,        \* of execute_with_backoff_and_jitter
    MaxBackoff,         \* the longest back-off, in ticks
    CrashesReported,    \* does safe_*_call call handle_tool_crash?
    CanHang             \* may a session stop answering without an error?

VARIABLES
    \* the server's circuit breaker, see CircuitBreaker
    state, failure_count, consecutive_successes, active_half_open_trials,
    elapsed, admitted, failuresSinceClosed, failureStreak, lostSlots,
    assured,      \* its `healthy', FALSE for ever: here it sees outcomes only
    \* MCPManager, as far as this server is concerned
    session,      \* _sessions[server]: the session's number, or None
    tools,        \* the session that the tools in _tools are bound to, or None
    failures,     \* _failures[server]
    sinceFailure, \* now - _last_failure_time[server], while failures > 0
    queue,        \* who holds _lock or waits for it, in order
    reading,      \* age of the lock holder's `now'
    \* one safe_*_call per caller
    pc, attempt,
    tool,         \* the session of the tool that is being invoked, or None
    \* the remote side
    broken,       \* sessions that answer every request with an error
    hung,         \* sessions that do not answer at all
    healthy       \* from now on no server is slow and no session breaks

breakerVars == <<state, failure_count, consecutive_successes,
                 active_half_open_trials, elapsed, admitted,
                 failuresSinceClosed, failureStreak, lostSlots, assured>>
managerVars == <<session, tools, failures, sinceFailure, queue, reading>>
callVars == <<pc, attempt, tool>>
remoteVars == <<broken, hung, healthy>>
vars == <<breakerVars, managerVars, callVars, remoteVars>>

Breaker == INSTANCE CircuitBreaker WITH healthy <- assured

ASSUME CallsAssumption == Breaker!CallersAssumption /\ Breaker!BreakerAssumption

ASSUME RetryAssumption == max_retries \in Nat /\ MaxBackoff \in Nat \ {0}

\* 15 s against 30 s in the code.
ASSUME BackoffAssumption == MaxBackoff <= cooldown_seconds

None == 0
OtherServer == "other"

ASSUME OthersAssumption == OtherServer \notin Callers

\* Numbers of sessions are used again when nobody refers to them any more.
Sessions == 1..(Cardinality(Callers) + 1)
InUse == {session, tools} \cup {tool[c] : c \in Callers}
\* Whether a session works is of no interest once nobody refers to it.
ForgetUnused ==
    /\ broken' = broken \cap InUse'
    /\ hung' = hung \cap InUse'
    /\ UNCHANGED healthy

FreshSession == CHOOSE s \in Sessions \ InUse : TRUE

\* min(15.0, 0.5 * 2 ** (fail_count - 1)) in ticks of half a second.  Counts of
\* failures beyond this bound are not told apart: they all yield the longest
\* back-off, as 2 ^ (n - 1) >= n.
Backoff(n) == Breaker!UpTo(MaxBackoff, 2 ^ (n - 1))
FailuresCap == MaxBackoff

InBackoff == failures > 0 /\ sinceFailure < Backoff(failures)

\* An attempt begins when the cache missed ("idle") or after the sleep of
\* execute_with_backoff_and_jitter ("retry").
Steps == {"idle", "retry", "waiting", "connecting", "loading", "invoking", "reporting"}

Init ==
    /\ Breaker!Init
    /\ session = None /\ tools = None
    /\ failures = 0 /\ sinceFailure = MaxBackoff
    /\ queue = <<>> /\ reading = MaxBackoff
    /\ pc = [c \in Callers |-> "idle"]
    /\ attempt = [c \in Callers |-> 0]
    /\ tool = [c \in Callers |-> None]
    /\ broken = {} /\ hung = {}
    /\ healthy = FALSE

-----------------------------------------------------------------------------
(* safe_*_call and its retries.                                            *)

\* asyncio.Lock is given to its waiters in order.
Turn(c) == queue # <<>> /\ Head(queue) = c
\* Mutation of Without: the lock is not given back.
WithoutRelease(c) == queue
Places(c) == {i \in DOMAIN queue : queue[i] = c}
Without(c) ==
    IF Places(c) = {} THEN queue
    ELSE LET i == CHOOSE i \in Places(c) : TRUE
         IN  SubSeq(queue, 1, i - 1) \o SubSeq(queue, i + 1, Len(queue))

GoTo(c, step) == pc' = [pc EXCEPT ![c] = step]
Drop(c) == tool' = [tool EXCEPT ![c] = None]

\* Mutation of Reported: every exception is reported, rejections and time-outs too.
EveryExceptionReported(result) == result # "answer" /\ CrashesReported
\* The exceptions that lead to handle_tool_crash before the fallback is returned.
Reported(result) == result = "crash" /\ CrashesReported

\* Mutation of EndsWith: the crash is reported with the lock still held.
EndsWithLock(c, result) ==
    /\ GoTo(c, IF Reported(result) THEN "reporting" ELSE "idle")
    /\ queue' = IF Reported(result) THEN Append(queue, c) ELSE Without(c)
    /\ attempt' = [attempt EXCEPT ![c] = 0]
\* The fetch is over with an answer, a crash, a time-out or a rejection.
EndsWith(c, result) ==
    /\ GoTo(c, IF Reported(result) THEN "reporting" ELSE "idle")
    /\ queue' = IF Reported(result) THEN Append(Without(c), c) ELSE Without(c)
    /\ attempt' = [attempt EXCEPT ![c] = 0]

MayRetry(c) == attempt[c] < max_retries

\* An attempt has failed: sleep and try again, or let the exception out.
AttemptFailed(c, result) ==
    \/ /\ MayRetry(c)
       /\ attempt' = [attempt EXCEPT ![c] = @ + 1]
       /\ GoTo(c, "retry")
       /\ queue' = Without(c)
    \/ /\ ~MayRetry(c)
       /\ EndsWith(c, result)

\* get_tool finds the tool without the lock.
UseCachedTool(c) ==
    /\ pc[c] \in {"idle", "retry"}
    /\ Breaker!Admit(c)
    /\ tools # None
    /\ tool' = [tool EXCEPT ![c] = tools]
    /\ GoTo(c, "invoking")
    /\ UNCHANGED <<managerVars, attempt, remoteVars>>

AskManager(c) ==
    /\ pc[c] \in {"idle", "retry"}
    /\ Breaker!Admit(c)
    /\ tools = None
    /\ GoTo(c, "waiting")
    /\ queue' = Append(queue, c)
    /\ UNCHANGED <<session, tools, failures, sinceFailure, reading, attempt,
                   tool, remoteVars>>

\* CircuitBreakerOpenException is neither retried nor reported.
Rejected(c) ==
    /\ pc[c] \in {"idle", "retry"}
    /\ \/ state = "OPEN" /\ ~Breaker!CooldownOver
       \/ state = "HALF_OPEN" /\ active_half_open_trials >= half_open_max_trials
    /\ EndsWith(c, "rejection")
    /\ UNCHANGED <<breakerVars, session, tools, failures, sinceFailure, reading,
                   tool, remoteVars>>

-----------------------------------------------------------------------------
(* MCPManager.get_tool with the lock.                                      *)

\* Another caller has loaded the tools in the meantime.
FindTools(c) ==
    /\ pc[c] = "waiting" /\ Turn(c)
    /\ tools # None
    /\ tool' = [tool EXCEPT ![c] = tools]
    /\ GoTo(c, "invoking")
    /\ queue' = Without(c)
    /\ UNCHANGED <<breakerVars, session, tools, failures, sinceFailure, reading,
                   attempt, remoteVars>>

\* The RuntimeError of the back-off is a transient failure for the breaker.
RefusedByBackoff(c) ==
    /\ pc[c] = "waiting" /\ Turn(c)
    /\ tools = None
    /\ InBackoff
    /\ Breaker!FailTransient(c)
    /\ AttemptFailed(c, "crash")
    /\ UNCHANGED <<session, tools, failures, sinceFailure, reading, tool, remoteVars>>

Connect(c) ==
    /\ pc[c] = "waiting" /\ Turn(c)
    /\ tools = None
    /\ ~InBackoff
    /\ reading' = 0
    /\ GoTo(c, IF session = None THEN "connecting" ELSE "loading")
    /\ UNCHANGED <<breakerVars, session, tools, failures, sinceFailure, queue,
                   attempt, tool, remoteVars>>

Opened(c) ==
    /\ pc[c] = "connecting"
    /\ session' = FreshSession
    /\ GoTo(c, "loading")
    /\ UNCHANGED <<breakerVars, tools, failures, sinceFailure, queue, reading,
                   attempt, tool, remoteVars>>

Loaded(c) ==
    /\ pc[c] = "loading"
    /\ session \notin broken \cup hung
    /\ tools' = session
    /\ failures' = 0 /\ sinceFailure' = MaxBackoff
    /\ queue' = Without(c)
    /\ reading' = MaxBackoff
    /\ tool' = [tool EXCEPT ![c] = session]
    /\ GoTo(c, "invoking")
    /\ UNCHANGED <<breakerVars, session, attempt, remoteVars>>

\* Mutation of ForgetSession: the tools of the dead session stay cached.
ForgetSessionOnly == session' = None /\ UNCHANGED tools
ForgetSession == session' = None /\ tools' = None

\* Sessions are forgotten, not closed: the exit stack keeps them to the end.
GiveUp(age) ==
    /\ ForgetSession
    /\ failures' = Breaker!UpTo(FailuresCap, failures + 1)
    /\ sinceFailure' = age

Fails(c) == Breaker!FailTransient(c) \/ Breaker!FailPermanent(c)

\* The failure is dated with the reading of the clock taken before the attempt.
ConnectFailed(c) ==
    /\ \/ pc[c] \in {"connecting", "loading"} /\ ~healthy
       \/ pc[c] = "loading" /\ session \in broken
    /\ Fails(c)
    /\ GiveUp(reading)
    /\ reading' = MaxBackoff
    /\ AttemptFailed(c, "crash")
    /\ UNCHANGED tool
    /\ ForgetUnused

\* Mutation of Report: handle_tool_crash does not wait for the lock.
ReportUnlocked(c) ==
    /\ pc[c] = "reporting"
    /\ GiveUp(0)
    /\ GoTo(c, "idle")
    /\ queue' = Without(c)
    /\ UNCHANGED <<breakerVars, reading, attempt, tool>>
    /\ ForgetUnused
\* handle_tool_crash gives up the current session, whichever session crashed.
Report(c) ==
    /\ pc[c] = "reporting" /\ Turn(c)
    /\ GiveUp(0)
    /\ GoTo(c, "idle")
    /\ queue' = Without(c)
    /\ UNCHANGED <<breakerVars, reading, attempt, tool>>
    /\ ForgetUnused

-----------------------------------------------------------------------------
(* The tool is invoked; the attempt may time out wherever it waits.        *)

Answered(c) ==
    /\ pc[c] = "invoking"
    /\ tool[c] \notin broken \cup hung
    /\ Breaker!Succeed(c)
    /\ Drop(c)
    /\ EndsWith(c, "answer")
    /\ UNCHANGED <<session, tools, failures, sinceFailure, reading>>
    /\ ForgetUnused

Crashed(c) ==
    /\ pc[c] = "invoking"
    /\ ~healthy \/ tool[c] \in broken
    /\ Fails(c)
    /\ Drop(c)
    /\ AttemptFailed(c, "crash")
    /\ UNCHANGED <<session, tools, failures, sinceFailure, reading>>
    /\ ForgetUnused

LoadsForEver(c) == pc[c] = "loading" /\ session \in hung

Slow(c) ==
    \/ ~healthy /\ pc[c] \in {"waiting", "connecting", "loading", "invoking"}
    \/ LoadsForEver(c)
    \/ pc[c] = "invoking" /\ tool[c] \in hung
    \/ pc[c] = "waiting" /\ \E d \in Callers : LoadsForEver(d)

\* wait_for cancels the attempt: `async with' gives the lock back, but neither
\* except clause runs, so neither the manager nor the breaker hears of it.
TimedOut(c) ==
    /\ Slow(c)
    /\ Breaker!TimeOut(c)
    /\ reading' = IF pc[c] \in {"connecting", "loading"} THEN MaxBackoff ELSE reading
    /\ Drop(c)
    /\ AttemptFailed(c, "timeout")
    /\ UNCHANGED <<session, tools, failures, sinceFailure>>
    /\ ForgetUnused

-----------------------------------------------------------------------------
(* Everybody else.                                                         *)

OtherWantsLock ==
    /\ ~healthy
    /\ \A i \in DOMAIN queue : queue[i] # OtherServer
    /\ queue' = Append(queue, OtherServer)
    /\ UNCHANGED <<breakerVars, session, tools, failures, sinceFailure, reading,
                   callVars, remoteVars>>

OtherIsDone ==
    /\ Turn(OtherServer)
    /\ queue' = Without(OtherServer)
    /\ UNCHANGED <<breakerVars, session, tools, failures, sinceFailure, reading,
                   callVars, remoteVars>>

\* The server's process dies, or it stops answering.
Break ==
    /\ ~healthy
    /\ session # None
    /\ session \notin broken \cup hung
    /\ \/ broken' = broken \cup {session} /\ UNCHANGED hung
       \/ CanHang /\ hung' = hung \cup {session} /\ UNCHANGED broken
    /\ UNCHANGED <<breakerVars, managerVars, callVars, healthy>>

Heal ==
    /\ ~healthy
    /\ healthy' = TRUE
    /\ UNCHANGED <<breakerVars, managerVars, callVars, broken, hung>>

\* A call that is given the lock runs before the clock moves on: a tick is half
\* a second, a turn of the event loop far less.
Tick ==
    /\ \A c \in Callers : Turn(c) => pc[c] \in {"connecting", "loading"}
    /\ \/ elapsed < Breaker!ElapsedCap
       \/ sinceFailure < MaxBackoff
       \/ reading < MaxBackoff
    /\ elapsed' = Breaker!UpTo(Breaker!ElapsedCap, elapsed + 1)
    /\ sinceFailure' = Breaker!UpTo(MaxBackoff, sinceFailure + 1)
    /\ reading' = Breaker!UpTo(MaxBackoff, reading + 1)
    /\ UNCHANGED <<state, failure_count, consecutive_successes,
                   active_half_open_trials, admitted, failuresSinceClosed,
                   failureStreak, lostSlots, assured, session, tools, failures, queue,
                   callVars, remoteVars>>

Begin(c) == UseCachedTool(c) \/ AskManager(c) \/ Rejected(c)
WithLock(c) == FindTools(c) \/ RefusedByBackoff(c) \/ Connect(c) \/ Report(c)
Outcome(c) == Opened(c) \/ Loaded(c) \/ ConnectFailed(c) \/ Answered(c) \/ Crashed(c) \/ TimedOut(c)

Progress(c) == Begin(c) \/ WithLock(c) \/ Outcome(c)

Next ==
    \/ \E c \in Callers : Progress(c)
    \/ OtherWantsLock \/ OtherIsDone
    \/ Break \/ Heal \/ Tick

Spec == Init /\ [][Next]_vars

\* The event loop runs every coroutine that can run, every attempt is answered
\* or times out, in this server's calls and in the others', and users keep
\* asking.
Fairness ==
    /\ \A c \in Callers : WF_vars(Progress(c))
    /\ WF_vars(OtherIsDone)
    /\ WF_vars(Tick)

FairSpec == Spec /\ Fairness

-----------------------------------------------------------------------------

\* Types of the variables.
TypeOK ==
    /\ Breaker!TypeOK
    /\ session \in Sessions \cup {None}
    /\ tools \in Sessions \cup {None}
    /\ failures \in 0..FailuresCap
    /\ sinceFailure \in 0..MaxBackoff
    /\ queue \in Seq(Callers \cup {OtherServer})
    /\ reading \in 0..MaxBackoff
    /\ pc \in [Callers -> Steps]
    /\ attempt \in [Callers -> 0..max_retries]
    /\ tool \in [Callers -> Sessions \cup {None}]
    /\ broken \subseteq Sessions /\ hung \subseteq Sessions
    /\ healthy \in BOOLEAN

\* The lock is never left to nobody: whoever has a place in its queue, the holder
\* included, is a call that still wants it, and a call that wants it has exactly
\* one place, wherever `wait_for' cancelled an attempt and whoever retries,
\* crashes or comes back to report.
QueueMatchesCalls ==
    /\ \A i, j \in DOMAIN queue : queue[i] = queue[j] => i = j
    /\ \A c \in Callers :
          Places(c) # {} <=> pc[c] \in {"waiting", "connecting", "loading", "reporting"}

\* A tool that is handed out from the cache belongs to the session in use, and
\* the server is not in back-off: whatever crashes, times out or is reported
\* between the checks without and with the lock, a session that was given up
\* leaves no tool behind.
CachedToolsUsable ==
    tools # None => tools = session /\ failures = 0

\* To those who ask for tools the manager is a ToolSource: its lock, its two
\* caches, its back-off and the calls that are cancelled between two awaits do
\* not show.  In particular a session is opened and its tools are loaded by one
\* caller at a time, never in back-off, and every tool that is handed out, with
\* or without the lock, belongs to the session in use at that moment.
AtWork == {c \in Callers : pc[c] \in {"connecting", "loading"}}
Source == INSTANCE ToolSource WITH
    ready <- tools # None, given <- tool, loading <- AtWork, resting <- InBackoff
KeepsToolSource == Source!Spec

\* Every tool call returns an answer or its fallback, although the callers of
\* all servers wait for one lock that is held over network calls.
EveryCallEnds == \A c \in Callers : pc[c] # "idle" ~> pc[c] = "idle"

\* The back-off and the breaker do not starve each other.  A refusal by the
\* back-off counts as a failure for the breaker and, when it is reported, starts
\* the next back-off; still, once the servers are healthy and as long as a trial
\* slot is left and the session in use is not dead, tools are served again and
\* the circuit closes.
ServedAgain ==
    [](lostSlots < half_open_max_trials) =>
        (healthy /\ session \notin broken \cup hung
            ~> state = "CLOSED" /\ tools # None)

\* A session that has died with an error is replaced once the server is back:
\* handle_tool_crash recycles it.
DeadSessionReplaced ==
    [](lostSlots = 0) => (healthy /\ session \in broken ~> session \notin broken)

=============================================================================
