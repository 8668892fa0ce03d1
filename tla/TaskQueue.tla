----------------------------- MODULE TaskQueue -----------------------------
(***************************************************************************)
(* AsyncTaskQueue of tripmate/tasks/queue.py: background tasks in records, *)
(* an asyncio.Queue of their ids, a loop that makes a coroutine for each   *)
(* id, and a semaphore that bounds how many of them work at once.          *)
(*                                                                         *)
(* Tasks are numbered in the order of their submission.  asyncio.Queue,    *)
(* the event loop's list of ready coroutines and asyncio.Semaphore are all *)
(* first in, first out, so this is the order in which tasks move, and a    *)
(* task's `phase' says in which of the three it stands.  A cancellation    *)
(* (Task.cancel) is delivered when its coroutine next has the loop.        *)
(*                                                                         *)
(* Each action runs without an await in between.  The application starts   *)
(* and stops its queue once.  Payloads, results, progress and owners are   *)
(* left out.                                                               *)
(***************************************************************************)
EXTENDS Integers, FiniteSets

CONSTANTS
    MaxTasks,         \* bound on the tasks submitted
    max_concurrent,
    CanStop           \* the application may be shut down

ASSUME TaskAssumption ==
    /\ MaxTasks \in Nat
    /\ max_concurrent \in Nat \ {0}
    /\ CanStop \in BOOLEAN

VARIABLES
    submitted,        \* how many tasks there are
    status,           \* status[t] of the record of t
    phase,            \* where t, or its coroutine, is
    registered,       \* _running_asyncio_tasks
    cancelling,       \* coroutines with a cancellation to be delivered
    permits,          \* the value of _semaphore
    loop              \* _is_running and _worker_loop_task

vars == <<submitted, status, phase, registered, cancelling, permits, loop>>

Tasks == 1..MaxTasks
Final == {"COMPLETED", "FAILED", "CANCELLED"}
Status == {"none", "PENDING", "RUNNING"} \cup Final
Phase == {"none", "queued", "spawned", "waiting", "handling", "ended"}
Live == {"spawned", "waiting", "handling"}
In(p) == {t \in Tasks : phase[t] = p}

Init ==
    /\ submitted = 0
    /\ status = [t \in Tasks |-> "none"]
    /\ phase = [t \in Tasks |-> "none"]
    /\ registered = {}
    /\ cancelling = {}
    /\ permits = max_concurrent
    /\ loop = "new"

-----------------------------------------------------------------------------
(* The callers' operations and the worker loop.                            *)

start ==
    /\ loop = "new"
    /\ loop' = "on"
    /\ UNCHANGED <<submitted, status, phase, registered, cancelling, permits>>

submit_task ==
    /\ submitted < MaxTasks
    /\ submitted' = submitted + 1
    /\ status' = [status EXCEPT ![submitted'] = "PENDING"]
    /\ phase' = [phase EXCEPT ![submitted'] = "queued"]
    /\ UNCHANGED <<registered, cancelling, permits, loop>>

\* Task.cancel() on the coroutines of T, and their removal from the registry.
Deliver(T) ==
    /\ cancelling' = cancelling \cup ((T \cap registered) \ In("ended"))
    /\ registered' = registered \ T

\* A task that is still in the queue has no coroutine: only its record changes.
cancel_task(t) ==
    /\ status[t] \in {"PENDING", "RUNNING"}
    /\ status' = [status EXCEPT ![t] = "CANCELLED"]
    /\ Deliver({t})
    /\ UNCHANGED <<submitted, phase, permits, loop>>

\* The loop does not suspend before the queue is empty.
Spawn ==
    /\ loop = "on"
    /\ In("queued") # {}
    /\ phase' = [t \in Tasks |-> IF phase[t] = "queued" THEN "spawned" ELSE phase[t]]
    /\ registered' = registered \cup In("queued")
    /\ UNCHANGED <<submitted, status, cancelling, permits, loop>>

\* stop() cancels the loop and awaits its end ...
StopLoop ==
    /\ CanStop
    /\ loop = "on"
    /\ loop' = "stopping"
    /\ UNCHANGED <<submitted, status, phase, registered, cancelling, permits>>

\* ... and then cancels the coroutines.
StopTasks ==
    /\ loop = "stopping"
    /\ loop' = "off"
    /\ Deliver(registered)
    /\ UNCHANGED <<submitted, status, phase, permits>>

-----------------------------------------------------------------------------
(* _execute_single_task.                                                   *)

First(t, p) == phase[t] = p /\ \A u \in In(p) : t <= u

\* Waiters of the semaphore that are not cancelled, which newcomers queue behind.
Waiters == In("waiting") \ cancelling

Handle(t) ==
    /\ permits > 0
    /\ permits' = permits - 1
    /\ status' = [status EXCEPT ![t] = "RUNNING"]
    /\ phase' = [phase EXCEPT ![t] = "handling"]
    /\ UNCHANGED <<submitted, registered, cancelling, loop>>

\* Mutation of Unwanted: the status of the record is not looked at.
UnwantedOnlyIfCancelling(t) == t \in cancelling
\* CancelledError before the first line, or the early return.
Unwanted(t) == t \in cancelling \/ status[t] = "CANCELLED"

\* The early return leaves t registered.
Skip(t) ==
    /\ First(t, "spawned")
    /\ Unwanted(t)
    /\ phase' = [phase EXCEPT ![t] = "ended"]
    /\ cancelling' = cancelling \ {t}
    /\ UNCHANGED <<submitted, status, registered, permits, loop>>

Begin(t) ==
    /\ First(t, "spawned")
    /\ ~Unwanted(t)
    /\ Waiters = {}
    /\ Handle(t)

Wait(t) ==
    /\ First(t, "spawned")
    /\ ~Unwanted(t)
    /\ permits = 0 \/ Waiters # {}
    /\ phase' = [phase EXCEPT ![t] = "waiting"]
    /\ UNCHANGED <<submitted, status, registered, cancelling, permits, loop>>

Acquire(t) ==
    /\ t \in Waiters
    /\ \A u \in Waiters : t <= u
    /\ Handle(t)

\* CancelledError out of the semaphore, outside of the try statement.
GiveUp(t) ==
    /\ t \in In("waiting") \cap cancelling
    /\ phase' = [phase EXCEPT ![t] = "ended"]
    /\ cancelling' = cancelling \ {t}
    /\ UNCHANGED <<submitted, status, registered, permits, loop>>

\* Mutation of Leave: a failed or cancelled handler keeps its permit.
LeaveKeepingPermit(t, outcome) ==
    /\ phase[t] = "handling"
    /\ phase' = [phase EXCEPT ![t] = "ended"]
    /\ status' = [status EXCEPT ![t] = outcome]
    /\ registered' = registered \ {t}
    /\ cancelling' = cancelling \ {t}
    /\ permits' = IF outcome = "COMPLETED" THEN permits + 1 ELSE permits
    /\ UNCHANGED <<submitted, loop>>
\* Mutation of Leave: a cancelled handler does not set the status.
LeaveSilently(t, outcome) ==
    /\ phase[t] = "handling"
    /\ phase' = [phase EXCEPT ![t] = "ended"]
    /\ status' = IF outcome = "CANCELLED" THEN status ELSE [status EXCEPT ![t] = outcome]
    /\ registered' = registered \ {t}
    /\ cancelling' = cancelling \ {t}
    /\ permits' = permits + 1
    /\ UNCHANGED <<submitted, loop>>
Leave(t, outcome) ==
    /\ phase[t] = "handling"
    /\ phase' = [phase EXCEPT ![t] = "ended"]
    /\ status' = [status EXCEPT ![t] = outcome]
    /\ registered' = registered \ {t}
    /\ cancelling' = cancelling \ {t}
    /\ permits' = permits + 1
    /\ UNCHANGED <<submitted, loop>>

\* The handler returns or raises.  A cancellation may be lost on the way: an
\* asyncio.wait_for whose answer has just arrived returns it all the same.
Finish(t) == Leave(t, "COMPLETED") \/ Leave(t, "FAILED")
Cancelled(t) == t \in cancelling /\ Leave(t, "CANCELLED")

Step(t) ==
    \/ Skip(t) \/ Begin(t) \/ Wait(t) \/ Acquire(t) \/ GiveUp(t)
    \/ Finish(t) \/ Cancelled(t)

Next ==
    \/ start \/ submit_task \/ Spawn \/ StopLoop \/ StopTasks
    \/ \E t \in Tasks : cancel_task(t) \/ Step(t)

Spec == Init /\ [][Next]_vars

\* The application starts its queue, the event loop runs what is ready, and
\* handlers end: what they wait for is under time-outs.  Nobody owes a
\* submission, a cancellation or a shutdown.
FairSpec ==
    /\ Spec
    /\ WF_vars(start) /\ WF_vars(Spawn) /\ WF_vars(StopTasks)
    /\ \A t \in Tasks : WF_vars(Step(t))

-----------------------------------------------------------------------------

\* Types of the variables.
TypeOK ==
    /\ submitted \in 0..MaxTasks
    /\ status \in [Tasks -> Status]
    /\ phase \in [Tasks -> Phase]
    /\ registered \subseteq Tasks
    /\ cancelling \subseteq Tasks
    /\ permits \in 0..max_concurrent
    /\ loop \in {"new", "on", "stopping", "off"}

\* However coroutines end, the semaphore and the handlers at work add up: a
\* permit is neither lost nor given back twice, so never more than
\* max_concurrent handlers work at once.
SemaphoreBalanced == permits + Cardinality(In("handling")) = max_concurrent

\* What the records say is what the coroutines do.  A RUNNING task is in its
\* handler; a PENDING one is on its way to it unless the queue was stopped.
RecordsMatchCoroutines ==
    \A t \in Tasks :
        /\ status[t] = "RUNNING" => phase[t] = "handling"
        /\ status[t] = "PENDING" /\ loop # "off" => phase[t] \in {"queued", "spawned", "waiting"}

\* To those who submit tasks the queue is a TaskPool: its loop, its semaphore and
\* the cancellations under way never show, neither in a handler too many, nor in
\* one started for a cancelled task or after stop(), nor in a final status lost.
Pool == INSTANCE TaskPool WITH working <- In("handling"), open <- loop # "off"
KeepsTaskPool == Pool!Spec

Starts(t) == phase[t] # "handling" /\ phase'[t] = "handling"

\* No handler starts for a task that was cancelled before, wherever its
\* coroutine was then, nor after stop() is done.
NoUnwantedStart ==
    [][\A t \in Tasks : Starts(t) => status[t] = "PENDING" /\ loop # "off"]_vars

\* A final status stays, but that a handler which was at work when its task was
\* cancelled may still report its own outcome.
FinalStaysFinal ==
    [][\A t \in Tasks : status[t] \in Final /\ status'[t] # status[t] =>
          status[t] = "CANCELLED" /\ phase[t] = "handling"]_vars

\* Every submitted task gets a final status, unless the application is shut
\* down before.
EveryTaskEnds ==
    \A t \in Tasks :
        status[t] \in {"PENDING", "RUNNING"} ~>
            status[t] \in Final \/ loop \in {"stopping", "off"}

=============================================================================
