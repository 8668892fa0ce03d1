------------------------------ MODULE Lifespan ------------------------------
(***************************************************************************)
(* The life of one worker process: lifespan() of app.py over the task      *)
(* queue, the active runs of tripmate/services/travel_service.py, the      *)
(* manager of mcp_client.py and the pool of tripmate/database/__init__.py. *)
(*                                                                         *)
(* Clients are streams, which register in ACTIVE_RUNS, and other requests, *)
(* which do not.  They and the queue's handlers open the manager's         *)
(* sessions and use the pool, clients in threads that no cancellation      *)
(* reaches.  The server waits for its clients only so long, cancels them   *)
(* and then lets lifespan() shut down.                                     *)
(*                                                                         *)
(* The cache's connection and the checkpointer's pool are left out: what   *)
(* is closed there stays closed.                                           *)
(***************************************************************************)
EXTENDS TaskQueue

CONSTANTS Streams, Requests, Nobody, Shutdown

ASSUME LifespanAssumption ==
    /\ Streams \cap Requests = {}
    /\ (Streams \cup Requests) \cap Tasks = {}
    /\ {Nobody, Shutdown} \cap (Streams \cup Requests \cup Tasks) = {}
    /\ Nobody # Shutdown

VARIABLES
    stage,        \* how far lifespan() and the process are
    present,      \* clients at work
    cancelled,    \* those of them that have a cancellation coming
    thread,       \* thread[c]: the database call of c
    pool,         \* _db_pool: "untried", "open" or, for good, "refused"
    lostPools,    \* has an open pool been overwritten by another?
    holder,       \* of the manager's _lock
    opener        \* what opened the first open session: a stream, other work, or nothing

processVars == <<stage, present, cancelled, thread, pool, lostPools, holder, opener>>

Clients == Streams \cup Requests
Stage == {"starting", "serving", "runs", "queue", "manager", "pools", "closed", "ending", "exited"}

ProcessInit ==
    /\ Init
    /\ stage = "starting"
    /\ present = {} /\ cancelled = {}
    /\ thread = [c \in Clients |-> "none"]
    /\ pool = "untried" /\ lostPools = FALSE
    /\ holder = Nobody /\ opener = "nothing"

-----------------------------------------------------------------------------
(* lifespan().                                                             *)

\* Mutation of get_db_pool: the pool is left for the first request to open.
Lazily == UNCHANGED pool
\* The database answers, or is not tried again.
get_db_pool ==
    IF pool = "untried" THEN pool' \in {"open", "refused"} ELSE UNCHANGED pool

StartUp ==
    /\ stage = "starting"
    /\ stage' = "serving"
    /\ get_db_pool
    /\ start
    /\ UNCHANGED <<present, cancelled, thread, lostPools, holder, opener>>

\* The server is told to stop: its clients have left, or are cancelled after a
\* while, which reaches streams through several tasks, if at all.
ServerStops ==
    /\ CanStop
    /\ stage = "serving"
    /\ stage' = "runs"
    /\ cancelled' \in {cancelled \cup C : C \in {D \in SUBSET present : present \cap Requests \subseteq D}}
    /\ UNCHANGED <<vars, present, thread, pool, lostPools, holder, opener>>

\* Mutation of CancelRuns: the runs are awaited, but not cancelled.
AwaitRuns == UNCHANGED cancelled
CancelRuns == cancelled' = cancelled \cup (present \cap Streams)

ShutDownRuns ==
    /\ stage = "runs"
    /\ \/ /\ ~(present \cap Streams \subseteq cancelled)
          /\ CancelRuns
          /\ UNCHANGED stage
       \/ /\ present \cap Streams = {}
          /\ stage' = "queue"
          /\ UNCHANGED cancelled
    /\ UNCHANGED <<vars, present, thread, pool, lostPools, holder, opener>>

StopQueue ==
    /\ stage = "queue"
    /\ \/ StopLoop /\ UNCHANGED stage
       \/ StopTasks /\ stage' = "manager"
    /\ UNCHANGED <<present, cancelled, thread, pool, lostPools, holder, opener>>

\* shutdown() of the manager waits for its lock, and keeps it while it closes.
ShutDownManager ==
    /\ stage = "manager"
    /\ \/ holder = Nobody /\ holder' = Shutdown /\ UNCHANGED <<stage, opener>>
       \/ /\ holder = Shutdown
          /\ holder' = Nobody
          /\ opener' = "nothing"
          /\ stage' = "pools"
    /\ UNCHANGED <<vars, present, cancelled, thread, pool, lostPools>>

\* A pool that was closed may be opened again.
close_db_pools == pool' = IF pool = "open" THEN "untried" ELSE pool

ClosePools ==
    /\ stage = "pools"
    /\ close_db_pools
    /\ stage' = "closed"
    /\ UNCHANGED <<vars, present, cancelled, thread, lostPools, holder, opener>>

\* asyncio.run cancels what is left and waits for it and for the threads ...
EndLoop ==
    /\ stage = "closed"
    /\ stage' = "ending"
    /\ cancelled' = present
    /\ cancelling' = {t \in Tasks : phase[t] \in Live}
    /\ UNCHANGED <<submitted, status, phase, registered, permits, loop>>
    /\ UNCHANGED <<present, thread, pool, lostPools, holder, opener>>

\* ... and the interpreter calls what is registered with atexit.
Exit ==
    /\ stage = "ending"
    /\ present = {}
    /\ \A c \in Clients : thread[c] = "none"
    /\ \A t \in Tasks : phase[t] \notin Live
    /\ close_db_pools
    /\ stage' = "exited"
    /\ UNCHANGED <<vars, present, cancelled, thread, lostPools, holder, opener>>

-----------------------------------------------------------------------------
(* Clients and handlers.                                                   *)

Arrive(c) ==
    /\ stage = "serving"
    /\ c \notin present
    /\ thread[c] = "none"
    /\ present' = present \cup {c}
    /\ UNCHANGED <<vars, stage, cancelled, thread, pool, lostPools, holder, opener>>

ReleasedBy(a) == holder' = IF holder = a THEN Nobody ELSE holder

\* The end of a client, by itself or by a cancellation; its thread goes on.
Leave_client(c) ==
    /\ c \in present
    /\ present' = present \ {c}
    /\ cancelled' = cancelled \ {c}
    /\ ReleasedBy(c)
    /\ UNCHANGED <<vars, stage, thread, pool, lostPools, opener>>

AtWork == present \cup In("handling")

\* get_tool opens a session with the lock held, and may fail.
AskForTool(a) ==
    /\ a \in AtWork
    /\ holder = Nobody
    /\ holder' = a
    /\ UNCHANGED <<vars, stage, present, cancelled, thread, pool, lostPools, opener>>

GetTool(a) ==
    /\ holder = a
    /\ holder' = Nobody
    /\ opener' \in {opener, IF opener # "nothing" THEN opener
                            ELSE IF a \in Streams THEN "stream" ELSE "other work"}
    /\ UNCHANGED <<vars, stage, present, cancelled, thread, pool, lostPools>>

\* A request calls the store in a thread ...
CallDatabase(c) ==
    /\ c \in present
    /\ thread[c] = "none"
    /\ thread' = [thread EXCEPT ![c] = "called"]
    /\ UNCHANGED <<vars, stage, present, cancelled, pool, lostPools, holder, opener>>

\* ... which asks for the pool, and opens one if there is none yet.
RunThread(c) ==
    /\ \/ /\ thread[c] = "called"
          /\ thread' = [thread EXCEPT ![c] = IF pool = "untried" THEN "opening" ELSE "none"]
          /\ UNCHANGED <<pool, lostPools>>
       \/ /\ thread[c] = "opening"
          /\ thread' = [thread EXCEPT ![c] = "none"]
          /\ \/ pool' = "open" /\ lostPools' = (lostPools \/ pool = "open")
             \/ /\ pool' = IF pool = "untried" THEN "refused" ELSE pool
                /\ UNCHANGED lostPools
    /\ UNCHANGED <<vars, stage, present, cancelled, holder, opener>>

\* A handler calls the store directly.
HandlerCallsDatabase(t) ==
    /\ phase[t] = "handling"
    /\ pool = "untried"
    /\ get_db_pool
    /\ UNCHANGED <<vars, stage, present, cancelled, thread, lostPools, holder, opener>>

Queue(t) ==
    /\ Step(t)
    /\ holder' = IF holder = t /\ phase'[t] # "handling" THEN Nobody ELSE holder
    /\ UNCHANGED <<stage, present, cancelled, thread, pool, lostPools, opener>>

\* The routes of tasks.py.
TaskRequests ==
    /\ present \cap Requests # {}
    /\ submit_task \/ \E t \in Tasks : cancel_task(t)
    /\ UNCHANGED processVars

QueueLoop == Spawn /\ UNCHANGED processVars

Actors == Clients \cup Tasks

LifespanStep ==
    StartUp \/ ShutDownRuns \/ StopQueue \/ ShutDownManager \/ ClosePools \/ EndLoop \/ Exit

LifespanNext ==
    \/ LifespanStep \/ ServerStops \/ TaskRequests \/ QueueLoop
    \/ \E c \in Clients : Arrive(c) \/ Leave_client(c) \/ CallDatabase(c) \/ RunThread(c)
    \/ \E a \in Actors : AskForTool(a) \/ GetTool(a)
    \/ \E t \in Tasks : HandlerCallsDatabase(t) \/ Queue(t)

LifespanSpec == ProcessInit /\ [][LifespanNext]_<<vars, processVars>>

\* What lifespan() waits for: the event loop runs what is ready, threads and
\* whoever holds the lock come to an end by their time-outs, and the lock is
\* given to those who wait for it in order.  A cancelled client leaves; nobody
\* else has to, because a stream waits for a reader that may not read.
LifespanFairness ==
    /\ WF_<<vars, processVars>>(LifespanStep)
    /\ SF_<<vars, processVars>>(ShutDownManager)
    /\ WF_<<vars, processVars>>(QueueLoop)
    /\ \A c \in Clients : /\ WF_<<vars, processVars>>(c \in cancelled /\ Leave_client(c))
                          /\ WF_<<vars, processVars>>(RunThread(c))
    /\ WF_<<vars, processVars>>(\E a \in Actors : GetTool(a))
    /\ \A t \in Tasks : WF_<<vars, processVars>>(Queue(t))

FairLifespan == LifespanSpec /\ LifespanFairness

-----------------------------------------------------------------------------

\* Types of the variables.
ProcessTypeOK ==
    /\ TypeOK
    /\ stage \in Stage
    /\ present \subseteq Clients /\ cancelled \subseteq present
    /\ thread \in [Clients -> {"none", "called", "opening"}]
    /\ pool \in {"untried", "open", "refused"} /\ lostPools \in BOOLEAN
    /\ holder \in Actors \cup {Nobody, Shutdown}
    /\ opener \in {"nothing", "stream", "other work"}

\* Shutting down comes to its end, whoever is at work, waits for a reader, holds
\* the manager's lock or sits in a thread when it begins.
ShutdownEnds == stage = "runs" ~> stage = "exited"

\* What is open when the process ends, although it was closed before, was opened
\* by those for whom lifespan() does not wait: a request or a handler that
\* outlived its cancellation may open a session, a thread a pool.  A pool opened
\* late is closed at exit; it is overwritten by another one, and lost, only then,
\* because the first one is opened before requests are served.
OnlyLeftoversLeak ==
    /\ stage \in {"pools", "closed", "ending", "exited"} => opener # "stream"
    /\ stage = "exited" => pool # "open"
    /\ lostPools => stage \in {"closed", "ending", "exited"}

=============================================================================
