-------------------------- MODULE TaskQueueProofs --------------------------
(***************************************************************************)
(* Proofs about TaskQueue for every number of tasks and of permits, by     *)
(* itself and inside the process of Lifespan, for every set of clients:    *)
(* what the queue promises by itself it also promises there, and when the  *)
(* process ends only leftovers leak.                                       *)
(***************************************************************************)
EXTENDS Lifespan, FiniteSetTheorems, TLAPS

\* The part of the type invariant that does not bound the permits.
Typed ==
    /\ submitted \in 0..MaxTasks
    /\ status \in [Tasks -> Status]
    /\ phase \in [Tasks -> Phase]
    /\ registered \subseteq Tasks
    /\ cancelling \subseteq Tasks
    /\ permits \in Nat
    /\ loop \in {"new", "on", "stopping", "off"}

\* What holds of each task: its status fits its phase, a cancellation under way
\* comes from cancel_task or from stop(), and one that was made before the
\* handler begins is still under way.
Sound(t) ==
    /\ phase[t] = "none" <=> t > submitted
    /\ phase[t] = "none" => status[t] = "none"
    /\ phase[t] \in {"queued", "spawned", "waiting"} => status[t] \in {"PENDING", "CANCELLED"}
    /\ phase[t] = "handling" => status[t] \in {"RUNNING", "CANCELLED"}
    /\ phase[t] = "ended" => status[t] \in Final \cup {"PENDING"}
    /\ phase[t] = "ended" /\ status[t] = "PENDING" => loop = "off"
    /\ t \in cancelling => status[t] = "CANCELLED" \/ loop = "off"
    /\ phase[t] = "waiting" /\ status[t] = "CANCELLED" => t \in cancelling

\* cancel_task and stop reach every coroutine that has work to do.
LiveTasksReachable ==
    \A t \in Tasks :
        phase[t] \in Live /\ status[t] # "CANCELLED" => t \in registered \cup cancelling

IInv ==
    /\ Typed
    /\ \A t \in Tasks : Sound(t)
    /\ LiveTasksReachable
    /\ loop = "off" => registered = {}

LEMMA InvInit == Init => IInv
BY TaskAssumption
   DEF Init, IInv, Typed, Sound, LiveTasksReachable, Tasks, Status, Final, Phase, Live

LEMMA InvStep == IInv /\ [Next]_vars => IInv'
<1> SUFFICES ASSUME IInv, [Next]_vars
             PROVE  IInv'
  OBVIOUS
<1> USE TaskAssumption
    DEF IInv, Typed, Sound, LiveTasksReachable, Tasks, Status, Final, Phase, Live
<1>1. CASE start
  BY <1>1 DEF start
<1>2. CASE submit_task
  <2>1. submitted' \in Tasks /\ submitted' = submitted + 1
    BY <1>2 DEF submit_task
  <2> QED
    BY <1>2, <2>1 DEF submit_task
<1>3. CASE Spawn
  BY <1>3 DEF Spawn, In
<1>4. CASE StopLoop
  BY <1>4 DEF StopLoop
<1>5. CASE StopTasks
  BY <1>5 DEF StopTasks, Deliver, In
<1>6. ASSUME NEW t \in Tasks, cancel_task(t)
      PROVE  IInv'
  BY <1>6 DEF cancel_task, Deliver, In
<1>7. ASSUME NEW t \in Tasks, Skip(t) \/ GiveUp(t)
      PROVE  IInv'
  BY <1>7 DEF Skip, GiveUp, First, Unwanted, In
<1>8. ASSUME NEW t \in Tasks, Wait(t)
      PROVE  IInv'
  BY <1>8 DEF Wait, First, Unwanted, In
<1>9. ASSUME NEW t \in Tasks, Begin(t) \/ Acquire(t)
      PROVE  IInv'
  <2>1. Handle(t) /\ phase[t] \in {"spawned", "waiting"} /\ t \notin cancelling
        /\ status[t] = "PENDING"
    BY <1>9 DEF Begin, Acquire, First, Unwanted, Waiters, In
  <2> QED
    BY <2>1 DEF Handle
<1>10. ASSUME NEW t \in Tasks, Finish(t) \/ Cancelled(t)
       PROVE  IInv'
  <2>1. PICK o \in Final : Leave(t, o)
    BY <1>10 DEF Finish, Cancelled
  <2> QED
    BY <2>1 DEF Leave
<1>11. CASE UNCHANGED vars
  BY <1>11 DEF vars
<1> QED
  BY <1>1, <1>2, <1>3, <1>4, <1>5, <1>6, <1>7, <1>8, <1>9, <1>10, <1>11 DEF Next, Step

\* A task that is submitted was not there before.
LEMMA NewTask ==
    ASSUME IInv, submit_task
    PROVE  submitted' \in Tasks /\ phase[submitted'] = "none" /\ status[submitted'] = "none"
BY TaskAssumption DEF IInv, Typed, Sound, submit_task, Tasks

LEMMA InvHolds == Spec => []IInv
BY InvInit, InvStep, PTL DEF Spec

LEMMA InvRecords == IInv => RecordsMatchCoroutines
BY DEF IInv, Typed, Sound, RecordsMatchCoroutines, Phase, Final

\* The records and the coroutines agree in every behaviour.
THEOREM RecordsCorrect == Spec => []RecordsMatchCoroutines
BY InvRecords, InvHolds, PTL

LEMMA StartStep ==
    IInv /\ [Next]_vars =>
        [\A t \in Tasks : Starts(t) => status[t] = "PENDING" /\ loop # "off"]_vars
<1> SUFFICES ASSUME IInv, [Next]_vars, NEW t \in Tasks, Starts(t)
             PROVE  status[t] = "PENDING" /\ loop # "off"
  OBVIOUS
<1> USE DEF IInv, Typed, Starts
<1>1. ASSUME NEW u \in Tasks, u = t, Begin(u) \/ Acquire(u)
      PROVE  status[t] = "PENDING" /\ loop # "off"
  BY <1>1 DEF Begin, Acquire, First, Unwanted, Waiters, In, Sound, LiveTasksReachable, Live
<1>2. ASSUME NEW u \in Tasks, Begin(u) \/ Acquire(u)
      PROVE  u = t
  BY <1>2 DEF Begin, Acquire, Handle
<1>3. ~(start \/ submit_task \/ Spawn \/ StopLoop \/ StopTasks \/ UNCHANGED vars)
  BY DEF start, submit_task, Spawn, StopLoop, StopTasks, vars
<1>4. ASSUME NEW u \in Tasks, cancel_task(u) \/ Skip(u) \/ Wait(u) \/ GiveUp(u)
      PROVE  FALSE
  BY <1>4 DEF cancel_task, Skip, Wait, GiveUp
<1>5. ASSUME NEW u \in Tasks, Finish(u) \/ Cancelled(u)
      PROVE  FALSE
  BY <1>5 DEF Finish, Cancelled, Leave
<1> QED
  BY <1>1, <1>2, <1>3, <1>4, <1>5 DEF Next, Step

\* No handler starts for a task that was cancelled, nor after stop() is done:
\* only for one that is PENDING, of a queue that is not off.
THEOREM OnlyPendingStart == Spec => NoUnwantedStart
BY StartStep, InvHolds, PTL DEF Spec, NoUnwantedStart

LEMMA FinalStep ==
    IInv /\ [Next]_vars =>
        [\A t \in Tasks : status[t] \in Final /\ status'[t] # status[t] =>
            status[t] = "CANCELLED" /\ phase[t] = "handling"]_vars
<1> SUFFICES ASSUME IInv, [Next]_vars, NEW t \in Tasks, status[t] \in Final, status'[t] # status[t]
             PROVE  status[t] = "CANCELLED" /\ phase[t] = "handling"
  OBVIOUS
<1> USE DEF IInv, Typed, Sound, Final
<1>1. ~(start \/ Spawn \/ StopLoop \/ StopTasks \/ UNCHANGED vars)
  BY DEF start, Spawn, StopLoop, StopTasks, vars
<1>2. ~submit_task
  <2>1. ASSUME submit_task
        PROVE  t = submitted + 1
    BY <2>1 DEF submit_task
  <2>2. ASSUME submit_task
        PROVE  phase[t] = "none"
    BY <2>1, <2>2 DEF submit_task, Tasks
  <2> QED
    BY <2>2
<1>3. ASSUME NEW u \in Tasks, cancel_task(u) \/ Skip(u) \/ Wait(u) \/ GiveUp(u)
      PROVE  FALSE
  BY <1>3 DEF cancel_task, Skip, Wait, GiveUp
<1>4. ASSUME NEW u \in Tasks, Begin(u) \/ Acquire(u)
      PROVE  FALSE
  BY <1>4 DEF Begin, Acquire, First, Unwanted, Waiters, In, Handle
<1>5. ASSUME NEW u \in Tasks, Finish(u) \/ Cancelled(u)
      PROVE  status[t] = "CANCELLED" /\ phase[t] = "handling"
  BY <1>5 DEF Finish, Cancelled, Leave
<1> QED
  BY <1>1, <1>2, <1>3, <1>4, <1>5 DEF Next, Step

\* A final status changes only from CANCELLED, while the handler still works.
THEOREM FinalStatusKept == Spec => FinalStaysFinal
BY FinalStep, InvHolds, PTL DEF Spec, FinalStaysFinal

-----------------------------------------------------------------------------

LEMMA HandlersFinite ==
    IsFiniteSet(In("handling")) /\ Cardinality(In("handling")) \in Nat
<1>1. IsFiniteSet(Tasks)
  BY TaskAssumption, FS_Interval DEF Tasks
<1>2. In("handling") \in SUBSET Tasks
  BY DEF In
<1> QED
  BY <1>1, <1>2, FS_Subset, FS_CardinalityType

LEMMA BalanceInit == Init => SemaphoreBalanced
<1> USE HandlersFinite, TaskAssumption
<1> SUFFICES ASSUME Init
             PROVE  SemaphoreBalanced
  OBVIOUS
<1>1. In("handling") = {}
  BY DEF Init, In
<1> QED
  BY <1>1, FS_EmptySet DEF Init, SemaphoreBalanced

LEMMA BalanceStep == IInv /\ SemaphoreBalanced /\ [Next]_vars => SemaphoreBalanced'
<1> SUFFICES ASSUME IInv, SemaphoreBalanced, [Next]_vars
             PROVE  SemaphoreBalanced'
  OBVIOUS
<1> USE HandlersFinite, TaskAssumption DEF SemaphoreBalanced, IInv, Typed
<1>1. ASSUME NEW t \in Tasks, Begin(t) \/ Acquire(t)
      PROVE  SemaphoreBalanced'
  <2>1. Handle(t) /\ phase[t] # "handling"
    BY <1>1 DEF Begin, Acquire, First, Waiters, In
  <2>2. In("handling")' = In("handling") \cup {t} /\ t \notin In("handling")
    BY <2>1 DEF Handle, In
  <2>3. Cardinality(In("handling")') = Cardinality(In("handling")) + 1
    BY <2>2, FS_AddElement
  <2> QED
    BY <2>1, <2>3 DEF Handle
<1>2. ASSUME NEW t \in Tasks, Finish(t) \/ Cancelled(t)
      PROVE  SemaphoreBalanced'
  <2>1. /\ phase[t] = "handling"
        /\ phase' = [phase EXCEPT ![t] = "ended"]
        /\ permits' = permits + 1
    BY <1>2 DEF Finish, Cancelled, Leave
  <2>2. In("handling")' = In("handling") \ {t} /\ t \in In("handling")
    BY <2>1 DEF In
  <2>3. Cardinality(In("handling")') = Cardinality(In("handling")) - 1
    BY <2>2, FS_RemoveElement
  <2> QED
    BY <2>1, <2>3
<1>3. ASSUME permits' = permits, In("handling")' = In("handling")
      PROVE  SemaphoreBalanced'
  BY <1>3
<1>4. CASE start \/ StopLoop \/ StopTasks \/ UNCHANGED vars
  BY <1>3, <1>4 DEF start, StopLoop, StopTasks, vars, In
<1>5. CASE Spawn
  <2>1. In("handling")' = In("handling") /\ permits' = permits
    BY <1>5 DEF Spawn, In
  <2> QED
    BY <1>3, <2>1
<1>6. CASE submit_task
  <2>1. submitted' \in Tasks /\ phase[submitted'] = "none"
    BY <1>6 DEF submit_task, Tasks, Sound
  <2>2. In("handling")' = In("handling") /\ permits' = permits
    BY <1>6, <2>1 DEF submit_task, In
  <2> QED
    BY <1>3, <2>2
<1>7. ASSUME NEW t \in Tasks, cancel_task(t) \/ Skip(t) \/ Wait(t) \/ GiveUp(t)
      PROVE  SemaphoreBalanced'
  <2>1. In("handling")' = In("handling") /\ permits' = permits
    BY <1>7 DEF cancel_task, Skip, Wait, GiveUp, First, In
  <2> QED
    BY <1>3, <2>1
<1> QED
  BY <1>1, <1>2, <1>4, <1>5, <1>6, <1>7 DEF Next, Step

LEMMA BalanceTypes == IInv /\ SemaphoreBalanced => TypeOK
<1> SUFFICES ASSUME IInv, SemaphoreBalanced
             PROVE  permits \in 0..max_concurrent
  BY DEF IInv, Typed, TypeOK
<1>1. permits \in Nat /\ permits <= max_concurrent
  BY HandlersFinite, TaskAssumption DEF IInv, Typed, SemaphoreBalanced
<1> QED
  BY <1>1, TaskAssumption

\* A permit is neither lost nor given back twice, however tasks end, are
\* cancelled or stopped: never more than max_concurrent handlers are at work.
THEOREM PermitsBalanced == Spec => []SemaphoreBalanced
BY BalanceInit, BalanceStep, InvHolds, PTL DEF Spec

\* Every step leaves the variables in their types.
THEOREM TypeCorrect == Spec => []TypeOK
BY BalanceTypes, InvHolds, PermitsBalanced, PTL

-----------------------------------------------------------------------------
(* The queue implements TaskPool.                                          *)

LEMMA PoolInit == Init => Pool!Init
BY DEF Init, Pool!Init, In

\* The handlers at work stay the same unless one begins or ends.
LEMMA SameHandlers ==
    ASSUME \A t \in Tasks : phase'[t] = "handling" <=> phase[t] = "handling"
    PROVE  In("handling")' = In("handling")
BY DEF In

LEMMA PoolStep ==
    IInv /\ SemaphoreBalanced /\ [Next]_vars => [Pool!Next]_(Pool!vars)
<1> SUFFICES ASSUME IInv, SemaphoreBalanced, [Next]_vars
             PROVE  [Pool!Next]_(Pool!vars)
  OBVIOUS
<1> USE DEF IInv, Typed
<1>1. CASE start \/ StopLoop \/ UNCHANGED vars
  BY <1>1 DEF start, StopLoop, vars, Pool!vars, In
<1>2. CASE submit_task
  <2>1. submitted' \in Tasks /\ phase[submitted'] = "none" /\ status[submitted'] = "none"
    BY <1>2, TaskAssumption DEF submit_task, Tasks, Sound
  <2>2. In("handling")' = In("handling")
    BY <1>2, <2>1, SameHandlers DEF submit_task
  <2>3. Pool!Submit(submitted')
    BY <1>2, <2>1, <2>2 DEF submit_task, Pool!Submit
  <2> QED
    BY <2>1, <2>3 DEF Pool!Next
<1>3. CASE Spawn
  <2>1. In("handling")' = In("handling")
    BY <1>3, SameHandlers DEF Spawn
  <2> QED
    BY <1>3, <2>1 DEF Spawn, Pool!vars
<1>4. CASE StopTasks
  <2>1. Pool!Close
    BY <1>4 DEF StopTasks, Pool!Close, In
  <2> QED
    BY <2>1 DEF Pool!Next
<1>5. ASSUME NEW t \in Tasks, cancel_task(t)
      PROVE  Pool!Next
  <2>1. Pool!Cancel(t)
    BY <1>5 DEF cancel_task, Pool!Cancel, In
  <2> QED
    BY <2>1 DEF Pool!Next
<1>6. ASSUME NEW t \in Tasks, Skip(t) \/ Wait(t) \/ GiveUp(t)
      PROVE  UNCHANGED Pool!vars
  <2>1. In("handling")' = In("handling")
    BY <1>6, SameHandlers DEF Skip, Wait, GiveUp, First, In
  <2> QED
    BY <1>6, <2>1 DEF Skip, Wait, GiveUp, Pool!vars
<1>7. ASSUME NEW t \in Tasks, Begin(t) \/ Acquire(t)
      PROVE  Pool!Next
  <2>1. /\ Handle(t) /\ phase[t] \in Live /\ phase[t] # "handling"
        /\ t \notin cancelling /\ status[t] = "PENDING"
    BY <1>7 DEF Begin, Acquire, First, Unwanted, Waiters, In, Sound, Live
  <2>2. loop # "off"
    BY <2>1 DEF LiveTasksReachable
  <2>3. In("handling")' = In("handling") \cup {t}
    BY <2>1 DEF Handle, In
  <2>4. Cardinality(In("handling")) < max_concurrent
    BY <2>1, HandlersFinite, TaskAssumption DEF Handle, SemaphoreBalanced
  <2>5. Pool!Cardinality(In("handling")) = Cardinality(In("handling"))
    BY DEF Pool!Cardinality, Pool!IsFiniteSet, Cardinality, IsFiniteSet
  <2>6. Pool!Start(t)
    BY <2>1, <2>2, <2>3, <2>4, <2>5 DEF Handle, Pool!Start
  <2> QED
    BY <2>6 DEF Pool!Next
<1>8. ASSUME NEW t \in Tasks, Finish(t) \/ Cancelled(t)
      PROVE  Pool!Next
  <2>1. PICK o \in Final : Leave(t, o) /\ (o = "CANCELLED" => t \in cancelling)
    BY <1>8 DEF Finish, Cancelled, Final
  <2>2. t \in In("handling") /\ In("handling")' = In("handling") \ {t}
    BY <2>1 DEF Leave, In
  <2>3. o = "CANCELLED" => status[t] = "CANCELLED" \/ loop = "off"
    BY <2>1 DEF Sound
  <2>4. Pool!End(t)
    BY <2>1, <2>2, <2>3 DEF Leave, Pool!End, Final
  <2> QED
    BY <2>4 DEF Pool!Next
<1> QED
  BY <1>1, <1>2, <1>3, <1>4, <1>5, <1>6, <1>7, <1>8 DEF Next, Step

\* The queue implements TaskPool for every number of tasks and of permits.
THEOREM ImplementsTaskPool == Spec => KeepsTaskPool
BY PoolInit, PoolStep, InvHolds, PermitsBalanced, PTL DEF Spec, KeepsTaskPool, Pool!Spec

-----------------------------------------------------------------------------
(* The process.                                                            *)

allVars == <<vars, processVars>>

-----------------------------------------------------------------------------
(* The queue inside the process.  The end of the event loop is the one     *)
(* step of the process that is not a step of the queue.                    *)

LEMMA QueueStep == [LifespanNext]_allVars => [Next]_vars \/ EndLoop
<1> SUFFICES ASSUME [LifespanNext]_allVars
             PROVE  [Next]_vars \/ EndLoop
  OBVIOUS
<1>1. CASE StartUp
  BY <1>1 DEF StartUp, Next
<1>2. CASE ServerStops \/ ShutDownRuns \/ ShutDownManager \/ ClosePools \/ Exit
  BY <1>2 DEF ServerStops, ShutDownRuns, ShutDownManager, ClosePools, Exit
<1>3. CASE StopQueue
  BY <1>3 DEF StopQueue, Next
<1>4. CASE TaskRequests \/ QueueLoop
  BY <1>4 DEF TaskRequests, QueueLoop, Next
<1>5. ASSUME NEW c \in Clients, Arrive(c) \/ Leave_client(c) \/ CallDatabase(c) \/ RunThread(c)
      PROVE  UNCHANGED vars
  BY <1>5 DEF Arrive, Leave_client, CallDatabase, RunThread
<1>6. ASSUME NEW a \in Actors, AskForTool(a) \/ GetTool(a)
      PROVE  UNCHANGED vars
  BY <1>6 DEF AskForTool, GetTool
<1>7. ASSUME NEW t \in Tasks, HandlerCallsDatabase(t) \/ Queue(t)
      PROVE  [Next]_vars
  BY <1>7 DEF HandlerCallsDatabase, Queue, Next
<1>8. CASE UNCHANGED allVars
  BY <1>8 DEF allVars
<1> QED
  BY <1>1, <1>2, <1>3, <1>4, <1>5, <1>6, <1>7, <1>8 DEF LifespanNext, LifespanStep

\* When the loop ends, the queue has been stopped.
StoppedBefore == stage \in {"manager", "pools", "closed", "ending", "exited"} => loop = "off"

LEMMA StoppedStep == StoppedBefore /\ [LifespanNext]_allVars => StoppedBefore'
<1> SUFFICES ASSUME StoppedBefore, [LifespanNext]_allVars
             PROVE  StoppedBefore'
  OBVIOUS
<1> USE DEF StoppedBefore
<1>1. CASE LifespanStep
  BY <1>1 DEF LifespanStep, StartUp, ShutDownRuns, StopQueue, StopLoop, StopTasks,
              ShutDownManager, ClosePools, EndLoop, Exit, vars
<1>2. CASE ServerStops \/ TaskRequests \/ QueueLoop
  BY <1>2 DEF ServerStops, TaskRequests, QueueLoop, submit_task, cancel_task, Spawn,
              processVars, vars
<1>3. ASSUME NEW c \in Clients, Arrive(c) \/ Leave_client(c) \/ CallDatabase(c) \/ RunThread(c)
      PROVE  StoppedBefore'
  BY <1>3 DEF Arrive, Leave_client, CallDatabase, RunThread, vars
<1>4. ASSUME NEW a \in Actors, AskForTool(a) \/ GetTool(a)
      PROVE  StoppedBefore'
  BY <1>4 DEF AskForTool, GetTool, vars
<1>5. ASSUME NEW t \in Tasks, HandlerCallsDatabase(t) \/ Queue(t)
      PROVE  StoppedBefore'
  <2>1. UNCHANGED <<stage, loop>>
    BY <1>5 DEF HandlerCallsDatabase, Queue, Step, Skip, Begin, Wait, Acquire, GiveUp,
                Handle, Finish, Cancelled, Leave, vars
  <2> QED
    BY <2>1
<1>6. CASE UNCHANGED allVars
  BY <1>6 DEF allVars, processVars, vars
<1> QED
  BY <1>1, <1>2, <1>3, <1>4, <1>5, <1>6 DEF LifespanNext

\* The cancellations of asyncio.run reach a queue that is off.
LEMMA EndLoopKeepsInv == IInv /\ StoppedBefore /\ EndLoop => IInv'
BY DEF IInv, Typed, Sound, LiveTasksReachable, Live, StoppedBefore, EndLoop

QueueInv == IInv /\ SemaphoreBalanced /\ StoppedBefore

LEMMA QueueInvInit == ProcessInit => QueueInv
BY InvInit, BalanceInit DEF ProcessInit, QueueInv, StoppedBefore

LEMMA QueueInvStep == QueueInv /\ [LifespanNext]_allVars => QueueInv'
<1> SUFFICES ASSUME QueueInv, [LifespanNext]_allVars
             PROVE  QueueInv'
  OBVIOUS
<1>1. StoppedBefore'
  BY StoppedStep DEF QueueInv
<1>2. CASE [Next]_vars
  BY <1>1, <1>2, InvStep, BalanceStep DEF QueueInv
<1>3. CASE EndLoop
  <2>1. IInv'
    BY <1>3, EndLoopKeepsInv DEF QueueInv
  <2>2. UNCHANGED <<permits, phase>>
    BY <1>3 DEF EndLoop
  <2>3. SemaphoreBalanced'
    BY <2>2 DEF QueueInv, SemaphoreBalanced, In
  <2> QED
    BY <1>1, <2>1, <2>3 DEF QueueInv
<1> QED
  BY <1>2, <1>3, QueueStep

LEMMA QueueInvHolds == LifespanSpec => []QueueInv
BY QueueInvInit, QueueInvStep, PTL DEF LifespanSpec, allVars

\* Inside the process too, no permit is lost or given back twice.
THEOREM ProcessPermits == LifespanSpec => []SemaphoreBalanced
BY QueueInvHolds, PTL DEF QueueInv

\* Inside the process too, the records say what the coroutines do.
THEOREM ProcessRecords == LifespanSpec => []RecordsMatchCoroutines
BY QueueInvHolds, InvRecords, PTL DEF QueueInv

\* Nothing that lifespan() or the end of the event loop does starts a handler
\* for a task that was cancelled, or of a queue that is off.
THEOREM ProcessStarts == LifespanSpec => NoUnwantedStart
<1>1. QueueInv /\ [LifespanNext]_allVars =>
          [\A t \in Tasks : Starts(t) => status[t] = "PENDING" /\ loop # "off"]_vars
  BY QueueStep, StartStep DEF QueueInv, EndLoop, Starts
<1> QED
  BY <1>1, QueueInvHolds, PTL DEF LifespanSpec, allVars, NoUnwantedStart

\* Nor does it change a final status.
THEOREM ProcessFinal == LifespanSpec => FinalStaysFinal
<1>1. QueueInv /\ [LifespanNext]_allVars =>
          [\A t \in Tasks : status[t] \in Final /\ status'[t] # status[t] =>
              status[t] = "CANCELLED" /\ phase[t] = "handling"]_vars
  BY QueueStep, FinalStep DEF QueueInv, EndLoop
<1> QED
  BY <1>1, QueueInvHolds, PTL DEF LifespanSpec, allVars, FinalStaysFinal

\* Inside the process the queue is a TaskPool too: what the end of the event loop
\* cancels is cancelled in a queue that is closed.
THEOREM ProcessKeepsTaskPool == LifespanSpec => KeepsTaskPool
<1>1. ProcessInit => Pool!Init
  BY PoolInit DEF ProcessInit
<1>2. EndLoop => UNCHANGED Pool!vars
  BY DEF EndLoop, Pool!vars, In
<1>3. QueueInv /\ [LifespanNext]_allVars => [Pool!Next]_(Pool!vars)
  BY <1>2, QueueStep, PoolStep DEF QueueInv
<1> QED
  BY <1>1, <1>3, QueueInvHolds, PTL DEF LifespanSpec, allVars, KeepsTaskPool, Pool!Spec

-----------------------------------------------------------------------------
(* What is open when the process ends.                                     *)

\* The pool is opened before requests are served, and closed after the tasks.
PoolStages == {"serving", "runs", "queue", "manager", "pools"}
LateStages == {"closed", "ending", "exited"}

\* Each part says which actors may still be at work in a stage: no stream once
\* the runs are shut down, no thread that opens a pool while there is one, and
\* at exit nobody.  A stream holds the manager's lock only while it is present.
Leftovers ==
    /\ stage \in Stage
    /\ thread \in [Clients -> {"none", "called", "opening"}]
    /\ holder \in Streams => holder \in present
    /\ stage \notin {"starting", "serving", "runs"} => present \cap Streams = {}
    /\ stage = "starting" => present = {} /\ \A c \in Clients : thread[c] = "none"
    /\ stage \in PoolStages => pool # "untried" /\ \A c \in Clients : thread[c] # "opening"
    /\ stage = "exited" => /\ present = {}
                           /\ \A c \in Clients : thread[c] = "none"
                           /\ \A t \in Tasks : phase[t] \notin Live
    /\ OnlyLeftoversLeak

LEMMA LeftoversInit == ProcessInit => Leftovers
BY LifespanAssumption
   DEF ProcessInit, Leftovers, OnlyLeftoversLeak, Stage, PoolStages, Clients

LEMMA LeftoversStep == StoppedBefore /\ Leftovers /\ [LifespanNext]_allVars => Leftovers'
<1> SUFFICES ASSUME StoppedBefore, Leftovers, [LifespanNext]_allVars
             PROVE  Leftovers'
  OBVIOUS
<1> USE LifespanAssumption DEF Leftovers, OnlyLeftoversLeak, Stage, PoolStages
<1>1. CASE StartUp
  BY <1>1 DEF StartUp, get_db_pool, start
<1>2. CASE ServerStops
  BY <1>2 DEF ServerStops, vars
<1>3. CASE ShutDownRuns
  BY <1>3 DEF ShutDownRuns, CancelRuns, vars
<1>4. CASE StopQueue
  BY <1>4 DEF StopQueue, StopLoop, StopTasks
<1>5. CASE ShutDownManager
  BY <1>5 DEF ShutDownManager, vars
<1>6. CASE ClosePools
  BY <1>6 DEF ClosePools, close_db_pools, vars
<1>7. CASE EndLoop
  BY <1>7 DEF EndLoop
<1>8. CASE Exit
  BY <1>8 DEF Exit, close_db_pools, vars
<1>9. ASSUME NEW c \in Clients, Arrive(c) \/ CallDatabase(c)
      PROVE  Leftovers'
  BY <1>9 DEF Arrive, CallDatabase, vars
<1>10. ASSUME NEW c \in Clients, Leave_client(c)
       PROVE  Leftovers'
  BY <1>10 DEF Leave_client, ReleasedBy, vars
<1>11. ASSUME NEW c \in Clients, RunThread(c)
       PROVE  Leftovers'
  BY <1>11 DEF RunThread, vars
<1>12. ASSUME NEW a \in Actors, AskForTool(a)
       PROVE  Leftovers'
  <2>1. a \in Streams => a \in present
    BY <1>12 DEF AskForTool, AtWork, In
  <2> QED
    BY <1>12, <2>1 DEF AskForTool, vars
<1>13. ASSUME NEW a \in Actors, GetTool(a)
       PROVE  Leftovers'
  BY <1>13 DEF GetTool, vars
<1>14. ASSUME NEW t \in Tasks, HandlerCallsDatabase(t)
       PROVE  Leftovers'
  BY <1>14 DEF HandlerCallsDatabase, get_db_pool, vars, Live
<1>15. ASSUME NEW t \in Tasks, Queue(t)
       PROVE  Leftovers'
  <2>1. phase[t] \in Live
    BY <1>15 DEF Queue, Step, Skip, Begin, Wait, Acquire, GiveUp, Finish, Cancelled, Leave,
                 First, Waiters, In, Live
  <2>2. stage # "exited"
    BY <2>1
  <2> QED
    BY <1>15, <2>2 DEF Queue
<1>16. CASE TaskRequests
  BY <1>16 DEF TaskRequests, processVars
<1>17. CASE QueueLoop
  BY <1>17 DEF QueueLoop, Spawn, StoppedBefore, processVars
<1>18. CASE UNCHANGED allVars
  BY <1>18 DEF allVars, processVars, vars
<1> QED
  BY <1>1, <1>2, <1>3, <1>4, <1>5, <1>6, <1>7, <1>8, <1>9, <1>10, <1>11, <1>12, <1>13, <1>14,
     <1>15, <1>16, <1>17, <1>18 DEF LifespanNext, LifespanStep

\* Whatever is at work when the process is told to stop: only leftovers leak.
THEOREM LeftoversOnly == LifespanSpec => []OnlyLeftoversLeak
<1>1. Leftovers => OnlyLeftoversLeak
  BY DEF Leftovers
<1>2. QueueInv => StoppedBefore
  BY DEF QueueInv
<1> QED
  BY <1>1, <1>2, QueueInvHolds, LeftoversInit, LeftoversStep, PTL DEF LifespanSpec, allVars

-----------------------------------------------------------------------------
(* Types of the process.                                                   *)

ClientTypes ==
    /\ present \subseteq Clients /\ cancelled \subseteq present
    /\ pool \in {"untried", "open", "refused"} /\ lostPools \in BOOLEAN
    /\ holder \in Actors \cup {Nobody, Shutdown}
    /\ opener \in {"nothing", "stream", "other work"}

LEMMA ClientTypesInit == ProcessInit => ClientTypes
<1> SUFFICES ASSUME ProcessInit
             PROVE  ClientTypes
  OBVIOUS
<1>1. lostPools \in BOOLEAN
  BY DEF ProcessInit
<1> QED
  BY <1>1 DEF ProcessInit, ClientTypes

LEMMA ClientTypesStep == ClientTypes /\ [LifespanNext]_allVars => ClientTypes'
<1> SUFFICES ASSUME ClientTypes, [LifespanNext]_allVars
             PROVE  ClientTypes'
  OBVIOUS
<1> USE DEF ClientTypes
<1>1. CASE StartUp \/ ClosePools \/ Exit
  BY <1>1 DEF StartUp, ClosePools, Exit, get_db_pool, close_db_pools
<1>2. CASE ServerStops \/ ShutDownRuns
  BY <1>2 DEF ServerStops, ShutDownRuns, CancelRuns
<1>3. CASE StopQueue \/ ShutDownManager \/ EndLoop
  BY <1>3 DEF StopQueue, ShutDownManager, EndLoop
<1>4. CASE TaskRequests \/ QueueLoop \/ UNCHANGED allVars
  BY <1>4 DEF TaskRequests, QueueLoop, processVars, allVars
<1>5. ASSUME NEW c \in Clients, Arrive(c) \/ Leave_client(c) \/ CallDatabase(c)
      PROVE  ClientTypes'
  BY <1>5 DEF Arrive, Leave_client, ReleasedBy, CallDatabase
<1>6. ASSUME NEW c \in Clients, RunThread(c)
      PROVE  ClientTypes'
  <2>1. pool' \in {"untried", "open", "refused"} /\ lostPools' \in BOOLEAN
    BY <1>6 DEF RunThread
  <2>2. UNCHANGED <<present, cancelled, holder, opener>>
    BY <1>6 DEF RunThread
  <2> QED
    BY <2>1, <2>2
<1>7. ASSUME NEW a \in Actors, AskForTool(a) \/ GetTool(a)
      PROVE  ClientTypes'
  BY <1>7 DEF AskForTool, GetTool
<1>8. ASSUME NEW t \in Tasks, HandlerCallsDatabase(t) \/ Queue(t)
      PROVE  ClientTypes'
  BY <1>8 DEF HandlerCallsDatabase, get_db_pool, Queue
<1> QED
  BY <1>1, <1>2, <1>3, <1>4, <1>5, <1>6, <1>7, <1>8 DEF LifespanNext, LifespanStep

\* Every variable of the process has its type: nobody is cancelled that is not
\* there, and the manager's lock is held by somebody who exists, by shutdown()
\* or by nobody.
THEOREM ProcessTypes == LifespanSpec => []ProcessTypeOK
<1>1. QueueInv => TypeOK /\ StoppedBefore
  BY BalanceTypes DEF QueueInv
<1>2. TypeOK /\ Leftovers /\ ClientTypes => ProcessTypeOK
  BY DEF Leftovers, ClientTypes, ProcessTypeOK
<1> QED
  BY <1>1, <1>2, QueueInvHolds, LeftoversInit, LeftoversStep, ClientTypesInit, ClientTypesStep,
     PTL DEF LifespanSpec, allVars

-----------------------------------------------------------------------------
(* The safety part of ShutdownEnds.                                        *)

\* Nobody for whom shutting down waits is out of reach: the manager's lock is
\* held by somebody at work, who gives it back however that work ends, and when
\* the event loop ends everybody left has a cancellation coming.
EveryoneInReach ==
    /\ holder \in Actors => holder \in AtWork
    /\ holder = Shutdown => stage = "manager"
    /\ stage = "ending" => /\ present \subseteq cancelled
                           /\ \A t \in Tasks : phase[t] \in Live => t \in cancelling

\* And they only get fewer: once the server has stopped no client comes, and
\* once the queue is off no handler starts.  No stage comes again.
Stages == <<"starting", "serving", "runs", "queue", "manager", "pools", "closed", "ending",
            "exited">>
FewerAtWork ==
    [][/\ stage \notin {"starting", "serving"} => present' \subseteq present
       /\ loop = "off" => loop' = "off" /\ In("handling")' \subseteq In("handling")
       /\ stage' = stage \/ \E i \in 1..8 : stage = Stages[i] /\ stage' = Stages[i + 1]]_allVars

\* What a task's own step does to those who are awaited.
LEMMA OwnStep ==
    ASSUME Typed, NEW t \in Tasks, Step(t)
    PROVE  /\ \A u \in Tasks : u # t =>
                 phase'[u] = phase[u] /\ (u \in cancelling' <=> u \in cancelling)
           /\ phase[t] \in Live /\ UNCHANGED loop
           /\ t \in cancelling => phase'[t] = "ended" \/ phase[t] = "handling"
           /\ phase[t] = "handling" => phase'[t] = "ended"
<1> USE DEF Typed, Live
<1>1. CASE Skip(t) \/ GiveUp(t)
  BY <1>1 DEF Skip, GiveUp, First, In
<1>2. CASE Wait(t)
  BY <1>2 DEF Wait, First, Unwanted
<1>3. CASE Begin(t) \/ Acquire(t)
  BY <1>3 DEF Begin, Acquire, First, Unwanted, Waiters, In, Handle
<1>4. CASE Finish(t) \/ Cancelled(t)
  BY <1>4 DEF Finish, Cancelled, Leave
<1> QED
  BY <1>1, <1>2, <1>3, <1>4 DEF Step

LEMMA ReachStep ==
    ASSUME QueueInv, ClientTypes, EveryoneInReach, [LifespanNext]_allVars
    PROVE  EveryoneInReach'
<1> USE LifespanAssumption DEF EveryoneInReach, ClientTypes, AtWork, Actors, Clients, In
<1>1. CASE StartUp
  BY <1>1 DEF StartUp, start
<1>2. CASE ServerStops \/ ShutDownRuns
  BY <1>2 DEF ServerStops, ShutDownRuns, CancelRuns, vars
<1>3. CASE StopQueue
  BY <1>3 DEF StopQueue, StopLoop, StopTasks
<1>4. CASE ShutDownManager
  BY <1>4 DEF ShutDownManager, vars
<1>5. CASE ClosePools \/ Exit
  BY <1>5 DEF ClosePools, Exit, vars
<1>6. CASE EndLoop
  BY <1>6 DEF EndLoop
<1>7. ASSUME NEW c \in Clients, Arrive(c) \/ Leave_client(c)
      PROVE  EveryoneInReach'
  BY <1>7 DEF Arrive, Leave_client, ReleasedBy, vars
<1>8. ASSUME NEW c \in Clients, CallDatabase(c) \/ RunThread(c)
      PROVE  EveryoneInReach'
  BY <1>8 DEF CallDatabase, RunThread, vars
<1>9. ASSUME NEW a \in Actors, AskForTool(a) \/ GetTool(a)
      PROVE  EveryoneInReach'
  BY <1>9 DEF AskForTool, GetTool, vars
<1>10. ASSUME NEW t \in Tasks, HandlerCallsDatabase(t)
       PROVE  EveryoneInReach'
  BY <1>10 DEF HandlerCallsDatabase, vars
<1>11. ASSUME NEW t \in Tasks, Queue(t)
       PROVE  EveryoneInReach'
  <2>1. /\ \A u \in Tasks : u # t =>
              phase'[u] = phase[u] /\ (u \in cancelling' <=> u \in cancelling)
        /\ phase[t] \in Live
        /\ t \in cancelling => phase'[t] = "ended" \/ phase[t] = "handling"
        /\ phase[t] = "handling" => phase'[t] = "ended"
    BY <1>11, OwnStep DEF Queue, QueueInv, IInv
  <2>2. /\ UNCHANGED <<stage, present, cancelled>>
        /\ holder' = IF holder = t /\ phase'[t] # "handling" THEN Nobody ELSE holder
    BY <1>11 DEF Queue
  <2>3. stage = "ending" => phase'[t] = "ended"
    BY <2>1
  <2>4. \A u \in Tasks : phase'[u] \in Live /\ stage = "ending" => u \in cancelling'
    BY <2>1, <2>3 DEF Live
  <2> QED
    BY <2>1, <2>2, <2>4
<1>12. CASE TaskRequests
  <2>1. UNCHANGED processVars /\ \A u \in Tasks : phase'[u] \in Live \cup {"handling"} => phase'[u] = phase[u]
    BY <1>12 DEF TaskRequests, submit_task, cancel_task, Live, QueueInv, IInv, Typed
  <2>2. \A u \in Tasks : phase[u] = "handling" => phase'[u] = "handling"
    <3>1. CASE submit_task
      <4>1. submitted' \in Tasks /\ phase[submitted'] = "none"
        BY <3>1, NewTask DEF QueueInv
      <4> QED
        BY <3>1, <4>1 DEF submit_task, QueueInv, IInv, Typed
    <3>2. CASE \E t \in Tasks : cancel_task(t)
      BY <3>2 DEF cancel_task
    <3> QED
      BY <1>12, <3>1, <3>2 DEF TaskRequests
  <2>3. cancelling \subseteq cancelling'
    BY <1>12 DEF TaskRequests, submit_task, cancel_task, Deliver
  <2> QED
    BY <2>1, <2>2, <2>3 DEF processVars
<1>13. CASE QueueLoop
  <2>1. loop # "off"
    BY <1>13 DEF QueueLoop, Spawn
  <2>2. stage # "ending"
    BY <2>1 DEF QueueInv, StoppedBefore
  <2>3. UNCHANGED processVars /\ \A u \in Tasks : phase[u] = "handling" => phase'[u] = "handling"
    BY <1>13 DEF QueueLoop, Spawn
  <2> QED
    BY <2>2, <2>3 DEF processVars
<1>14. CASE UNCHANGED allVars
  BY <1>14 DEF allVars, processVars, vars
<1> QED
  BY <1>1, <1>2, <1>3, <1>4, <1>5, <1>6, <1>7, <1>8, <1>9, <1>10, <1>11, <1>12, <1>13, <1>14
     DEF LifespanNext, LifespanStep, Clients, Actors

\* For every set of clients and tasks, nobody whom the shutdown awaits is out of
\* reach.
THEOREM ShutdownReachesAll == LifespanSpec => []EveryoneInReach
<1>1. ProcessInit => EveryoneInReach
  BY LifespanAssumption DEF ProcessInit, EveryoneInReach, Actors, Clients
<1> QED
  BY <1>1, ReachStep, QueueInvHolds, ClientTypesInit, ClientTypesStep, PTL DEF LifespanSpec, allVars

\* For every set of clients and tasks, those whom it awaits only get fewer, and
\* it goes through its stages once.
THEOREM ShutdownOnlyShrinks == LifespanSpec => FewerAtWork
<1> DEFINE Clearing == stage \notin {"starting", "serving"} => present' \subseteq present
           Draining == loop = "off" => loop' = "off" /\ In("handling")' \subseteq In("handling")
           Advancing == stage' = stage \/ \E i \in 1..8 : stage = Stages[i] /\ stage' = Stages[i + 1]
<1>1. QueueInv /\ [LifespanNext]_allVars => Clearing
  <2> SUFFICES ASSUME QueueInv, [LifespanNext]_allVars, stage \notin {"starting", "serving"}
               PROVE  present' \subseteq present
    OBVIOUS
  <2>1. ASSUME NEW c \in Clients, Arrive(c) \/ Leave_client(c) \/ CallDatabase(c) \/ RunThread(c)
        PROVE  present' \subseteq present
    BY <2>1 DEF Arrive, Leave_client, CallDatabase, RunThread
  <2>2. ASSUME ~\E c \in Clients : Arrive(c) \/ Leave_client(c) \/ CallDatabase(c) \/ RunThread(c)
        PROVE  present' = present
    BY <2>2 DEF LifespanNext, LifespanStep, StartUp, ShutDownRuns, StopQueue, ShutDownManager,
                ClosePools, EndLoop, Exit, ServerStops, TaskRequests, QueueLoop, AskForTool,
                GetTool, HandlerCallsDatabase, Queue, processVars, allVars
  <2> QED
    BY <2>1, <2>2
<1>2. QueueInv /\ [LifespanNext]_allVars => Draining
  <2> SUFFICES ASSUME QueueInv, [LifespanNext]_allVars, loop = "off"
               PROVE  loop' = "off" /\ In("handling")' \subseteq In("handling")
    OBVIOUS
  <2>1. [\A t \in Tasks : Starts(t) => status[t] = "PENDING" /\ loop # "off"]_vars
    BY QueueStep, StartStep DEF QueueInv, EndLoop, Starts
  <2>2. In("handling")' \subseteq In("handling")
    BY <2>1 DEF Starts, In, vars
  <2>3. CASE [Next]_vars
    <3>1. ASSUME NEW t \in Tasks, Step(t)
          PROVE  loop' = loop
      BY <3>1, OwnStep DEF QueueInv, IInv
    <3> QED
      BY <2>2, <2>3, <3>1 DEF Next, start, submit_task, Spawn, StopLoop, StopTasks, cancel_task, vars
  <2>4. CASE EndLoop
    BY <2>2, <2>4 DEF EndLoop
  <2> QED
    BY <2>3, <2>4, QueueStep
<1>3. [LifespanNext]_allVars => Advancing
  <2> SUFFICES ASSUME [LifespanNext]_allVars, stage' # stage
               PROVE  \E i \in 1..8 : stage = Stages[i] /\ stage' = Stages[i + 1]
    OBVIOUS
  <2>1. LifespanStep \/ ServerStops
    BY DEF LifespanNext, TaskRequests, QueueLoop, Arrive, Leave_client, CallDatabase, RunThread,
           AskForTool, GetTool, HandlerCallsDatabase, Queue, processVars, allVars
  <2>2. \/ stage = "starting" /\ stage' = "serving"
        \/ stage = "serving" /\ stage' = "runs"
        \/ stage = "runs" /\ stage' = "queue"
        \/ stage = "queue" /\ stage' = "manager"
        \/ stage = "manager" /\ stage' = "pools"
        \/ stage = "pools" /\ stage' = "closed"
        \/ stage = "closed" /\ stage' = "ending"
        \/ stage = "ending" /\ stage' = "exited"
    BY <2>1 DEF LifespanStep, StartUp, ShutDownRuns, StopQueue, ShutDownManager, ClosePools,
                EndLoop, Exit, ServerStops
  <2> QED
    BY <2>2 DEF Stages
<1>4. QueueInv /\ [LifespanNext]_allVars => [Clearing /\ Draining /\ Advancing]_allVars
  BY <1>1, <1>2, <1>3
<1> QED
  BY <1>4, QueueInvHolds, PTL DEF LifespanSpec, allVars, FewerAtWork

=============================================================================
