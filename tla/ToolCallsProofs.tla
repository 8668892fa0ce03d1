--------------------------- MODULE ToolCallsProofs ---------------------------
(***************************************************************************)
(* Proofs about ToolCalls for every set of callers, every configuration of *)
(* the breaker, every number of retries and every longest back-off: the    *)
(* lock of the manager excludes, cached tools are usable, and the tool     *)
(* calls use the breaker as its specification says.                        *)
(***************************************************************************)
EXTENDS ToolCalls, FiniteSetTheorems, SequenceTheorems, TLAPS

-----------------------------------------------------------------------------
(* The queue of the lock.                                                  *)

Users == Callers \cup {OtherServer}

LEMMA WithoutTyped ==
    ASSUME queue \in Seq(Users), NEW c
    PROVE  Without(c) \in Seq(Users)
<1>1. CASE Places(c) = {}
  BY <1>1 DEF Without
<1>2. CASE Places(c) # {}
  <2> DEFINE i == CHOOSE j \in Places(c) : TRUE
  <2>1. i \in 1..Len(queue)
    BY <1>2 DEF Places
  <2>2. Without(c) = SubSeq(queue, 1, i - 1) \o SubSeq(queue, i + 1, Len(queue))
    BY <1>2 DEF Without
  <2> HIDE DEF i
  <2>3. \A j \in 1..Len(queue) : queue[j] \in Users
    BY ElementOfSeq
  <2>4. SubSeq(queue, 1, i - 1) \in Seq(Users)
    BY <2>1, <2>3, SubSeqProperties
  <2>5. SubSeq(queue, i + 1, Len(queue)) \in Seq(Users)
    BY <2>1, <2>3, SubSeqProperties
  <2> QED
    BY <2>2, <2>4, <2>5, ConcatProperties
<1> QED
  BY <1>1, <1>2

\* Whoever leaves the queue does not disturb the other at its head.
LEMMA WithoutKeepsHead ==
    ASSUME queue \in Seq(Users), NEW c, NEW d, d # c, Turn(d)
    PROVE  Without(c) # <<>> /\ Head(Without(c)) = d
<1>1. CASE Places(c) = {}
  BY <1>1 DEF Without, Turn
<1>2. CASE Places(c) # {}
  <2> DEFINE i == CHOOSE j \in Places(c) : TRUE
             front == SubSeq(queue, 1, i - 1)
             back == SubSeq(queue, i + 1, Len(queue))
  <2>1. i \in 1..Len(queue) /\ queue[i] = c
    BY <1>2 DEF Places
  <2>2. Without(c) = front \o back
    BY <1>2 DEF Without
  <2>3. queue[1] = d
    BY DEF Turn
  <2> HIDE DEF i
  <2>4. i > 1 /\ Len(queue) \in Nat
    BY <2>1, <2>3
  <2>5. \A j \in 1..Len(queue) : queue[j] \in Users
    BY ElementOfSeq
  <2>6. front \in Seq(Users) /\ Len(front) = i - 1 /\ front[1] = queue[1]
    BY <2>1, <2>4, <2>5, SubSeqProperties
  <2>7. back \in Seq(Users)
    BY <2>1, <2>5, SubSeqProperties
  <2> HIDE DEF front, back
  <2>8. Len(front) \in Nat /\ Len(back) \in Nat /\ 1 <= Len(front)
    BY <2>1, <2>4, <2>6, <2>7
  <2>9. /\ front \o back \in Seq(Users)
        /\ Len(front \o back) = Len(front) + Len(back)
        /\ \A j \in 1..Len(front) + Len(back) :
              (front \o back)[j] = IF j <= Len(front) THEN front[j] ELSE back[j - Len(front)]
    BY <2>6, <2>7, ConcatProperties
  <2>10. (front \o back)[1] = d
    BY <2>3, <2>6, <2>8, <2>9
  <2>11. front \o back # <<>>
    BY <2>8, <2>9
  <2> QED
    BY <2>2, <2>9, <2>10, <2>11
<1> QED
  BY <1>1, <1>2

\* What a user of the lock does to the queue.
QueueAfter(c) == {queue, Without(c), Append(queue, c), Append(Without(c), c)}

LEMMA QueueTyped ==
    ASSUME queue \in Seq(Users), NEW c \in Users, queue' \in QueueAfter(c)
    PROVE  queue' \in Seq(Users)
<1>1. Without(c) \in Seq(Users)
  BY WithoutTyped
<1>2. \A s \in Seq(Users) : Append(s, c) \in Seq(Users)
  OBVIOUS
<1> QED
  BY <1>1, <1>2 DEF QueueAfter

LEMMA HeadKept ==
    ASSUME queue \in Seq(Users), NEW c \in Users, queue' \in QueueAfter(c),
           NEW d, d # c, Turn(d)
    PROVE  Turn(d)'
<1>1. Without(c) \in Seq(Users) /\ Without(c) # <<>> /\ Head(Without(c)) = d
  BY WithoutTyped, WithoutKeepsHead
<1>2. queue # <<>> /\ Head(queue) = d
  BY DEF Turn
<1>3. \A s \in Seq(Users) : s # <<>> /\ Head(s) = d =>
          Append(s, c) # <<>> /\ Head(Append(s, c)) = d
  OBVIOUS
<1>4. queue' # <<>> /\ Head(queue') = d
  BY <1>1, <1>2, <1>3 DEF QueueAfter
<1> QED
  BY <1>4 DEF Turn

-----------------------------------------------------------------------------
(* The lock excludes, and cached tools are usable.                         *)

\* Whoever opens a session or loads tools has the lock, and found no tools.
Holding == {"connecting", "loading"}
LockInv ==
    /\ queue \in Seq(Users)
    /\ pc \in [Callers -> Steps]
    /\ \A c \in Callers : pc[c] \in Holding => Turn(c) /\ tools = None
    /\ CachedToolsUsable

\* A step of c leaves the caller alone that has the lock.
LEMMA OthersKeepLock ==
    ASSUME LockInv, NEW c \in Users, queue' \in QueueAfter(c),
           tools' \in {tools, None} \/ Turn(c),
           NEW d \in Callers, d # c, pc'[d] = pc[d], pc[d] \in Holding
    PROVE  Turn(d)' /\ tools' = None
<1>1. Turn(d) /\ tools = None
  BY DEF LockInv
<1>2. ~Turn(c)
  BY <1>1 DEF Turn
<1> QED
  BY <1>1, <1>2, HeadKept DEF LockInv

LEMMA LockInit == Init => LockInv
BY DEF Init, LockInv, Holding, Steps, CachedToolsUsable

\* Where a failed attempt or a finished call may go to.
LEMMA FailedAttempt ==
    ASSUME LockInv, NEW c \in Callers, NEW result, AttemptFailed(c, result)
    PROVE  /\ queue' \in QueueAfter(c)
           /\ pc' \in [Callers -> Steps] /\ pc'[c] \notin Holding
           /\ \A d \in Callers : d # c => pc'[d] = pc[d]
BY DEF LockInv, AttemptFailed, EndsWith, GoTo, QueueAfter, Holding, Steps

LEMMA EndedCall ==
    ASSUME LockInv, NEW c \in Callers, NEW result, EndsWith(c, result)
    PROVE  /\ queue' \in QueueAfter(c)
           /\ pc' \in [Callers -> Steps] /\ pc'[c] \notin Holding
           /\ \A d \in Callers : d # c => pc'[d] = pc[d]
BY DEF LockInv, EndsWith, GoTo, QueueAfter, Holding, Steps

LEMMA LockStep ==
    ASSUME LockInv, [Next]_vars
    PROVE  LockInv'
<1>1. ASSUME NEW c \in Callers, Progress(c)
      PROVE  LockInv'
  <2> DEFINE Moves == /\ queue' \in QueueAfter(c)
                      /\ pc' \in [Callers -> Steps]
                      /\ \A d \in Callers : d # c => pc'[d] = pc[d]
             Safe == /\ tools' \in {tools, None} \/ Turn(c)
                     /\ pc'[c] \in Holding => Turn(c)' /\ tools' = None
                     /\ CachedToolsUsable'
  <2>1. c \in Users /\ OtherServer \notin Callers
    BY OthersAssumption DEF Users
  <2>2. Moves /\ Safe
    <3>1. CASE UseCachedTool(c) \/ AskManager(c)
      BY <3>1 DEF UseCachedTool, AskManager, GoTo, QueueAfter, managerVars, Holding, Steps,
                  LockInv, CachedToolsUsable
    <3>2. CASE Rejected(c)
      BY <3>2, EndedCall DEF Rejected, LockInv, CachedToolsUsable
    <3>3. CASE FindTools(c)
      BY <3>3 DEF FindTools, GoTo, QueueAfter, Holding, Steps, LockInv, CachedToolsUsable
    <3>4. CASE RefusedByBackoff(c)
      BY <3>4, FailedAttempt DEF RefusedByBackoff, LockInv, CachedToolsUsable
    <3>5. CASE Connect(c)
      BY <3>5 DEF Connect, GoTo, QueueAfter, Holding, Steps, LockInv, CachedToolsUsable, Turn
    <3>6. CASE Opened(c)
      BY <3>6 DEF Opened, GoTo, QueueAfter, Holding, Steps, LockInv, CachedToolsUsable, Turn
    <3>7. CASE Loaded(c)
      BY <3>7 DEF Loaded, GoTo, QueueAfter, Holding, Steps, LockInv, CachedToolsUsable
    <3>8. CASE ConnectFailed(c)
      BY <3>8, FailedAttempt DEF ConnectFailed, GiveUp, ForgetSession, CachedToolsUsable
    <3>9. CASE Report(c)
      BY <3>9 DEF Report, GiveUp, ForgetSession, GoTo, QueueAfter, Holding, Steps, LockInv,
                   CachedToolsUsable
    <3>10. CASE Answered(c)
      BY <3>10, EndedCall DEF Answered, LockInv, CachedToolsUsable
    <3>11. CASE Crashed(c) \/ TimedOut(c)
      BY <3>11, FailedAttempt DEF Crashed, TimedOut, LockInv, CachedToolsUsable
    <3> QED
      BY <1>1, <3>1, <3>2, <3>3, <3>4, <3>5, <3>6, <3>7, <3>8, <3>9, <3>10, <3>11
         DEF Progress, Begin, WithLock, Outcome
  <2>3. ASSUME NEW d \in Callers, pc'[d] \in Holding
         PROVE  Turn(d)' /\ tools' = None
    BY <2>1, <2>2, <2>3, OthersKeepLock
  <2>4. queue' \in Seq(Users)
    BY <2>1, <2>2, QueueTyped DEF LockInv
  <2> QED
    BY <2>2, <2>3, <2>4 DEF LockInv
<1>2. CASE OtherWantsLock \/ OtherIsDone
  <2>1. OtherServer \in Users /\ OtherServer \notin Callers
    BY OthersAssumption DEF Users
  <2>2. queue' \in QueueAfter(OtherServer) /\ UNCHANGED <<session, tools, failures, pc>>
    BY <1>2 DEF OtherWantsLock, OtherIsDone, QueueAfter, callVars
  <2>3. ASSUME NEW d \in Callers, pc'[d] \in Holding
        PROVE  Turn(d)' /\ tools' = None
    BY <2>1, <2>2, <2>3, OthersKeepLock
  <2>4. queue' \in Seq(Users)
    BY <2>1, <2>2, QueueTyped DEF LockInv
  <2> QED
    BY <2>2, <2>3, <2>4 DEF LockInv, CachedToolsUsable
<1>3. CASE Break \/ Heal \/ Tick \/ UNCHANGED vars
  BY <1>3 DEF Break, Heal, Tick, vars, managerVars, callVars, LockInv, CachedToolsUsable, Turn
<1> QED
  BY <1>1, <1>2, <1>3 DEF Next

LEMMA LockHolds == Spec => []LockInv
BY LockInit, LockStep, PTL DEF Spec

\* A cached tool belongs to the session in use, and the server is not in
\* back-off, whoever crashes, times out or reports while others hold the lock.
THEOREM ToolsUsable == Spec => []CachedToolsUsable
BY LockHolds, PTL DEF LockInv

-----------------------------------------------------------------------------
(* The queue of the lock holds the calls that want it, each of them once.  *)

Wanting == {"waiting", "connecting", "loading", "reporting"}
Distinct(q) == \A i, j \in DOMAIN q : q[i] = q[j] => i = j
Has(q, u) == \E i \in DOMAIN q : q[i] = u

LEMMA MatchesMeans ==
    QueueMatchesCalls <=> /\ Distinct(queue)
                          /\ \A c \in Callers : Has(queue, c) <=> pc[c] \in Wanting
BY DEF QueueMatchesCalls, Distinct, Has, Wanting, Places

\* Whoever leaves takes the only place it has, and nobody else's.
LEMMA WithoutMembers ==
    ASSUME queue \in Seq(Users), Distinct(queue), NEW c
    PROVE  /\ Distinct(Without(c)) /\ ~Has(Without(c), c)
           /\ \A d : d # c => (Has(Without(c), d) <=> Has(queue, d))
<1>1. CASE Places(c) = {}
  BY <1>1 DEF Without, Places, Has
<1>2. CASE Places(c) # {}
  <2> DEFINE i == CHOOSE j \in Places(c) : TRUE
             n == Len(queue)
             front == SubSeq(queue, 1, i - 1)
             back == SubSeq(queue, i + 1, n)
             after == front \o back
  <2>1. i \in 1..n /\ queue[i] = c
    BY <1>2 DEF Places
  <2>2. Without(c) = after
    BY <1>2 DEF Without
  <2>3. \A j \in 1..n : queue[j] \in Users
    BY ElementOfSeq
  <2>4. n \in Nat /\ DOMAIN queue = 1..n
    OBVIOUS
  <2> HIDE DEF i
  <2> HIDE DEF n
  <2>5. /\ front \in Seq(Users) /\ Len(front) = i - 1
        /\ \A j \in 1..(i - 1) : front[j] = queue[j]
    BY <2>1, <2>3, <2>4, SubSeqProperties DEF n
  <2>6. /\ back \in Seq(Users) /\ Len(back) = n - i
        /\ \A j \in 1..(n - i) : back[j] = queue[i + j]
    <3>1. /\ back \in Seq(Users)
          /\ Len(back) = IF i + 1 <= n THEN n - (i + 1) + 1 ELSE 0
          /\ \A j \in 1..(n - (i + 1) + 1) : back[j] = queue[(i + 1) + j - 1]
      BY <2>1, <2>3, <2>4, SubSeqProperties DEF n
    <3>2. n - (i + 1) + 1 = n - i /\ \A j \in Int : (i + 1) + j - 1 = i + j
      BY <2>1, <2>4
    <3> QED
      BY <2>1, <2>4, <3>1, <3>2
  <2> HIDE DEF front, back
  <2>7. /\ after \in Seq(Users) /\ Len(after) = n - 1
        /\ \A j \in 1..(n - 1) : after[j] = IF j < i THEN queue[j] ELSE queue[j + 1]
    <3>1. /\ after \in Seq(Users)
          /\ Len(after) = Len(front) + Len(back)
          /\ \A j \in 1..Len(front) + Len(back) :
                after[j] = IF j <= Len(front) THEN front[j] ELSE back[j - Len(front)]
      BY <2>5, <2>6, ConcatProperties
    <3>2. Len(front) + Len(back) = n - 1
      BY <2>1, <2>4, <2>5, <2>6
    <3>3. ASSUME NEW j \in 1..(n - 1)
          PROVE  after[j] = IF j < i THEN queue[j] ELSE queue[j + 1]
      <4>1. CASE j < i
        BY <2>1, <2>4, <2>5, <3>1, <3>2, <4>1
      <4>2. CASE ~(j < i)
        <5>1. j - (i - 1) \in 1..(n - i) /\ i + (j - (i - 1)) = j + 1
          BY <2>1, <2>4, <4>2
        <5>2. after[j] = back[j - (i - 1)]
          BY <2>1, <2>4, <2>5, <3>1, <3>2, <4>2
        <5> QED
          BY <2>6, <4>2, <5>1, <5>2
      <4> QED
        BY <4>1, <4>2
    <3> QED
      BY <3>1, <3>2, <3>3
  <2> HIDE DEF after
  <2>8. DOMAIN after = 1..(n - 1)
    BY <2>7
  <2>9. Distinct(after) /\ ~Has(after, c)
    <3> DEFINE Old(j) == IF j < i THEN j ELSE j + 1
    <3>1. \A j \in 1..(n - 1) : after[j] = queue[Old(j)] /\ Old(j) \in 1..n /\ Old(j) # i
      BY <2>1, <2>4, <2>7
    <3>2. \A j, k \in 1..(n - 1) : Old(j) = Old(k) => j = k
      BY <2>1, <2>4
    <3> HIDE DEF Old
    <3>3. \A j, k \in 1..n : queue[j] = queue[k] => j = k
      BY <2>4 DEF Distinct
    <3> QED
      BY <2>1, <2>8, <3>1, <3>2, <3>3 DEF Distinct, Has
  <2>10. ASSUME NEW d, d # c
         PROVE  Has(after, d) <=> Has(queue, d)
    <3>1. ASSUME Has(queue, d)
          PROVE  Has(after, d)
      <4>1. PICK j \in 1..n : queue[j] = d
        BY <2>4, <3>1 DEF Has
      <4>2. j # i
        BY <2>1, <2>10, <4>1
      <4>3. CASE j < i
        BY <2>1, <2>4, <2>7, <2>8, <4>1, <4>3 DEF Has
      <4>4. CASE j > i
        <5>1. j - 1 \in 1..(n - 1) /\ ~(j - 1 < i) /\ (j - 1) + 1 = j
          BY <2>1, <2>4, <4>4
        <5> QED
          BY <2>7, <2>8, <4>1, <5>1 DEF Has
      <4> QED
        BY <2>1, <4>2, <4>3, <4>4
    <3>2. ASSUME Has(after, d)
          PROVE  Has(queue, d)
      <4>1. PICK j \in 1..(n - 1) : after[j] = d
        BY <2>8, <3>2 DEF Has
      <4>2. j \in 1..n /\ j + 1 \in 1..n
        BY <2>4
      <4> QED
        BY <2>4, <2>7, <4>1, <4>2 DEF Has
    <3> QED
      BY <3>1, <3>2
  <2> QED
    BY <2>2, <2>9, <2>10
<1> QED
  BY <1>1, <1>2

LEMMA AppendMembers ==
    ASSUME NEW q \in Seq(Users), Distinct(q), NEW u \in Users, ~Has(q, u)
    PROVE  /\ Distinct(Append(q, u)) /\ Has(Append(q, u), u)
           /\ \A d : d # u => (Has(Append(q, u), d) <=> Has(q, d))
<1> DEFINE n == Len(q)
<1>1. n \in Nat /\ DOMAIN q = 1..n
  OBVIOUS
<1>2. /\ DOMAIN Append(q, u) = 1..(n + 1)
      /\ \A i \in 1..n : Append(q, u)[i] = q[i]
      /\ Append(q, u)[n + 1] = u
  BY AppendProperties
<1> HIDE DEF n
<1>3. \A i \in 1..(n + 1) : i \in 1..n \/ i = n + 1
  BY <1>1
<1>4. n + 1 \in 1..(n + 1) /\ \A i \in 1..n : i \in 1..(n + 1)
  BY <1>1
<1> QED
  BY <1>1, <1>2, <1>3, <1>4 DEF Distinct, Has

\* What a step of a call does to the queue and its own place in it.
PlaceKept(c) ==
    \/ queue' = queue /\ (pc'[c] \in Wanting <=> pc[c] \in Wanting)
    \/ queue' = Without(c) /\ pc'[c] \notin Wanting
    \/ queue' = Append(Without(c), c) /\ pc'[c] \in Wanting

\* A call that has no place only gets one at the end.
LEMMA NothingToLeave ==
    ASSUME QueueMatchesCalls, NEW c \in Callers, pc[c] \notin Wanting
    PROVE  Without(c) = queue
BY DEF QueueMatchesCalls, Wanting, Without

LEMMA FailedPlace ==
    ASSUME LockInv, NEW c \in Callers, NEW result, AttemptFailed(c, result)
    PROVE  PlaceKept(c)
BY DEF LockInv, AttemptFailed, EndsWith, GoTo, PlaceKept, Wanting

LEMMA EndedPlace ==
    ASSUME LockInv, NEW c \in Callers, NEW result, EndsWith(c, result)
    PROVE  PlaceKept(c)
BY DEF LockInv, EndsWith, GoTo, PlaceKept, Wanting

LEMMA PlaceStep ==
    ASSUME LockInv, QueueMatchesCalls, NEW c \in Callers, Progress(c)
    PROVE  /\ PlaceKept(c)
           /\ \A d \in Callers : d # c => pc'[d] = pc[d]
<1>1. CASE UseCachedTool(c) \/ Connect(c) \/ Opened(c)
  BY <1>1 DEF UseCachedTool, Connect, Opened, GoTo, managerVars, LockInv, PlaceKept, Wanting
<1>2. CASE AskManager(c)
  BY <1>2, NothingToLeave DEF AskManager, GoTo, LockInv, PlaceKept, Wanting
<1>3. CASE Rejected(c)
  BY <1>3, EndedCall, EndedPlace DEF Rejected
<1>4. CASE FindTools(c) \/ Loaded(c) \/ Report(c)
  BY <1>4 DEF FindTools, Loaded, Report, GoTo, LockInv, PlaceKept, Wanting
<1>5. CASE RefusedByBackoff(c) \/ ConnectFailed(c) \/ Crashed(c) \/ TimedOut(c)
  BY <1>5, FailedAttempt, FailedPlace DEF RefusedByBackoff, ConnectFailed, Crashed, TimedOut
<1>6. CASE Answered(c)
  BY <1>6, EndedCall, EndedPlace DEF Answered
<1> QED
  BY <1>1, <1>2, <1>3, <1>4, <1>5, <1>6 DEF Progress, Begin, WithLock, Outcome

LEMMA QueueMatchesStep ==
    ASSUME LockInv, QueueMatchesCalls, [Next]_vars
    PROVE  QueueMatchesCalls'
<1>1. /\ queue \in Seq(Users) /\ Distinct(queue)
      /\ \A d \in Callers : Has(queue, d) <=> pc[d] \in Wanting
  BY MatchesMeans DEF LockInv
<1>2. SUFFICES /\ Distinct(queue')
               /\ \A d \in Callers : Has(queue', d) <=> pc'[d] \in Wanting
  BY DEF QueueMatchesCalls, Distinct, Has, Wanting, Places
<1>3. ASSUME NEW c \in Users
      PROVE  /\ Without(c) \in Seq(Users) /\ Distinct(Without(c)) /\ ~Has(Without(c), c)
             /\ \A d : d # c => (Has(Without(c), d) <=> Has(queue, d))
             /\ Distinct(Append(Without(c), c)) /\ Has(Append(Without(c), c), c)
             /\ \A d : d # c => (Has(Append(Without(c), c), d) <=> Has(queue, d))
  <2>1. /\ Without(c) \in Seq(Users) /\ Distinct(Without(c)) /\ ~Has(Without(c), c)
        /\ \A d : d # c => (Has(Without(c), d) <=> Has(queue, d))
    BY <1>1, WithoutTyped, WithoutMembers
  <2> QED
    BY <2>1, AppendMembers
<1>4. ASSUME NEW c \in Callers, Progress(c)
      PROVE  /\ Distinct(queue')
             /\ \A d \in Callers : Has(queue', d) <=> pc'[d] \in Wanting
  <2>1. c \in Users
    BY DEF Users
  <2>2. PlaceKept(c) /\ \A d \in Callers : d # c => pc'[d] = pc[d]
    BY <1>4, PlaceStep
  <2> DEFINE Right(q) ==
        Distinct(q) /\ \A d \in Callers : Has(q, d) <=> pc'[d] \in Wanting
  <2>3. CASE queue' = queue /\ (pc'[c] \in Wanting <=> pc[c] \in Wanting)
    <3>1. Right(queue)
      BY <1>1, <2>2, <2>3
    <3> QED
      BY <2>3, <3>1
  <2>4. CASE queue' = Without(c) /\ pc'[c] \notin Wanting
    <3>1. Right(Without(c))
      BY <1>1, <1>3, <2>1, <2>2, <2>4
    <3> QED
      BY <2>4, <3>1
  <2>5. CASE queue' = Append(Without(c), c) /\ pc'[c] \in Wanting
    <3>1. Right(Append(Without(c), c))
      BY <1>1, <1>3, <2>1, <2>2, <2>5
    <3> QED
      BY <2>5, <3>1
  <2> QED
    BY <2>2, <2>3, <2>4, <2>5 DEF PlaceKept
<1>5. CASE OtherWantsLock
  <2>1. OtherServer \in Users /\ \A d \in Callers : d # OtherServer
    BY OthersAssumption DEF Users
  <2>2. ~Has(queue, OtherServer) /\ queue' = Append(queue, OtherServer) /\ pc' = pc
    BY <1>5 DEF OtherWantsLock, Has, callVars
  <2> QED
    BY <1>1, <2>1, <2>2, AppendMembers
<1>6. CASE OtherIsDone
  <2>1. OtherServer \in Users /\ \A d \in Callers : d # OtherServer
    BY OthersAssumption DEF Users
  <2>2. queue' = Without(OtherServer) /\ pc' = pc
    BY <1>6 DEF OtherIsDone, callVars
  <2> QED
    BY <1>1, <1>3, <2>1, <2>2
<1>7. CASE Break \/ Heal \/ Tick \/ UNCHANGED vars
  <2>1. queue' = queue /\ pc' = pc
    BY <1>7 DEF Break, Heal, Tick, vars, managerVars, callVars
  <2> QED
    BY <1>1, <2>1
<1> QED
  BY <1>4, <1>5, <1>6, <1>7 DEF Next

\* The lock is never left to nobody, for every number of callers and retries and
\* wherever an attempt is cancelled: its queue holds exactly the calls that want
\* it, each of them once, and the other servers.
THEOREM LockHasItsUsers == Spec => []QueueMatchesCalls
<1>1. Init => QueueMatchesCalls
  BY DEF Init, QueueMatchesCalls, Places
<1> QED
  BY <1>1, QueueMatchesStep, LockHolds, PTL DEF Spec

-----------------------------------------------------------------------------
(* The tool calls as callers of the breaker.                               *)

\* The breaker with what is proved of it.  Its definitions are those of
\* Breaker, action by action.
Proven == INSTANCE CircuitBreakerProofs WITH healthy <- assured

LEMMA BreakerConstants == Proven!CallersAssumption /\ Proven!BreakerAssumption
BY CallsAssumption
   DEF Breaker!CallersAssumption, Proven!CallersAssumption, Breaker!IsFiniteSet,
       Proven!IsFiniteSet, Breaker!BreakerAssumption, Proven!BreakerAssumption

LEMMA SameAdmit == ASSUME NEW c \in Callers, Breaker!Admit(c) PROVE Proven!Admit(c)
BY DEF Breaker!Admit, Proven!Admit, Breaker!AdmitRegular, Proven!AdmitRegular,
       Breaker!AdmitTrial, Proven!AdmitTrial, Breaker!AdmitFirstTrial,
       Proven!AdmitFirstTrial, Breaker!CooldownOver, Proven!CooldownOver,
       Breaker!Running, Proven!Running, Breaker!breakerVars, Proven!breakerVars,
       Breaker!historyVars, Proven!historyVars

LEMMA SameSucceed == ASSUME NEW c \in Callers, Breaker!Succeed(c) PROVE Proven!Succeed(c)
BY DEF Breaker!Succeed, Proven!Succeed, Breaker!Leave, Proven!Leave, Breaker!Running,
       Proven!Running, Breaker!ReleaseSlotIfHalfOpen, Proven!ReleaseSlotIfHalfOpen,
       Breaker!Decrement, Proven!Decrement, Breaker!Close, Proven!Close

LEMMA SameFailTransient == ASSUME NEW c \in Callers, Breaker!FailTransient(c) PROVE Proven!FailTransient(c)
BY DEF Breaker!FailTransient, Proven!FailTransient, Breaker!Leave, Proven!Leave,
       Breaker!Running, Proven!Running, Breaker!ReleaseSlotIfHalfOpen,
       Proven!ReleaseSlotIfHalfOpen, Breaker!Decrement, Proven!Decrement, Breaker!Trips,
       Proven!Trips, Breaker!UpTo, Proven!UpTo

LEMMA SameFailPermanent == ASSUME NEW c \in Callers, Breaker!FailPermanent(c) PROVE Proven!FailPermanent(c)
BY DEF Breaker!FailPermanent, Proven!FailPermanent, Breaker!Leave, Proven!Leave,
       Breaker!Running, Proven!Running, Breaker!ReleaseSlotIfHalfOpen,
       Proven!ReleaseSlotIfHalfOpen, Breaker!Decrement, Proven!Decrement,
       Breaker!historyVars, Proven!historyVars

LEMMA SameTimeOut == ASSUME NEW c \in Callers, Breaker!TimeOut(c) PROVE Proven!TimeOut(c)
BY DEF Breaker!TimeOut, Proven!TimeOut, Breaker!Leave, Proven!Leave, Breaker!Running,
       Proven!Running, Breaker!UpTo, Proven!UpTo, Breaker!breakerVars,
       Proven!breakerVars, Breaker!historyVars, Proven!historyVars

\* The time that has passed is counted up to its bound.
ElapsedInv == elapsed \in 0..Proven!ElapsedCap

LEMMA ElapsedLasts ==
    ASSUME ElapsedInv, [Proven!Next]_(Proven!vars)
    PROVE  ElapsedInv'
BY BreakerConstants
   DEF ElapsedInv, Proven!ElapsedCap, Proven!BreakerAssumption, Proven!Next, Proven!Admit,
       Proven!AdmitRegular, Proven!AdmitTrial, Proven!AdmitFirstTrial, Proven!Finish,
       Proven!Succeed, Proven!FailTransient, Proven!FailPermanent, Proven!TimeOut,
       Proven!reset, Proven!Tick, Proven!Heal, Proven!vars, Proven!breakerVars

\* What a tool call does is one step of the breaker, or none.
LEMMA CallIsStep ==
    ASSUME NEW c \in Callers, Progress(c)
    PROVE  [Proven!Next]_(Proven!vars)
<1>1. CASE UseCachedTool(c) \/ AskManager(c)
  BY <1>1, SameAdmit DEF UseCachedTool, AskManager, Proven!Next
<1>2. CASE RefusedByBackoff(c) \/ ConnectFailed(c) \/ Crashed(c)
  BY <1>2, SameFailTransient, SameFailPermanent
     DEF RefusedByBackoff, ConnectFailed, Crashed, Fails, Proven!Next, Proven!Finish
<1>3. CASE Answered(c) \/ TimedOut(c)
  BY <1>3, SameSucceed, SameTimeOut DEF Answered, TimedOut, Proven!Next, Proven!Finish
<1>4. CASE Rejected(c) \/ FindTools(c) \/ Connect(c) \/ Report(c) \/ Opened(c) \/ Loaded(c)
  BY <1>4 DEF Rejected, FindTools, Connect, Report, Opened, Loaded, breakerVars,
              Proven!vars, Proven!breakerVars, Proven!historyVars
<1> QED
  BY <1>1, <1>2, <1>3, <1>4 DEF Progress, Begin, WithLock, Outcome

LEMMA BreakerStep ==
    ASSUME ElapsedInv, [Next]_vars
    PROVE  [Proven!Next]_(Proven!vars)
<1>1. ASSUME NEW c \in Callers, Progress(c)
      PROVE  [Proven!Next]_(Proven!vars)
  BY <1>1, CallIsStep
<1>2. CASE Tick
  <2>1. Proven!ElapsedCap \in Nat /\ Breaker!ElapsedCap = Proven!ElapsedCap
    BY BreakerConstants DEF Proven!BreakerAssumption, Proven!ElapsedCap, Breaker!ElapsedCap
  <2>2. elapsed' = IF elapsed < Proven!ElapsedCap THEN elapsed + 1 ELSE elapsed
    BY <1>2, <2>1 DEF Tick, ElapsedInv, Breaker!UpTo
  <2> QED
    BY <1>2, <2>2 DEF Tick, Proven!Next, Proven!Tick, Proven!vars, Proven!breakerVars,
                      Proven!historyVars
<1>3. CASE OtherWantsLock \/ OtherIsDone \/ Break \/ Heal \/ UNCHANGED vars
  BY <1>3 DEF OtherWantsLock, OtherIsDone, Break, Heal, vars, breakerVars, Proven!vars,
              Proven!breakerVars, Proven!historyVars
<1> QED
  BY <1>1, <1>2, <1>3 DEF Next

\* Retries, time-outs and refusals of the manager reach the breaker like the
\* answers of any caller: the breaker among tool calls is the breaker by itself.
THEOREM CallsUseBreaker == Spec => Proven!Spec
<1>1. Init => Proven!Init /\ ElapsedInv
  BY BreakerConstants DEF Init, Breaker!Init, Breaker!ElapsedCap, Proven!Init,
     Proven!ElapsedCap, Proven!BreakerAssumption, ElapsedInv
<1>2. ElapsedInv /\ [Next]_vars => ElapsedInv' /\ [Proven!Next]_(Proven!vars)
  BY BreakerStep, ElapsedLasts
<1> QED
  BY <1>1, <1>2, PTL DEF Spec, Proven!Spec

\* So its promises hold for tool calls: its counters agree with its state, a
\* streak of failures trips it, its slots do not leak, it keeps its gate, and
\* with a slot left it is not stuck and goes nowhere but towards CLOSED.
THEOREM BreakerAmongCalls ==
    Spec => /\ []Proven!CountersAgreeWithState
            /\ []Proven!StreakTrips
            /\ []Proven!NoLeakedSlot
            /\ Proven!KeepsGatePromise
            /\ []Proven!RecoveryNotStuck
            /\ Proven!RecoveryAdvances
BY CallsUseBreaker, BreakerConstants, Proven!CountersCorrect, Proven!StreakAlwaysTrips,
   Proven!SlotsNeverLeak, Proven!ImplementsGate, Proven!NeverStuckHalfOpen,
   Proven!HealthyOnlyAdvances, PTL

-----------------------------------------------------------------------------
(* A call is in the breaker exactly while its attempt runs.                *)

Attempting == {"waiting", "connecting", "loading", "invoking"}
CallsInside == \A c \in Callers : Breaker!Running(c) <=> pc[c] \in Attempting

\* An attempt's admission and its step change together, and nobody else's do.
InsideKept(c) ==
    /\ Breaker!Running(c)' <=> pc'[c] \in Attempting
    /\ \A d \in Callers : d # c => admitted'[d] = admitted[d] /\ pc'[d] = pc[d]

Admissions == admitted \in [Callers -> {"none", "regular", "trial"}]

LEMMA AdmittedNow ==
    ASSUME Admissions, NEW c \in Callers, Breaker!Admit(c)
    PROVE  Breaker!Running(c)' /\ \A d \in Callers : d # c => admitted'[d] = admitted[d]
BY DEF Admissions, Breaker!Admit, Breaker!AdmitRegular, Breaker!AdmitTrial,
       Breaker!AdmitFirstTrial, Breaker!Running

LEMMA LeftNow ==
    ASSUME Admissions, NEW c \in Callers,
           Fails(c) \/ Breaker!Succeed(c) \/ Breaker!TimeOut(c)
    PROVE  ~Breaker!Running(c)' /\ \A d \in Callers : d # c => admitted'[d] = admitted[d]
BY DEF Admissions, Fails, Breaker!FailTransient, Breaker!FailPermanent, Breaker!Succeed,
       Breaker!TimeOut, Breaker!Leave, Breaker!Running

LEMMA NotAttempting ==
    ASSUME LockInv, NEW c \in Callers, NEW result,
           AttemptFailed(c, result) \/ EndsWith(c, result)
    PROVE  pc'[c] \notin Attempting /\ \A d \in Callers : d # c => pc'[d] = pc[d]
BY DEF LockInv, AttemptFailed, EndsWith, GoTo, Attempting

LEMMA InsideStep ==
    ASSUME LockInv, Admissions, CallsInside, [Next]_vars
    PROVE  CallsInside'
<1>1. ASSUME NEW c \in Callers, Progress(c)
      PROVE  InsideKept(c)
  <2>1. CASE UseCachedTool(c) \/ AskManager(c)
    BY <2>1, AdmittedNow DEF UseCachedTool, AskManager, GoTo, LockInv, Attempting, InsideKept
  <2>2. CASE Rejected(c)
    BY <2>2, NotAttempting DEF Rejected, breakerVars, CallsInside, Breaker!Running, Attempting,
                               InsideKept
  <2>3. CASE FindTools(c) \/ Connect(c) \/ Opened(c) \/ Loaded(c) \/ Report(c)
    BY <2>3 DEF FindTools, Connect, Opened, Loaded, Report, GoTo, breakerVars, LockInv,
                CallsInside, Breaker!Running, Attempting, InsideKept
  <2>4. CASE RefusedByBackoff(c) \/ ConnectFailed(c) \/ Crashed(c) \/ TimedOut(c)
    BY <2>4, LeftNow, NotAttempting DEF RefusedByBackoff, ConnectFailed, Crashed, TimedOut,
                                        Fails, InsideKept
  <2>5. CASE Answered(c)
    BY <2>5, LeftNow, NotAttempting DEF Answered, InsideKept
  <2> QED
    BY <1>1, <2>1, <2>2, <2>3, <2>4, <2>5 DEF Progress, Begin, WithLock, Outcome
<1>2. ASSUME NEW c \in Callers, Progress(c)
      PROVE  CallsInside'
  BY <1>1, <1>2 DEF InsideKept, CallsInside, Breaker!Running
<1>3. CASE OtherWantsLock \/ OtherIsDone \/ Break \/ Heal \/ Tick \/ UNCHANGED vars
  BY <1>3 DEF OtherWantsLock, OtherIsDone, Break, Heal, Tick, vars, callVars, breakerVars,
              CallsInside, Breaker!Running
<1> QED
  BY <1>2, <1>3 DEF Next

\* A call holds a place in the breaker exactly while its attempt runs: neither a
\* call that sleeps before its retry, nor one that reports, nor one that is over
\* keeps a trial slot, however its attempt ended.
THEOREM CallsLeaveBreaker == Spec => []CallsInside
<1>1. Init => CallsInside
  BY DEF Init, Breaker!Init, CallsInside, Breaker!Running, Attempting
<1>2. Proven!TypeOK => Admissions
  BY DEF Proven!TypeOK, Proven!Admission, Admissions
<1> QED
  BY <1>1, <1>2, InsideStep, LockHolds, CallsUseBreaker, BreakerConstants, Proven!TypeCorrect,
     PTL DEF Spec

-----------------------------------------------------------------------------
(* Types.                                                                  *)

\* Every reference is to a session; whoever opens one finds none in use.
CallTypes ==
    /\ session \in Sessions \cup {None}
    /\ tools \in Sessions \cup {None}
    /\ failures \in 0..FailuresCap
    /\ sinceFailure \in 0..MaxBackoff
    /\ reading \in 0..MaxBackoff
    /\ attempt \in [Callers -> 0..max_retries]
    /\ tool \in [Callers -> Sessions \cup {None}]
    /\ broken \subseteq Sessions /\ hung \subseteq Sessions
    /\ healthy \in BOOLEAN

Opening == \A c \in Callers : pc[c] = "connecting" => session = None

\* There are more sessions than callers, so one of them is not in use.
LEMMA FreshSessionExists ==
    ASSUME CallTypes, session = None, tools = None
    PROVE  FreshSession \in Sessions \ InUse
<1>1. IsFiniteSet(Callers) /\ Cardinality(Callers) \in Nat
  BY CallsAssumption, FS_CardinalityType
     DEF Breaker!CallersAssumption, Breaker!IsFiniteSet, IsFiniteSet
<1> DEFINE used == {tool[c] : c \in Callers}
           use == [c \in Callers |-> tool[c]]
<1>2. IsFiniteSet(used) /\ Cardinality(used) <= Cardinality(Callers)
  <2>1. use \in Surjection(Callers, used)
    BY DEF Surjection
  <2> QED
    BY <1>1, <2>1, FS_Surjection
<1>3. IsFiniteSet(Sessions) /\ Cardinality(Sessions) = Cardinality(Callers) + 1
  BY <1>1, FS_Interval DEF Sessions
<1>4. ASSUME Sessions \subseteq used
      PROVE  FALSE
  <2>1. Cardinality(Sessions) <= Cardinality(used)
    BY <1>2, <1>4, FS_Subset
  <2>2. Cardinality(used) \in Nat
    BY <1>2, FS_CardinalityType
  <2> QED
    BY <1>1, <1>2, <1>3, <2>1, <2>2
<1>5. None \notin Sessions
  BY <1>1 DEF Sessions, None
<1>6. PICK s \in Sessions : s \notin used
  BY <1>4
<1>7. s \in Sessions \ InUse
  BY <1>5, <1>6 DEF InUse
<1> QED
  BY <1>7 DEF FreshSession

LEMMA TypesInit == Init => CallTypes /\ Opening
<1> SUFFICES ASSUME Init
             PROVE  CallTypes /\ Opening
  OBVIOUS
<1>1. healthy \in BOOLEAN
  BY DEF Init
<1>2. broken \subseteq Sessions /\ hung \subseteq Sessions /\ Opening
  BY DEF Init, Opening
<1>3. /\ session \in Sessions \cup {None} /\ tools \in Sessions \cup {None}
      /\ tool \in [Callers -> Sessions \cup {None}]
  BY DEF Init
<1>4. /\ failures \in 0..FailuresCap /\ sinceFailure \in 0..MaxBackoff
      /\ reading \in 0..MaxBackoff /\ attempt \in [Callers -> 0..max_retries]
  BY RetryAssumption DEF Init, FailuresCap
<1> QED
  BY <1>1, <1>2, <1>3, <1>4 DEF CallTypes

LEMMA ForgottenTyped ==
    ASSUME CallTypes, ForgetUnused
    PROVE  broken' \subseteq Sessions /\ hung' \subseteq Sessions /\ healthy' \in BOOLEAN
BY DEF CallTypes, ForgetUnused

LEMMA GivenUpTyped ==
    ASSUME CallTypes, NEW age \in 0..MaxBackoff, GiveUp(age)
    PROVE  /\ session' = None /\ tools' = None
           /\ failures' \in 0..FailuresCap /\ sinceFailure' \in 0..MaxBackoff
BY RetryAssumption DEF CallTypes, GiveUp, ForgetSession, FailuresCap, Breaker!UpTo

LEMMA AttemptTyped ==
    ASSUME CallTypes, NEW c \in Callers, NEW result,
           AttemptFailed(c, result) \/ EndsWith(c, result)
    PROVE  attempt' \in [Callers -> 0..max_retries]
BY RetryAssumption DEF CallTypes, AttemptFailed, EndsWith, MayRetry

LEMMA TypesStep ==
    ASSUME CallTypes, Opening, LockInv, [Next]_vars
    PROVE  CallTypes' /\ Opening'
<1> USE RetryAssumption
<1>1. ASSUME NEW c \in Callers, Progress(c)
      PROVE  CallTypes'
  <2>1. CASE UseCachedTool(c) \/ AskManager(c)
    BY <2>1 DEF UseCachedTool, AskManager, managerVars, remoteVars, CallTypes
  <2>2. CASE Rejected(c)
    BY <2>2, AttemptTyped DEF Rejected, remoteVars, CallTypes
  <2>3. CASE FindTools(c) \/ Connect(c)
    BY <2>3 DEF FindTools, Connect, remoteVars, CallTypes
  <2>4. CASE RefusedByBackoff(c)
    BY <2>4, AttemptTyped DEF RefusedByBackoff, remoteVars, CallTypes
  <2>5. CASE Opened(c)
    <3>1. session = None /\ tools = None
      BY <2>5 DEF Opened, Opening, LockInv, Holding
    <3>2. session' \in Sessions
      BY <2>5, <3>1, FreshSessionExists DEF Opened
    <3> QED
      BY <2>5, <3>2 DEF Opened, remoteVars, CallTypes
  <2>6. CASE Loaded(c)
    BY <2>6 DEF Loaded, remoteVars, CallTypes, FailuresCap
  <2>7. CASE ConnectFailed(c)
    <3>1. reading \in 0..MaxBackoff
      BY DEF CallTypes
    <3> QED
      BY <2>7, <3>1, GivenUpTyped, ForgottenTyped, AttemptTyped DEF ConnectFailed, CallTypes
  <2>8. CASE Report(c)
    BY <2>8, GivenUpTyped, ForgottenTyped DEF Report, CallTypes
  <2>9. CASE Answered(c)
    BY <2>9, ForgottenTyped, AttemptTyped DEF Answered, Drop, CallTypes
  <2>10. CASE Crashed(c) \/ TimedOut(c)
    BY <2>10, ForgottenTyped, AttemptTyped DEF Crashed, TimedOut, Drop, CallTypes
  <2> QED
    BY <1>1, <2>1, <2>2, <2>3, <2>4, <2>5, <2>6, <2>7, <2>8, <2>9, <2>10
       DEF Progress, Begin, WithLock, Outcome
<1>2. ASSUME NEW c \in Callers, Progress(c)
      PROVE  Opening'
  <2>1. CASE UseCachedTool(c) \/ AskManager(c)
    BY <2>1 DEF UseCachedTool, AskManager, managerVars, GoTo, Opening, LockInv
  <2>2. CASE Rejected(c)
    BY <2>2, EndedCall DEF Rejected, Holding, Opening
  <2>3. CASE FindTools(c) \/ Connect(c)
    BY <2>3 DEF FindTools, Connect, GoTo, Opening, LockInv
  <2>4. CASE RefusedByBackoff(c) \/ Crashed(c) \/ TimedOut(c)
    BY <2>4, FailedAttempt DEF RefusedByBackoff, Crashed, TimedOut, Holding, Opening
  <2>5. CASE Opened(c) \/ Loaded(c)
    <3>1. \A d \in Callers : d # c => pc[d] # "connecting"
      BY <2>5 DEF Opened, Loaded, LockInv, Holding, Turn
    <3> QED
      BY <2>5, <3>1 DEF Opened, Loaded, GoTo, Opening, LockInv
  <2>6. CASE ConnectFailed(c) \/ Report(c)
    BY <2>6 DEF ConnectFailed, Report, GiveUp, ForgetSession, Opening
  <2>7. CASE Answered(c)
    BY <2>7, EndedCall DEF Answered, Holding, Opening
  <2> QED
    BY <1>2, <2>1, <2>2, <2>3, <2>4, <2>5, <2>6, <2>7 DEF Progress, Begin, WithLock, Outcome
<1>3. CASE OtherWantsLock \/ OtherIsDone \/ Break \/ Heal \/ UNCHANGED vars
  BY <1>3 DEF OtherWantsLock, OtherIsDone, Break, Heal, vars, managerVars, callVars,
              remoteVars, CallTypes, Opening, Sessions, None
<1>4. CASE Tick
  BY <1>4 DEF Tick, callVars, remoteVars, Breaker!UpTo, CallTypes, Opening
<1> QED
  BY <1>1, <1>2, <1>3, <1>4 DEF Next

LEMMA TypesHold == Spec => [](CallTypes /\ Opening)
BY TypesInit, TypesStep, LockHolds, PTL DEF Spec

\* All variables have their types; a session can always be given a number that
\* nobody refers to.
THEOREM TypesCorrect == Spec => []TypeOK
<1>1. Proven!TypeOK => Breaker!TypeOK
  BY DEF Proven!TypeOK, Breaker!TypeOK, Proven!CircuitState, Breaker!CircuitState,
         Proven!ElapsedCap, Breaker!ElapsedCap, Proven!Admission, Breaker!Admission
<1>2. Proven!TypeOK /\ LockInv /\ CallTypes => TypeOK
  BY <1>1 DEF LockInv, CallTypes, TypeOK, Users
<1> QED
  BY <1>2, CallsUseBreaker, BreakerConstants, Proven!TypeCorrect, LockHolds, TypesHold, PTL

-----------------------------------------------------------------------------
(* To those who ask for tools the manager is a ToolSource.                 *)

\* Rests are not empty: a number of one-element subsets is not either.
LEMMA BackoffBounds ==
    ASSUME NEW n \in Nat \ {0}
    PROVE  Backoff(n) \in Int /\ 1 <= Backoff(n) /\ Backoff(n) <= MaxBackoff
<1> DEFINE S == 1..(n - 1)
<1>1. n - 1 \in Nat
  OBVIOUS
<1>2. IsFiniteSet(S) /\ Cardinality(S) = n - 1
  BY <1>1, FS_Interval
<1>3. IsFiniteSet(SUBSET S) /\ Cardinality(SUBSET S) = 2 ^ (n - 1)
  BY <1>2, FS_SUBSET
<1>4. Cardinality(SUBSET S) \in Nat /\ Cardinality(SUBSET S) # 0
  BY <1>3, FS_CardinalityType, FS_EmptySet
<1>5. 2 ^ (n - 1) \in Nat /\ 2 ^ (n - 1) >= 1
  BY <1>3, <1>4
<1> QED
  BY <1>5, RetryAssumption DEF Backoff, Breaker!UpTo

\* A caller has a tool in its hands exactly while it invokes it; whoever loads
\* tools has a session, and nobody is at work on a server that rests.
SourceInv ==
    /\ \A c \in Callers : tool[c] # None <=> pc[c] = "invoking"
    /\ \A c \in Callers : pc[c] = "loading" => session # None
    /\ \A c \in Callers : pc[c] \in Holding => ~InBackoff

LEMMA OnlyHolder ==
    ASSUME LockInv, NEW c \in Callers, Turn(c), NEW d \in Callers, pc[d] \in Holding
    PROVE  d = c
BY DEF LockInv, Turn

\* Where a failed attempt or a finished call may go to.
LEMMA FailedHasNoTool ==
    ASSUME LockInv, NEW c \in Callers, NEW result, AttemptFailed(c, result)
    PROVE  pc'[c] \notin Holding \cup {"invoking"}
BY DEF LockInv, AttemptFailed, EndsWith, GoTo, Holding

LEMMA EndedHasNoTool ==
    ASSUME LockInv, NEW c \in Callers, NEW result, EndsWith(c, result)
    PROVE  pc'[c] \notin Holding \cup {"invoking"}
BY DEF LockInv, EndsWith, GoTo, Holding

\* A step of c leaves alone what the others do.
LEMMA OthersSteps ==
    ASSUME LockInv, CallTypes, NEW c \in Callers, Progress(c)
    PROVE  \A d \in Callers : d # c => pc'[d] = pc[d] /\ tool'[d] = tool[d]
<1>1. CASE \/ UseCachedTool(c) \/ AskManager(c) \/ FindTools(c) \/ Connect(c)
           \/ Opened(c) \/ Loaded(c) \/ Report(c)
  BY <1>1 DEF UseCachedTool, AskManager, FindTools, Connect, Opened, Loaded, Report, GoTo,
              LockInv, CallTypes
<1>2. CASE Rejected(c) \/ Answered(c)
  BY <1>2, EndedCall DEF Rejected, Answered, Drop, CallTypes
<1>3. CASE RefusedByBackoff(c) \/ ConnectFailed(c) \/ Crashed(c) \/ TimedOut(c)
  BY <1>3, FailedAttempt DEF RefusedByBackoff, ConnectFailed, Crashed, TimedOut, Drop, CallTypes
<1> QED
  BY <1>1, <1>2, <1>3 DEF Progress, Begin, WithLock, Outcome

\* The clock ends rests and begins none.
LEMMA NoNewRest ==
    ASSUME CallTypes, Tick, ~InBackoff
    PROVE  ~InBackoff'
<1>1. failures' = failures /\ sinceFailure' = Breaker!UpTo(MaxBackoff, sinceFailure + 1)
  BY DEF Tick
<1>2. failures \in Nat /\ sinceFailure \in 0..MaxBackoff
  BY RetryAssumption DEF CallTypes, FailuresCap
<1>3. sinceFailure' \in Nat /\ sinceFailure <= sinceFailure'
  BY <1>1, <1>2, RetryAssumption DEF Breaker!UpTo
<1>4. failures > 0 => Backoff(failures) \in Int
  BY <1>2, BackoffBounds
<1> QED
  BY <1>1, <1>2, <1>3, <1>4 DEF InBackoff

LEMMA SourceStep ==
    ASSUME LockInv, CallTypes, Opening, SourceInv, [Next]_vars
    PROVE  SourceInv'
<1>1. ASSUME NEW c \in Callers, Progress(c)
      PROVE  SourceInv'
  <2> DEFINE Others == \A d \in Callers : d # c => pc'[d] = pc[d] /\ tool'[d] = tool[d]
             Own == /\ tool'[c] # None <=> pc'[c] = "invoking"
                    /\ pc'[c] = "loading" => session' # None
                    /\ pc'[c] \in Holding => ~InBackoff'
             Kept == \/ UNCHANGED <<session, failures, sinceFailure>>
                     \/ Turn(c)
  <2>1. Others
    BY <1>1, OthersSteps
  <2>2. Own /\ Kept
    <3> USE DEF Holding
    <3>1. CASE UseCachedTool(c) \/ AskManager(c)
      BY <3>1 DEF UseCachedTool, AskManager, GoTo, managerVars, LockInv, SourceInv, CallTypes
    <3>2. CASE Rejected(c)
      BY <3>2, EndedHasNoTool DEF Rejected, SourceInv
    <3>3. CASE FindTools(c)
      BY <3>3 DEF FindTools, GoTo, LockInv, CallTypes
    <3>4. CASE RefusedByBackoff(c)
      BY <3>4, FailedHasNoTool DEF RefusedByBackoff, SourceInv
    <3>5. CASE Connect(c)
      BY <3>5 DEF Connect, GoTo, LockInv, SourceInv, InBackoff
    <3>6. CASE Opened(c)
      <4>1. session = None /\ tools = None
        BY <3>6 DEF Opened, Opening, LockInv
      <4>2. session' \in Sessions
        BY <3>6, <4>1, FreshSessionExists DEF Opened
      <4>3. session' # None
        BY <4>2, CallsAssumption, FS_CardinalityType
           DEF Sessions, None
      <4> QED
        BY <3>6, <4>3 DEF Opened, GoTo, LockInv, SourceInv, InBackoff
    <3>7. CASE Loaded(c)
      BY <3>7 DEF Loaded, GoTo, LockInv, SourceInv, CallTypes
    <3>8. CASE ConnectFailed(c)
      <4>1. pc[c] \in Holding
        BY <3>8 DEF ConnectFailed
      <4> QED
        BY <3>8, <4>1, FailedHasNoTool DEF ConnectFailed, LockInv, SourceInv
    <3>9. CASE Report(c)
      BY <3>9 DEF Report, GoTo, LockInv, SourceInv
    <3>10. CASE Answered(c)
      BY <3>10, EndedHasNoTool DEF Answered, Drop, CallTypes
    <3>11. CASE Crashed(c) \/ TimedOut(c)
      BY <3>11, FailedHasNoTool DEF Crashed, TimedOut, Drop, CallTypes
    <3> QED
      BY <1>1, <3>1, <3>2, <3>3, <3>4, <3>5, <3>6, <3>7, <3>8, <3>9, <3>10, <3>11
         DEF Progress, Begin, WithLock, Outcome
  <2>3. ASSUME NEW d \in Callers, d # c
        PROVE  /\ tool'[d] # None <=> pc'[d] = "invoking"
               /\ pc'[d] = "loading" => session' # None
               /\ pc'[d] \in Holding => ~InBackoff'
    <3>1. pc[d] \in Holding => UNCHANGED <<session, failures, sinceFailure>>
      BY <2>2, <2>3, OnlyHolder
    <3> QED
      BY <2>1, <2>3, <3>1 DEF SourceInv, InBackoff, Holding
  <2> QED
    BY <2>2, <2>3 DEF SourceInv
<1>2. CASE OtherWantsLock \/ OtherIsDone \/ Break \/ Heal \/ UNCHANGED vars
  BY <1>2 DEF OtherWantsLock, OtherIsDone, Break, Heal, vars, managerVars, callVars,
              SourceInv, InBackoff
<1>3. CASE Tick
  <2>1. UNCHANGED <<pc, tool, session>>
    BY <1>3 DEF Tick, callVars
  <2>2. ~InBackoff => ~InBackoff'
    BY <1>3, NoNewRest
  <2> QED
    BY <2>1, <2>2 DEF SourceInv
<1> QED
  BY <1>1, <1>2, <1>3 DEF Next

\* Who is at work, before and after a step of c.
LEMMA AtWorkNow ==
    ASSUME LockInv, NEW c \in Callers
    PROVE  /\ pc[c] \in Holding => AtWork = {c}
           /\ Turn(c) /\ pc[c] \notin Holding => AtWork = {}
<1>1. \A d \in Callers : Turn(c) /\ pc[d] \in Holding => d = c
  BY OnlyHolder
<1>2. pc[c] \in Holding => Turn(c)
  BY DEF LockInv
<1> QED
  BY <1>1, <1>2 DEF AtWork, Holding

LEMMA AtWorkThen ==
    ASSUME NEW c \in Callers, \A d \in Callers : d # c => pc'[d] = pc[d]
    PROVE  /\ (pc[c] \in Holding <=> pc'[c] \in Holding) => AtWork' = AtWork
           /\ pc'[c] \notin Holding => AtWork' = AtWork \ {c}
           /\ pc'[c] \in Holding => AtWork' = AtWork \cup {c}
BY DEF AtWork, Holding

LEMMA FreshUnused ==
    ASSUME CallTypes, session = None, tools = None
    PROVE  FreshSession \in Sessions \ {tool[d] : d \in Callers}
<1>1. FreshSession \in Sessions \ InUse
  BY FreshSessionExists
<1> QED
  BY <1>1 DEF InUse

\* A rest follows every crash that is reported.
LEMMA ReportedRests ==
    ASSUME CallTypes, GiveUp(0)
    PROVE  InBackoff'
<1>1. failures' \in Nat \ {0}
  BY RetryAssumption DEF CallTypes, GiveUp, FailuresCap, Breaker!UpTo
<1>2. Backoff(failures') \in Int /\ 1 <= Backoff(failures')
  BY <1>1, BackoffBounds
<1>3. sinceFailure' = 0
  BY DEF GiveUp
<1> QED
  BY <1>1, <1>2, <1>3 DEF InBackoff

LEMMA SourceSimulates ==
    ASSUME LockInv, CallTypes, Opening, SourceInv, SourceInv', [Next]_vars
    PROVE  [Source!Next]_(Source!vars)
<1>1. ASSUME NEW c \in Callers, Progress(c)
      PROVE  [Source!Next]_(Source!vars)
  <2>0. /\ \A d \in Callers : d # c => pc'[d] = pc[d]
        /\ pc \in [Callers -> Steps]
        /\ tool \in [Callers -> Sessions \cup {None}]
    BY <1>1, OthersSteps DEF LockInv, CallTypes
  <2>1. CASE UseCachedTool(c) \/ FindTools(c)
    <3>1. /\ UNCHANGED <<session, tools, failures, sinceFailure>>
          /\ tool' = [tool EXCEPT ![c] = tools] /\ tools # None
          /\ pc[c] \notin Holding \cup {"invoking"} /\ pc'[c] \notin Holding
      BY <2>0, <2>1 DEF UseCachedTool, FindTools, GoTo, managerVars, Holding
    <3>2. AtWork' = AtWork
      BY <2>0, <3>1, AtWorkThen
    <3>3. tools = session /\ tool[c] = None
      BY <3>1 DEF LockInv, CachedToolsUsable, SourceInv
    <3>4. Source!HandOut(c)
      BY <3>1, <3>2, <3>3 DEF Source!HandOut, InBackoff
    <3> QED
      BY <3>4 DEF Source!Next
  <2>2. CASE AskManager(c) \/ Rejected(c) \/ RefusedByBackoff(c)
    <3>1. UNCHANGED <<session, tools, failures, sinceFailure, tool>>
      BY <2>2 DEF AskManager, Rejected, RefusedByBackoff
    <3>2. pc[c] \notin Holding /\ pc'[c] \notin Holding
      BY <2>0, <2>2, FailedHasNoTool, EndedHasNoTool
         DEF AskManager, Rejected, RefusedByBackoff, GoTo, Holding
    <3>3. AtWork' = AtWork
      BY <2>0, <3>2, AtWorkThen
    <3> QED
      BY <3>1, <3>3 DEF Source!vars, InBackoff
  <2>3. CASE Connect(c)
    <3>1. /\ UNCHANGED <<session, tools, failures, sinceFailure, tool>>
          /\ tools = None /\ ~InBackoff
          /\ pc[c] \notin Holding /\ pc'[c] \in Holding /\ Turn(c)
      BY <2>0, <2>3 DEF Connect, GoTo, Holding
    <3>2. AtWork = {} /\ AtWork' = {c}
      BY <2>0, <3>1, AtWorkNow, AtWorkThen
    <3>3. Source!Begin(c)
      BY <3>1, <3>2 DEF Source!Begin, InBackoff
    <3> QED
      BY <3>3 DEF Source!Next
  <2>4. CASE Opened(c)
    <3>1. /\ UNCHANGED <<tools, failures, sinceFailure, tool>>
          /\ session = None /\ tools = None /\ session' = FreshSession
          /\ pc[c] \in Holding /\ pc'[c] \in Holding
      BY <2>0, <2>4 DEF Opened, Opening, GoTo, Holding, LockInv
    <3>2. AtWork = {c} /\ AtWork' = {c}
      BY <2>0, <3>1, AtWorkNow, AtWorkThen
    <3>3. session' \in Sessions \ {tool[d] : d \in Callers}
      BY <3>1, FreshUnused
    <3>4. Source!Open(c)
      BY <3>1, <3>2, <3>3 DEF Source!Open, InBackoff
    <3> QED
      BY <3>4 DEF Source!Next
  <2>5. CASE Loaded(c)
    <3>1. /\ session' = session /\ tools' = session /\ failures' = 0
          /\ tool' = [tool EXCEPT ![c] = session]
          /\ pc[c] = "loading" /\ pc[c] \in Holding /\ pc'[c] \notin Holding
      BY <2>0, <2>5 DEF Loaded, GoTo, Holding
    <3>2. AtWork = {c} /\ AtWork' = {}
      BY <2>0, <3>1, AtWorkNow, AtWorkThen
    <3>3. session # None /\ tool[c] = None /\ ~InBackoff
      BY <3>1 DEF SourceInv
    <3>4. InBackoff' = InBackoff
      BY <3>1, <3>3 DEF InBackoff
    <3>5. Source!Load(c)
      BY <3>1, <3>2, <3>3, <3>4 DEF Source!Load
    <3> QED
      BY <3>5 DEF Source!Next
  <2>6. CASE ConnectFailed(c)
    <3>1. /\ session' = None /\ tools' = None /\ tool' = tool
          /\ pc[c] \in Holding /\ tools = None
      BY <2>6 DEF ConnectFailed, GiveUp, ForgetSession, Holding, LockInv
    <3>2. pc'[c] \notin Holding
      BY <2>6, FailedAttempt DEF ConnectFailed
    <3>3. AtWork = {c} /\ AtWork' = {}
      BY <2>0, <3>1, <3>2, AtWorkNow, AtWorkThen
    <3>4. Source!Fail(c)
      BY <3>1, <3>3 DEF Source!Fail, InBackoff
    <3> QED
      BY <3>4 DEF Source!Next
  <2>7. CASE Report(c)
    <3>1. /\ session' = None /\ tools' = None /\ tool' = tool
          /\ pc[c] \notin Holding /\ pc'[c] \notin Holding /\ Turn(c)
      BY <2>0, <2>7 DEF Report, GiveUp, ForgetSession, GoTo, Holding
    <3>2. AtWork = {} /\ AtWork' = {}
      BY <2>0, <3>1, AtWorkNow, AtWorkThen
    <3>3. InBackoff'
      BY <2>7, ReportedRests DEF Report
    <3>4. Source!GiveUp
      BY <3>1, <3>2, <3>3 DEF Source!GiveUp
    <3> QED
      BY <3>4 DEF Source!Next
  <2>8. CASE Answered(c) \/ Crashed(c)
    <3>1. /\ UNCHANGED <<session, tools, failures, sinceFailure>>
          /\ tool' = [tool EXCEPT ![c] = None] /\ tool[c] # None
          /\ pc[c] \notin Holding
      BY <2>8 DEF Answered, Crashed, Drop, Holding, SourceInv
    <3>2. pc'[c] \notin Holding
      BY <2>8, FailedHasNoTool, EndedHasNoTool DEF Answered, Crashed
    <3>3. AtWork' = AtWork
      BY <2>0, <3>1, <3>2, AtWorkThen
    <3>4. Source!Return(c)
      BY <3>1, <3>3 DEF Source!Return, InBackoff
    <3> QED
      BY <3>4 DEF Source!Next
  <2>9. CASE TimedOut(c)
    <3>1. /\ UNCHANGED <<session, tools, failures, sinceFailure>>
          /\ tool' = [tool EXCEPT ![c] = None] /\ pc'[c] \notin Holding
      BY <2>9, FailedHasNoTool DEF TimedOut, Drop
    <3>2. CASE pc[c] = "invoking"
      <4>1. tool[c] # None /\ AtWork' = AtWork
        BY <2>0, <3>1, <3>2, AtWorkThen DEF SourceInv, Holding
      <4>2. Source!Return(c)
        BY <3>1, <4>1 DEF Source!Return, InBackoff
      <4> QED
        BY <4>2 DEF Source!Next
    <3>3. CASE pc[c] # "invoking"
      <4>1. tool' = tool
        BY <2>0, <3>1, <3>3 DEF SourceInv
      <4>2. CASE pc[c] \in Holding
        <5>1. AtWork = {c} /\ AtWork' = {}
          BY <2>0, <3>1, <4>2, AtWorkNow, AtWorkThen
        <5>2. Source!Abandon(c)
          BY <3>1, <4>1, <5>1 DEF Source!Abandon, InBackoff
        <5> QED
          BY <5>2 DEF Source!Next
      <4>3. CASE pc[c] \notin Holding
        <5>1. AtWork' = AtWork
          BY <2>0, <3>1, <4>3, AtWorkThen
        <5> QED
          BY <3>1, <4>1, <5>1 DEF Source!vars, InBackoff
      <4> QED
        BY <4>2, <4>3
    <3> QED
      BY <3>2, <3>3
  <2> QED
    BY <1>1, <2>1, <2>2, <2>3, <2>4, <2>5, <2>6, <2>7, <2>8, <2>9
       DEF Progress, Begin, WithLock, Outcome
<1>2. CASE OtherWantsLock \/ OtherIsDone \/ Break \/ Heal \/ UNCHANGED vars
  BY <1>2 DEF OtherWantsLock, OtherIsDone, Break, Heal, vars, managerVars, callVars,
              Source!vars, InBackoff, AtWork
<1>3. CASE Tick
  <2>1. UNCHANGED <<pc, tool, session, tools, failures>>
    BY <1>3 DEF Tick, callVars
  <2>2. AtWork' = AtWork
    BY <2>1 DEF AtWork
  <2>3. ~InBackoff => ~InBackoff'
    BY <1>3, NoNewRest
  <2>4. CASE InBackoff /\ ~InBackoff'
    <3>1. Source!RestOver
      BY <2>1, <2>2, <2>4 DEF Source!RestOver
    <3> QED
      BY <3>1 DEF Source!Next
  <2>5. CASE InBackoff' = InBackoff
    BY <2>1, <2>2, <2>5 DEF Source!vars
  <2> QED
    BY <2>3, <2>4, <2>5 DEF InBackoff
<1> QED
  BY <1>1, <1>2, <1>3 DEF Next

LEMMA SourceInit == Init => SourceInv /\ Source!Init
<1> SUFFICES ASSUME Init
             PROVE  SourceInv /\ Source!Init
  OBVIOUS
<1>1. pc = [c \in Callers |-> "idle"] /\ tool = [c \in Callers |-> None] /\ failures = 0
      /\ session = None /\ tools = None
  BY DEF Init
<1>2. AtWork = {} /\ ~InBackoff
  BY <1>1 DEF AtWork, InBackoff
<1> QED
  BY <1>1, <1>2 DEF SourceInv, Source!Init, Holding

\* To those who ask for tools the manager is a ToolSource, for all callers,
\* retries, back-offs and configurations of the breaker: one caller at a time
\* opens a session and loads tools, never in back-off, a reported crash always
\* starts a rest, and every tool that is handed out belongs to the session that
\* is in use at that moment, with or without the lock.
THEOREM ImplementsToolSource == Spec => KeepsToolSource
BY SourceInit, SourceStep, SourceSimulates, LockHolds, TypesHold, PTL
   DEF Spec, KeepsToolSource, Source!Spec
=============================================================================
