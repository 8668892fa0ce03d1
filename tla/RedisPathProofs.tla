-------------------------- MODULE RedisPathProofs --------------------------
(***************************************************************************)
(* Proofs about RedisPath: the windows of the rate limiter for every limit, *)
(* window, time-out and number of workers, and the answers of the hybrid   *)
(* cache for every time to live.                                           *)
(***************************************************************************)
EXTENDS RedisPath, TLAPS

LEMMA Constants ==
    /\ max_requests \in Nat \ {0} /\ emergency_limit \in Nat \ {0}
    /\ Window \in Nat \ {0} /\ Second \in Nat \ {0} /\ Timeout \in Nat
    /\ Timeout <= Window
    /\ Gone \in Nat /\ Gone >= Window /\ Gone = Window + Timeout
BY LimiterAssumption DEF Gone

-----------------------------------------------------------------------------
(* Records of stamps.                                                      *)

Sorted(record, n) == \A i \in 2..n : record[i - 1] <= record[i]

LEMMA NoStampsSorted ==
    ASSUME NEW n \in Nat
    PROVE  NoStamps(n) \in Record(n) /\ Sorted(NoStamps(n), n)
BY Constants DEF NoStamps, Record, Sorted

LEMMA StampedRecord ==
    ASSUME NEW n \in Nat, NEW r \in Record(n), NEW age \in 0..Gone
    PROVE  Stamped(r, age) \in Record(n)
<1> USE Constants DEF Record
<1>1. ASSUME NEW i \in 1..n
      PROVE  /\ r[i] \in 0..Gone
             /\ i # 1 => r[i - 1] \in 0..Gone
  OBVIOUS
<1> QED
  BY <1>1 DEF Stamped

\* One more stamp makes no stamp older, and keeps the order.
LEMMA StampedYounger ==
    ASSUME NEW n \in Nat, NEW r \in Record(n), NEW age \in 0..Gone, Sorted(r, n)
    PROVE  /\ \A i \in 1..n : Stamped(r, age)[i] <= r[i]
           /\ Sorted(Stamped(r, age), n)
<1> USE Constants DEF Record, Sorted
<1>1. ASSUME NEW i \in 1..n
      PROVE  Stamped(r, age)[i] <= r[i]
  <2>1. i # 1 => r[i - 1] \in 0..Gone /\ r[i - 1] <= r[i]
    OBVIOUS
  <2> QED
    BY <2>1 DEF Stamped
<1>2. ASSUME NEW i \in 2..n
      PROVE  Stamped(r, age)[i - 1] <= Stamped(r, age)[i]
  <2>1. /\ i \in 1..n /\ i - 1 \in 1..n /\ i # 1
        /\ r[i] \in 0..Gone /\ r[i - 1] \in 0..Gone /\ r[i - 1] <= r[i]
    OBVIOUS
  <2>2. i - 1 # 1 => i - 1 \in 2..n /\ r[i - 2] \in 0..Gone /\ r[i - 2] <= r[i - 1]
    <3> SUFFICES ASSUME i - 1 # 1
                 PROVE  /\ i - 1 \in 2..n /\ i - 2 \in 1..n
                        /\ r[i - 2] <= r[i - 1]
      OBVIOUS
    <3>1. i - 1 \in 2..n /\ i - 2 \in 1..n /\ (i - 1) - 1 = i - 2
      OBVIOUS
    <3> QED
      BY <3>1
  <2>3. Stamped(r, age)[i] = IF r[i] <= age THEN r[i]
                             ELSE IF r[i - 1] <= age THEN age ELSE r[i - 1]
    BY <2>1 DEF Stamped
  <2>4. Stamped(r, age)[i - 1] = IF r[i - 1] <= age THEN r[i - 1]
                                 ELSE IF i - 1 = 1 \/ r[i - 2] <= age THEN age
                                 ELSE r[i - 2]
    <3>1. (i - 1) - 1 = i - 2
      OBVIOUS
    <3> QED
      BY <2>1, <3>1 DEF Stamped
  <2> QED
    BY <2>1, <2>2, <2>3, <2>4
<1> QED
  BY <1>1, <1>2

LEMMA AgedRecord ==
    ASSUME NEW n \in Nat, NEW r \in Record(n), Sorted(r, n), NEW limit \in 0..Gone
    PROVE  Aged(r, limit) \in Record(n) /\ Sorted(Aged(r, limit), n)
<1> USE Constants DEF Record, Sorted
<1>1. ASSUME NEW i \in 1..n
      PROVE  Aged(r, limit)[i] = (IF r[i] + 1 < limit THEN r[i] + 1 ELSE Gone)
             /\ r[i] \in 0..Gone
  BY DEF Aged
<1>2. Aged(r, limit) \in Record(n)
  BY <1>1 DEF Aged
<1>3. ASSUME NEW i \in 2..n
      PROVE  Aged(r, limit)[i - 1] <= Aged(r, limit)[i]
  <2>1. i - 1 \in 1..n /\ i \in 1..n /\ r[i - 1] <= r[i]
    OBVIOUS
  <2>2. Aged(r, limit)[i] = (IF r[i] + 1 < limit THEN r[i] + 1 ELSE Gone) /\ r[i] \in 0..Gone
    BY <2>1, <1>1
  <2>3. /\ Aged(r, limit)[i - 1] = (IF r[i - 1] + 1 < limit THEN r[i - 1] + 1 ELSE Gone)
        /\ r[i - 1] \in 0..Gone
    BY <2>1, <1>1
  <2> QED
    BY <2>1, <2>2, <2>3
<1> QED
  BY <1>2, <1>3

-----------------------------------------------------------------------------
(* The window that Redis keeps.                                            *)

Asking == [request : Requests, age : 0..Timeout, verdict : {"none", "passed", "refused"}]

\* The i-th youngest stamp in Redis of the watched name is hardly older than
\* the i-th youngest admission that was counted: each left a stamp, made at most
\* one time-out before, which is removed only when it is out of the window.
Covers(record, adm) ==
    \A i \in 1..max_requests : record[i] <= adm[i] + Timeout \/ adm[i] >= Window - Timeout

StampsCoverAdmissions == watched \in Names => Covers(redis[watched], admitted)

WindowInv ==
    /\ asking \in [Workers -> Asking \cup {NoRequest}]
    /\ question \in Question
    /\ redis \in [Names -> Record(max_requests)]
    /\ \A k \in Names : Sorted(redis[k], max_requests)
    /\ admitted \in Record(max_requests + 1)
    /\ StampsCoverAdmissions
    /\ RedisWindowKept

LEMMA WindowInit == Init => WindowInv
<1> SUFFICES ASSUME Init
             PROVE  WindowInv
  OBVIOUS
<1> USE Constants DEF Init, LimiterInit
<1>1. NoStamps(max_requests) \in Record(max_requests)
      /\ Sorted(NoStamps(max_requests), max_requests)
  BY NoStampsSorted
<1>2. NoStamps(max_requests + 1) \in Record(max_requests + 1)
  BY NoStampsSorted
<1>3. StampsCoverAdmissions
  BY DEF StampsCoverAdmissions, Covers, NoStamps
<1>4. RedisWindowKept
  BY DEF RedisWindowKept, NoStamps
<1> QED
  BY <1>1, <1>2, <1>3, <1>4 DEF WindowInv

\* A stamp of an age up to the time-out for an admission now.
LEMMA AdmissionCovered ==
    ASSUME NEW r \in Record(max_requests), NEW adm \in Record(max_requests + 1),
           Sorted(r, max_requests), Covers(r, adm), NEW age \in 0..Timeout
    PROVE  Covers(Stamped(r, age), Stamped(adm, 0))
<1> USE Constants
<1> SUFFICES ASSUME NEW i \in 1..max_requests
             PROVE  \/ Stamped(r, age)[i] <= Stamped(adm, 0)[i] + Timeout
                    \/ Stamped(adm, 0)[i] >= Window - Timeout
  BY DEF Covers
<1>1. /\ r[i] \in 0..Gone /\ adm[i] \in 0..Gone
      /\ r[i] <= adm[i] + Timeout \/ adm[i] >= Window - Timeout
      /\ i # 1 => /\ r[i - 1] \in 0..Gone /\ adm[i - 1] \in 0..Gone /\ r[i - 1] <= r[i]
                  /\ r[i - 1] <= adm[i - 1] + Timeout \/ adm[i - 1] >= Window - Timeout
  <2>1. i \in 1..(max_requests + 1)
    OBVIOUS
  <2>2. i # 1 => i \in 2..max_requests /\ i - 1 \in 1..max_requests
                 /\ i - 1 \in 1..(max_requests + 1)
    OBVIOUS
  <2> QED
    BY <2>1, <2>2 DEF Record, Sorted, Covers
<1>2. Stamped(r, age)[i] = IF r[i] <= age THEN r[i]
                           ELSE IF i = 1 \/ r[i - 1] <= age THEN age ELSE r[i - 1]
  BY DEF Stamped, Record
<1>3. Stamped(adm, 0)[i] = IF adm[i] <= 0 THEN adm[i]
                           ELSE IF i = 1 \/ adm[i - 1] <= 0 THEN 0 ELSE adm[i - 1]
  BY DEF Stamped, Record
<1> QED
  BY <1>1, <1>2, <1>3

\* Stamps that are removed were out of the window.
LEMMA RemovedRecord ==
    ASSUME NEW r \in Record(max_requests), Sorted(r, max_requests), NEW age \in 0..Timeout
    PROVE  /\ Removed(r, age) \in Record(max_requests) /\ Sorted(Removed(r, age), max_requests)
           /\ \A i \in 1..max_requests :
                 Removed(r, age)[i] = r[i] \/ r[i] >= Window + age
<1> USE Constants
<1>1. ASSUME NEW i \in 1..max_requests
      PROVE  r[i] \in 0..Gone
             /\ Removed(r, age)[i] = IF r[i] < Window + age THEN r[i] ELSE Gone
  BY DEF Removed, Record
<1>2. Removed(r, age) \in Record(max_requests)
  BY <1>1 DEF Removed, Record
<1>3. ASSUME NEW i \in 2..max_requests
      PROVE  Removed(r, age)[i - 1] <= Removed(r, age)[i]
  <2>1. i \in 1..max_requests /\ i - 1 \in 1..max_requests /\ r[i - 1] <= r[i]
    BY DEF Sorted
  <2>2. /\ r[i] \in 0..Gone
        /\ Removed(r, age)[i] = IF r[i] < Window + age THEN r[i] ELSE Gone
    BY <1>1, <2>1
  <2>3. /\ r[i - 1] \in 0..Gone
        /\ Removed(r, age)[i - 1] = IF r[i - 1] < Window + age THEN r[i - 1] ELSE Gone
    BY <1>1, <2>1
  <2> QED
    BY <2>1, <2>2, <2>3
<1> QED
  BY <1>1, <1>2, <1>3 DEF Sorted

LEMMA RemovedCovers ==
    ASSUME NEW r \in Record(max_requests), NEW adm \in Record(max_requests + 1),
           Sorted(r, max_requests), Covers(r, adm), NEW age \in 0..Timeout
    PROVE  Covers(Removed(r, age), adm)
<1> USE Constants
<1> SUFFICES ASSUME NEW i \in 1..max_requests
             PROVE  Removed(r, age)[i] <= adm[i] + Timeout \/ adm[i] >= Window - Timeout
  BY DEF Covers
<1>1. /\ r[i] \in 0..Gone /\ adm[i] \in 0..Gone
      /\ r[i] <= adm[i] + Timeout \/ adm[i] >= Window - Timeout
  <2>1. i \in 1..(max_requests + 1)
    OBVIOUS
  <2> QED
    BY <2>1 DEF Record, Covers
<1>2. Removed(r, age)[i] = r[i] \/ r[i] >= Window + age
  BY RemovedRecord
<1> QED
  BY <1>1, <1>2

\* Younger stamps cover what older ones do.
LEMMA YoungerCovers ==
    ASSUME NEW r \in Record(max_requests), NEW s \in Record(max_requests),
           NEW adm \in Record(max_requests + 1), Covers(r, adm),
           \A i \in 1..max_requests : s[i] <= r[i]
    PROVE  Covers(s, adm)
<1> USE Constants
<1> SUFFICES ASSUME NEW i \in 1..max_requests
             PROVE  s[i] <= adm[i] + Timeout \/ adm[i] >= Window - Timeout
  BY DEF Covers
<1>1. /\ r[i] \in 0..Gone /\ s[i] \in 0..Gone /\ adm[i] \in 0..Gone /\ s[i] <= r[i]
      /\ r[i] <= adm[i] + Timeout \/ adm[i] >= Window - Timeout
  <2>1. i \in 1..(max_requests + 1)
    OBVIOUS
  <2> QED
    BY <2>1 DEF Record, Covers
<1> QED
  BY <1>1

LEMMA RunKeepsWindow ==
    ASSUME WindowInv, NEW w \in Workers, RunPipeline(w), UNCHANGED question
    PROVE  WindowInv'
<1> USE Constants DEF WindowInv
<1>1. asking[w] \in Asking /\ asking[w].age \in 0..Timeout /\ asking[w].age \in 0..Gone
      /\ Request(w) \in Requests
  BY DEF RunPipeline, Awaits, Asking, Request
<1>2. asking' \in [Workers -> Asking \cup {NoRequest}]
  <2>1. Verdict(w) \in {"none", "passed", "refused"}
    BY DEF Verdict
  <2> QED
    BY <1>1, <2>1 DEF RunPipeline, Asking
<1>3. KeysOf(Request(w)) \subseteq Names
  BY <1>1 DEF KeysOf, Requests, Names
<1> DEFINE Left(k) == Removed(redis[k], asking[w].age)
           Stamp(k) == Stamped(Left(k), asking[w].age)
<1>4. ASSUME NEW k \in Names
      PROVE  /\ Left(k) \in Record(max_requests) /\ Sorted(Left(k), max_requests)
             /\ Stamp(k) \in Record(max_requests) /\ Sorted(Stamp(k), max_requests)
             /\ \A i \in 1..max_requests : Stamp(k)[i] <= Left(k)[i]
  <2>1. redis[k] \in Record(max_requests) /\ Sorted(redis[k], max_requests)
    OBVIOUS
  <2>2. Left(k) \in Record(max_requests) /\ Sorted(Left(k), max_requests)
    BY <1>1, <2>1, RemovedRecord
  <2> HIDE DEF Left
  <2> QED
    BY <1>1, <2>2, StampedRecord, StampedYounger
<1>5. PICK same \in Coincidences(w) :
         /\ redis' = [k \in Names |-> IF k \notin KeysOf(Request(w)) THEN redis[k]
                                      ELSE IF k \in same THEN Left(k) ELSE Stamp(k)]
         /\ admitted' = IF watched \in KeysOf(Request(w)) \ same /\ Verdict(w) = "passed"
                        THEN Stamped(admitted, 0) ELSE admitted
  BY DEF RunPipeline, zadd
<1>6. redis' \in [Names -> Record(max_requests)]
      /\ \A k \in Names : Sorted(redis'[k], max_requests)
  <2> HIDE DEF Left, Stamp
  <2> QED
    BY <1>4, <1>5
<1>9. watched' = watched
  BY DEF RunPipeline
<1>10. watched \in Names => Covers(Left(watched), admitted)
  BY <1>1, RemovedCovers DEF StampsCoverAdmissions
<1>7. CASE watched \in KeysOf(Request(w)) \ same /\ Verdict(w) = "passed"
  <2>1. admitted' = Stamped(admitted, 0) /\ redis'[watched] = Stamp(watched)
        /\ watched \in Names
    BY <1>3, <1>5, <1>7
  <2>2. admitted' \in Record(max_requests + 1)
    BY <2>1, StampedRecord
  <2>3. StampsCoverAdmissions'
    <3>1. Left(watched) \in Record(max_requests) /\ Sorted(Left(watched), max_requests)
      BY <1>4, <2>1
    <3> HIDE DEF Left
    <3> QED
      BY <1>1, <1>9, <1>10, <2>1, <3>1, AdmissionCovered DEF StampsCoverAdmissions
  <2>4. RedisWindowKept'
    <3>1. redis[watched][max_requests] >= Window + asking[w].age
      <4>1. ~Full(redis[watched], max_requests, asking[w].age)
        BY <1>7 DEF Verdict
      <4>2. redis[watched][max_requests] \in 0..Gone
        BY <2>1 DEF Record
      <4> QED
        BY <1>1, <4>1, <4>2 DEF Full
    <3>2. \/ redis[watched][max_requests] <= admitted[max_requests] + Timeout
          \/ admitted[max_requests] >= Window - Timeout
      BY <2>1 DEF StampsCoverAdmissions, Covers
    <3>3. /\ admitted[max_requests] \in 0..Gone /\ admitted[max_requests + 1] \in 0..Gone
          /\ redis[watched][max_requests] \in 0..Gone
      BY <2>1 DEF Record
    <3>4. admitted[max_requests] >= Window - Timeout
      BY <1>1, <3>1, <3>2, <3>3
    <3>5. admitted'[max_requests + 1] =
            IF admitted[max_requests + 1] <= 0 THEN admitted[max_requests + 1]
            ELSE IF admitted[max_requests] <= 0 THEN 0 ELSE admitted[max_requests]
      BY <2>1 DEF Stamped, Record
    <3> QED
      BY <3>3, <3>4, <3>5 DEF RedisWindowKept
  <2> QED
    BY <1>2, <1>6, <2>2, <2>3, <2>4
<1>8. CASE ~(watched \in KeysOf(Request(w)) \ same /\ Verdict(w) = "passed")
  <2>1. UNCHANGED <<admitted, watched>>
    BY <1>5, <1>8, <1>9
  <2>2. RedisWindowKept'
    BY <2>1 DEF RedisWindowKept
  <2>3. StampsCoverAdmissions'
    <3> SUFFICES ASSUME watched \in Names
                 PROVE  Covers(redis'[watched], admitted)
      BY <2>1 DEF StampsCoverAdmissions
    <3>1. Covers(redis[watched], admitted)
      BY DEF StampsCoverAdmissions
    <3>2. redis'[watched] \in {redis[watched], Left(watched), Stamp(watched)}
      <4> HIDE DEF Left, Stamp
      <4> QED
        BY <1>5
    <3>3. Covers(Stamp(watched), admitted)
      <4> HIDE DEF Left, Stamp
      <4> QED
        BY <1>4, <1>10, YoungerCovers
    <3> QED
      BY <1>10, <3>1, <3>2, <3>3
  <2> QED
    BY <1>2, <1>6, <2>1, <2>2, <2>3
<1> QED
  BY <1>7, <1>8

LEMMA TickKeepsWindow ==
    ASSUME WindowInv, LimiterTick, UNCHANGED question
    PROVE  WindowInv'
<1> USE Constants DEF WindowInv
<1>1. asking' \in [Workers -> Asking \cup {NoRequest}]
  BY DEF LimiterTick, Asking
<1>2. redis' \in [Names -> Record(max_requests)]
      /\ \A k \in Names : Sorted(redis'[k], max_requests)
  BY AgedRecord DEF LimiterTick
<1>3. /\ admitted' = [i \in 1..(max_requests + 1) |->
                         IF admitted[i] + 1 < Gone THEN admitted[i] + 1 ELSE Gone]
      /\ \A i \in 1..(max_requests + 1) : admitted[i] \in 0..Gone
  BY DEF LimiterTick, Aged, Record
<1>4. admitted' \in Record(max_requests + 1)
  BY <1>3 DEF Record
<1>5. StampsCoverAdmissions'
  <2> SUFFICES ASSUME watched \in Names, NEW i \in 1..max_requests
               PROVE  \/ redis'[watched][i] <= admitted'[i] + Timeout
                      \/ admitted'[i] >= Window - Timeout
    BY DEF LimiterTick, StampsCoverAdmissions, Covers
  <2>1. redis[watched] \in Record(max_requests)
    OBVIOUS
  <2>2. redis[watched][i] \in 0..Gone
    BY <2>1 DEF Record
  <2>3. redis'[watched][i] = IF redis[watched][i] + 1 < Gone
                             THEN redis[watched][i] + 1 ELSE Gone
    BY <2>1 DEF LimiterTick, Aged, Record
  <2>4. redis[watched][i] <= admitted[i] + Timeout \/ admitted[i] >= Window - Timeout
    BY DEF StampsCoverAdmissions, Covers
  <2>5. i \in 1..(max_requests + 1)
    OBVIOUS
  <2> QED
    BY <1>3, <2>2, <2>3, <2>4, <2>5
<1>6. RedisWindowKept'
  BY <1>3 DEF RedisWindowKept
<1> QED
  BY <1>1, <1>2, <1>4, <1>5, <1>6 DEF LimiterTick

\* Steps that neither stamp nor age, but may begin or end a pipeline.
LEMMA OthersKeepWindow ==
    ASSUME WindowInv, UNCHANGED <<redis, watched, admitted, question>>,
           asking' \in [Workers -> Asking \cup {NoRequest}]
    PROVE  WindowInv'
BY DEF WindowInv, StampsCoverAdmissions, RedisWindowKept

LEMMA AsksAreTyped ==
    ASSUME WindowInv, NEW w \in Workers, NEW R \in SUBSET Requests,
           \/ \E r \in R : Dispatch(w, r) \/ Ask(w, r)
           \/ ReceiveVerdict(w) \/ LoseRedis(w) \/ RestartLimiter(w)
    PROVE  /\ asking' \in [Workers -> Asking \cup {NoRequest}]
           /\ UNCHANGED <<redis, watched, admitted>>
<1> USE Constants DEF WindowInv, Asking
<1>1. ASSUME NEW r \in R, Dispatch(w, r) \/ Ask(w, r)
      PROVE  /\ asking' \in [Workers -> Asking \cup {NoRequest}]
             /\ UNCHANGED <<redis, watched, admitted>>
  BY <1>1 DEF Dispatch, Ask
<1>2. CASE ReceiveVerdict(w) \/ LoseRedis(w) \/ RestartLimiter(w)
  BY <1>2 DEF ReceiveVerdict, LoseRedis, RestartLimiter
<1> QED
  BY <1>1, <1>2

LEMMA WindowStep == WindowInv /\ [Next]_vars => WindowInv'
<1> SUFFICES ASSUME WindowInv, [Next]_vars
             PROVE  WindowInv'
  OBVIOUS
<1>0. Ordinary \in SUBSET Requests /\ Requests \in SUBSET Requests
  BY DEF Ordinary
<1>1. ASSUME NEW w \in Workers, NEW R \in SUBSET Requests, LimiterStep(w, R), UNCHANGED question
      PROVE  WindowInv'
  <2>1. CASE RunPipeline(w)
    BY <1>1, <2>1, RunKeepsWindow
  <2>2. CASE (\E r \in R : Dispatch(w, r) \/ Ask(w, r)) \/ ReceiveVerdict(w)
    BY <1>1, <2>2, AsksAreTyped, OthersKeepWindow
  <2> QED
    BY <1>1, <2>1, <2>2 DEF LimiterStep
<1>2. ASSUME NEW w \in Workers, LoseRedis(w) \/ RestartLimiter(w), UNCHANGED question
      PROVE  WindowInv'
  BY <1>0, <1>2, AsksAreTyped, OthersKeepWindow
<1>3. CASE UNCHANGED question /\ (SharedLimits \/ LimitsOfOne)
  BY <1>0, <1>1, <1>2, <1>3, TickKeepsWindow DEF SharedLimits, LimitsOfOne
<1>4. ASSUME UNCHANGED <<limiterVars, question>>
      PROVE  WindowInv'
  BY <1>4, OthersKeepWindow DEF WindowInv, limiterVars
<1>5. CASE UNCHANGED question /\ Caching
  BY <1>4, <1>5 DEF Caching
<1>6. ASSUME NEW w \in Workers, UNCHANGED question, OtherLosesRedis(w)
      PROVE  WindowInv'
  BY <1>4, <1>6 DEF OtherLosesRedis
<1>7. ASSUME NEW w \in Workers, UNCHANGED question, Restart(w)
      PROVE  WindowInv'
  BY <1>2, <1>7 DEF Restart
<1>8. CASE UNCHANGED vars
  BY <1>4, <1>8 DEF vars
<1> QED
  BY <1>3, <1>5, <1>6, <1>7, <1>8 DEF Next

\* Redis keeps the window for requests of distinct times, for every limit and
\* number of workers, however their pipelines are delayed, overtake each other,
\* remove stamps or are lost.
THEOREM RedisKeepsWindow == Spec => []RedisWindowKept
<1>1. WindowInv => RedisWindowKept
  BY DEF WindowInv
<1> QED
  BY <1>1, WindowInit, WindowStep, PTL DEF Spec

-----------------------------------------------------------------------------
(* What the cache answers.                                                 *)

Calls == [at : Cache!Steps, scope : Scopes \cup {NoEntry},
          data : Cache!Data \cup {NoEntry}, waited : 0..Timeout]

\* An entry was fetched for its scope, and what it has left keeps it from
\* getting older than it may: the time in which it waited to be written was at
\* most one time-out.
Fresh(entry, s) ==
    entry # NoEntry =>
        /\ entry.data.owner = s
        /\ entry.data.age + entry.left <= TTL + Timeout

CacheInv ==
    /\ remote \in [Scopes -> Cache!Entry \cup {NoEntry}]
    /\ in_memory \in [Workers -> [Scopes -> Cache!Entry \cup {NoEntry}]]
    /\ call \in [Workers -> Calls]
    /\ \A s \in Scopes : Fresh(remote[s], s) /\ \A w \in Workers : Fresh(in_memory[w][s], s)
    /\ \A w \in Workers :
          call[w].at = "writing" => /\ call[w].data \in Cache!Data
                                    /\ call[w].data.owner = call[w].scope
                                    /\ call[w].data.age <= call[w].waited
    /\ AnswersOwnAndFresh

LEMMA CacheConstants == TTL \in Nat \ {0} /\ Timeout \in Nat /\ Cache!Oldest = TTL + Timeout + 1
BY CacheAssumption, LimiterAssumption DEF Cache!Oldest

LEMMA CacheInit == Init => CacheInv
BY CacheConstants
   DEF Init, Cache!CacheInit, Cache!Empty, Cache!Idle, CacheInv, Calls, Cache!Steps, Fresh,
       AnswersOwnAndFresh, Cache!AnswersOwnAndFresh

\* What is read from a store, or stored, in a call of s.
LEMMA EntryGood ==
    ASSUME NEW s \in Scopes, NEW e \in Cache!Entry \cup {NoEntry}, Fresh(e, s), e # NoEntry
    PROVE  e.data \in Cache!Data /\ e.data.owner = s /\ e.data.age <= TTL + Timeout
BY CacheConstants DEF Fresh, Cache!Entry, Cache!Data

LEMMA KeptGood ==
    ASSUME NEW s \in Scopes, NEW d \in Cache!Data, d.owner = s, d.age <= Timeout
    PROVE  Cache!Kept(d) \in Cache!Entry /\ Fresh(Cache!Kept(d), s)
BY CacheConstants DEF Fresh, Cache!Entry, Cache!Data, Cache!Kept

LEMMA AgingGood ==
    ASSUME NEW s \in Scopes, NEW e \in Cache!Entry \cup {NoEntry}, Fresh(e, s)
    PROVE  /\ Cache!Aging(e) \in Cache!Entry \cup {NoEntry}
           /\ Fresh(Cache!Aging(e), s)
<1> USE CacheConstants
<1>1. CASE e = NoEntry \/ e.left = 1
  BY <1>1 DEF Cache!Aging, Fresh
<1>2. CASE ~(e = NoEntry \/ e.left = 1)
  <2>1. /\ e.data.age \in 0..Cache!Oldest /\ e.left \in 2..TTL /\ e.data.owner = s
        /\ e.data.age + e.left <= TTL + Timeout /\ e.data \in Cache!Data
    BY <1>2 DEF Fresh, Cache!Entry, Cache!Data
  <2>2. Cache!Older(e.data) \in Cache!Data /\ Cache!Older(e.data).owner = s
        /\ Cache!Older(e.data).age = e.data.age + 1
    BY <2>1 DEF Cache!Older, Cache!Data
  <2>3. Cache!Aging(e) = [data |-> Cache!Older(e.data), left |-> e.left - 1]
    BY <1>2 DEF Cache!Aging
  <2> QED
    BY <2>1, <2>2, <2>3 DEF Fresh, Cache!Entry
<1> QED
  BY <1>1, <1>2

LEMMA LookKeeps ==
    ASSUME CacheInv, NEW w \in Workers, NEW s \in Scopes, Cache!LookInMemory(w, s),
           UNCHANGED <<remote, in_memory>>
    PROVE  CacheInv'
<1> USE CacheConstants DEF CacheInv
<1>1. CASE in_memory[w][s] # NoEntry /\ Cache!Answer(w, s, in_memory[w][s].data)
  <2>1. in_memory[w][s].data.owner = s /\ in_memory[w][s].data.age <= TTL + Timeout
    BY <1>1, EntryGood
  <2>2. AnswersOwnAndFresh'
    BY <1>1, <2>1 DEF Cache!Answer, AnswersOwnAndFresh, Cache!AnswersOwnAndFresh
  <2>3. /\ call' \in [Workers -> Calls]
        /\ \A v \in Workers : call'[v].at = "writing" => call'[v] = call[v]
    BY <1>1 DEF Cache!Answer, Cache!Idle, Calls, Cache!Steps
  <2> QED
    BY <2>2, <2>3
<1>2. CASE Cache!Go(w, s, "fetching", NoEntry)
  <2>1. AnswersOwnAndFresh'
    BY <1>2 DEF Cache!Go, AnswersOwnAndFresh, Cache!AnswersOwnAndFresh
  <2>2. /\ call' \in [Workers -> Calls]
        /\ \A v \in Workers : call'[v].at = "writing" => call'[v] = call[v]
    BY <1>2 DEF Cache!Go, Calls, Cache!Steps
  <2> QED
    BY <2>1, <2>2
<1> QED
  BY <1>1, <1>2 DEF Cache!LookInMemory, Cache!MemoryKey

\* The last step of a fetch: stored in memory, and answered.
LEMMA FinishKeeps ==
    ASSUME CacheInv, NEW w \in Workers, NEW s \in Scopes, NEW d \in Cache!Data,
           d.owner = s, d.age <= Timeout, Cache!Finish(w, s, d),
           remote' = remote \/ remote' = [remote EXCEPT ![s] = Cache!Kept(d)]
    PROVE  CacheInv'
<1> USE CacheConstants DEF CacheInv
<1>1. Cache!Kept(d) \in Cache!Entry /\ Fresh(Cache!Kept(d), s)
  BY KeptGood
<1>2. /\ remote' \in [Scopes -> Cache!Entry \cup {NoEntry}]
      /\ \A u \in Scopes : Fresh(remote'[u], u)
  BY <1>1
<1>3. /\ in_memory' \in [Workers -> [Scopes -> Cache!Entry \cup {NoEntry}]]
      /\ \A u \in Scopes, v \in Workers : Fresh(in_memory'[v][u], u)
  BY <1>1 DEF Cache!Finish, Cache!MemoryKey
<1>4. /\ call' \in [Workers -> Calls]
      /\ \A v \in Workers : call'[v].at = "writing" => call'[v] = call[v]
  BY DEF Cache!Finish, Cache!Answer, Cache!Idle, Calls, Cache!Steps
<1>5. AnswersOwnAndFresh'
  BY DEF Cache!Finish, Cache!Answer, AnswersOwnAndFresh, Cache!AnswersOwnAndFresh, Cache!Data
<1> QED
  BY <1>2, <1>3, <1>4, <1>5

LEMMA FetchedKeeps ==
    ASSUME CacheInv, NEW w \in Workers, NEW s \in Scopes, NEW large \in BOOLEAN,
           Cache!Fetched(w, s, large)
    PROVE  CacheInv'
<1> USE CacheConstants
<1> DEFINE d == [owner |-> s, age |-> 0]
<1>1. d \in Cache!Data /\ d.owner = s /\ d.age = 0
  BY DEF Cache!Data
<1>2. CASE use_redis[w] /\ ~large
  <2>1. /\ in_memory' = [in_memory EXCEPT ![w][s] = Cache!Kept(d)]
        /\ Cache!Go(w, s, "writing", d)
        /\ remote' = remote
    BY <1>2 DEF Cache!Fetched, Cache!MemoryKey
  <2>2. Cache!Kept(d) \in Cache!Entry /\ Fresh(Cache!Kept(d), s)
    BY <1>1, KeptGood
  <2> HIDE DEF d
  <2>3. /\ in_memory' \in [Workers -> [Scopes -> Cache!Entry \cup {NoEntry}]]
        /\ \A u \in Scopes, v \in Workers : Fresh(in_memory'[v][u], u)
    BY <2>1, <2>2 DEF CacheInv
  <2>4. call' \in [Workers -> Calls]
    BY <1>1, <2>1 DEF CacheInv, Cache!Go, Calls, Cache!Steps
  <2>5. \A v \in Workers :
          call'[v].at = "writing" => /\ call'[v].data \in Cache!Data
                                     /\ call'[v].data.owner = call'[v].scope
                                     /\ call'[v].data.age <= call'[v].waited
    BY <1>1, <2>1 DEF CacheInv, Cache!Go
  <2>6. AnswersOwnAndFresh'
    BY <2>1 DEF Cache!Go, AnswersOwnAndFresh, Cache!AnswersOwnAndFresh
  <2> QED
    BY <2>1, <2>3, <2>4, <2>5, <2>6 DEF CacheInv
<1>3. CASE ~(use_redis[w] /\ ~large)
  <2>1. Cache!Finish(w, s, d) /\ remote' = remote
    BY <1>3 DEF Cache!Fetched
  <2> HIDE DEF d
  <2> QED
    BY <1>1, <2>1, FinishKeeps
<1> QED
  BY <1>2, <1>3

LEMMA WriteKeeps ==
    ASSUME CacheInv, NEW w \in Workers, NEW s \in Scopes,
           Cache!WriteRedis(w, s) \/ Cache!WriteFails(w, s)
    PROVE  CacheInv'
<1> DEFINE d == call[w].data
<1>1. d \in Cache!Data /\ d.owner = s /\ d.age <= Timeout
  BY CacheConstants
     DEF CacheInv, Cache!WriteRedis, Cache!WriteFails, Cache!At, Calls, Cache!Data
<1>2. /\ Cache!Finish(w, s, d)
      /\ remote' = remote \/ remote' = [remote EXCEPT ![s] = Cache!Kept(d)]
  BY DEF Cache!WriteRedis, Cache!WriteFails, Cache!RedisKey
<1> HIDE DEF d
<1> QED
  BY <1>1, <1>2, FinishKeeps

LEMMA ReadKeeps ==
    ASSUME CacheInv, NEW w \in Workers, NEW s \in Scopes,
           Cache!get_or_set_mcp(w, s) \/ Cache!ReadRedis(w, s) \/ Cache!ReadFails(w, s)
    PROVE  CacheInv'
<1> USE CacheConstants
<1>1. UNCHANGED <<remote, in_memory>>
  BY DEF Cache!get_or_set_mcp, Cache!ReadRedis, Cache!ReadFails
<1>2. CASE Cache!LookInMemory(w, s)
  BY <1>1, <1>2, LookKeeps
<1>3. CASE Cache!Go(w, s, "reading", NoEntry)
  <2>1. AnswersOwnAndFresh'
    BY <1>3 DEF Cache!Go, AnswersOwnAndFresh, Cache!AnswersOwnAndFresh
  <2>2. /\ call' \in [Workers -> Calls]
        /\ \A v \in Workers : call'[v].at = "writing" => call'[v] = call[v]
    BY <1>3 DEF CacheInv, Cache!Go, Calls, Cache!Steps
  <2> QED
    BY <1>1, <2>1, <2>2 DEF CacheInv
<1>4. CASE remote[s] # NoEntry /\ Cache!Answer(w, s, remote[s].data)
  <2>1. remote[s].data.owner = s /\ remote[s].data.age <= TTL + Timeout
    BY <1>4, EntryGood DEF CacheInv
  <2>2. AnswersOwnAndFresh'
    BY <1>4, <2>1 DEF Cache!Answer, AnswersOwnAndFresh, Cache!AnswersOwnAndFresh
  <2>3. /\ call' \in [Workers -> Calls]
        /\ \A v \in Workers : call'[v].at = "writing" => call'[v] = call[v]
    BY <1>4 DEF CacheInv, Cache!Answer, Cache!Idle, Calls, Cache!Steps
  <2> QED
    BY <1>1, <2>2, <2>3 DEF CacheInv
<1> QED
  BY <1>2, <1>3, <1>4 DEF Cache!get_or_set_mcp, Cache!ReadRedis, Cache!ReadFails, Cache!RedisKey

\* A call that is given up, an empty cache and a new process answer nothing.
LEMMA ForgettingKeeps ==
    ASSUME CacheInv, answer' = NoEntry,
           remote' \in {remote, Cache!Empty},
           NEW w \in Workers,
           in_memory' \in {in_memory, [in_memory EXCEPT ![w] = Cache!Empty]},
           call' \in {call, [call EXCEPT ![w] = Cache!Idle]}
    PROVE  CacheInv'
<1> USE CacheConstants DEF CacheInv
<1>1. /\ remote' \in [Scopes -> Cache!Entry \cup {NoEntry}]
      /\ \A s \in Scopes : Fresh(remote'[s], s)
  BY DEF Cache!Empty, Fresh
<1>2. /\ in_memory' \in [Workers -> [Scopes -> Cache!Entry \cup {NoEntry}]]
      /\ \A s \in Scopes, v \in Workers : Fresh(in_memory'[v][s], s)
  <2>1. Cache!Empty \in [Scopes -> Cache!Entry \cup {NoEntry}]
        /\ \A s \in Scopes : Fresh(Cache!Empty[s], s)
    BY DEF Cache!Empty, Fresh
  <2>2. CASE in_memory' = in_memory
    BY <2>2
  <2>3. CASE in_memory' = [in_memory EXCEPT ![w] = Cache!Empty]
    BY <2>1, <2>3
  <2> QED
    BY <2>2, <2>3
<1>3. /\ call' \in [Workers -> Calls]
      /\ \A v \in Workers : call'[v].at = "writing" => call'[v] = call[v]
  <2>1. Cache!Idle \in Calls /\ Cache!Idle.at # "writing"
    BY DEF Cache!Idle, Calls, Cache!Steps
  <2>2. CASE call' = call
    BY <2>2
  <2>3. CASE call' = [call EXCEPT ![w] = Cache!Idle]
    BY <2>1, <2>3
  <2> QED
    BY <2>2, <2>3
<1>4. AnswersOwnAndFresh'
  BY DEF AnswersOwnAndFresh, Cache!AnswersOwnAndFresh
<1> QED
  BY <1>1, <1>2, <1>3, <1>4

LEMMA CacheTickKeeps ==
    ASSUME CacheInv, Cache!CacheTick
    PROVE  CacheInv'
<1> USE CacheConstants DEF CacheInv
<1>1. ASSUME NEW s \in Scopes
      PROVE  /\ remote'[s] \in Cache!Entry \cup {NoEntry} /\ Fresh(remote'[s], s)
             /\ \A w \in Workers : /\ in_memory'[w][s] \in Cache!Entry \cup {NoEntry}
                                   /\ Fresh(in_memory'[w][s], s)
  BY AgingGood DEF Cache!CacheTick
<1>2. /\ remote' \in [Scopes -> Cache!Entry \cup {NoEntry}]
      /\ in_memory' \in [Workers -> [Scopes -> Cache!Entry \cup {NoEntry}]]
  BY <1>1 DEF Cache!CacheTick
<1>3. ASSUME NEW w \in Workers
      PROVE  /\ call'[w] \in Calls
             /\ call'[w].at = "writing" => /\ call'[w].data \in Cache!Data
                                           /\ call'[w].data.owner = call'[w].scope
                                           /\ call'[w].data.age <= call'[w].waited
  <2>1. CASE ~Cache!WaitsForRedis(w)
    BY <2>1 DEF Cache!CacheTick
  <2>2. CASE Cache!WaitsForRedis(w)
    <3>1. /\ call'[w] = [call[w] EXCEPT !.waited = @ + 1,
                           !.data = IF @ = NoEntry THEN NoEntry ELSE Cache!Older(@)]
          /\ call[w].waited < Timeout /\ call[w] \in Calls
      BY <2>2 DEF Cache!CacheTick
    <3>2. ASSUME NEW d \in Cache!Data
          PROVE  /\ Cache!Older(d) \in Cache!Data /\ Cache!Older(d).owner = d.owner
                 /\ d.age \in Nat /\ Cache!Older(d).age <= d.age + 1
      BY DEF Cache!Older, Cache!Data
    <3>3. call'[w] \in Calls
      <4> DEFINE old == call[w].data
                 new == IF old = NoEntry THEN NoEntry ELSE Cache!Older(old)
      <4>1. old \in Cache!Data \cup {NoEntry} /\ call[w].waited + 1 \in 0..Timeout
        BY <3>1 DEF Calls
      <4>2. new \in Cache!Data \cup {NoEntry}
        BY <3>2, <4>1
      <4>3. call'[w] = [call[w] EXCEPT !.waited = call[w].waited + 1, !.data = new]
        BY <3>1
      <4> HIDE DEF old, new
      <4> QED
        BY <3>1, <4>1, <4>2, <4>3 DEF Calls
    <3>4. ASSUME call'[w].at = "writing"
          PROVE  /\ call'[w].data \in Cache!Data
                 /\ call'[w].data.owner = call'[w].scope
                 /\ call'[w].data.age <= call'[w].waited
      <4>1. /\ call[w].data \in Cache!Data /\ call[w].data.owner = call[w].scope
            /\ call[w].data.age <= call[w].waited
            /\ call'[w].scope = call[w].scope /\ call'[w].waited = call[w].waited + 1
        BY <3>1, <3>4 DEF Calls
      <4>2. call'[w].data = IF call[w].data = NoEntry THEN NoEntry ELSE Cache!Older(call[w].data)
        BY <3>1 DEF Calls
      <4>3. call[w].waited \in Nat
        BY <3>1 DEF Calls
      <4> QED
        BY <3>2, <4>1, <4>2, <4>3
    <3> QED
      BY <3>3, <3>4
  <2> QED
    BY <2>1, <2>2
<1>4. call' \in [Workers -> Calls]
  BY <1>3 DEF Cache!CacheTick
<1>5. AnswersOwnAndFresh'
  BY DEF Cache!CacheTick, AnswersOwnAndFresh, Cache!AnswersOwnAndFresh
<1> QED
  BY <1>1, <1>2, <1>3, <1>4, <1>5

LEMMA CacheStep == CacheInv /\ [Next]_vars => CacheInv'
<1> SUFFICES ASSUME CacheInv, [Next]_vars
             PROVE  CacheInv'
  OBVIOUS
<1>1. ASSUME UNCHANGED cacheVars
      PROVE  CacheInv'
  BY <1>1 DEF cacheVars, CacheInv, AnswersOwnAndFresh, Cache!AnswersOwnAndFresh
<1>2. ASSUME NEW w \in Workers, NEW s \in Scopes, Cache!FetchFails(w, s)
      PROVE  CacheInv'
  <2>1. /\ answer' = NoEntry /\ remote' = remote /\ in_memory' = in_memory
        /\ call' = [call EXCEPT ![w] = Cache!Idle]
    BY <1>2 DEF Cache!FetchFails
  <2> QED
    BY <2>1, ForgettingKeeps
<1>3. ASSUME NEW w \in Workers, Cache!clear(w)
      PROVE  CacheInv'
  <2>1. /\ answer' = NoEntry /\ remote' \in {remote, Cache!Empty} /\ call' = call
        /\ in_memory' = [in_memory EXCEPT ![w] = Cache!Empty]
    BY <1>3 DEF Cache!clear
  <2> QED
    BY <2>1, ForgettingKeeps
<1>4. ASSUME NEW w \in Workers, Restart(w)
      PROVE  CacheInv'
  <2>1. /\ answer' = NoEntry /\ remote' = remote
        /\ in_memory' = [in_memory EXCEPT ![w] = Cache!Empty]
        /\ call' = [call EXCEPT ![w] = Cache!Idle]
    BY <1>4 DEF Restart, Cache!RestartCache
  <2> QED
    BY <2>1, ForgettingKeeps
<1>5. ASSUME NEW w \in Workers, OtherLosesRedis(w)
      PROVE  CacheInv'
  <2>1. answer' = NoEntry /\ remote' = remote /\ in_memory' = in_memory /\ call' = call
    BY <1>5 DEF OtherLosesRedis
  <2> QED
    BY <2>1, ForgettingKeeps
<1>6. ASSUME NEW w \in Workers, Cache!CacheStep(w)
      PROVE  CacheInv'
  BY <1>2, <1>3, <1>6, ReadKeeps, FetchedKeeps, WriteKeeps DEF Cache!CacheStep
<1>7. CASE Caching
  BY <1>6, <1>7, CacheTickKeeps DEF Caching
<1>8. CASE SharedLimits \/ LimitsOfOne \/ UNCHANGED vars
  BY <1>1, <1>8 DEF SharedLimits, LimitsOfOne, vars
<1> QED
  BY <1>4, <1>5, <1>7, <1>8 DEF Next

\* Whoever has lost Redis, whenever: data goes to the user it was fetched for,
\* and is not older than its time to live and one command of Redis.
THEOREM AnswersSound == Spec => []AnswersOwnAndFresh
<1>1. CacheInv => AnswersOwnAndFresh
  BY DEF CacheInv
<1> QED
  BY <1>1, CacheInit, CacheStep, PTL DEF Spec

-----------------------------------------------------------------------------
(* What a worker's memory has promised.                                    *)

LEMMA DivisionRoundsDown ==
    ASSUME NEW x \in Int, NEW s \in Nat \ {0}
    PROVE  (x \div s) \in Int /\ x < ((x \div s) + 1) * s
OBVIOUS

LEMMA MoreSecondsAreMore ==
    ASSUME NEW q \in Int, NEW r \in Int, q <= r, NEW s \in Nat \ {0}
    PROVE  (q + 1) * s <= (r + 1) * s /\ (r + 1) * s \in Int
OBVIOUS

\* One second after Retry-After, the stamp is out of the window.
LEMMA SecondLaterIsEnough ==
    ASSUME NEW n \in Nat \ {0}, NEW record \in Record(n)
    PROVE  /\ (RetryAfter(record, n) + 1) * Second \in Nat
           /\ record[n] + (RetryAfter(record, n) + 1) * Second >= Window
<1> USE Constants
<1> DEFINE x == Window - record[n]
           q == x \div Second
           r == RetryAfter(record, n)
<1>1. x \in Int /\ record[n] \in 0..Gone
  BY DEF Record
<1>2. q \in Int /\ x < (q + 1) * Second
  BY <1>1, DivisionRoundsDown
<1>3. r \in Nat /\ q <= r
  BY <1>2 DEF RetryAfter
<1>4. (q + 1) * Second <= (r + 1) * Second /\ (r + 1) * Second \in Int
        /\ (q + 1) * Second \in Int
  BY <1>2, <1>3, MoreSecondsAreMore
<1>5. (r + 1) * Second \in Nat
  <2>1. r + 1 \in Nat
    BY <1>3
  <2> HIDE DEF r
  <2> QED
    BY <2>1
<1> HIDE DEF q, r
<1>6. record[n] + (r + 1) * Second >= Window
  BY <1>1, <1>2, <1>4
<1> QED
  BY <1>5, <1>6 DEF r

IsTable(records) ==
    /\ records = [k \in MemoryNames |-> records[k]]
    /\ \A k \in MemoryNames : records[k] \in Record(Limit(k))

LEMMA LimitPositive == \A k : Limit(k) \in Nat \ {0} /\ Limit(k) \in 1..Limit(k)
BY Constants DEF Limit

LEMMA CleanedUpTable ==
    ASSUME NEW records, IsTable(records)
    PROVE  /\ IsTable(CleanedUp(records))
           /\ \A k \in MemoryNames :
                 /\ records[k][Limit(k)] \in 0..Gone
                 /\ CleanedUp(records)[k][Limit(k)] \in 0..Gone
                 /\ CleanedUp(records)[k][Limit(k)] >= records[k][Limit(k)]
<1>1. ASSUME NEW k \in MemoryNames
      PROVE  /\ NoStamps(Limit(k)) \in Record(Limit(k))
             /\ NoStamps(Limit(k))[Limit(k)] = Gone
             /\ records[k] \in Record(Limit(k)) /\ records[k][Limit(k)] \in 0..Gone
  BY Constants, LimitPositive, NoStampsSorted DEF IsTable, Record, NoStamps
<1>2. ASSUME NEW k \in MemoryNames
      PROVE  CleanedUp(records)[k] \in {records[k], NoStamps(Limit(k))}
  BY <1>2 DEF CleanedUp
<1>3. CleanedUp(records) = [k \in MemoryNames |-> CleanedUp(records)[k]]
  BY DEF CleanedUp
<1> QED
  BY Constants, <1>1, <1>2, <1>3 DEF IsTable

LEMMA CountedTable ==
    ASSUME NEW records, IsTable(records), NEW k \in MemoryNames
    PROVE  /\ IsTable(Counted(records, k))
           /\ \A l \in MemoryNames :
                 l # k \/ Refuses(records, k) => Counted(records, k)[l] = records[l]
<1>1. CASE Refuses(records, k)
  BY <1>1 DEF Counted
<1>2. CASE ~Refuses(records, k)
  <2>1. Stamped(records[k], 0) \in Record(Limit(k))
    BY Constants, LimitPositive, StampedRecord DEF IsTable
  <2>2. Counted(records, k) = [records EXCEPT ![k] = Stamped(records[k], 0)]
    BY <1>2 DEF Counted
  <2> QED
    BY <1>2, <2>1, <2>2 DEF IsTable
<1> QED
  BY <1>1, <1>2

\* Whoever waits as long as he was told, and a second, finds the stamp that
\* refused him, or an older one in its place, outside of the window.
PromiseInv ==
    /\ told \in [Workers -> Nat \cup {NoPromise}]
    /\ memory = [w \in Workers |-> memory[w]]
    /\ watched \in MemoryNames
    /\ \A w \in Workers :
          /\ IsTable(memory[w])
          /\ told[w] # NoPromise => memory[w][watched][Limit(watched)] + told[w] >= Window

LEMMA PromiseInit == Init => PromiseInv
<1> SUFFICES ASSUME Init
             PROVE  PromiseInv
  OBVIOUS
<1>1. IsTable(NoMemory)
  BY LimitPositive, NoStampsSorted DEF IsTable, NoMemory
<1> QED
  BY <1>1 DEF Init, LimiterInit, PromiseInv

LEMMA JudgedKeeps ==
    ASSUME PromiseInv, NEW w \in Workers, NEW k \in MemoryNames, UNCHANGED watched,
           NEW records, IsTable(records), NEW after, IsTable(after),
           records[watched][Limit(watched)] >= memory[w][watched][Limit(watched)],
           k # watched \/ Refuses(records, k) => after[watched] = records[watched],
           memory' = [memory EXCEPT ![w] = after],
           Promise(w, records, k)
    PROVE  PromiseInv'
<1> USE LimitPositive, Constants
<1> DEFINE n == Limit(watched)
<1>1. /\ records[watched] \in Record(n) /\ n \in Nat \ {0}
      /\ records[watched][n] \in 0..Gone /\ memory[w][watched][n] \in 0..Gone
  BY DEF PromiseInv, IsTable, Record
<1>2. (RetryAfter(records[watched], n) + 1) * Second \in Nat
      /\ records[watched][n] + (RetryAfter(records[watched], n) + 1) * Second >= Window
  BY <1>1, SecondLaterIsEnough
<1>3. told' \in [Workers -> Nat \cup {NoPromise}]
      /\ \A v \in Workers \ {w} : told'[v] = told[v]
  BY <1>2 DEF Promise, PromiseInv
<1>4. ASSUME told'[w] # NoPromise
      PROVE  after[watched][n] + told'[w] >= Window
  <2>1. CASE k # watched \/ (Refuses(records, k) /\ told[w] # NoPromise)
    BY <1>1, <1>4, <2>1 DEF Promise, PromiseInv
  <2>2. CASE k = watched /\ Refuses(records, k) /\ told[w] = NoPromise
    <3>1. told'[w] = (RetryAfter(records[watched], n) + 1) * Second
      BY <2>2 DEF Promise, PromiseInv
    <3> QED
      BY <1>2, <2>2, <3>1
  <2>3. CASE k = watched /\ ~Refuses(records, k)
    BY <1>4, <2>3 DEF Promise, PromiseInv
  <2> QED
    BY <2>1, <2>2, <2>3
<1> QED
  BY <1>3, <1>4 DEF PromiseInv

LEMMA CheckKeeps ==
    ASSUME PromiseInv, NEW w \in Workers, NEW k \in MemoryNames, UNCHANGED watched,
           Check(w, k)
    PROVE  PromiseInv'
<1> DEFINE records == CleanedUp(memory[w])
<1>1. IsTable(memory[w]) /\ watched \in MemoryNames
  BY DEF PromiseInv
<1>2. IsTable(records)
      /\ records[watched][Limit(watched)] >= memory[w][watched][Limit(watched)]
  BY <1>1, CleanedUpTable
<1>3. IsTable(Counted(records, k))
      /\ (k # watched \/ Refuses(records, k) => Counted(records, k)[watched] = records[watched])
  BY <1>1, <1>2, CountedTable
<1>4. memory' = [memory EXCEPT ![w] = Counted(records, k)] /\ Promise(w, records, k)
  BY DEF Check
<1> HIDE DEF records
<1> QED
  BY <1>2, <1>3, <1>4, JudgedKeeps

LEMMA CheckBothKeeps ==
    ASSUME PromiseInv, NEW w \in Workers, NEW k \in MemoryNames, NEW user \in MemoryNames,
           UNCHANGED watched, CheckBoth(w, k, user)
    PROVE  PromiseInv'
<1> DEFINE records == CleanedUp(memory[w])
           then    == CleanedUp(Counted(records, k))
           after   == Counted(then, user)
<1>1. IsTable(memory[w]) /\ watched \in MemoryNames
  BY DEF PromiseInv
<1>2. /\ IsTable(records)
      /\ records[watched][Limit(watched)] >= memory[w][watched][Limit(watched)]
      /\ memory[w][watched][Limit(watched)] \in 0..Gone
      /\ records[watched][Limit(watched)] \in 0..Gone
  BY <1>1, CleanedUpTable
<1>3. IsTable(Counted(records, k))
      /\ (k # watched => Counted(records, k)[watched] = records[watched])
  BY <1>1, <1>2, CountedTable
<1>4. /\ IsTable(then)
      /\ then[watched][Limit(watched)] >= Counted(records, k)[watched][Limit(watched)]
      /\ then[watched][Limit(watched)] \in 0..Gone
  BY <1>1, <1>3, CleanedUpTable
<1>5. IsTable(after)
      /\ (user # watched \/ Refuses(then, user) => after[watched] = then[watched])
  BY <1>1, <1>4, CountedTable
<1>6. /\ memory' = [memory EXCEPT ![w] = after] /\ ~Refuses(records, k)
      /\ Promise(w, IF watched = k THEN records ELSE then, IF watched = k THEN k ELSE user)
  BY DEF CheckBoth
<1> HIDE DEF records, then, after
<1>7. CASE watched = k
  BY <1>2, <1>5, <1>6, <1>7, JudgedKeeps
<1>8. CASE watched # k
  <2>1. then[watched][Limit(watched)] >= memory[w][watched][Limit(watched)]
    BY Constants, <1>2, <1>3, <1>4, <1>8
  <2> QED
    BY <1>4, <1>5, <1>6, <1>8, <2>1, JudgedKeeps
<1> QED
  BY <1>7, <1>8

LEMMA CheckInMemoryKeeps ==
    ASSUME PromiseInv, NEW w \in Workers, NEW r \in Requests, UNCHANGED watched,
           CheckInMemory(w, r)
    PROVE  PromiseInv'
<1>1. AddressName(r) \in MemoryNames /\ (r.user # NoUser => r.user \in MemoryNames)
  BY DEF AddressName, MemoryNames, Names, Requests
<1> QED
  BY <1>1, CheckKeeps, CheckBothKeeps DEF CheckInMemory

LEMMA AgingKeepsPromises ==
    ASSUME PromiseInv, LimiterTick
    PROVE  PromiseInv'
<1> USE Constants, LimitPositive
<1>1. ASSUME NEW w \in Workers, NEW k \in MemoryNames
      PROVE  /\ memory[w][k] \in Record(Limit(k))
             /\ memory'[w][k] = Aged(memory[w][k], Window)
  BY DEF PromiseInv, IsTable, LimiterTick
<1>2. ASSUME NEW w \in Workers, NEW k \in MemoryNames
      PROVE  /\ memory'[w][k] \in Record(Limit(k))
             /\ memory[w][k][Limit(k)] \in 0..Gone
             /\ memory'[w][k][Limit(k)] = IF memory[w][k][Limit(k)] + 1 < Window
                                          THEN memory[w][k][Limit(k)] + 1 ELSE Gone
  <2> DEFINE r == memory[w][k]
             n == Limit(k)
  <2>1. r \in [1..n -> 0..Gone] /\ n \in 1..n /\ n \in Nat
    BY <1>1 DEF Record
  <2>2. memory'[w][k] = [i \in 1..n |-> IF r[i] + 1 < Window THEN r[i] + 1 ELSE Gone]
    BY <1>1, <2>1 DEF Aged
  <2> HIDE DEF r, n
  <2>3. [i \in 1..n |-> IF r[i] + 1 < Window THEN r[i] + 1 ELSE Gone] \in [1..n -> 0..Gone]
    BY <2>1
  <2>4. r[n] \in 0..Gone
        /\ memory'[w][k][n] = IF r[n] + 1 < Window THEN r[n] + 1 ELSE Gone
    BY <2>1, <2>2
  <2> QED
    BY <2>2, <2>3, <2>4 DEF Record, r, n
<1>3. ASSUME NEW w \in Workers
      PROVE  IsTable(memory'[w])
  BY <1>2 DEF IsTable, LimiterTick
<1>4. told' = [w \in Workers |-> IF told[w] > 0 THEN told[w] - 1 ELSE told[w]]
      /\ told \in [Workers -> Nat \cup {NoPromise}]
      /\ watched' = watched /\ watched \in MemoryNames
      /\ memory' = [w \in Workers |-> memory'[w]]
  BY DEF LimiterTick, PromiseInv
<1>5. ASSUME NEW w \in Workers
      PROVE  told'[w] \in Nat \cup {NoPromise}
  BY <1>4 DEF NoPromise
<1>6. ASSUME NEW w \in Workers, told'[w] # NoPromise
      PROVE  memory'[w][watched][Limit(watched)] + told'[w] >= Window
  <2>1. told[w] # NoPromise /\ told[w] \in Nat /\ told'[w] \in {told[w], told[w] - 1}
        /\ told'[w] \in Nat
    BY <1>4, <1>6 DEF NoPromise
  <2>2. memory[w][watched][Limit(watched)] + told[w] >= Window
    BY <2>1 DEF PromiseInv
  <2> QED
    BY <1>2, <1>4, <2>1, <2>2
<1> QED
  BY <1>3, <1>4, <1>5, <1>6 DEF PromiseInv

LEMMA PromiseStep == WindowInv /\ PromiseInv /\ [Next]_vars => PromiseInv'
<1> SUFFICES ASSUME WindowInv, PromiseInv, [Next]_vars
             PROVE  PromiseInv'
  OBVIOUS
<1>1. ASSUME UNCHANGED <<memory, told, watched>>
      PROVE  PromiseInv'
  BY <1>1 DEF PromiseInv
<1>2. ASSUME NEW w \in Workers, asking[w] # NoRequest
      PROVE  Request(w) \in Requests
             /\ (Request(w).user # NoUser => Request(w).user \in MemoryNames)
  BY <1>2 DEF WindowInv, Asking, Request, Requests, MemoryNames, Names
<1>3. ASSUME NEW w \in Workers, ReceiveVerdict(w)
      PROVE  PromiseInv'
  BY <1>1, <1>2, <1>3, CheckKeeps DEF ReceiveVerdict, Awaits
<1>4. ASSUME NEW w \in Workers, LoseRedis(w)
      PROVE  PromiseInv'
  BY <1>2, <1>4, CheckInMemoryKeeps DEF LoseRedis
<1>5. ASSUME NEW w \in Workers, NEW R \in SUBSET Requests, LimiterStep(w, R)
      PROVE  PromiseInv'
  <2>1. ASSUME NEW r \in R, Dispatch(w, r)
        PROVE  PromiseInv'
    BY <2>1, CheckInMemoryKeeps DEF Dispatch
  <2>2. ASSUME NEW r \in R, Ask(w, r)
        PROVE  PromiseInv'
    BY <1>1, <2>2 DEF Ask
  <2>3. CASE RunPipeline(w)
    BY <1>1, <2>3 DEF RunPipeline
  <2> QED
    BY <1>3, <1>5, <2>1, <2>2, <2>3 DEF LimiterStep
<1>6. CASE SharedLimits \/ LimitsOfOne
  <2>1. Ordinary \in SUBSET Requests /\ Requests \in SUBSET Requests
    BY DEF Ordinary
  <2> QED
    BY <1>4, <1>5, <1>6, <2>1, AgingKeepsPromises DEF SharedLimits, LimitsOfOne
<1>7. CASE Caching \/ UNCHANGED vars
  BY <1>1, <1>7 DEF Caching, vars, limiterVars
<1>8. ASSUME NEW w \in Workers, OtherLosesRedis(w)
      PROVE  PromiseInv'
  BY <1>1, <1>8 DEF OtherLosesRedis, limiterVars
<1>9. ASSUME NEW w \in Workers, Restart(w)
      PROVE  PromiseInv'
  <2>1. IsTable(NoMemory)
    BY LimitPositive, NoStampsSorted DEF IsTable, NoMemory
  <2>2. /\ memory' = [memory EXCEPT ![w] = NoMemory]
        /\ told' = [told EXCEPT ![w] = NoPromise]
        /\ watched' = watched
    BY <1>9 DEF Restart, RestartLimiter
  <2> QED
    BY <2>1, <2>2 DEF PromiseInv
<1> QED
  BY <1>6, <1>7, <1>8, <1>9 DEF Next

\* Whoever is refused by a worker's memory finds room a second later than he
\* was told, for every limit, window and length of a second, unless another
\* request was let pass in his place.
THEOREM PromisesKept == Spec => []RefusedMayReturn
<1>1. PromiseInv => RefusedMayReturn
  <2> SUFFICES ASSUME PromiseInv, NEW w \in Workers, told[w] = 0
               PROVE  ~Refuses(memory[w], watched)
    BY DEF RefusedMayReturn
  <2>1. memory[w][watched][Limit(watched)] \in 0..Gone
    BY CleanedUpTable DEF PromiseInv
  <2>2. memory[w][watched][Limit(watched)] >= Window
    BY <2>1, Constants DEF PromiseInv, NoPromise
  <2> QED
    BY <2>1, <2>2, Constants DEF Refuses, Full
<1> QED
  BY <1>1, PromiseInit, PromiseStep, WindowInit, WindowStep, PTL DEF Spec

-----------------------------------------------------------------------------
(* Types.                                                                  *)

LEMMA DivisionNotUp ==
    ASSUME NEW x \in Int, NEW s \in Nat \ {0}
    PROVE  (x \div s) \in Int /\ (x \div s) * s <= x
OBVIOUS

LEMMA OneMoreSecond ==
    ASSUME NEW q \in Int, NEW s \in Nat \ {0}
    PROVE  (q + 1) * s = q * s + s /\ q * s \in Int
OBVIOUS

\* Nobody is sent away for longer than a window and the rounding.
LEMMA PromiseBounded ==
    ASSUME NEW n \in Nat \ {0}, NEW record \in Record(n)
    PROVE  (RetryAfter(record, n) + 1) * Second \in NoPromise..(Window + 2 * Second)
<1> USE Constants
<1> DEFINE x == Window - record[n]
           q == x \div Second
<1>1. x \in Int /\ x <= Window /\ record[n] \in 0..Gone
  BY DEF Record
<1>2. q \in Int /\ q * Second <= x
  BY <1>1, DivisionNotUp
<1>3. (q + 1) * Second = q * Second + Second /\ q * Second \in Int
  BY <1>2, OneMoreSecond
<1>4. (RetryAfter(record, n) + 1) * Second \in Nat
  BY SecondLaterIsEnough
<1>5. RetryAfter(record, n) = IF q > 1 THEN q ELSE 1
  BY DEF RetryAfter
<1> HIDE DEF q, x
<1>6. CASE q > 1
  BY <1>1, <1>2, <1>3, <1>4, <1>5, <1>6 DEF NoPromise
<1>7. CASE ~(q > 1)
  BY <1>2, <1>4, <1>5, <1>7 DEF NoPromise
<1> QED
  BY <1>6, <1>7

ToldInv ==
    /\ use_redis \in [Workers -> BOOLEAN]
    /\ told \in [Workers -> NoPromise..(Window + 2 * Second)]

LEMMA PromiseTyped ==
    ASSUME ToldInv, NEW w \in Workers, NEW records, IsTable(records), NEW k \in MemoryNames,
           Promise(w, records, k)
    PROVE  told' \in [Workers -> NoPromise..(Window + 2 * Second)]
<1>1. (RetryAfter(records[k], Limit(k)) + 1) * Second \in NoPromise..(Window + 2 * Second)
  BY LimitPositive, PromiseBounded DEF IsTable
<1>2. NoPromise \in NoPromise..(Window + 2 * Second)
  BY Constants DEF NoPromise
<1> QED
  BY <1>1, <1>2 DEF Promise, ToldInv

LEMMA JudgedTyped ==
    ASSUME PromiseInv, ToldInv, NEW w \in Workers, NEW k \in MemoryNames,
           NEW user \in MemoryNames, Check(w, k) \/ CheckBoth(w, k, user)
    PROVE  told' \in [Workers -> NoPromise..(Window + 2 * Second)]
<1> DEFINE records == CleanedUp(memory[w])
           then    == CleanedUp(Counted(records, k))
<1>1. IsTable(records)
  BY CleanedUpTable DEF PromiseInv
<1>2. IsTable(then)
  BY <1>1, CountedTable, CleanedUpTable
<1>3. CASE Check(w, k)
  BY <1>1, <1>3, PromiseTyped DEF Check
<1>4. CASE CheckBoth(w, k, user)
  <2>1. Promise(w, IF watched = k THEN records ELSE then, IF watched = k THEN k ELSE user)
    BY <1>4 DEF CheckBoth
  <2> HIDE DEF records, then
  <2> QED
    BY <1>1, <1>2, <2>1, PromiseTyped
<1> QED
  BY <1>3, <1>4

LEMMA InMemoryTyped ==
    ASSUME PromiseInv, ToldInv, NEW w \in Workers, NEW r \in Requests, CheckInMemory(w, r)
    PROVE  told' \in [Workers -> NoPromise..(Window + 2 * Second)]
<1>1. AddressName(r) \in MemoryNames /\ (r.user # NoUser => r.user \in MemoryNames)
  BY DEF AddressName, MemoryNames, Names, Requests
<1> QED
  BY <1>1, JudgedTyped DEF CheckInMemory

LEMMA ToldStep == WindowInv /\ PromiseInv /\ ToldInv /\ [Next]_vars => ToldInv'
<1> SUFFICES ASSUME WindowInv, PromiseInv, ToldInv, [Next]_vars
             PROVE  ToldInv'
  OBVIOUS
<1>0. NoPromise \in NoPromise..(Window + 2 * Second)
  BY Constants DEF NoPromise
<1>1. ASSUME NEW w \in Workers, asking[w] # NoRequest
      PROVE  Request(w) \in Requests
             /\ (Request(w).user # NoUser => Request(w).user \in MemoryNames)
  BY <1>1 DEF WindowInv, Asking, Request, Requests, MemoryNames, Names
<1>2. ASSUME NEW w \in Workers, ReceiveVerdict(w)
      PROVE  ToldInv'
  BY <1>1, <1>2, JudgedTyped DEF ReceiveVerdict, Awaits, ToldInv
<1>3. ASSUME NEW w \in Workers, LoseRedis(w)
      PROVE  ToldInv'
  BY <1>1, <1>3, InMemoryTyped DEF LoseRedis, ToldInv
<1>4. ASSUME NEW w \in Workers, NEW R \in SUBSET Requests, LimiterStep(w, R)
      PROVE  ToldInv'
  <2>1. ASSUME NEW r \in R, Dispatch(w, r)
        PROVE  ToldInv'
    BY <2>1, InMemoryTyped DEF Dispatch, ToldInv
  <2>2. ASSUME NEW r \in R, Ask(w, r)
        PROVE  ToldInv'
    BY <2>2 DEF Ask, ToldInv
  <2>3. CASE RunPipeline(w)
    BY <2>3 DEF RunPipeline, ToldInv
  <2> QED
    BY <1>2, <1>4, <2>1, <2>2, <2>3 DEF LimiterStep
<1>5. CASE LimiterTick
  <2>1. ASSUME NEW w \in Workers
        PROVE  (IF told[w] > 0 THEN told[w] - 1 ELSE told[w]) \in NoPromise..(Window + 2 * Second)
    <3>1. told[w] \in NoPromise..(Window + 2 * Second)
      BY DEF ToldInv
    <3> QED
      BY <3>1, Constants DEF NoPromise
  <2> QED
    BY <1>5, <2>1 DEF LimiterTick, ToldInv
<1>6. CASE SharedLimits \/ LimitsOfOne
  <2>1. Ordinary \in SUBSET Requests /\ Requests \in SUBSET Requests
    BY DEF Ordinary
  <2> QED
    BY <1>3, <1>4, <1>5, <1>6, <2>1 DEF SharedLimits, LimitsOfOne
<1>7. ASSUME NEW w \in Workers, NEW s \in Scopes, NEW large \in BOOLEAN,
             \/ Cache!get_or_set_mcp(w, s) \/ Cache!ReadRedis(w, s) \/ Cache!ReadFails(w, s)
             \/ Cache!FetchFails(w, s) \/ Cache!Fetched(w, s, large)
             \/ Cache!WriteRedis(w, s) \/ Cache!WriteFails(w, s)
      PROVE  use_redis' \in [Workers -> BOOLEAN]
  BY <1>7 DEF Cache!get_or_set_mcp, Cache!ReadRedis, Cache!ReadFails, Cache!FetchFails,
              Cache!Fetched, Cache!WriteRedis, Cache!WriteFails, ToldInv
<1>8. CASE Caching
  <2>1. UNCHANGED told
    BY <1>8 DEF Caching, limiterVars
  <2>2. use_redis' \in [Workers -> BOOLEAN]
    <3>1. ASSUME NEW w \in Workers, Cache!clear(w) \/ Cache!CacheTick
          PROVE  use_redis' = use_redis
      BY <3>1 DEF Cache!clear, Cache!CacheTick
    <3>2. CASE Cache!CacheTick
      BY <3>2 DEF Cache!CacheTick, ToldInv
    <3> QED
      BY <1>7, <1>8, <3>1, <3>2 DEF Caching, Cache!CacheStep, ToldInv
  <2> QED
    BY <2>1, <2>2 DEF ToldInv
<1>9. ASSUME NEW w \in Workers, OtherLosesRedis(w) \/ Restart(w)
      PROVE  ToldInv'
  BY <1>0, <1>9 DEF OtherLosesRedis, Restart, RestartLimiter, limiterVars, ToldInv
<1>10. CASE UNCHANGED vars
  BY <1>10 DEF vars, limiterVars, ToldInv
<1> QED
  BY <1>6, <1>8, <1>9, <1>10 DEF Next

\* Every variable of the two users of Redis has its type; nobody is sent away
\* for longer than a window and two seconds.
THEOREM TypesCorrect == Spec => []TypeOK
<1>1. Init => ToldInv
  BY Constants DEF Init, LimiterInit, ToldInv, NoPromise
<1>2. WindowInv /\ PromiseInv /\ CacheInv /\ ToldInv => TypeOK
  BY DEF WindowInv, PromiseInv, CacheInv, ToldInv, TypeOK, LimiterTypeOK, IsTable,
         Cache!CacheTypeOK, Calls
<1> QED
  BY <1>1, <1>2, WindowInit, WindowStep, PromiseInit, PromiseStep, CacheInit, CacheStep,
     ToldStep, PTL DEF Spec

=============================================================================
