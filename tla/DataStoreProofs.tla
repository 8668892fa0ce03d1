-------------------------- MODULE DataStoreProofs --------------------------
(***************************************************************************)
(* Proofs about DataStore for every number of workers, threads and users   *)
(* and every mix of operations.                                            *)
(***************************************************************************)
EXTENDS DataStore, TLAPS

-----------------------------------------------------------------------------
(* Types, and which operation is at which step.                            *)

OpRecord == [call : Operation \cup {NoRow}, by : Users \cup Passwords \cup {NoRow},
             worker : Workers \cup {NoRow}, step : Step, found : Row, failed : BOOLEAN,
             knew : SUBSET Fact, answer : Answers]

\* The steps before a look-up leave nothing found.
BeforeLookUp == {"user", "key", "token", "owner", "item", "mark", "delete"}

Fits(o) ==
    /\ o.step # "idle" => o.worker \in Workers /\ <<o.call, o.by>> \in Invocation
    /\ o.step = "idle" => o.call = NoRow
    /\ o.step \in {"user", "user found"} => o.call \notin {"reset_password", "get_user_by_api_key"}
    /\ o.step \in {"key", "key found"} => o.call = "get_user_by_api_key"
    /\ o.step \in {"insert user", "user inserted"} => o.call = "register_user"
    /\ o.step \in {"insert token", "token inserted"} => o.call = "request_password_reset"
    /\ o.step \in {"token", "token found", "update", "token consumed", "token in memory"} =>
          o.call = "reset_password"
    /\ o.step \in {"owner", "owner found"} =>
          o.call \in {"stream_travel_events", "validate_thread_ownership"}
    /\ o.step \in {"upsert", "own"} => o.call = "stream_travel_events"
    /\ o.step = "user exists" => o.call \in Creates \cup {"stream_travel_events"}
    /\ o.step \in {"insert item", "item inserted"} => o.call \in Creates
    /\ o.step \in {"mark", "marked", "read in memory"} => o.call = "mark_alert_read"
    /\ o.step \in {"item", "item found"} => o.call \in Reads
    /\ o.step \in {"delete", "deleted", "item again", "remove"} => o.call \in Deletes
    /\ o.step = "item in memory" => o.call \in Reads \cup Deletes
    /\ o.step \in BeforeLookUp => o.found = NoRow /\ ~o.failed
    /\ o.step = "user found" => o.found \in Account \cup {NoRow}
    /\ o.step = "owner found" => o.found \in Users \cup {NoRow}
    /\ o.step \in {"user exists", "upsert"} => o.found \in {NoRow, o.by}
    /\ o.step \in {"item again", "item in memory", "read in memory"} => o.failed

TypeInv == TypeOK /\ \A t \in Threads : Fits(op[t])

LEMMA TypeInit == Init => TypeInv
<1> SUFFICES ASSUME Init
             PROVE  TypeInv
  OBVIOUS
<1>1. Idle("none") \in OpRecord /\ Fits(Idle("none"))
  BY DEF Idle, OpRecord, Fits, Step, Row, Answers, BeforeLookUp
<1> QED
  BY <1>1 DEF Init, TypeInv, TypeOK, OpRecord, Rows, NoRows, Account, Passwords

\* The record of an operation that goes on.
To(o, s) == [o EXCEPT !.step = s]
Found(o, s, row) == [o EXCEPT !.step = s, !.found = row]
Failed(o, s) == [o EXCEPT !.step = s, !.failed = TRUE]
Afresh(o, s) == [o EXCEPT !.step = s, !.found = NoRow, !.failed = FALSE]

LEMMA OneMoves ==
    ASSUME TypeInv, NEW t \in Threads, NEW o \in OpRecord, Fits(o),
           op' = [op EXCEPT ![t] = o], UNCHANGED <<expired, calls>>,
           table' \in Rows, memory' \in [Workers -> Rows], known' \subseteq Fact
    PROVE  TypeInv'
BY DEF TypeInv, TypeOK, OpRecord

LEMMA RecordTypes ==
    ASSUME NEW o \in OpRecord, NEW s \in Step, NEW row \in Row
    PROVE  /\ To(o, s) \in OpRecord /\ Found(o, s, row) \in OpRecord
           /\ Failed(o, s) \in OpRecord /\ Afresh(o, s) \in OpRecord
BY DEF OpRecord, To, Found, Failed, Afresh, Row

LEMMA IdleTypes == \A a \in Answers : Idle(a) \in OpRecord /\ Fits(Idle(a))
BY DEF Idle, OpRecord, Fits, Step, Row, BeforeLookUp

LEMMA NowTypes ==
    ASSUME TypeInv, NEW t \in Threads
    PROVE  /\ op[t] \in OpRecord /\ Fits(op[t])
           /\ op[t].step # "idle" => Mine(t) \in Rows
BY DEF TypeInv, TypeOK, OpRecord, Fits, Mine

LEMMA TransactionTypes ==
    ASSUME TypeInv, NEW t \in Threads, NEW s, NEW after \in Rows, NEW row \in Row,
           NEW done \in Step, NEW failed \in Step, Transaction(t, s, after, row, done, failed),
           op[t].step = s => Fits(Found(op[t], done, row)) /\ Fits(Failed(op[t], failed))
    PROVE  TypeInv'
<1>1. table \in Rows /\ memory \in [Workers -> Rows] /\ known \subseteq Fact
  BY DEF TypeInv, TypeOK
<1>2. /\ op[t].step = s /\ UNCHANGED <<memory, expired, known, calls>>
      /\ table' \in {table, after}
      /\ op' \in {[op EXCEPT ![t] = Found(op[t], done, row)],
                  [op EXCEPT ![t] = Failed(op[t], failed)]}
  BY NowTypes DEF Transaction, At, Found, Failed
<1> QED
  BY <1>1, <1>2, NowTypes, RecordTypes, OneMoves

LEMMA InsertTypes ==
    ASSUME TypeInv, NEW t \in Threads, NEW s, NEW after \in Rows, NEW done \in Step,
           Insert(t, s, after, done), op[t].step = s => Fits(To(op[t], done))
    PROVE  TypeInv'
<1>1. table \in Rows /\ memory \in [Workers -> Rows] /\ known \subseteq Fact
  BY DEF TypeInv, TypeOK
<1>2. /\ op[t].step = s /\ UNCHANGED <<memory, expired, known, calls>>
      /\ table' \in {table, after}
      /\ op' \in {[op EXCEPT ![t] = To(op[t], done)], [op EXCEPT ![t] = Idle("error")]}
  BY NowTypes DEF Insert, At, To
<1>3. To(op[t], done) \in OpRecord /\ Fits(To(op[t], done))
  BY <1>2, NowTypes, RecordTypes DEF Row
<1>4. Idle("error") \in OpRecord /\ Fits(Idle("error"))
  BY IdleTypes DEF Answers
<1> QED
  BY <1>1, <1>2, <1>3, <1>4, OneMoves

\* A step of the dictionaries, which answers or goes on.
LEMMA MemoryStepTypes ==
    ASSUME TypeInv, NEW t \in Threads, Unchanged,
           memory' \in [Workers -> Rows], known' \subseteq Fact,
           \/ \E a \in Answers : Answer(t, a)
           \/ \E s \in Step : Go(t, s) /\ Fits(To(op[t], s))
           \/ \E s \in Step : GoAfresh(t, s) /\ Fits(Afresh(op[t], s))
    PROVE  TypeInv'
<1>1. table' \in Rows /\ UNCHANGED <<expired, calls>>
  BY DEF TypeInv, TypeOK, Unchanged
<1>2. CASE \E a \in Answers : Answer(t, a)
  BY <1>1, <1>2, IdleTypes, OneMoves DEF Answer
<1>3. ASSUME NEW s \in Step, Go(t, s), Fits(To(op[t], s))
      PROVE  TypeInv'
  <2>1. op' = [op EXCEPT ![t] = To(op[t], s)]
    BY <1>3, NowTypes DEF Go, To
  <2> QED
    BY <1>1, <1>3, <2>1, NowTypes, RecordTypes, OneMoves DEF Row
<1>4. ASSUME NEW s \in Step, GoAfresh(t, s), Fits(Afresh(op[t], s))
      PROVE  TypeInv'
  <2>1. op' = [op EXCEPT ![t] = Afresh(op[t], s)]
    BY <1>4, NowTypes DEF GoAfresh, Afresh
  <2> QED
    BY <1>1, <1>4, <2>1, NowTypes, RecordTypes, OneMoves DEF Row
<1> QED
  BY <1>2, <1>3, <1>4

LEMMA RememberTypes ==
    ASSUME TypeInv, NEW t \in Threads, op[t].step # "idle",
           \/ \E v \in Account \cup {NoRow} : Remember(t, "user", v)
           \/ \E v \in Users \cup {NoRow} : Remember(t, "owner", v)
           \/ \E v \in Item \cup {NoRow} : Remember(t, "item", v)
           \/ \E v \in {"unused", "used"} : Remember(t, "token", v)
           \/ UNCHANGED memory
    PROVE  memory' \in [Workers -> Rows]
<1>1. op[t].worker \in Workers /\ memory \in [Workers -> Rows]
  BY DEF TypeInv, TypeOK, Fits
<1>2. ASSUME NEW r \in Rows
      PROVE  /\ \A v \in Account \cup {NoRow} : [r EXCEPT !["user"] = v] \in Rows
             /\ \A v \in Users \cup {NoRow} : [r EXCEPT !["owner"] = v] \in Rows
             /\ \A v \in Item \cup {NoRow} : [r EXCEPT !["item"] = v] \in Rows
             /\ \A v \in {"unused", "used"} : [r EXCEPT !["token"] = v] \in Rows
  BY DEF Rows
<1>3. ASSUME NEW f, NEW v, Remember(t, f, v)
      PROVE  memory' = [memory EXCEPT ![op[t].worker] = [memory[op[t].worker] EXCEPT ![f] = v]]
  BY <1>1, <1>3 DEF Remember
<1>4. memory[op[t].worker] \in Rows
  BY <1>1
<1>5. CASE \E v \in Account \cup {NoRow} : Remember(t, "user", v)
  <2>1. PICK v \in Account \cup {NoRow} : Remember(t, "user", v)
    BY <1>5
  <2>2. [memory[op[t].worker] EXCEPT !["user"] = v] \in Rows
    BY <1>2, <1>4
  <2>3. memory' = [memory EXCEPT ![op[t].worker] = [memory[op[t].worker] EXCEPT !["user"] = v]]
    BY <1>3, <2>1
  <2> QED
    BY <1>1, <2>2, <2>3
<1>6. CASE \E v \in Users \cup {NoRow} : Remember(t, "owner", v)
  <2>1. PICK v \in Users \cup {NoRow} : Remember(t, "owner", v)
    BY <1>6
  <2>2. [memory[op[t].worker] EXCEPT !["owner"] = v] \in Rows
    BY <1>2, <1>4
  <2>3. memory' = [memory EXCEPT ![op[t].worker] = [memory[op[t].worker] EXCEPT !["owner"] = v]]
    BY <1>3, <2>1
  <2> QED
    BY <1>1, <2>2, <2>3
<1>7. CASE \E v \in Item \cup {NoRow} : Remember(t, "item", v)
  <2>1. PICK v \in Item \cup {NoRow} : Remember(t, "item", v)
    BY <1>7
  <2>2. [memory[op[t].worker] EXCEPT !["item"] = v] \in Rows
    BY <1>2, <1>4
  <2>3. memory' = [memory EXCEPT ![op[t].worker] = [memory[op[t].worker] EXCEPT !["item"] = v]]
    BY <1>3, <2>1
  <2> QED
    BY <1>1, <2>2, <2>3
<1>8. CASE \E v \in {"unused", "used"} : Remember(t, "token", v)
  <2>1. PICK v \in {"unused", "used"} : Remember(t, "token", v)
    BY <1>8
  <2>2. [memory[op[t].worker] EXCEPT !["token"] = v] \in Rows
    BY <1>2, <1>4
  <2>3. memory' = [memory EXCEPT ![op[t].worker] = [memory[op[t].worker] EXCEPT !["token"] = v]]
    BY <1>3, <2>1
  <2> QED
    BY <1>1, <2>2, <2>3
<1> QED
  BY <1>1, <1>5, <1>6, <1>7, <1>8

\* A look-up begins with nothing found and has not failed.
LEMMA QueryTypes ==
    ASSUME TypeInv, NEW t \in Threads, NEW s, NEW row \in Row, NEW done \in Step,
           NEW failed \in Step, Query(t, s, row, done, failed),
           op[t].step = s => Fits(Found(op[t], done, row)) /\ Fits(Failed(op[t], failed))
    PROVE  TypeInv'
<1>1. table \in Rows
  BY DEF TypeInv, TypeOK
<1> QED
  BY <1>1, TransactionTypes DEF Query

LEMMA SeenTypes ==
    ASSUME TypeInv, NEW t \in Threads
    PROVE  /\ At(t, "user found") => UserSeen(t) \in Account \cup {NoRow}
           /\ At(t, "owner found") => OwnerSeen(t) \in Users \cup {NoRow}
BY NowTypes DEF At, UserSeen, OwnerSeen, Fits, Rows

LEMMA KeepUserTypes ==
    ASSUME TypeInv, NEW t \in Threads, At(t, "user found"), KeepUser(t)
    PROVE  memory' \in [Workers -> Rows]
BY SeenTypes, RememberTypes DEF At, KeepUser

LEMMA KnownTypes ==
    ASSUME TypeInv
    PROVE  known \subseteq Fact
           /\ \A F : F \subseteq Fact /\ Learn(F) => known' \subseteq Fact
BY DEF TypeInv, TypeOK, Learn

LEMMA AccountTypes ==
    ASSUME TypeInv, NEW t \in Threads,
           \/ get_user(t) \/ get_current_user(t) \/ authenticate_user(t)
           \/ get_user_by_api_key(t)
    PROVE  TypeInv'
<1> USE StoreAssumption
<1>0. /\ op[t] \in OpRecord /\ Fits(op[t]) /\ known \subseteq Fact
      /\ table \in Rows /\ memory \in [Workers -> Rows]
      /\ table.user \in Row /\ {"ok", "refused", "error"} \subseteq Answers
  BY NowTypes, KnownTypes DEF TypeInv, TypeOK, Rows, Row, Answers
<1>1. CASE get_user(t)
  <2>1. op[t].step = "user" => /\ Fits(Found(op[t], "user found", table.user))
                               /\ Fits(Failed(op[t], "user found"))
    BY <1>0 DEF Fits, Found, Failed, OpRecord, BeforeLookUp, Rows
  <2>2. "user found" \in Step
    BY DEF Step
  <2> QED
    BY <1>0, <1>1, <2>1, <2>2, QueryTypes DEF get_user
<1>2. CASE get_current_user(t)
  <2>1. memory' \in [Workers -> Rows]
    BY <1>2, KeepUserTypes DEF get_current_user
  <2>2. PICK s \in Step : <<op[t].call, s>> \in Handlers /\ GoAfresh(t, s)
    BY <1>2 DEF get_current_user
  <2>3. Fits(Afresh(op[t], s))
    BY <1>0, <1>2, <2>2
       DEF get_current_user, At, Fits, Afresh, OpRecord, BeforeLookUp, Handlers, Watchlists,
           Alerts, Assets, Conversations, Reads, Creates, Deletes
  <2> QED
    BY <1>0, <1>2, <2>1, <2>2, <2>3, MemoryStepTypes DEF get_current_user
<1>3. CASE authenticate_user(t)
  <2>1. memory' \in [Workers -> Rows]
    BY <1>3, KeepUserTypes DEF authenticate_user
  <2>2. \E a \in Answers : Answer(t, a)
    BY <1>0, <1>3 DEF authenticate_user, AnswerIf
  <2> QED
    BY <1>0, <1>3, <2>1, <2>2, MemoryStepTypes DEF authenticate_user
<1>4. CASE Query(t, "key", table.user, "key found", "key found")
  <2>1. op[t].step = "key" => /\ Fits(Found(op[t], "key found", table.user))
                              /\ Fits(Failed(op[t], "key found"))
    BY <1>0 DEF Fits, Found, Failed, OpRecord, BeforeLookUp
  <2>2. "key found" \in Step
    BY DEF Step
  <2> QED
    BY <1>0, <1>4, <2>1, <2>2, QueryTypes
<1>5. CASE get_user_by_api_key(t) /\ At(t, "key found")
  <2>1. memory' \in [Workers -> Rows] /\ known' = known /\ Unchanged
    <3>1. "missing" \in Account \cup {NoRow}
      BY DEF Account
    <3> QED
      BY <1>0, <1>5, <3>1, RememberTypes DEF get_user_by_api_key, At, Query, Transaction
  <2>2. \E a \in Answers : Answer(t, a)
    BY <1>0, <1>5 DEF get_user_by_api_key, AnswerIf, Query, Transaction, At
  <2> QED
    BY <1>0, <2>1, <2>2, MemoryStepTypes
<1> QED
  BY <1>1, <1>2, <1>3, <1>4, <1>5 DEF get_user_by_api_key

LEMMA RegisterTypes ==
    ASSUME TypeInv, NEW t \in Threads, register_user(t)
    PROVE  TypeInv'
<1> USE StoreAssumption
<1>0. /\ op[t] \in OpRecord /\ Fits(op[t]) /\ known \subseteq Fact
      /\ table \in Rows /\ memory \in [Workers -> Rows]
      /\ {"ok", "refused", "error"} \subseteq Answers
      /\ {"insert user", "user inserted"} \subseteq Step
  BY NowTypes, KnownTypes DEF TypeInv, TypeOK, Answers, Step
<1>1. CASE At(t, "user found")
  <2>1. /\ KeepUser(t) /\ Unchanged /\ known' = known
        /\ Answer(t, "refused") \/ Go(t, "insert user")
        /\ op[t].call = "register_user"
    BY <1>1 DEF register_user, create_user, Insert, At
  <2>2. memory' \in [Workers -> Rows]
    BY <1>1, <2>1, KeepUserTypes
  <2>3. Fits(To(op[t], "insert user"))
    BY <1>0, <1>1, <2>1 DEF At, Fits, To, OpRecord, BeforeLookUp
  <2> QED
    BY <1>0, <2>1, <2>2, <2>3, MemoryStepTypes
<1>2. CASE Insert(t, "insert user", [table EXCEPT !.user = "first"], "user inserted")
  <2>1. [table EXCEPT !.user = "first"] \in Rows
    BY <1>0 DEF Rows, Account, Passwords
  <2>2. op[t].step = "insert user" => Fits(To(op[t], "user inserted"))
    BY <1>0 DEF Fits, To, OpRecord, BeforeLookUp
  <2> QED
    BY <1>0, <1>2, <2>1, <2>2, InsertTypes
<1>3. CASE Answer(t, "error") /\ UNCHANGED <<memory, known>> /\ Unchanged
  BY <1>0, <1>3, MemoryStepTypes
<1>4. CASE At(t, "user inserted") /\ Remember(t, "user", "first") /\ Answer(t, "ok")
           /\ Learn({"registered"}) /\ Unchanged
  <2>1. memory' \in [Workers -> Rows]
    BY <1>4, RememberTypes DEF At, Account, Passwords
  <2>2. known' \subseteq Fact
    BY <1>4, KnownTypes DEF Fact, Events
  <2> QED
    BY <1>0, <1>4, <2>1, <2>2, MemoryStepTypes
<1> QED
  BY <1>1, <1>2, <1>3, <1>4 DEF register_user, create_user

LEMMA RequestTypes ==
    ASSUME TypeInv, NEW t \in Threads, request_password_reset(t)
    PROVE  TypeInv'
<1> USE StoreAssumption
<1>0. /\ op[t] \in OpRecord /\ Fits(op[t]) /\ known \subseteq Fact
      /\ table \in Rows /\ memory \in [Workers -> Rows] /\ NoRow \in Row
      /\ {"ok", "refused", "error"} \subseteq Answers
      /\ {"insert token", "token inserted"} \subseteq Step
  BY NowTypes, KnownTypes DEF TypeInv, TypeOK, Answers, Step, Row
<1>1. CASE At(t, "user found")
  <2>1. /\ KeepUser(t) /\ Unchanged /\ known' = known
        /\ Answer(t, "refused") \/ Go(t, "insert token")
        /\ op[t].call = "request_password_reset"
    BY <1>1 DEF request_password_reset, Transaction, At
  <2>2. memory' \in [Workers -> Rows]
    BY <1>1, <2>1, KeepUserTypes
  <2>3. Fits(To(op[t], "insert token"))
    BY <1>0, <1>1, <2>1 DEF At, Fits, To, OpRecord, BeforeLookUp
  <2> QED
    BY <1>0, <2>1, <2>2, <2>3, MemoryStepTypes
<1>2. CASE Transaction(t, "insert token", [table EXCEPT !.token = "unused"], NoRow,
                       "token inserted", "token inserted")
  <2>1. [table EXCEPT !.token = "unused"] \in Rows
    BY <1>0 DEF Rows
  <2>2. op[t].step = "insert token" => /\ Fits(Found(op[t], "token inserted", NoRow))
                                       /\ Fits(Failed(op[t], "token inserted"))
    BY <1>0 DEF Fits, Found, Failed, OpRecord, BeforeLookUp
  <2> QED
    BY <1>0, <1>2, <2>1, <2>2, TransactionTypes
<1>3. CASE At(t, "token inserted") /\ Remember(t, "token", "unused") /\ Answer(t, "ok")
           /\ Learn({"token issued"}) /\ Unchanged
  <2>1. memory' \in [Workers -> Rows]
    BY <1>3, RememberTypes DEF At
  <2>2. known' \subseteq Fact
    BY <1>3, KnownTypes DEF Fact, Events
  <2> QED
    BY <1>0, <1>3, <2>1, <2>2, MemoryStepTypes
<1> QED
  BY <1>1, <1>2, <1>3 DEF request_password_reset

LEMMA ChangedTypes ==
    \A rows \in Rows, p \in Passwords : Changed(rows, p) \in Rows /\ MarkUsed(rows, p) \in Rows
BY DEF Rows, Changed, MarkUsed, Account, Passwords

\* A reset carries the password that it is to set.
LEMMA ResetBy ==
    ASSUME TypeInv, NEW t \in Threads, op[t].call = "reset_password"
    PROVE  op[t].by \in Passwords
<1>1. op[t].step # "idle"
  BY NowTypes, StoreAssumption DEF Fits, Operation, Resets
<1> QED
  BY <1>1, NowTypes DEF Fits, Invocation, OfUsers, Reads, Creates, Deletes, OfAnyone

LEMMA ResetTypes ==
    ASSUME TypeInv, NEW t \in Threads, reset_password(t)
    PROVE  TypeInv'
<1> USE StoreAssumption
<1>0. /\ op[t] \in OpRecord /\ Fits(op[t]) /\ known \subseteq Fact
      /\ table \in Rows /\ memory \in [Workers -> Rows] /\ NoRow \in Row /\ table.token \in Row
      /\ {"ok", "refused", "error"} \subseteq Answers
      /\ {"token found", "token in memory", "update", "token consumed"} \subseteq Step
  BY NowTypes, KnownTypes DEF TypeInv, TypeOK, Answers, Step, Row, Rows
<1>9. op[t].step \in {"update", "token consumed", "token in memory"} => op[t].by \in Passwords
  BY <1>0, ResetBy DEF Fits
<1>1. CASE Query(t, "token", table.token, "token found", "token in memory")
  <2>1. op[t].step = "token" => /\ Fits(Found(op[t], "token found", table.token))
                                /\ Fits(Failed(op[t], "token in memory"))
    BY <1>0 DEF Fits, Found, Failed, OpRecord, BeforeLookUp
  <2> QED
    BY <1>0, <1>1, <2>1, QueryTypes
<1>2. CASE At(t, "token found") /\ (Answer(t, "refused") \/ Go(t, "update"))
           /\ UNCHANGED <<memory, known>> /\ Unchanged
  <2>1. Fits(To(op[t], "update"))
    BY <1>0, <1>2 DEF At, Fits, To, OpRecord, BeforeLookUp
  <2> QED
    BY <1>0, <1>2, <2>1, MemoryStepTypes
<1>3. CASE Transaction(t, "update", MarkUsed(table, op[t].by), NoRow, "token consumed", "token in memory")
  <2>1. op[t].step = "update" => /\ Fits(Found(op[t], "token consumed", NoRow))
                                 /\ Fits(Failed(op[t], "token in memory"))
    BY <1>0 DEF Fits, Found, Failed, OpRecord, BeforeLookUp
  <2>2. op[t].step = "update" /\ MarkUsed(table, op[t].by) \in Rows
    BY <1>0, <1>3, <1>9, ChangedTypes DEF Transaction, At
  <2> QED
    BY <1>0, <1>3, <2>1, <2>2, TransactionTypes
<1>4. ASSUME op[t].step \in {"token consumed", "token in memory"},
             memory' \in {memory, [memory EXCEPT ![op[t].worker] = Changed(@, op[t].by)]},
             \E a \in {"ok", "refused"} : Answer(t, a),
             \/ known' = known \/ Learn({op[t].worker}) \/ Learn({"spent", op[t].worker}),
             Unchanged
      PROVE  TypeInv'
  <2>1. op[t].worker \in Workers
    BY <1>0, <1>4 DEF Fits
  <2>2. memory' \in [Workers -> Rows]
    <3>1. Changed(memory[op[t].worker], op[t].by) \in Rows
      BY <1>0, <1>4, <1>9, <2>1, ChangedTypes
    <3>2. memory' \in {memory, [memory EXCEPT ![op[t].worker] =
                                   Changed(memory[op[t].worker], op[t].by)]}
      BY <1>4
    <3> QED
      BY <1>0, <2>1, <3>1, <3>2
  <2>3. known' \subseteq Fact
    <3>1. {op[t].worker} \subseteq Fact /\ {"spent", op[t].worker} \subseteq Fact
      BY <2>1 DEF Fact, Events
    <3> QED
      BY <1>0, <1>4, <3>1, KnownTypes
  <2> QED
    BY <1>0, <1>4, <2>2, <2>3, MemoryStepTypes
<1>5. CASE At(t, "token consumed") \/ At(t, "token in memory")
  BY <1>4, <1>5 DEF reset_password, At, Query, Transaction
<1> QED
  BY <1>1, <1>2, <1>3, <1>5 DEF reset_password

LEMMA ThreadTypes ==
    ASSUME TypeInv, NEW t \in Threads, Thread_step(t)
    PROVE  TypeInv'
<1> USE StoreAssumption
<1>0. /\ op[t] \in OpRecord /\ Fits(op[t]) /\ known \subseteq Fact
      /\ table \in Rows /\ memory \in [Workers -> Rows]
      /\ table.owner \in Users \cup {NoRow} /\ table.owner \in Row /\ op[t].found \in Row
      /\ {"ok", "refused", "error"} \subseteq Answers
      /\ {"owner found", "user exists", "insert item", "upsert", "own"} \subseteq Step
  BY NowTypes, KnownTypes DEF TypeInv, TypeOK, Answers, Step, Row, Rows, OpRecord
<1>1. CASE get_thread_owner(t)
  <2>1. op[t].step = "owner" => /\ Fits(Found(op[t], "owner found", table.owner))
                                /\ Fits(Failed(op[t], "owner found"))
    BY <1>0 DEF Fits, Found, Failed, OpRecord, BeforeLookUp
  <2> QED
    BY <1>0, <1>1, <2>1, QueryTypes DEF get_thread_owner
<1>2. CASE validate_thread_ownership(t) \/ stream_travel_events(t)
  <2>1. /\ At(t, "owner found") /\ Remember(t, "owner", OwnerSeen(t)) /\ known' = known
        /\ Unchanged
    BY <1>2 DEF validate_thread_ownership, stream_travel_events
  <2>2. memory' \in [Workers -> Rows]
    BY <2>1, SeenTypes, RememberTypes DEF At
  <2>3. \/ Fits(To(op[t], "user exists"))
        \/ op[t].call = "validate_thread_ownership"
        \/ OwnerSeen(t) \notin {NoRow, op[t].by}
    BY <1>0, <2>1 DEF At, Fits, To, OpRecord, BeforeLookUp, OwnerSeen
  <2>4. \/ \E a \in Answers : Answer(t, a)
        \/ /\ op[t].call = "stream_travel_events" /\ Go(t, "user exists")
           /\ OwnerSeen(t) \in {NoRow, op[t].by}
    BY <1>0, <1>2 DEF validate_thread_ownership, stream_travel_events, AnswerIf
  <2> QED
    BY <1>0, <2>1, <2>2, <2>3, <2>4, MemoryStepTypes
<1>3. CASE ensure_user_exists(t)
  <2>1. memory' \in [Workers -> Rows]
    BY <1>3, RememberTypes DEF ensure_user_exists, At, Account
  <2>2. PICK s \in {"insert item", "upsert"} :
           Go(t, s) /\ (s = "insert item" <=> op[t].call \in Creates)
    BY <1>3 DEF ensure_user_exists
  <2>3. Fits(To(op[t], s))
    BY <1>0, <1>3, <2>2 DEF ensure_user_exists, At, Fits, To, OpRecord, BeforeLookUp
  <2> QED
    BY <1>0, <1>3, <2>1, <2>2, <2>3, MemoryStepTypes DEF ensure_user_exists
<1>4. ASSUME op[t].step \in {"upsert", "own"}
      PROVE  op[t].by \in Users
  BY <1>0, <1>4 DEF Fits, Invocation, OfUsers, OfAnyone, LogIns, Resets
<1>5. CASE register_thread_owner(t) /\ At(t, "upsert")
  <2>1. [table EXCEPT !.owner = op[t].by] \in Rows
    BY <1>0, <1>4, <1>5 DEF Rows, At
  <2>2. op[t].step = "upsert" => /\ Fits(Found(op[t], "own", op[t].found))
                                 /\ Fits(Failed(op[t], "own"))
    BY <1>0 DEF Fits, Found, Failed, OpRecord, BeforeLookUp
  <2> QED
    BY <1>0, <1>5, <2>1, <2>2, TransactionTypes DEF register_thread_owner, At
<1>6. CASE register_thread_owner(t) /\ At(t, "own")
  <2>1. memory' \in [Workers -> Rows]
    BY <1>4, <1>6, RememberTypes DEF register_thread_owner, At, Transaction
  <2> QED
    BY <1>0, <1>6, <2>1, MemoryStepTypes DEF register_thread_owner, At, Transaction
<1> QED
  BY <1>1, <1>2, <1>3, <1>5, <1>6 DEF Thread_step, register_thread_owner, Transaction, At

\* Items belong to users, and only the owner finds one.
LEMMA ItemTypes ==
    /\ \A u \in Users : NewItem(u) \in Item
    /\ \A rows \in Rows, u \in Users :
          /\ Marked(rows, u) \in Rows
          /\ ItemOf(rows, u) \in Users \cup {NoRow} /\ ItemOf(rows, u) \in Row
<1>1. ASSUME NEW rows \in Rows, NEW u \in Users, Owned(rows, u)
      PROVE  Marked(rows, u) \in Rows
  BY <1>1 DEF Owned, Marked, Rows, Item
<1>2. ASSUME NEW rows \in Rows, NEW u \in Users
      PROVE  Marked(rows, u) \in Rows
  BY <1>1 DEF Marked
<1> QED
  BY <1>2 DEF NewItem, Item, ItemOf, Row

ItemSteps == {"insert item", "item inserted", "item", "item found", "item in memory", "mark",
              "marked", "read in memory", "delete", "deleted", "item again", "remove"}

LEMMA ItemCalls ==
    ASSUME NEW o \in OpRecord, Fits(o), o.step \in ItemSteps
    PROVE  o.by \in Users /\ o.worker \in Workers
BY DEF ItemSteps, Fits, Invocation, OfUsers, OfAnyone, LogIns, Resets, Reads, Creates, Deletes

LEMMA CreateTypes ==
    ASSUME TypeInv, NEW t \in Threads, NEW c \in Creates, Create(t, c)
    PROVE  TypeInv'
<1> USE StoreAssumption
<1>0. /\ op[t] \in OpRecord /\ Fits(op[t]) /\ known \subseteq Fact /\ table \in Rows
      /\ "ok" \in Answers /\ "item inserted" \in Step
      /\ op[t].step \in ItemSteps => NewItem(op[t].by) \in Item
  BY NowTypes, KnownTypes, ItemTypes, ItemCalls DEF TypeInv, TypeOK, Answers, Step
<1>1. CASE InsertItem(t)
  <2>1. op[t].step = "insert item"
    BY <1>1 DEF InsertItem, Insert, At
  <2>2. [table EXCEPT !.item = NewItem(op[t].by)] \in Rows
    BY <1>0, <2>1 DEF Rows, ItemSteps
  <2>3. Fits(To(op[t], "item inserted"))
    BY <1>0, <2>1 DEF Fits, To, OpRecord, BeforeLookUp
  <2> QED
    BY <1>0, <1>1, <2>2, <2>3, InsertTypes DEF InsertItem
<1>2. CASE At(t, "item inserted") /\ Remember(t, "item", NewItem(op[t].by)) /\ Answer(t, "ok")
           /\ Learn({"created"}) /\ Unchanged
  <2>1. memory' \in [Workers -> Rows]
    BY <1>0, <1>2, RememberTypes DEF At, ItemSteps
  <2>2. known' \subseteq Fact
    BY <1>2, KnownTypes DEF Fact, Events
  <2> QED
    BY <1>0, <1>2, <2>1, <2>2, MemoryStepTypes
<1> QED
  BY <1>1, <1>2 DEF Create

LEMMA ReadTypes ==
    ASSUME TypeInv, NEW t \in Threads, NEW c \in Reads, Read(t, c)
    PROVE  TypeInv'
<1> USE StoreAssumption
<1>0. /\ op[t] \in OpRecord /\ Fits(op[t]) /\ known \subseteq Fact /\ table \in Rows
      /\ memory \in [Workers -> Rows] /\ {"ok", "none"} \subseteq Answers
      /\ {"item found", "item in memory"} \subseteq Step
      /\ op[t].step \in ItemSteps => ItemOf(table, op[t].by) \in Row
  BY NowTypes, KnownTypes, ItemTypes, ItemCalls DEF TypeInv, TypeOK, Answers, Step
<1>1. CASE Query(t, "item", ItemOf(table, op[t].by), "item found", "item in memory")
  <2>1. op[t].step = "item"
    BY <1>1 DEF Query, Transaction, At
  <2>2. /\ Fits(Found(op[t], "item found", ItemOf(table, op[t].by)))
        /\ Fits(Failed(op[t], "item in memory"))
    BY <1>0, <2>1 DEF Fits, Found, Failed, OpRecord, BeforeLookUp
  <2> QED
    BY <1>0, <1>1, <2>1, <2>2, QueryTypes DEF ItemSteps
<1>2. ASSUME NEW i, AnswerItem(t, i), UNCHANGED <<memory, known>>, Unchanged
      PROVE  TypeInv'
  <2>1. \E a \in Answers : Answer(t, a)
    BY <1>0, <1>2 DEF AnswerItem
  <2> QED
    BY <1>0, <1>2, <2>1, MemoryStepTypes
<1> QED
  BY <1>1, <1>2 DEF Read

LEMMA MarkTypes ==
    ASSUME TypeInv, NEW t \in Threads, mark_alert_read(t)
    PROVE  TypeInv'
<1> USE StoreAssumption
<1>0. /\ op[t] \in OpRecord /\ Fits(op[t]) /\ known \subseteq Fact /\ table \in Rows
      /\ memory \in [Workers -> Rows] /\ {"ok", "none"} \subseteq Answers
      /\ {"marked", "read in memory"} \subseteq Step
      /\ op[t].step \in ItemSteps =>
            /\ ItemOf(table, op[t].by) \in Row /\ op[t].by \in Users /\ op[t].worker \in Workers
  BY NowTypes, KnownTypes, ItemTypes, ItemCalls DEF TypeInv, TypeOK, Answers, Step
<1>1. CASE Transaction(t, "mark", Marked(table, op[t].by), ItemOf(table, op[t].by), "marked",
                       "read in memory")
  <2>1. op[t].step = "mark"
    BY <1>1 DEF Transaction, At
  <2>2. /\ Fits(Found(op[t], "marked", ItemOf(table, op[t].by)))
        /\ Fits(Failed(op[t], "read in memory"))
    BY <1>0, <2>1 DEF Fits, Found, Failed, OpRecord, BeforeLookUp
  <2>3. Marked(table, op[t].by) \in Rows
    BY <1>0, <2>1, ItemTypes DEF ItemSteps
  <2> QED
    BY <1>0, <1>1, <2>1, <2>2, <2>3, TransactionTypes DEF ItemSteps
<1>2. ASSUME NEW i, AnswerItem(t, i), memory' \in [Workers -> Rows], known' = known, Unchanged
      PROVE  TypeInv'
  <2>1. \E a \in Answers : Answer(t, a)
    BY <1>0, <1>2 DEF AnswerItem
  <2> QED
    BY <1>0, <1>2, <2>1, MemoryStepTypes
<1>3. CASE At(t, "marked") /\ ~Transaction(t, "mark", Marked(table, op[t].by),
                                           ItemOf(table, op[t].by), "marked", "read in memory")
  <2>1. [owner |-> op[t].by, read |-> TRUE] \in Item
    BY <1>0, <1>3 DEF At, ItemSteps, Item
  <2>2. memory' \in [Workers -> Rows]
    BY <1>3, <2>1, RememberTypes DEF mark_alert_read, At
  <2> QED
    BY <1>2, <1>3, <2>2 DEF mark_alert_read, At
<1>4. CASE At(t, "read in memory") /\ ~Transaction(t, "mark", Marked(table, op[t].by),
                                           ItemOf(table, op[t].by), "marked", "read in memory")
  <2>1. op[t].worker \in Workers /\ Marked(memory[op[t].worker], op[t].by) \in Rows
    BY <1>0, <1>4, ItemTypes DEF At, ItemSteps
  <2>2. memory' = [memory EXCEPT ![op[t].worker] = Marked(memory[op[t].worker], op[t].by)]
    BY <1>4 DEF mark_alert_read, At
  <2>3. memory' \in [Workers -> Rows]
    BY <1>0, <2>1, <2>2
  <2> QED
    BY <1>2, <1>4, <2>3 DEF mark_alert_read, At
<1> QED
  BY <1>1, <1>3, <1>4 DEF mark_alert_read

LEMMA DeleteTypes ==
    ASSUME TypeInv, NEW t \in Threads, NEW c \in Deletes,
           NEW otherwise \in {"item again", "item in memory"}, Delete(t, c, otherwise)
    PROVE  TypeInv'
<1> USE StoreAssumption
<1>0. /\ op[t] \in OpRecord /\ Fits(op[t]) /\ known \subseteq Fact /\ table \in Rows
      /\ memory \in [Workers -> Rows] /\ {"ok", "refused", "error"} \subseteq Answers
      /\ {"deleted", "item again", "item in memory", "remove"} \subseteq Step
      /\ op[t].step \in ItemSteps => ItemOf(table, op[t].by) \in Row
      /\ op[t].call \in Deletes
  BY NowTypes, KnownTypes, ItemTypes, ItemCalls DEF TypeInv, TypeOK, Answers, Step, Delete
<1>1. CASE At(t, "delete")
  <2> DEFINE after == IF Owned(table, op[t].by) THEN [table EXCEPT !.item = NoRow] ELSE table
  <2>1. Transaction(t, "delete", after, ItemOf(table, op[t].by), "deleted", otherwise)
    BY <1>1 DEF Delete, At
  <2>2. /\ Fits(Found(op[t], "deleted", ItemOf(table, op[t].by)))
        /\ Fits(Failed(op[t], otherwise))
    BY <1>0, <1>1 DEF At, Fits, Found, Failed, OpRecord, BeforeLookUp
  <2>3. after \in Rows
    BY <1>0 DEF Rows
  <2> HIDE DEF after
  <2> QED
    BY <1>0, <1>1, <2>1, <2>2, <2>3, TransactionTypes DEF At, ItemSteps
<1>2. CASE ~At(t, "delete")
  <2>1. /\ op[t].step \in ItemSteps /\ Unchanged
        /\ known' = known \/ Learn({"deleted"})
        /\ Remember(t, "item", NoRow) \/ UNCHANGED memory
        /\ \/ \E a \in {"ok", "refused", "error"} : Answer(t, a)
           \/ Go(t, "remove")
           \/ Go(t, "item in memory") /\ op[t].step = "item again"
    BY <1>2 DEF Delete, Transaction, At, ItemSteps
  <2>2. known' \subseteq Fact
    BY <1>0, <2>1, KnownTypes DEF Fact, Events
  <2>3. memory' \in [Workers -> Rows]
    BY <1>0, <2>1, RememberTypes DEF ItemSteps
  <2>4. /\ Fits(To(op[t], "remove"))
        /\ op[t].step = "item again" => Fits(To(op[t], "item in memory"))
    BY <1>0, <2>1 DEF Fits, To, OpRecord, BeforeLookUp, ItemSteps
  <2> QED
    BY <1>0, <2>1, <2>2, <2>3, <2>4, MemoryStepTypes
<1> QED
  BY <1>1, <1>2

LEMMA ItemStepTypes ==
    ASSUME TypeInv, NEW t \in Threads, Item_step(t)
    PROVE  TypeInv'
<1>1. CASE create_watchlist(t) \/ create_alert(t) \/ create_asset(t)
  BY <1>1, CreateTypes DEF create_watchlist, create_alert, create_asset, Creates
<1>2. CASE get_watchlist(t) \/ list_watchlists(t) \/ list_alerts(t) \/ get_asset(t)
           \/ list_assets(t)
  BY <1>2, ReadTypes DEF get_watchlist, list_watchlists, list_alerts, get_asset, list_assets, Reads
<1>3. CASE mark_alert_read(t)
  BY <1>3, MarkTypes
<1>4. CASE delete_watchlist(t) \/ delete_alert(t) \/ delete_asset(t)
  BY <1>4, DeleteTypes DEF delete_watchlist, delete_alert, delete_asset, Deletes
<1> QED
  BY <1>1, <1>2, <1>3, <1>4 DEF Item_step

\* A request's record when it begins.
Fresh(w, c, u) ==
    [call |-> c, by |-> u, worker |-> w, step |-> FirstStep(c), found |-> NoRow,
     failed |-> FALSE, knew |-> known \cap Spoken, answer |-> "none"]

LEMMA BeginTypes ==
    ASSUME TypeInv, NEW t \in Threads, NEW w \in Workers, NEW c \in calls, Begin(t, w, c[1], c[2])
    PROVE  TypeInv'
<1>1. <<c[1], c[2]>> \in Invocation
  BY StoreAssumption DEF TypeInv, TypeOK, Invocation
<1>2. /\ c[1] \in Operation /\ c[2] \in Users \cup Passwords \cup {NoRow}
      /\ FirstStep(c[1]) \in {"token", "key", "user"}
      /\ FirstStep(c[1]) = "token" => c[1] = "reset_password"
      /\ FirstStep(c[1]) = "key" => c[1] = "get_user_by_api_key"
      /\ FirstStep(c[1]) = "user" => c[1] \notin {"reset_password", "get_user_by_api_key"}
  BY <1>1 DEF Invocation, Operation, Resets, FirstStep
<1>3. Fresh(w, c[1], c[2]) \in OpRecord /\ Fits(Fresh(w, c[1], c[2]))
  BY <1>1, <1>2 DEF Fresh, OpRecord, Fits, Step, Row, Answers, Spoken, Fact, Events, BeforeLookUp
<1>4. known' \subseteq Fact
  BY KnownTypes DEF Begin, Learn, Requested, Fact, Events
<1> QED
  BY <1>3, <1>4, OneMoves DEF Begin, Fresh, Unchanged, TypeInv, TypeOK

LEMMA TypeStep == TypeInv /\ [Next]_vars => TypeInv'
<1> SUFFICES ASSUME TypeInv, [Next]_vars
             PROVE  TypeInv'
  OBVIOUS
<1>1. ASSUME NEW t \in Threads, NEW w \in Workers, NEW c \in calls, Begin(t, w, c[1], c[2])
      PROVE  TypeInv'
  BY <1>1, BeginTypes
<1>2. ASSUME NEW t \in Threads, Account_step(t) \/ Thread_step(t) \/ Item_step(t)
      PROVE  TypeInv'
  BY <1>2, AccountTypes, RegisterTypes, RequestTypes, ResetTypes, ThreadTypes, ItemStepTypes
     DEF Account_step
<1>3. CASE Expire
  BY <1>3 DEF Expire, TypeInv, TypeOK
<1>4. ASSUME NEW w \in Workers, Restart(w)
      PROVE  TypeInv'
  <2>1. Idle("none") \in OpRecord /\ Fits(Idle("none"))
    BY IdleTypes DEF Answers
  <2>2. NoRows \in Rows
    BY DEF NoRows, Rows
  <2> QED
    BY <1>4, <2>1, <2>2 DEF Restart, Unchanged, TypeInv, TypeOK, OpRecord
<1>5. CASE UNCHANGED vars
  BY <1>5 DEF vars, TypeInv, TypeOK
<1> QED
  BY <1>1, <1>2, <1>3, <1>4, <1>5 DEF Next

LEMMA TypeHolds == Spec => []TypeInv
BY TypeInit, TypeStep, PTL DEF Spec

\* Every step leaves the variables in their types.
THEOREM TypesCorrect == Spec => []TypeOK
BY TypeHolds, PTL DEF TypeInv

-----------------------------------------------------------------------------
(* The forms of a step: what becomes of the operations.                    *)

Others(t) == \A u \in Threads \ {t} : op'[u] = op[u]
\* The operation goes on at step s, or ends.
Comes(t, s) ==
    /\ Others(t)
    /\ op'[t].call = op[t].call /\ op'[t].by = op[t].by /\ op'[t].worker = op[t].worker
    /\ op'[t].knew = op[t].knew /\ op'[t].answer = op[t].answer /\ op'[t].step = s
Ends(t, a) == Others(t) /\ op'[t] = Idle(a)

LEMMA MoveForm ==
    ASSUME TypeInv, NEW t \in Threads, NEW o, op' = [op EXCEPT ![t] = o]
    PROVE  op'[t] = o /\ Others(t)
BY DEF TypeInv, TypeOK, Others

LEMMA RecordForm ==
    ASSUME NEW o \in OpRecord, NEW s, NEW row
    PROVE  /\ \A p \in {To(o, s), Found(o, s, row), Failed(o, s), Afresh(o, s)} :
                 /\ p.call = o.call /\ p.by = o.by /\ p.worker = o.worker
                 /\ p.knew = o.knew /\ p.answer = o.answer /\ p.step = s
           /\ To(o, s).found = o.found /\ To(o, s).failed = o.failed
           /\ Found(o, s, row).found = row /\ Found(o, s, row).failed = o.failed
           /\ Failed(o, s).found = o.found /\ Failed(o, s).failed
           /\ Afresh(o, s).found = NoRow /\ ~Afresh(o, s).failed
BY DEF OpRecord, To, Found, Failed, Afresh

LEMMA AnswerForm ==
    ASSUME TypeInv, NEW t \in Threads, NEW a, Answer(t, a)
    PROVE  Ends(t, a)
BY MoveForm DEF Answer, Ends

LEMMA GoForm ==
    ASSUME TypeInv, NEW t \in Threads, NEW s, Go(t, s)
    PROVE  Comes(t, s) /\ op'[t].found = op[t].found /\ op'[t].failed = op[t].failed
<1>1. op[t] \in OpRecord /\ op' = [op EXCEPT ![t] = To(op[t], s)]
  BY NowTypes DEF Go, To
<1>2. op'[t] = To(op[t], s) /\ Others(t)
  BY <1>1, MoveForm
<1> QED
  BY <1>1, <1>2, RecordForm DEF Comes

LEMMA GoAfreshForm ==
    ASSUME TypeInv, NEW t \in Threads, NEW s, GoAfresh(t, s)
    PROVE  Comes(t, s) /\ op'[t].found = NoRow /\ ~op'[t].failed
<1>1. op[t] \in OpRecord /\ op' = [op EXCEPT ![t] = Afresh(op[t], s)]
  BY NowTypes DEF GoAfresh, Afresh
<1>2. op'[t] = Afresh(op[t], s) /\ Others(t)
  BY <1>1, MoveForm
<1> QED
  BY <1>1, <1>2, RecordForm DEF Comes

LEMMA TransactionForm ==
    ASSUME TypeInv, NEW t \in Threads, NEW s, NEW after, NEW row, NEW done, NEW failed,
           Transaction(t, s, after, row, done, failed)
    PROVE  /\ op[t].step = s /\ UNCHANGED <<memory, expired, known, calls>>
           /\ \/ /\ Comes(t, done) /\ table' = after
                 /\ op'[t].found = row /\ op'[t].failed = op[t].failed
              \/ /\ Comes(t, failed) /\ table' \in {table, after}
                 /\ op'[t].found = op[t].found /\ op'[t].failed
<1>1. op[t] \in OpRecord /\ op[t].step = s /\ UNCHANGED <<memory, expired, known, calls>>
  BY NowTypes DEF Transaction, At
<1>2. CASE table' = after /\ op' = [op EXCEPT ![t] = Found(op[t], done, row)]
  <2>1. op'[t] = Found(op[t], done, row) /\ Others(t)
    BY <1>2, MoveForm
  <2> QED
    BY <1>1, <1>2, <2>1, RecordForm DEF Comes
<1>3. CASE table' \in {table, after} /\ op' = [op EXCEPT ![t] = Failed(op[t], failed)]
  <2>1. op'[t] = Failed(op[t], failed) /\ Others(t)
    BY <1>3, MoveForm
  <2> QED
    BY <1>1, <1>3, <2>1, RecordForm DEF Comes
<1> QED
  BY <1>2, <1>3 DEF Transaction, Found, Failed

LEMMA InsertForm ==
    ASSUME TypeInv, NEW t \in Threads, NEW s, NEW after, NEW done, Insert(t, s, after, done)
    PROVE  /\ op[t].step = s /\ UNCHANGED <<memory, expired, known, calls>>
           /\ \/ /\ Comes(t, done) /\ table' = after
                 /\ op'[t].found = op[t].found /\ op'[t].failed = op[t].failed
              \/ Ends(t, "error") /\ table' \in {table, after}
<1>1. op[t] \in OpRecord /\ op[t].step = s /\ UNCHANGED <<memory, expired, known, calls>>
  BY NowTypes DEF Insert, At
<1>2. CASE table' = after /\ op' = [op EXCEPT ![t] = To(op[t], done)]
  <2>1. op'[t] = To(op[t], done) /\ Others(t)
    BY <1>2, MoveForm
  <2> QED
    BY <1>1, <1>2, <2>1, RecordForm DEF Comes
<1>3. CASE table' \in {table, after} /\ op' = [op EXCEPT ![t] = Idle("error")]
  BY <1>1, <1>3, MoveForm DEF Ends
<1> QED
  BY <1>2, <1>3 DEF Insert, To

-----------------------------------------------------------------------------
(* Accounts and passwords.                                                 *)

\* Once registered an account stays.
UserInv ==
    /\ "registered" \in known => table.user # NoRow
    /\ \A t \in Threads :
          /\ op[t].step = "user inserted" => table.user # NoRow
          /\ "spent" \in op[t].knew => "spent" \in known

\* What a step of an operation may do to accounts.
UserStep(t) ==
    /\ Others(t)
    /\ op'[t].knew \subseteq op[t].knew
    /\ \/ op'[t].call = NoRow
       \/ op'[t].call = op[t].call /\ op'[t].by = op[t].by /\ op'[t].knew = op[t].knew
    /\ known \subseteq known' /\ known' \cap Passwords = Asked
    /\ \/ table'.user = table.user
       \/ op[t].step = "update" /\ table'.user = op[t].by
       \/ table.user = NoRow /\ table'.user = "first"
    /\ "registered" \in known' => "registered" \in known \/ op[t].step = "user inserted"
    /\ "spent" \in known' => "spent" \in known \/ op[t].step = "token consumed"
    /\ op'[t].step = "user inserted" => table'.user # NoRow
    /\ op'[t].step = "token consumed" => op[t].step = "update" /\ table'.user = op[t].by
    /\ op'[t].step = "user found" => op'[t].failed \/ op'[t].found = table.user

LEMMA EndForm ==
    ASSUME NEW t \in Threads, NEW a, Ends(t, a)
    PROVE  /\ Others(t) /\ op'[t].step = "idle" /\ op'[t].answer = a /\ op'[t].knew = {}
           /\ op'[t].call = NoRow /\ op'[t].found = NoRow /\ ~op'[t].failed
BY DEF Ends, Idle

\* Where an operation does not go when it was at another step than its own.
Quiet == {"user inserted", "token consumed", "user found"}

LEMMA NotQuiet ==
    {"key found", "token found", "token in memory", "owner found", "item found",
     "item in memory"} \cap Quiet = {}
BY DEF Quiet

LEMMA UserTransaction ==
    ASSUME TypeInv, NEW t \in Threads, NEW s, NEW after, NEW row, NEW done, NEW failed,
           Transaction(t, s, after, row, done, failed),
           after.user = table.user, done \notin Quiet, failed \notin Quiet
    PROVE  UserStep(t)
<1>1. /\ known' = known /\ table'.user = table.user
      /\ Comes(t, done) \/ Comes(t, failed)
  BY TransactionForm
<1> QED
  BY <1>1 DEF UserStep, Asked, Comes, Quiet

LEMMA UserQuery ==
    ASSUME TypeInv, NEW t \in Threads, NEW s, NEW row, NEW done, done \notin Quiet,
           NEW failed, failed \notin Quiet, Query(t, s, row, done, failed)
    PROVE  UserStep(t)
BY UserTransaction DEF Query

\* A step of the dictionaries: facts is what it makes known.
LEMMA UserMemory ==
    ASSUME TypeInv, NEW t \in Threads, UNCHANGED table, NEW facts, Learn(facts),
           "registered" \in facts => op[t].step = "user inserted",
           "spent" \in facts => op[t].step = "token consumed", facts \cap Passwords = {},
           \/ \E a \in Answers : Answer(t, a)
           \/ \E s \in Step \ Quiet : Go(t, s) \/ GoAfresh(t, s)
    PROVE  UserStep(t)
<1>1. CASE \E a \in Answers : Answer(t, a)
  BY <1>1, AnswerForm, EndForm DEF UserStep, Asked, Learn
<1>2. CASE \E s \in Step \ Quiet : Go(t, s) \/ GoAfresh(t, s)
  BY <1>2, GoForm, GoAfreshForm DEF UserStep, Asked, Learn, Comes, Quiet
<1> QED
  BY <1>1, <1>2

LEMMA NothingLearnt == UNCHANGED known => Learn({})
BY DEF Learn

LEMMA UserAccounts ==
    ASSUME TypeInv, NEW t \in Threads, Account_step(t)
    PROVE  UserStep(t)
<1> USE StoreAssumption
<1>0. /\ table \in Rows /\ {"ok", "refused", "error"} \subseteq Answers
      /\ {"insert user", "insert token", "update"} \subseteq Step \ Quiet
  BY DEF TypeInv, TypeOK, Answers, Step, Quiet
<1>8. Passwords \cap ({"registered", "token issued", "spent"} \cup Workers) = {}
  BY DEF Passwords
<1>1. CASE get_user(t)
  <2>1. /\ known' = known /\ table' = table /\ Comes(t, "user found")
        /\ op'[t].failed \/ op'[t].found = table.user
    BY <1>1, TransactionForm DEF get_user, Query
  <2> QED
    BY <2>1 DEF UserStep, Asked, Comes
<1>2. CASE get_current_user(t)
  <2>1. \E s \in Step \ Quiet : GoAfresh(t, s)
    BY <1>2 DEF get_current_user, Handlers, Watchlists, Alerts, Assets, Conversations, Quiet
  <2> QED
    BY <1>2, <2>1, NothingLearnt, UserMemory DEF get_current_user, Unchanged
<1>3. CASE authenticate_user(t)
  BY <1>0, <1>3, NothingLearnt, UserMemory DEF authenticate_user, AnswerIf, Unchanged
<1>4. CASE get_user_by_api_key(t)
  <2>1. CASE Query(t, "key", table.user, "key found", "key found")
    BY <2>1, NotQuiet, UserQuery
  <2>2. CASE ~Query(t, "key", table.user, "key found", "key found")
    BY <1>0, <1>4, <2>2, NothingLearnt, UserMemory DEF get_user_by_api_key, AnswerIf, Unchanged
  <2> QED
    BY <2>1, <2>2
<1>5. CASE register_user(t)
  <2>1. CASE table.user = NoRow /\ Insert(t, "insert user", [table EXCEPT !.user = "first"],
                                          "user inserted")
    <3>1. [table EXCEPT !.user = "first"].user = "first"
      BY <1>0 DEF Rows
    <3>2. /\ known' = known /\ table'.user \in {NoRow, "first"}
          /\ \/ Comes(t, "user inserted") /\ table'.user = "first"
             \/ Ends(t, "error")
      BY <2>1, <3>1, InsertForm
    <3>3. CASE Comes(t, "user inserted") /\ table'.user = "first"
      <4>1. "first" # NoRow
        BY DEF Passwords
      <4> QED
        BY <2>1, <3>2, <3>3, <4>1 DEF UserStep, Asked, Comes
    <3>4. CASE Ends(t, "error")
      BY <2>1, <3>2, <3>4, EndForm DEF UserStep, Asked
    <3> QED
      BY <3>2, <3>3, <3>4
  <2>2. CASE /\ Unchanged /\ known' = known
             /\ Answer(t, "refused") \/ Answer(t, "error") \/ Go(t, "insert user")
    BY <1>0, <2>2, NothingLearnt, UserMemory DEF Unchanged
  <2>3. CASE Unchanged /\ At(t, "user inserted") /\ Learn({"registered"}) /\ Answer(t, "ok")
    BY <1>0, <1>8, <2>3, UserMemory DEF Unchanged, At
  <2> QED
    BY <1>5, <2>1, <2>2, <2>3 DEF register_user, create_user
<1>6. CASE request_password_reset(t)
  <2>1. CASE Transaction(t, "insert token", [table EXCEPT !.token = "unused"], NoRow,
                         "token inserted", "token inserted")
    <3>1. [table EXCEPT !.token = "unused"].user = table.user
      BY <1>0 DEF Rows
    <3>2. "token inserted" \notin Quiet
      BY DEF Quiet
    <3> QED
      BY <2>1, <3>1, <3>2, UserTransaction
  <2>2. CASE /\ Unchanged /\ known' = known
             /\ Answer(t, "refused") \/ Go(t, "insert token")
    BY <1>0, <2>2, NothingLearnt, UserMemory DEF Unchanged
  <2>3. CASE Unchanged /\ Learn({"token issued"}) /\ Answer(t, "ok")
    BY <1>0, <1>8, <2>3, UserMemory DEF Unchanged
  <2> QED
    BY <1>6, <2>1, <2>2, <2>3 DEF request_password_reset
<1>7. CASE reset_password(t)
  <2>1. CASE Query(t, "token", table.token, "token found", "token in memory")
    BY <2>1, NotQuiet, UserQuery
  <2>2. CASE Transaction(t, "update", MarkUsed(table, op[t].by), NoRow, "token consumed", "token in memory")
    <3>1. MarkUsed(table, op[t].by).user = op[t].by
      BY <1>0 DEF Rows, MarkUsed
    <3>2. /\ known' = known /\ op[t].step = "update" /\ table'.user \in {table.user, op[t].by}
          /\ \/ Comes(t, "token consumed") /\ table'.user = op[t].by
             \/ Comes(t, "token in memory")
      BY <2>2, <3>1, TransactionForm
    <3> QED
      BY <3>2 DEF UserStep, Asked, Comes
  <2>3. CASE /\ At(t, "token consumed") /\ Answer(t, "ok") /\ Learn({"spent", op[t].worker})
             /\ Unchanged
    <3>1. op[t].worker # "registered" /\ op[t].worker \notin Passwords /\ "spent" \notin Passwords
      BY <1>8, <2>3, NowTypes DEF At, Fits, Events
    <3> QED
      BY <1>0, <2>3, <3>1, UserMemory DEF At, Unchanged
  <2>4. CASE At(t, "token in memory") /\ Answer(t, "ok") /\ Learn({op[t].worker}) /\ Unchanged
    <3>1. op[t].worker \notin {"registered", "spent"} \cup Passwords
      BY <1>8, <2>4, NowTypes DEF At, Fits, Events
    <3> QED
      BY <1>0, <2>4, <3>1, UserMemory DEF At, Unchanged
  <2>5. CASE /\ Unchanged /\ known' = known
             /\ Answer(t, "refused") \/ Go(t, "update")
    BY <1>0, <2>5, NothingLearnt, UserMemory DEF Unchanged
  <2> QED
    BY <1>7, <2>1, <2>2, <2>3, <2>4, <2>5 DEF reset_password
<1> QED
  BY <1>1, <1>2, <1>3, <1>4, <1>5, <1>6, <1>7 DEF Account_step

LEMMA UserThreads ==
    ASSUME TypeInv, NEW t \in Threads, Thread_step(t)
    PROVE  UserStep(t)
<1> USE StoreAssumption
<1>0. /\ table \in Rows /\ {"ok", "refused", "error"} \subseteq Answers
      /\ {"insert item", "upsert", "user exists"} \subseteq Step \ Quiet
  BY DEF TypeInv, TypeOK, Answers, Step, Quiet
<1>1. CASE get_thread_owner(t)
  BY <1>1, NotQuiet, UserQuery DEF get_thread_owner
<1>2. CASE Transaction(t, "upsert", [table EXCEPT !.owner = op[t].by], op[t].found, "own", "own")
  <2>1. [table EXCEPT !.owner = op[t].by].user = table.user
    BY <1>0 DEF Rows
  <2>2. "own" \notin Quiet
    BY DEF Quiet
  <2> QED
    BY <1>2, <2>1, <2>2, UserTransaction
<1>3. CASE /\ Unchanged /\ known' = known
           /\ \/ \E a \in {"ok", "refused"} : Answer(t, a)
              \/ \E s \in {"insert item", "upsert", "user exists"} : Go(t, s)
  BY <1>0, <1>3, NothingLearnt, UserMemory DEF Unchanged
<1> QED
  BY <1>1, <1>2, <1>3
     DEF Thread_step, validate_thread_ownership, stream_travel_events, ensure_user_exists,
         register_thread_owner, AnswerIf

LEMMA UserItems ==
    ASSUME TypeInv, NEW t \in Threads, Item_step(t)
    PROVE  UserStep(t)
<1>0. /\ table \in Rows /\ {"ok", "refused", "error", "none"} \subseteq Answers
      /\ {"remove", "item in memory"} \subseteq Step \ Quiet
      /\ \A i : [table EXCEPT !.item = i].user = table.user
      /\ \A u : Marked(table, u).user = table.user
  BY DEF TypeInv, TypeOK, Answers, Step, Quiet, Rows, Marked
<1>1. ASSUME Unchanged, NEW facts \in {{}, {"created"}, {"deleted"}}, Learn(facts),
             \/ \E a \in {"ok", "refused", "error", "none"} : Answer(t, a)
             \/ \E s \in {"remove", "item in memory"} : Go(t, s)
      PROVE  UserStep(t)
  <2>1. facts \cap Passwords = {}
    BY <1>1 DEF Passwords
  <2> QED
    BY <1>0, <1>1, <2>1, UserMemory DEF Unchanged
<1>2. ASSUME NEW c, Create(t, c)
      PROVE  UserStep(t)
  <2>1. CASE InsertItem(t)
    <3>1. /\ known' = known /\ table'.user = table.user
          /\ Comes(t, "item inserted") \/ Ends(t, "error")
      BY <1>0, <2>1, InsertForm DEF InsertItem
    <3> QED
      BY <3>1, EndForm DEF UserStep, Asked, Comes
  <2> QED
    BY <1>1, <1>2, <2>1 DEF Create
<1>3. ASSUME NEW c, Read(t, c)
      PROVE  UserStep(t)
  <2>1. CASE Query(t, "item", ItemOf(table, op[t].by), "item found", "item in memory")
    BY <2>1, NotQuiet, UserQuery
  <2> QED
    BY <1>1, <1>3, <2>1, NothingLearnt DEF Read, AnswerItem
<1>4. CASE mark_alert_read(t)
  <2>1. CASE Transaction(t, "mark", Marked(table, op[t].by), ItemOf(table, op[t].by), "marked",
                         "read in memory")
    <3>1. Marked(table, op[t].by).user = table.user /\ "marked" \notin Quiet
          /\ "read in memory" \notin Quiet
      BY <1>0 DEF Quiet
    <3> QED
      BY <2>1, <3>1, UserTransaction
  <2> QED
    BY <1>1, <1>4, <2>1, NothingLearnt DEF mark_alert_read, AnswerItem
<1>5. ASSUME NEW c, NEW otherwise \in {"item again", "item in memory"}, Delete(t, c, otherwise)
      PROVE  UserStep(t)
  <2> DEFINE after == IF Owned(table, op[t].by) THEN [table EXCEPT !.item = NoRow] ELSE table
  <2>1. CASE Transaction(t, "delete", after, ItemOf(table, op[t].by), "deleted", otherwise)
    <3>1. after.user = table.user /\ "deleted" \notin Quiet /\ otherwise \notin Quiet
      BY <1>0 DEF Quiet
    <3> HIDE DEF after
    <3> QED
      BY <2>1, <3>1, UserTransaction
  <2> QED
    BY <1>1, <1>5, <2>1, NothingLearnt DEF Delete
<1> QED
  BY <1>2, <1>3, <1>4, <1>5
     DEF Item_step, create_watchlist, create_alert, create_asset, get_watchlist,
         list_watchlists, list_alerts, get_asset, list_assets, delete_watchlist, delete_alert,
         delete_asset


LEMMA IdleForm ==
    \A a : LET o == Idle(a) IN
        /\ o.step = "idle" /\ o.answer = a /\ o.knew = {} /\ o.call = NoRow /\ o.found = NoRow
        /\ ~o.failed
BY DEF Idle

LEMMA UserInit == Init => UserInv
<1> SUFFICES ASSUME Init
             PROVE  UserInv
  OBVIOUS
<1>1. known = {} /\ \A t \in Threads : op[t] = Idle("none")
  BY DEF Init
<1> QED
  BY <1>1, IdleForm DEF UserInv

\* Other steps: requests that begin, time, workers that end.
LEMMA BeginForm ==
    ASSUME TypeInv, NEW t \in Threads, NEW w \in Workers, NEW c \in calls, Begin(t, w, c[1], c[2])
    PROVE  /\ Others(t) /\ op[t].step = "idle" /\ UNCHANGED <<table, memory, expired, calls>>
           /\ known' = known \cup Requested(c[1], c[2])
           /\ op'[t] = Fresh(w, c[1], c[2])
<1>1. op' = [op EXCEPT ![t] = Fresh(w, c[1], c[2])]
  BY DEF Begin, Fresh
<1>2. op'[t] = Fresh(w, c[1], c[2]) /\ Others(t)
  BY <1>1, MoveForm
<1> QED
  BY <1>2 DEF Begin, At, Learn, Unchanged

LEMMA FreshForm ==
    \A w, c, u : LET o == Fresh(w, c, u) IN
        /\ o.call = c /\ o.by = u /\ o.worker = w /\ o.found = NoRow /\ ~o.failed
        /\ o.knew = known \cap Spoken /\ o.answer = "none" /\ o.step \in {"token", "key", "user"}
BY DEF Fresh, FirstStep

LEMMA RestartForm ==
    ASSUME NEW w \in Workers, Restart(w)
    PROVE  /\ UNCHANGED <<table, known, expired, calls>>
           /\ \A t \in Threads : op'[t] = op[t] \/ op'[t] = Idle("none")
           /\ memory' = [memory EXCEPT ![w] = NoRows]
BY DEF Restart, Unchanged

LEMMA UserInvStep == TypeInv /\ UserInv /\ [Next]_vars => UserInv'
<1> SUFFICES ASSUME TypeInv, UserInv, [Next]_vars
             PROVE  UserInv'
  OBVIOUS
<1> USE StoreAssumption
<1>1. ASSUME NEW t \in Threads, NEW w \in Workers, NEW c \in calls, Begin(t, w, c[1], c[2])
      PROVE  UserInv'
  <2>1. /\ Others(t) /\ table' = table /\ op'[t].step \in {"token", "key", "user"}
        /\ op'[t].knew = known \cap Spoken /\ known \subseteq known'
        /\ known' \subseteq known \cup {"creating", "asking", "deleting"} \cup Passwords
    BY <1>1, BeginForm, FreshForm DEF Requested
  <2>2. "registered" \notin Passwords
    BY DEF Passwords
  <2> QED
    BY <2>1, <2>2 DEF UserInv, Others
<1>2. ASSUME NEW t \in Threads, Account_step(t) \/ Thread_step(t) \/ Item_step(t)
      PROVE  UserInv'
  <2>1. UserStep(t)
    BY <1>2, UserAccounts, UserThreads, UserItems
  <2>4. table'.user = NoRow => table.user = NoRow
    <3>1. op[t].step = "update" => op[t].by \in Passwords
      BY NowTypes, ResetBy DEF Fits
    <3> QED
      BY <2>1, <3>1 DEF UserStep
  <2>2. "registered" \in known' => table'.user # NoRow
    BY <2>1, <2>4 DEF UserStep, UserInv
  <2>3. ASSUME NEW u \in Threads
        PROVE  /\ op'[u].step = "user inserted" => table'.user # NoRow
               /\ "spent" \in op'[u].knew => "spent" \in known'
    <3>1. CASE u = t
      BY <2>1, <3>1 DEF UserStep, UserInv
    <3>2. CASE u # t
      BY <2>1, <2>4, <3>2 DEF UserStep, UserInv, Others
    <3> QED
      BY <3>1, <3>2
  <2> QED
    BY <2>2, <2>3 DEF UserInv
<1>3. CASE Expire
  BY <1>3 DEF Expire, UserInv
<1>4. ASSUME NEW w \in Workers, Restart(w)
      PROVE  UserInv'
  <2>1. /\ table' = table /\ known' = known
        /\ \A t \in Threads : op'[t] = op[t] \/ op'[t] = Idle("none")
    BY <1>4, RestartForm
  <2> QED
    BY <2>1, IdleForm DEF UserInv
<1>5. CASE UNCHANGED vars
  BY <1>5 DEF vars, UserInv
<1> QED
  BY <1>1, <1>2, <1>3, <1>4, <1>5 DEF Next

\* An operation that goes on or answers does so by a step of its own.
LEMMA Stepper ==
    ASSUME TypeInv, [Next]_vars, NEW t \in Threads, op[t].step # "idle",
           op'[t] # op[t], op'[t] # Idle("none")
    PROVE  Account_step(t) \/ Thread_step(t) \/ Item_step(t)
<1>1. ASSUME NEW u \in Threads, Account_step(u) \/ Thread_step(u) \/ Item_step(u)
      PROVE  u = t
  BY <1>1, UserAccounts, UserThreads, UserItems DEF UserStep, Others
<1>2. ASSUME NEW u \in Threads, NEW w \in Workers, NEW c \in calls, Begin(u, w, c[1], c[2])
      PROVE  FALSE
  BY <1>2, BeginForm DEF Others
<1>3. ~Expire /\ ~UNCHANGED vars
  BY DEF Expire, vars
<1>4. \A w \in Workers : ~Restart(w)
  BY RestartForm
<1> QED
  BY <1>1, <1>2, <1>3, <1>4 DEF Next

\* Only a log-in answers a log-in.
LEMMA LogInAnswers ==
    ASSUME TypeInv, NEW t \in Threads, Account_step(t) \/ Thread_step(t) \/ Item_step(t),
           op[t].call \in LogIns, op'[t].step = "idle"
    PROVE  authenticate_user(t)
<1>1. /\ Fits(op[t]) /\ op[t] \in OpRecord
      /\ op[t].call \notin {"register_user", "request_password_reset", "get_user_by_api_key",
            "reset_password", "mark_alert_read", "stream_travel_events",
            "validate_thread_ownership"} \cup Creates \cup Reads \cup Deletes
  BY NowTypes DEF LogIns, Creates, Reads, Deletes
<1>2. ~get_user(t)
  <2>1. SUFFICES ASSUME get_user(t)
                 PROVE  FALSE
    OBVIOUS
  <2>2. Comes(t, "user found")
    BY <2>1, TransactionForm DEF get_user, Query
  <2> QED
    BY <2>2 DEF Comes
<1>3. ~get_current_user(t)
  <2>1. SUFFICES ASSUME get_current_user(t)
                 PROVE  FALSE
    OBVIOUS
  <2>2. \E s \in Step : <<op[t].call, s>> \in Handlers
    BY <2>1 DEF get_current_user
  <2> QED
    BY <2>2 DEF Handlers, Watchlists, Alerts, Assets, Conversations, LogIns
<1>4. ~get_user_by_api_key(t) /\ ~register_user(t) /\ ~request_password_reset(t)
  BY <1>1 DEF get_user_by_api_key, register_user, create_user, request_password_reset,
              Query, Transaction, Insert, At, Fits
<1>5. ~reset_password(t)
  BY <1>1 DEF reset_password, Query, Transaction, At, Fits
<1>6. ~Thread_step(t)
  BY <1>1 DEF Thread_step, get_thread_owner, validate_thread_ownership, stream_travel_events,
              ensure_user_exists, register_thread_owner, Query, Transaction, At, Fits
<1>7. ~Item_step(t)
  BY <1>1 DEF Item_step, create_watchlist, create_alert, create_asset, get_watchlist,
         list_watchlists, list_alerts, get_asset, list_assets, delete_watchlist, delete_alert,
         delete_asset, Create, Read, Delete, mark_alert_read, Transaction, At, Fits,
         Creates, Reads, Deletes
<1> QED
  BY <1>2, <1>3, <1>4, <1>5, <1>6, <1>7 DEF Account_step


-----------------------------------------------------------------------------
(* Owners of threads.                                                      *)

\* Only the registration of an owner leaves the step of the upsert.
LEMMA Upserts ==
    ASSUME TypeInv, NEW t \in Threads, Account_step(t) \/ Thread_step(t) \/ Item_step(t),
           op[t].step = "upsert"
    PROVE  Transaction(t, "upsert", [table EXCEPT !.owner = op[t].by], op[t].found, "own", "own")
<1>1. ~Account_step(t)
  BY DEF Account_step, get_user, get_current_user, authenticate_user, get_user_by_api_key,
         register_user, create_user, request_password_reset, reset_password, Query, Transaction,
         Insert, At
<1>2. ~Item_step(t)
  BY DEF Item_step, create_watchlist, create_alert, create_asset, get_watchlist,
         list_watchlists, list_alerts, get_asset, list_assets, delete_watchlist, delete_alert,
         delete_asset, Create, InsertItem, Read, Delete, mark_alert_read, Query, Transaction,
         Insert, At
<1> QED
  BY <1>1, <1>2
     DEF Thread_step, get_thread_owner, validate_thread_ownership, stream_travel_events,
         ensure_user_exists, register_thread_owner, Query, Transaction, At

\* A registered owner loses the thread only to a request whose query failed or
\* that had looked before the owner was registered.
THEOREM OwnersKeepThreads == Spec => OnlyOverlapsTakeThreads
<1> DEFINE Keeps ==
      \A t \in Threads :
          At(t, "upsert") /\ op'[t].step = "own" /\ table'.owner # table.owner =>
              table.owner = NoRow \/ op[t].failed \/ op[t].found # table.owner
<1>1. ASSUME TypeInv, [Next]_vars, NEW t \in Threads, op[t].step = "upsert",
             op'[t].step = "own", table'.owner # table.owner, op[t].found = table.owner
      PROVE  table.owner = NoRow
  <2>1. Account_step(t) \/ Thread_step(t) \/ Item_step(t)
    BY <1>1, IdleForm, Stepper
  <2>2. table' \in {table, [table EXCEPT !.owner = op[t].by]}
    BY <1>1, <2>1, Upserts, TransactionForm
  <2>3. table \in Rows /\ op[t].found \in {NoRow, op[t].by}
    BY <1>1, NowTypes DEF TypeInv, TypeOK, Fits
  <2> QED
    BY <1>1, <2>2, <2>3 DEF Rows
<1>2. TypeInv /\ [Next]_vars => [Keeps]_vars
  BY <1>1 DEF At
<1> QED
  BY <1>2, TypeHolds, PTL DEF Spec, OnlyOverlapsTakeThreads


-----------------------------------------------------------------------------
(* Password reset tokens.                                                  *)

\* There is one request for a token and its token is not spent before it was
\* issued; once spent it stays so where it was spent, in the table or in the
\* dictionaries of a worker.
TokenTold(t) ==
    /\ op[t].knew \subseteq known
    /\ "spent" \in op[t].knew =>
          /\ op[t].step = "token found" => op[t].found # "unused"
          /\ op[t].step \notin {"update", "token consumed"}
    /\ op[t].step = "token consumed" => table.token = "used"

OneToken ==
    /\ "token issued" \in known => "asking" \in known
    /\ "token issued" \in known \/ known \cap ({"spent"} \cup Workers) = {}
    /\ \A t \in Threads :
          /\ op[t].call = "request_password_reset" =>
                /\ "asking" \in known /\ "token issued" \notin known
                /\ \A u \in Threads : op[u].call = "request_password_reset" => u = t
          /\ op[t].call = "reset_password" => "token issued" \in known

TokenInv ==
    /\ OneToken
    /\ "spent" \in known => table.token = "used"
    /\ \A w \in Workers : w \in known => memory[w].token # "unused"
    /\ \A t \in Threads : TokenTold(t)

\* A step that has nothing to do with tokens.
Tokens == {"asking", "token issued", "spent"} \cup Workers
NoToken(t) ==
    /\ Others(t)
    /\ op[t].call # "reset_password" /\ op'[t].call \in {op[t].call, NoRow}
    /\ op'[t].step \notin {"token found", "update", "token consumed"}
    /\ op'[t].knew \subseteq op[t].knew
    /\ table'.token = table.token
    /\ \A w \in Workers : memory'[w].token = memory[w].token
    /\ known \subseteq known' /\ known' \cap Tokens = known \cap Tokens

LEMMA NoTokenInv ==
    ASSUME TypeInv, TokenInv, NEW t \in Threads, NoToken(t)
    PROVE  TokenInv'
<1>1. \A e \in Tokens : e \in known' <=> e \in known
  BY DEF NoToken
<1>2. OneToken'
  <2>1. /\ ("token issued" \in known => "asking" \in known)'
        /\ ("token issued" \in known \/ known \cap ({"spent"} \cup Workers) = {})'
    BY <1>1 DEF Tokens, TokenInv, OneToken
  <2>2. \A u \in Threads : op'[u].call \in {op[u].call, NoRow}
    BY DEF NoToken, Others
  <2>3. {"asking", "token issued"} \subseteq Tokens /\ NoRow \notin Operation
    BY StoreAssumption DEF Tokens
  <2>4. {"request_password_reset", "reset_password"} \subseteq Operation
    BY DEF Operation, Resets, OfAnyone
  <2> QED
    BY <1>1, <2>1, <2>2, <2>3, <2>4 DEF TokenInv, OneToken
<1>3. ("spent" \in known => table.token = "used")'
  BY <1>1 DEF NoToken, TokenInv, Tokens
<1>4. (\A w \in Workers : w \in known => memory[w].token # "unused")'
  BY <1>1 DEF NoToken, TokenInv, Tokens
<1>5. ASSUME NEW u \in Threads
      PROVE  TokenTold(u)'
  <2>1. CASE u = t
    BY <2>1 DEF NoToken, TokenInv, TokenTold
  <2>2. CASE u # t
    BY <2>2 DEF NoToken, Others, TokenInv, TokenTold
  <2> QED
    BY <2>1, <2>2
<1> QED
  BY <1>2, <1>3, <1>4, <1>5 DEF TokenInv

\* What is remembered of other rows leaves the token.
LEMMA RememberNoToken ==
    ASSUME TypeInv, NEW t \in Threads, op[t].step # "idle",
           \/ \E f \in {"user", "owner", "item"} : \E v : Remember(t, f, v)
           \/ UNCHANGED memory
    PROVE  \A w \in Workers : memory'[w].token = memory[w].token
<1>1. op[t].worker \in Workers /\ memory \in [Workers -> Rows]
  BY DEF TypeInv, TypeOK, Fits
<1>2. \A r \in Rows : \A f \in {"user", "owner", "item"} : \A v :
         [r EXCEPT ![f] = v].token = r.token
  BY DEF Rows
<1>3. CASE \E f \in {"user", "owner", "item"} : \E v : Remember(t, f, v)
  <2>1. PICK f \in {"user", "owner", "item"} : \E v : Remember(t, f, v)
    BY <1>3
  <2>2. PICK v : Remember(t, f, v)
    BY <2>1
  <2>3. memory' = [memory EXCEPT ![op[t].worker] = [memory[op[t].worker] EXCEPT ![f] = v]]
    BY <1>1, <2>2 DEF Remember
  <2> QED
    BY <1>1, <1>2, <2>3
<1> QED
  BY <1>3


TokenSteps == {"token found", "update", "token consumed"}

LEMMA NoTokenTransaction ==
    ASSUME TypeInv, NEW t \in Threads, NEW s, NEW after, NEW row, NEW done, NEW failed,
           Transaction(t, s, after, row, done, failed), op[t].call # "reset_password",
           after.token = table.token, done \notin TokenSteps, failed \notin TokenSteps
    PROVE  NoToken(t)
<1>1. /\ UNCHANGED <<known, memory>> /\ table'.token = table.token
      /\ Comes(t, done) \/ Comes(t, failed)
  BY TransactionForm
<1> QED
  BY <1>1 DEF NoToken, Comes, TokenSteps

LEMMA NoTokenInsert ==
    ASSUME TypeInv, NEW t \in Threads, NEW s, NEW after, NEW done, Insert(t, s, after, done),
           op[t].call # "reset_password", after.token = table.token, done \notin TokenSteps
    PROVE  NoToken(t)
<1>1. /\ UNCHANGED <<known, memory>> /\ table'.token = table.token
      /\ Comes(t, done) \/ Ends(t, "error")
  BY InsertForm
<1> QED
  BY <1>1, EndForm DEF NoToken, Comes, TokenSteps

LEMMA NoTokenMemory ==
    ASSUME TypeInv, NEW t \in Threads, Unchanged, op[t].call # "reset_password",
           \A w \in Workers : memory'[w].token = memory[w].token,
           NEW facts, Learn(facts), facts \cap Tokens = {},
           \/ \E a : Answer(t, a)
           \/ \E s \in Step \ TokenSteps : Go(t, s) \/ GoAfresh(t, s)
    PROVE  NoToken(t)
<1>1. /\ table' = table /\ known \subseteq known' /\ known' \cap Tokens = known \cap Tokens
  BY DEF Unchanged, Learn
<1>2. CASE \E a : Answer(t, a)
  <2>1. \E a : Ends(t, a)
    BY <1>2, AnswerForm
  <2> QED
    BY <1>1, <2>1, EndForm DEF NoToken
<1>3. CASE \E s \in Step \ TokenSteps : Go(t, s) \/ GoAfresh(t, s)
  <2>1. \E s \in Step \ TokenSteps : Comes(t, s)
    BY <1>3, GoForm, GoAfreshForm
  <2> QED
    BY <1>1, <2>1 DEF NoToken, Comes, TokenSteps
<1> QED
  BY <1>2, <1>3

\* The form that most of these steps have.
LEMMA NoTokenDictionary ==
    ASSUME TypeInv, NEW t \in Threads, Unchanged, op[t].call # "reset_password",
           op[t].step # "idle",
           \/ \E f \in {"user", "owner", "item"} : \E v : Remember(t, f, v)
           \/ UNCHANGED memory,
           UNCHANGED known \/ (\E e \in {"registered", "created", "deleted"} : Learn({e})),
           \/ \E a : Answer(t, a)
           \/ \E s \in Step \ TokenSteps : Go(t, s) \/ GoAfresh(t, s)
    PROVE  NoToken(t)
<1>1. \A e \in {"registered", "created", "deleted"} : {e} \cap Tokens = {}
  BY StoreAssumption DEF Tokens, Events
<1>2. \E facts : Learn(facts) /\ facts \cap Tokens = {}
  BY <1>1, NothingLearnt
<1> QED
  BY <1>2, RememberNoToken, NoTokenMemory

LEMMA NoTokenAccounts ==
    ASSUME TypeInv, NEW t \in Threads,
           \/ get_user(t) \/ get_current_user(t) \/ authenticate_user(t)
           \/ get_user_by_api_key(t) \/ register_user(t)
    PROVE  NoToken(t)
<1>0. /\ table \in Rows /\ Fits(op[t])
      /\ {"user found", "key found", "insert user", "user inserted"} \cap TokenSteps = {}
      /\ "insert user" \in Step
  BY NowTypes DEF TypeInv, TypeOK, TokenSteps, Step
<1>1. CASE get_user(t)
  <2>1. op[t].call # "reset_password"
    BY <1>0, <1>1 DEF get_user, Query, Transaction, At, Fits
  <2> QED
    BY <1>0, <1>1, <2>1, NoTokenTransaction DEF get_user, Query
<1>2. CASE get_current_user(t)
  <2>1. op[t].call # "reset_password" /\ op[t].step # "idle"
    BY <1>0, <1>2 DEF get_current_user, At, Fits
  <2>2. \E s \in Step \ TokenSteps : GoAfresh(t, s)
    BY <1>2 DEF get_current_user, Handlers, Watchlists, Alerts, Assets, Conversations, TokenSteps
  <2> QED
    BY <1>2, <2>1, <2>2, NoTokenDictionary DEF get_current_user, KeepUser
<1>3. CASE authenticate_user(t)
  <2>1. op[t].call # "reset_password" /\ op[t].step # "idle"
    BY <1>0, <1>3 DEF authenticate_user, At, Fits
  <2> QED
    BY <1>3, <2>1, NoTokenDictionary DEF authenticate_user, AnswerIf, KeepUser
<1>4. CASE get_user_by_api_key(t)
  <2>1. op[t].call # "reset_password" /\ op[t].step # "idle"
    BY <1>0, <1>4 DEF get_user_by_api_key, Query, Transaction, At, Fits
  <2>2. CASE Query(t, "key", table.user, "key found", "key found")
    BY <1>0, <2>1, <2>2, NoTokenTransaction DEF Query
  <2>3. CASE ~Query(t, "key", table.user, "key found", "key found")
    BY <1>4, <2>1, <2>3, NoTokenDictionary DEF get_user_by_api_key, AnswerIf
  <2> QED
    BY <2>2, <2>3
<1>5. CASE register_user(t)
  <2>1. op[t].call # "reset_password" /\ op[t].step # "idle"
    BY <1>0, <1>5 DEF register_user, create_user, Insert, At, Fits
  <2>2. CASE Insert(t, "insert user", [table EXCEPT !.user = "first"], "user inserted")
    <3>1. [table EXCEPT !.user = "first"].token = table.token
      BY <1>0 DEF Rows
    <3> QED
      BY <1>0, <2>1, <2>2, <3>1, NoTokenInsert
  <2>3. CASE ~Insert(t, "insert user", [table EXCEPT !.user = "first"], "user inserted")
    <3>1. /\ Unchanged
          /\ (\E v : Remember(t, "user", v)) \/ UNCHANGED memory
          /\ UNCHANGED known \/ Learn({"registered"})
          /\ (\E a : Answer(t, a)) \/ Go(t, "insert user")
      BY <1>5, <2>3 DEF register_user, create_user, KeepUser
    <3> QED
      BY <1>0, <2>1, <3>1, NoTokenDictionary
  <2> QED
    BY <2>2, <2>3
<1> QED
  BY <1>1, <1>2, <1>3, <1>4, <1>5

LEMMA NoTokenThreads ==
    ASSUME TypeInv, NEW t \in Threads, Thread_step(t)
    PROVE  NoToken(t)
<1>0. /\ table \in Rows /\ Fits(op[t])
      /\ {"owner found", "own"} \cap TokenSteps = {}
      /\ {"user exists", "insert item", "upsert"} \subseteq Step \ TokenSteps
      /\ [table EXCEPT !.owner = op[t].by].token = table.token
  BY NowTypes DEF TypeInv, TypeOK, TokenSteps, Step, Rows
<1>1. op[t].call # "reset_password" /\ op[t].step # "idle"
  BY <1>0 DEF Thread_step, get_thread_owner, validate_thread_ownership, stream_travel_events,
              ensure_user_exists, register_thread_owner, Query, Transaction, At, Fits, Creates
<1>2. CASE get_thread_owner(t)
  BY <1>0, <1>1, <1>2, NoTokenTransaction DEF get_thread_owner, Query
<1>3. CASE Transaction(t, "upsert", [table EXCEPT !.owner = op[t].by], op[t].found, "own", "own")
  BY <1>0, <1>1, <1>3, NoTokenTransaction
<1>4. ASSUME Unchanged, UNCHANGED known,
             (\E f \in {"user", "owner", "item"} : \E v : Remember(t, f, v)) \/ UNCHANGED memory,
             \/ \E a : Answer(t, a)
             \/ \E s \in {"user exists", "insert item", "upsert"} : Go(t, s)
      PROVE  NoToken(t)
  BY <1>0, <1>1, <1>4, NoTokenDictionary
<1>5. CASE validate_thread_ownership(t)
  BY <1>4, <1>5 DEF validate_thread_ownership, AnswerIf
<1>6. CASE stream_travel_events(t)
  BY <1>4, <1>6 DEF stream_travel_events
<1>7. CASE ensure_user_exists(t)
  BY <1>4, <1>7 DEF ensure_user_exists
<1>8. CASE register_thread_owner(t)
  BY <1>3, <1>4, <1>8 DEF register_thread_owner
<1> QED
  BY <1>2, <1>5, <1>6, <1>7, <1>8 DEF Thread_step


LEMMA NoTokenItems ==
    ASSUME TypeInv, NEW t \in Threads, Item_step(t)
    PROVE  NoToken(t)
<1>0. /\ table \in Rows /\ Fits(op[t])
      /\ {"item inserted", "item found", "item in memory", "marked", "read in memory", "deleted",
          "item again"} \cap TokenSteps = {}
      /\ {"remove", "item in memory"} \subseteq Step \ TokenSteps
      /\ \A i : [table EXCEPT !.item = i].token = table.token
      /\ \A rows \in Rows : \A u : Marked(rows, u).token = rows.token
  BY NowTypes DEF TypeInv, TypeOK, TokenSteps, Step, Rows, Marked
<1>1. op[t].call # "reset_password" /\ op[t].step # "idle"
  BY <1>0 DEF Item_step, create_watchlist, create_alert, create_asset, get_watchlist,
         list_watchlists, list_alerts, get_asset, list_assets, delete_watchlist, delete_alert,
         delete_asset, Create, InsertItem, Read, Delete, mark_alert_read, Query, Transaction,
         Insert, At, Fits, Creates, Reads, Deletes
<1>2. ASSUME Unchanged,
             (\E f \in {"user", "owner", "item"} : \E v : Remember(t, f, v)) \/ UNCHANGED memory,
             UNCHANGED known \/ (\E e \in {"registered", "created", "deleted"} : Learn({e})),
             (\E a : Answer(t, a)) \/ (\E s \in {"remove", "item in memory"} : Go(t, s))
      PROVE  NoToken(t)
  BY <1>0, <1>1, <1>2, NoTokenDictionary
<1>3. ASSUME NEW c, Create(t, c)
      PROVE  NoToken(t)
  <2>1. CASE InsertItem(t)
    <3>1. [table EXCEPT !.item = NewItem(op[t].by)].token = table.token
      BY <1>0
    <3> QED
      BY <1>0, <1>1, <2>1, <3>1, NoTokenInsert DEF InsertItem
  <2> QED
    BY <1>2, <1>3, <2>1 DEF Create
<1>4. ASSUME NEW c, Read(t, c)
      PROVE  NoToken(t)
  <2>1. CASE Query(t, "item", ItemOf(table, op[t].by), "item found", "item in memory")
    BY <1>0, <1>1, <2>1, NoTokenTransaction DEF Query
  <2> QED
    BY <1>2, <1>4, <2>1 DEF Read, AnswerItem
<1>5. CASE mark_alert_read(t)
  <2>1. CASE Transaction(t, "mark", Marked(table, op[t].by), ItemOf(table, op[t].by), "marked",
                         "read in memory")
    <3>1. Marked(table, op[t].by).token = table.token
      BY <1>0
    <3> QED
      BY <1>0, <1>1, <2>1, <3>1, NoTokenTransaction
  <2>2. CASE memory' = [memory EXCEPT ![op[t].worker] = Marked(memory[op[t].worker], op[t].by)]
             /\ Unchanged /\ UNCHANGED known /\ \E a : Answer(t, a)
    <3>1. op[t].worker \in Workers /\ memory \in [Workers -> Rows]
      BY <1>0, <1>1 DEF Fits, TypeInv, TypeOK
    <3>2. \A w \in Workers : memory'[w].token = memory[w].token
      BY <1>0, <2>2, <3>1
    <3> QED
      BY <1>1, <2>2, <3>2, NothingLearnt, NoTokenMemory
  <2>3. CASE /\ Unchanged /\ UNCHANGED known /\ \E a : Answer(t, a)
             /\ (\E v : Remember(t, "item", v)) \/ UNCHANGED memory
    BY <1>2, <2>3
  <2> QED
    BY <1>5, <2>1, <2>2, <2>3 DEF mark_alert_read, AnswerItem
<1>6. ASSUME NEW c, NEW otherwise \in {"item again", "item in memory"}, Delete(t, c, otherwise)
      PROVE  NoToken(t)
  <2> DEFINE after == IF Owned(table, op[t].by) THEN [table EXCEPT !.item = NoRow] ELSE table
  <2>1. CASE Transaction(t, "delete", after, ItemOf(table, op[t].by), "deleted", otherwise)
    <3>1. after.token = table.token /\ "deleted" \notin TokenSteps /\ otherwise \notin TokenSteps
      BY <1>0
    <3> HIDE DEF after
    <3> QED
      BY <1>1, <2>1, <3>1, NoTokenTransaction
  <2>2. CASE ~Transaction(t, "delete", after, ItemOf(table, op[t].by), "deleted", otherwise)
    <3>1. /\ Unchanged
          /\ (\E v : Remember(t, "item", v)) \/ UNCHANGED memory
          /\ UNCHANGED known \/ Learn({"deleted"})
          /\ (\E a : Answer(t, a)) \/ (\E s \in {"remove", "item in memory"} : Go(t, s))
      BY <1>6, <2>2 DEF Delete
    <3> QED
      BY <1>2, <3>1
  <2> QED
    BY <2>1, <2>2
<1> QED
  BY <1>3, <1>4, <1>5, <1>6
     DEF Item_step, create_watchlist, create_alert, create_asset, get_watchlist,
         list_watchlists, list_alerts, get_asset, list_assets, delete_watchlist, delete_alert,
         delete_asset

LEMMA RequestToken ==
    ASSUME TypeInv, TokenInv, NEW t \in Threads, request_password_reset(t)
    PROVE  TokenInv'
<1>0. /\ table \in Rows /\ Fits(op[t]) /\ "insert token" \in Step \ TokenSteps
  BY NowTypes DEF TypeInv, TypeOK, TokenSteps, Step
<1>1. op[t].call = "request_password_reset" /\ op[t].step # "idle"
  BY <1>0 DEF request_password_reset, Transaction, At, Fits
<1>2. CASE /\ KeepUser(t) /\ Unchanged /\ UNCHANGED known
           /\ Answer(t, "refused") \/ Go(t, "insert token")
  BY <1>0, <1>1, <1>2, NoTokenDictionary, NoTokenInv DEF KeepUser
<1>3. "token issued" \notin known /\ \A e \in {"spent"} \cup Workers : e \notin known
  BY <1>1 DEF TokenInv, OneToken
<1>4. \A u \in Threads : op[u].call # "reset_password" /\ op[u].step \notin TokenSteps
  BY <1>3, NowTypes DEF TokenInv, OneToken, Fits, TokenSteps
<1>5. CASE Transaction(t, "insert token", [table EXCEPT !.token = "unused"], NoRow,
                       "token inserted", "token inserted")
  <2>1. /\ UNCHANGED <<known, memory>> /\ Comes(t, "token inserted")
    BY <1>5, TransactionForm
  <2>2. \A u \in Threads : /\ op'[u].call = op[u].call /\ op'[u].knew = op[u].knew
                           /\ op'[u].step \notin TokenSteps
    BY <1>4, <2>1 DEF Comes, Others, TokenSteps
  <2>3. OneToken'
    BY <2>1, <2>2 DEF TokenInv, OneToken
  <2>4. (\A u \in Threads : TokenTold(u))'
    BY <2>1, <2>2 DEF TokenInv, TokenTold, TokenSteps
  <2> QED
    BY <1>3, <2>1, <2>3, <2>4 DEF TokenInv
<1>6. CASE Remember(t, "token", "unused") /\ Answer(t, "ok") /\ Learn({"token issued"}) /\ Unchanged
  <2>1. /\ Others(t) /\ op'[t].call = NoRow /\ op'[t].step = "idle" /\ op'[t].knew = {}
        /\ table' = table /\ known' = known \cup {"token issued"}
    BY <1>6, AnswerForm, EndForm DEF Learn, Unchanged
  <2>2. \A e \in {"spent"} \cup Workers : e \notin known'
    BY <1>3, <2>1, StoreAssumption DEF Events
  <2>3. OneToken'
    <3>1. NoRow \notin {"request_password_reset", "reset_password"}
      BY StoreAssumption DEF Operation, Resets, OfAnyone
    <3>2. \A u \in Threads : op'[u].call # "request_password_reset"
      BY <1>1, <2>1, <3>1 DEF Others, TokenInv, OneToken
    <3>3. "asking" \in known' /\ "token issued" \in known'
      BY <1>1, <2>1 DEF TokenInv, OneToken
    <3> QED
      BY <3>2, <3>3 DEF OneToken
  <2>4. ASSUME NEW u \in Threads
        PROVE  TokenTold(u)'
    BY <1>4, <2>1 DEF Others, TokenInv, TokenTold, TokenSteps
  <2> QED
    BY <2>2, <2>3, <2>4 DEF TokenInv
<1> QED
  BY <1>2, <1>5, <1>6 DEF request_password_reset


LEMMA ResetToken ==
    ASSUME TypeInv, TokenInv, NEW t \in Threads, reset_password(t)
    PROVE  TokenInv'
<1>0. /\ table \in Rows /\ memory \in [Workers -> Rows] /\ Fits(op[t]) /\ op[t] \in OpRecord
      /\ MarkUsed(table, op[t].by).token = "used"
      /\ \A rows \in Rows : Changed(rows, op[t].by).token # "unused"
  BY NowTypes, StoreAssumption DEF TypeInv, TypeOK, Rows, MarkUsed, Changed
<1>1. op[t].call = "reset_password" /\ op[t].step # "idle" /\ op[t].worker \in Workers
  BY <1>0 DEF reset_password, Query, Transaction, At, Fits
<1>2. "token issued" \in known
  BY <1>1 DEF TokenInv, OneToken
\* The operation goes on, or ends and makes known what it did.
<1>3. ASSUME Others(t), op'[t].call \in {op[t].call, NoRow}, known \subseteq known',
             known' \subseteq known \cup {"spent"} \cup Workers
      PROVE  OneToken'
  <2>1. \A u \in Threads : op'[u].call \in {op[u].call, NoRow}
    BY <1>3 DEF Others
  <2>2. /\ NoRow \notin {"request_password_reset", "reset_password"}
        /\ "asking" \in known' /\ "token issued" \in known'
    BY <1>2, <1>3, StoreAssumption DEF Operation, Resets, OfAnyone, TokenInv, OneToken
  <2>3. \A u \in Threads : op[u].call # "request_password_reset"
    BY <1>2 DEF TokenInv, OneToken
  <2> QED
    BY <2>1, <2>2, <2>3 DEF OneToken
<1>4. CASE Query(t, "token", table.token, "token found", "token in memory")
  <2>1. /\ UNCHANGED <<known, memory, table>>
        /\ \/ Comes(t, "token found") /\ op'[t].found = table.token
           \/ Comes(t, "token in memory")
    BY <1>4, TransactionForm DEF Query
  <2>2. OneToken'
    BY <1>3, <2>1 DEF Comes
  <2>3. ASSUME NEW u \in Threads
        PROVE  TokenTold(u)'
    <3>1. CASE u = t
      BY <2>1, <3>1 DEF Comes, TokenInv, TokenTold
    <3>2. CASE u # t
      BY <2>1, <3>2 DEF Comes, Others, TokenInv, TokenTold
    <3> QED
      BY <3>1, <3>2
  <2> QED
    BY <2>1, <2>2, <2>3 DEF TokenInv
<1>5. CASE /\ At(t, "token found") /\ op[t].found = "unused" /\ Go(t, "update")
           /\ UNCHANGED <<memory, known>> /\ Unchanged
  <2>1. UNCHANGED <<known, memory, table>> /\ Comes(t, "update") /\ "spent" \notin op[t].knew
    BY <1>5, GoForm DEF Unchanged, TokenInv, TokenTold, At
  <2>2. OneToken'
    BY <1>3, <2>1 DEF Comes
  <2>3. ASSUME NEW u \in Threads
        PROVE  TokenTold(u)'
    <3>1. CASE u = t
      BY <2>1, <3>1 DEF Comes, TokenInv, TokenTold
    <3>2. CASE u # t
      BY <2>1, <3>2 DEF Comes, Others, TokenInv, TokenTold
    <3> QED
      BY <3>1, <3>2
  <2> QED
    BY <2>1, <2>2, <2>3 DEF TokenInv
<1>6. CASE Transaction(t, "update", MarkUsed(table, op[t].by), NoRow, "token consumed", "token in memory")
  <2>1. /\ UNCHANGED <<known, memory>> /\ op[t].step = "update"
        /\ \/ Comes(t, "token consumed") /\ table'.token = "used"
           \/ Comes(t, "token in memory") /\ table'.token \in {table.token, "used"}
    BY <1>0, <1>6, TransactionForm
  <2>2. OneToken'
    BY <1>3, <2>1 DEF Comes
  <2>3. ASSUME NEW u \in Threads
        PROVE  TokenTold(u)'
    <3>1. CASE u = t
      BY <2>1, <3>1 DEF Comes, TokenInv, TokenTold
    <3>2. CASE u # t
      BY <2>1, <3>2 DEF Comes, Others, TokenInv, TokenTold
    <3> QED
      BY <3>1, <3>2
  <2> QED
    BY <2>1, <2>2, <2>3 DEF TokenInv
<1>7. ASSUME Unchanged, \E a : Answer(t, a), NEW facts, Learn(facts),
             facts \in {{}, {op[t].worker}, {"spent", op[t].worker}},
             "spent" \in facts => table.token = "used",
             memory' \in {memory, [memory EXCEPT ![op[t].worker] = Changed(memory[op[t].worker], op[t].by)]},
             facts # {} => memory'[op[t].worker].token # "unused"
      PROVE  TokenInv'
  <2>1. /\ Others(t) /\ op'[t].call = NoRow /\ op'[t].step = "idle" /\ op'[t].knew = {}
        /\ table' = table /\ known' = known \cup facts
    BY <1>7, AnswerForm, EndForm DEF Learn, Unchanged
  <2>2. OneToken'
    BY <1>1, <1>3, <1>7, <2>1
  <2>3. ASSUME NEW w \in Workers, w \in known'
        PROVE  memory'[w].token # "unused"
    <3>1. \A v \in Workers : memory'[v] = memory[v] \/ memory'[v].token # "unused"
      BY <1>0, <1>1, <1>7
    <3>2. CASE w \in known
      BY <3>1, <3>2 DEF TokenInv
    <3>3. CASE w \notin known
      <4>1. w # "spent"
        BY StoreAssumption DEF Events
      <4> QED
        BY <1>0, <1>1, <1>7, <2>1, <2>3, <3>3, <4>1
    <3> QED
      BY <3>2, <3>3
  <2>4. ASSUME NEW u \in Threads
        PROVE  TokenTold(u)'
    <3>1. CASE u = t
      BY <2>1, <3>1 DEF TokenTold
    <3>2. CASE u # t
      BY <2>1, <3>2 DEF Others, TokenInv, TokenTold
    <3> QED
      BY <3>1, <3>2
  <2>5. "spent" \in known' => table'.token = "used"
    <3>1. "spent" \notin Workers
      BY StoreAssumption DEF Events
    <3> QED
      BY <1>7, <2>1, <3>1 DEF TokenInv
  <2> QED
    BY <2>2, <2>3, <2>4, <2>5 DEF TokenInv
<1>8. CASE /\ At(t, "token found") /\ Answer(t, "refused")
           /\ UNCHANGED <<memory, known>> /\ Unchanged
  BY <1>7, <1>8, NothingLearnt
<1>9. CASE /\ At(t, "token consumed")
           /\ memory' = [memory EXCEPT ![op[t].worker] = Changed(@, op[t].by)]
           /\ Answer(t, "ok") /\ Learn({"spent", op[t].worker}) /\ Unchanged
  <2>1. table.token = "used" /\ memory'[op[t].worker].token # "unused"
    BY <1>0, <1>1, <1>9 DEF At, TokenInv, TokenTold
  <2> QED
    BY <1>7, <1>9, <2>1
<1>10. CASE /\ At(t, "token in memory")
            /\ memory' = [memory EXCEPT ![op[t].worker] = Changed(@, op[t].by)]
            /\ Answer(t, "ok") /\ Learn({op[t].worker}) /\ Unchanged
  <2>1. memory'[op[t].worker].token # "unused" /\ op[t].worker # "spent"
    BY <1>0, <1>1, <1>10, StoreAssumption DEF Events
  <2> QED
    BY <1>7, <1>10, <2>1
<1>11. CASE /\ At(t, "token in memory") /\ Answer(t, "refused")
            /\ UNCHANGED <<memory, known>> /\ Unchanged
  BY <1>7, <1>11, NothingLearnt
<1> QED
  BY <1>4, <1>5, <1>6, <1>8, <1>9, <1>10, <1>11 DEF reset_password


LEMMA TokenInit == Init => TokenInv
<1> SUFFICES ASSUME Init
             PROVE  TokenInv
  OBVIOUS
<1>1. known = {} /\ \A t \in Threads : op[t] = Idle("none")
  BY DEF Init
<1>2. NoRow \notin {"request_password_reset", "reset_password"}
  BY StoreAssumption DEF Operation, Resets, OfAnyone
<1> QED
  BY <1>1, <1>2, IdleForm DEF TokenInv, OneToken, TokenTold

LEMMA TokenInvStep == TypeInv /\ TokenInv /\ [Next]_vars => TokenInv'
<1> SUFFICES ASSUME TypeInv, TokenInv, [Next]_vars
             PROVE  TokenInv'
  OBVIOUS
<1>1. ASSUME NEW t \in Threads, NEW w \in Workers, NEW c \in calls, Begin(t, w, c[1], c[2])
      PROVE  TokenInv'
  <2>1. /\ Others(t) /\ UNCHANGED <<table, memory>> /\ op'[t].call = c[1]
        /\ op'[t].step \in {"token", "key", "user"} /\ op'[t].knew = known \cap Spoken
        /\ known \subseteq known'
        /\ known' \subseteq known \cup {"creating", "asking", "deleting"} \cup Passwords
        /\ c[1] = "request_password_reset" => "asking" \in known' /\ "asking" \notin known
        /\ c[1] = "reset_password" => "token issued" \in known
    <3>1. known' = known \cup Requested(c[1], c[2])
      BY <1>1, BeginForm
    <3>2. /\ known \subseteq known'
          /\ known' \subseteq known \cup {"creating", "asking", "deleting"} \cup Passwords
          /\ c[1] = "request_password_reset" => "asking" \in known'
      BY <3>1 DEF Requested
    <3>3. Possible(c[1])
      BY <1>1 DEF Begin
    <3>4. /\ Others(t) /\ UNCHANGED <<table, memory>> /\ op'[t] = Fresh(w, c[1], c[2])
      BY <1>1, BeginForm
    <3>5. /\ op'[t].call = c[1] /\ op'[t].step \in {"token", "key", "user"}
          /\ op'[t].knew = known \cap Spoken
      BY <3>4, FreshForm
    <3> QED
      BY <3>2, <3>3, <3>4, <3>5 DEF Possible
  <2>2. \A e \in {"spent", "token issued"} \cup Workers : e \in known' <=> e \in known
    BY <2>1, StoreAssumption DEF Events, Passwords
  <2>3. OneToken'
    <3>1. ("token issued" \in known \/ known \cap ({"spent"} \cup Workers) = {})'
      BY <2>2 DEF TokenInv, OneToken
    <3>2. c[1] = "request_password_reset" =>
             "token issued" \notin known /\ \A u \in Threads : op[u].call # "request_password_reset"
      BY <2>1 DEF TokenInv, OneToken
    <3> QED
      BY <2>1, <2>2, <3>1, <3>2 DEF Others, TokenInv, OneToken
  <2>4. ASSUME NEW u \in Threads
        PROVE  TokenTold(u)'
    <3>1. CASE u = t
      BY <2>1, <3>1 DEF TokenTold
    <3>2. CASE u # t
      BY <2>1, <3>2 DEF Others, TokenInv, TokenTold
    <3> QED
      BY <3>1, <3>2
  <2> QED
    BY <2>1, <2>2, <2>3, <2>4 DEF TokenInv
<1>2. ASSUME NEW t \in Threads, Account_step(t) \/ Thread_step(t) \/ Item_step(t)
      PROVE  TokenInv'
  BY <1>2, NoTokenAccounts, NoTokenThreads, NoTokenItems, NoTokenInv, RequestToken, ResetToken
     DEF Account_step
<1>3. CASE Expire
  BY <1>3 DEF Expire, TokenInv, OneToken, TokenTold
<1>4. ASSUME NEW w \in Workers, Restart(w)
      PROVE  TokenInv'
  <2>1. /\ table' = table /\ known' = known
        /\ \A t \in Threads : op'[t] = op[t] \/ op'[t] = Idle("none")
        /\ memory' = [memory EXCEPT ![w] = NoRows]
    BY <1>4, RestartForm
  <2>2. NoRow \notin {"request_password_reset", "reset_password", "unused"}
    BY StoreAssumption DEF Operation, Resets, OfAnyone
  <2>3. \A t \in Threads :
           \/ op'[t] = op[t]
           \/ op'[t].call = NoRow /\ op'[t].step = "idle" /\ op'[t].knew = {}
    BY <2>1, IdleForm
  <2>5. OneToken'
    BY <2>1, <2>2, <2>3 DEF TokenInv, OneToken
  <2>6. ASSUME NEW t \in Threads
        PROVE  TokenTold(t)'
    BY <2>1, <2>3 DEF TokenInv, TokenTold
  <2>4. \A v \in Workers : memory'[v] = memory[v] \/ memory'[v].token # "unused"
    BY <2>1, <2>2 DEF NoRows, TypeInv, TypeOK
  <2> QED
    BY <2>1, <2>4, <2>5, <2>6 DEF TokenInv
<1>5. CASE UNCHANGED vars
  BY <1>5 DEF vars, TokenInv, OneToken, TokenTold
<1> QED
  BY <1>1, <1>2, <1>3, <1>4, <1>5 DEF Next

\* A reset begun after the token was spent is refused, wherever it looks: by
\* the database if the database spent it, by the dictionaries of a worker if
\* that worker has seen it spent.
THEOREM SpentTokensRefused == Spec => SpentTokenRefused
<1> DEFINE Refuses ==
      \A t \in Threads :
          op[t].call = "reset_password" /\ Answered(t, "ok") =>
              IF At(t, "token consumed") THEN "spent" \notin op[t].knew
              ELSE op[t].worker \notin op[t].knew
<1>1. ASSUME TypeInv, TokenInv, [Next]_vars, NEW t \in Threads, op[t].call = "reset_password",
             op[t].step # "idle", op'[t].step = "idle", op'[t].answer = "ok"
      PROVE  IF At(t, "token consumed") THEN "spent" \notin op[t].knew
             ELSE op[t].worker \notin op[t].knew
  <2>1. Account_step(t) \/ Thread_step(t) \/ Item_step(t)
    BY <1>1, IdleForm, Stepper
  <2>2. reset_password(t)
    <3>1. ~request_password_reset(t)
      BY <1>1, NowTypes DEF request_password_reset, Transaction, At, Fits
    <3> QED
      BY <1>1, <2>1, <3>1, NoTokenAccounts, NoTokenThreads, NoTokenItems DEF Account_step, NoToken
  <2>3. CASE At(t, "token consumed")
    BY <1>1, <2>3 DEF At, TokenInv, TokenTold
  <2>4. CASE ~At(t, "token consumed")
    <3>1. Mine(t).token = "unused" /\ op[t].worker \in Workers
      <4>1. ~Query(t, "token", table.token, "token found", "token in memory")
        <5>1. SUFFICES ASSUME Query(t, "token", table.token, "token found", "token in memory")
                       PROVE  FALSE
          OBVIOUS
        <5>2. Comes(t, "token found") \/ Comes(t, "token in memory")
          BY <1>1, <5>1, TransactionForm DEF Query
        <5> QED
          BY <1>1, <5>2 DEF Comes
      <4>2. ~Transaction(t, "update", MarkUsed(table, op[t].by), NoRow, "token consumed", "token in memory")
        <5>1. SUFFICES ASSUME Transaction(t, "update", MarkUsed(table, op[t].by), NoRow, "token consumed",
                                          "token in memory")
                       PROVE  FALSE
          OBVIOUS
        <5>2. Comes(t, "token consumed") \/ Comes(t, "token in memory")
          BY <1>1, <5>1, TransactionForm
        <5> QED
          BY <1>1, <5>2 DEF Comes
      <4>3. ~Answer(t, "refused") /\ ~Go(t, "update")
        BY <1>1, AnswerForm, EndForm, GoForm DEF Comes
      <4> QED
        BY <1>1, <2>2, <2>4, <4>1, <4>2, <4>3, NowTypes DEF reset_password, At, Fits
    <3> QED
      BY <1>1, <2>4, <3>1 DEF Mine, TokenInv, TokenTold
  <2> QED
    BY <2>3, <2>4
<1>2. TypeInv /\ TokenInv /\ [Next]_vars => [Refuses]_vars
  BY <1>1 DEF Answered
<1> QED
  BY <1>2, TypeHolds, TokenInit, TokenInvStep, PTL DEF Spec, SpentTokenRefused


-----------------------------------------------------------------------------
(* Passwords after a reset.                                                *)

\* After a reset by the database was acknowledged the table keeps a password of
\* the resets that had begun by then, as no later one finds the token unused:
\* a look-up that does not fail finds it.
PasswordTold(t) ==
    /\ op[t].step = "token consumed" => table.user \in Asked
    /\ op[t].call = "reset_password" /\ "spent" \notin op[t].knew => op[t].by \in Asked
    /\ op[t].step = "user found" /\ "spent" \in op[t].knew /\ ~op[t].failed =>
          op[t].found \in Asked

PasswordInv ==
    /\ "spent" \in known => table.user \in Asked
    /\ \A t \in Threads : PasswordTold(t)

LEMMA PasswordInit == Init => PasswordInv
<1> SUFFICES ASSUME Init
             PROVE  PasswordInv
  OBVIOUS
<1>1. known = {} /\ \A t \in Threads : op[t] = Idle("none")
  BY DEF Init
<1>2. NoRow # "reset_password"
  BY StoreAssumption DEF Operation, Resets
<1> QED
  BY <1>1, <1>2, IdleForm DEF PasswordInv, PasswordTold

LEMMA PasswordBegin ==
    ASSUME TypeInv, PasswordInv,
           NEW t \in Threads, NEW w \in Workers, NEW c \in calls, Begin(t, w, c[1], c[2])
    PROVE  PasswordInv'
<1>1. /\ Others(t) /\ table' = table /\ known' = known \cup Requested(c[1], c[2])
      /\ op'[t].call = c[1] /\ op'[t].by = c[2] /\ op'[t].step \in {"token", "key", "user"}
      /\ op'[t].knew = known \cap Spoken
  BY BeginForm, FreshForm
<1>2. Asked \subseteq Asked' /\ ("spent" \in known' => "spent" \in known)
  BY <1>1 DEF Asked, Requested, Passwords
<1>3. c[1] = "reset_password" /\ "spent" \notin op'[t].knew => c[2] \in Asked'
  <2>1. SUFFICES ASSUME c[1] = "reset_password", "spent" \notin known
                 PROVE  c[2] \in Asked'
    BY <1>1 DEF Spoken
  <2>2. <<c[1], c[2]>> \in Invocation
    BY StoreAssumption DEF TypeInv, TypeOK, Invocation
  <2>3. c[2] \in Passwords
    BY <2>1, <2>2 DEF Invocation, OfUsers, Reads, Creates, Deletes, OfAnyone
  <2> QED
    BY <1>1, <2>1, <2>3 DEF Asked, Requested, Resets
<1>4. ASSUME NEW u \in Threads
      PROVE  PasswordTold(u)'
  <2>1. CASE u = t
    BY <1>1, <1>3, <2>1 DEF PasswordTold
  <2>2. CASE u # t
    BY <1>1, <1>2, <2>2 DEF Others, PasswordInv, PasswordTold
  <2> QED
    BY <2>1, <2>2
<1> QED
  BY <1>1, <1>2, <1>4 DEF PasswordInv

LEMMA PasswordStep ==
    ASSUME TypeInv, TokenInv, UserInv, PasswordInv, NEW t \in Threads, UserStep(t)
    PROVE  PasswordInv'
<1>0. NoRow \notin Passwords \cup {"reset_password"}
  BY StoreAssumption DEF Operation, Resets
<1>1. Asked' = Asked
  BY DEF UserStep, Asked
<1>2. op[t].step = "update" => op[t].by \in Asked
  BY NowTypes DEF Fits, TokenInv, TokenTold, PasswordInv, PasswordTold
<1>3. table.user \in Asked => table'.user \in Asked
  BY <1>0, <1>2 DEF UserStep, Asked
<1>4. "spent" \in known' => table'.user \in Asked
  BY <1>3 DEF UserStep, PasswordInv, PasswordTold
<1>5. ASSUME NEW u \in Threads
      PROVE  PasswordTold(u)'
  <2>1. CASE u = t
    <3>1. op'[t].step = "token consumed" => table'.user \in Asked
      BY <1>2 DEF UserStep
    <3>2. op'[t].call = "reset_password" /\ "spent" \notin op'[t].knew => op'[t].by \in Asked
      BY <1>0 DEF UserStep, PasswordInv, PasswordTold
    <3>3. op'[t].step = "user found" /\ "spent" \in op'[t].knew /\ ~op'[t].failed =>
             op'[t].found \in Asked
      BY DEF UserStep, UserInv, PasswordInv
    <3> QED
      BY <1>1, <2>1, <3>1, <3>2, <3>3 DEF PasswordTold
  <2>2. CASE u # t
    <3>1. op'[u] = op[u]
      BY <2>2 DEF UserStep, Others
    <3> QED
      BY <1>1, <1>3, <3>1 DEF PasswordInv, PasswordTold
  <2> QED
    BY <2>1, <2>2
<1> QED
  BY <1>1, <1>4, <1>5 DEF PasswordInv

LEMMA PasswordInvStep == TypeInv /\ TokenInv /\ UserInv /\ PasswordInv /\ [Next]_vars => PasswordInv'
<1> SUFFICES ASSUME TypeInv, TokenInv, UserInv, PasswordInv, [Next]_vars
             PROVE  PasswordInv'
  OBVIOUS
<1>1. ASSUME NEW t \in Threads, NEW w \in Workers, NEW c \in calls, Begin(t, w, c[1], c[2])
      PROVE  PasswordInv'
  BY <1>1, PasswordBegin
<1>2. ASSUME NEW t \in Threads, Account_step(t) \/ Thread_step(t) \/ Item_step(t)
      PROVE  PasswordInv'
  BY <1>2, UserAccounts, UserThreads, UserItems, PasswordStep
<1>3. CASE Expire
  BY <1>3 DEF Expire, PasswordInv, PasswordTold, Asked
<1>4. ASSUME NEW w \in Workers, Restart(w)
      PROVE  PasswordInv'
  <2>1. /\ table' = table /\ known' = known
        /\ \A t \in Threads : op'[t] = op[t] \/ op'[t] = Idle("none")
    BY <1>4, RestartForm
  <2>2. NoRow # "reset_password"
    BY StoreAssumption DEF Operation, Resets
  <2>3. ASSUME NEW t \in Threads
        PROVE  PasswordTold(t)'
    <3>1. \/ op'[t] = op[t]
          \/ op'[t].step = "idle" /\ op'[t].call = NoRow
      BY <2>1, IdleForm
    <3> QED
      BY <2>1, <2>2, <3>1 DEF PasswordInv, PasswordTold, Asked
  <2> QED
    BY <2>1, <2>3 DEF PasswordInv, Asked
<1>5. CASE UNCHANGED vars
  BY <1>5 DEF vars, PasswordInv, PasswordTold, Asked
<1> QED
  BY <1>1, <1>2, <1>3, <1>4, <1>5 DEF Next

\* After a reset by the database was acknowledged, log-ins whose query does not
\* fail obey, on every worker, a password of the resets that had begun by then.
THEOREM ResetPasswordsStick == Spec => PasswordsStick
<1> USE StoreAssumption
<1> DEFINE Sticks ==
      \A t \in Threads :
          /\ op[t].call \in LogIns /\ "spent" \in op[t].knew /\ ~op[t].failed
          /\ Answered(t, "ok") \/ Answered(t, "refused") \/ Answered(t, "error")
          => /\ Answered(t, "ok") => op[t].by \in Asked
             /\ Asked = {op[t].by} => Answered(t, "ok")
<1>1. ASSUME TypeInv, PasswordInv, [Next]_vars, NEW t \in Threads,
             op[t].call \in LogIns, "spent" \in op[t].knew, ~op[t].failed,
             op[t].step # "idle", op'[t].step = "idle", op'[t].answer # "none"
      PROVE  /\ op'[t].answer = "ok" => op[t].by \in Asked
             /\ Asked = {op[t].by} => op'[t].answer = "ok"
  <2>1. authenticate_user(t)
    BY <1>1, IdleForm, Stepper, LogInAnswers
  <2>2. op[t].found \in Asked
    BY <1>1, <2>1 DEF authenticate_user, At, PasswordInv, PasswordTold
  <2>3. UserSeen(t) = op[t].found /\ op[t].found # "missing"
    BY <2>2 DEF UserSeen, Asked, Passwords
  <2>4. Answer(t, IF op[t].found = op[t].by THEN "ok" ELSE "refused")
    BY <2>1, <2>3 DEF authenticate_user, AnswerIf
  <2>5. op'[t].answer = IF op[t].found = op[t].by THEN "ok" ELSE "refused"
    BY <1>1, <2>4, AnswerForm, EndForm
  <2> QED
    BY <2>2, <2>5
<1>2. TypeInv /\ PasswordInv /\ [Next]_vars => [Sticks]_vars
  BY <1>1 DEF Answered
<1> QED
  BY <1>2, TypeHolds, UserInit, UserInvStep, TokenInit, TokenInvStep, PasswordInit,
     PasswordInvStep, PTL DEF Spec, PasswordsStick


-----------------------------------------------------------------------------
(* Items.                                                                  *)

\* There is one creation; while nobody has asked to delete the item it is in
\* the table once it was inserted, and other users' deletions miss it; after
\* its deletion nobody can insert it again.
Gone ==
    /\ table.item = NoRow
    /\ "creating" \in known
    /\ \A u \in Threads : op[u].call \in Creates => op[u].step = "item inserted"

OneItem ==
    /\ "created" \in known \/ table.item # NoRow => "creating" \in known
    /\ \A t \in Threads :
          op[t].call \in Creates =>
              /\ "creating" \in known /\ "created" \notin known
              /\ \A u \in Threads : op[u].call \in Creates => u = t
              /\ op[t].step # "item inserted" => table.item = NoRow

Kept ==
    "deleting" \notin known =>
        /\ "created" \in known => table.item # NoRow
        /\ \A t \in Threads :
              /\ op[t].step = "item inserted" => table.item # NoRow
              /\ op[t].call \in Deletes => table.item # NoRow /\ ~Owned(table, op[t].by)

ItemTold(t) ==
    /\ op[t].knew \subseteq known
    /\ op[t].step = "deleted" /\ op[t].found # NoRow => Gone
    /\ "deleted" \in op[t].knew /\ op[t].step \in {"item found", "marked"} /\ ~op[t].failed =>
          op[t].found = NoRow

ItemInv ==
    /\ OneItem
    /\ Kept
    /\ "deleted" \in known => Gone
    /\ \A t \in Threads : ItemTold(t)

\* A step that leaves the item alone.
Items == {"creating", "created", "deleting", "deleted"}
Told == {"item inserted", "deleted", "item found", "marked"}
NoItem(t) ==
    /\ Others(t)
    /\ \/ op'[t].call = NoRow
       \/ /\ op'[t].call = op[t].call /\ op'[t].by = op[t].by
          /\ op[t].step # "item inserted"
    /\ op'[t].step \notin Told
    /\ op'[t].knew \subseteq op[t].knew
    /\ table'.item = table.item
    /\ known \subseteq known' /\ known' \cap Items = known \cap Items

LEMMA NoItemInv ==
    ASSUME TypeInv, ItemInv, NEW t \in Threads, NoItem(t)
    PROVE  ItemInv'
<1>1. /\ \A e \in Items : e \in known' <=> e \in known
      /\ table'.item = table.item
      /\ \A u : Owned(table', u) <=> Owned(table, u)
  BY DEF NoItem, Owned
<1>2. ASSUME NEW u \in Threads
      PROVE  /\ \/ op'[u].call = NoRow
                \/ op'[u].call = op[u].call /\ op'[u].by = op[u].by
             /\ \/ op'[u].call = NoRow
                \/ op'[u].step = "item inserted" <=> op[u].step = "item inserted"
             /\ op'[u].step = "item inserted" => op[u].step = "item inserted"
  BY DEF NoItem, Others, Told
<1>3. NoRow \notin Creates \cup Deletes
  BY StoreAssumption DEF Operation, OfUsers, Resets
<1>4. Items = {"creating", "created", "deleting", "deleted"}
  BY DEF Items
<1>5. OneItem'
  BY <1>1, <1>2, <1>3, <1>4 DEF ItemInv, OneItem
<1>6. Kept'
  BY <1>1, <1>2, <1>3, <1>4 DEF ItemInv, Kept
<1>7. Gone => Gone'
  BY <1>1, <1>2, <1>3, <1>4 DEF Gone
<1>8. ASSUME NEW u \in Threads
      PROVE  ItemTold(u)'
  <2>1. CASE u = t
    BY <2>1 DEF NoItem, Told, ItemInv, ItemTold
  <2>2. CASE u # t
    BY <1>7, <2>2 DEF NoItem, Others, ItemInv, ItemTold
  <2> QED
    BY <2>1, <2>2
<1> QED
  BY <1>1, <1>4, <1>5, <1>6, <1>7, <1>8 DEF ItemInv

LEMMA NoItemTransaction ==
    ASSUME TypeInv, NEW t \in Threads, NEW s, NEW after, NEW row, NEW done, NEW failed,
           Transaction(t, s, after, row, done, failed), s # "item inserted",
           after.item = table.item, done \notin Told, failed \notin Told
    PROVE  NoItem(t)
<1>1. /\ op[t].step = s /\ known' = known /\ table'.item = table.item
      /\ Comes(t, done) \/ Comes(t, failed)
  BY TransactionForm
<1> QED
  BY <1>1 DEF NoItem, Comes, Told

LEMMA NoItemDictionary ==
    ASSUME TypeInv, NEW t \in Threads, Unchanged,
           \/ UNCHANGED known
           \/ \E e \in {"registered", "token issued", "spent"} : Learn({e})
           \/ \E w \in Workers : Learn({w}) \/ Learn({"spent", w}),
           \/ \E a : Answer(t, a)
           \/ \E s \in Step \ Told : (Go(t, s) \/ GoAfresh(t, s)) /\ op[t].step # "item inserted"
    PROVE  NoItem(t)
<1>1. table' = table /\ known \subseteq known' /\ known' \cap Items = known \cap Items
  BY StoreAssumption DEF Unchanged, Learn, Items, Events
<1>2. CASE \E a : Answer(t, a)
  <2>1. \E a : Ends(t, a)
    BY <1>2, AnswerForm
  <2> QED
    BY <1>1, <2>1, EndForm DEF NoItem, Told
<1>3. CASE \E s \in Step \ Told : (Go(t, s) \/ GoAfresh(t, s)) /\ op[t].step # "item inserted"
  <2>1. op[t].step # "item inserted" /\ \E s \in Step \ Told : Comes(t, s)
    BY <1>3, GoForm, GoAfreshForm
  <2> QED
    BY <1>1, <2>1 DEF NoItem, Comes, Told
<1> QED
  BY <1>2, <1>3


LEMMA NoItemAccounts ==
    ASSUME TypeInv, NEW t \in Threads, Account_step(t)
    PROVE  NoItem(t)
<1>0. /\ table \in Rows /\ Fits(op[t])
      /\ {"user found", "key found", "user inserted", "token inserted", "token found",
          "token consumed", "token in memory"} \cap Told = {}
      /\ {"insert user", "insert token", "update"} \subseteq Step \ Told
      /\ [table EXCEPT !.user = "first"].item = table.item
      /\ [table EXCEPT !.token = "unused"].item = table.item
      /\ MarkUsed(table, op[t].by).item = table.item
  BY NowTypes DEF TypeInv, TypeOK, Told, Step, Rows, MarkUsed
<1>1. CASE get_user(t)
  BY <1>0, <1>1, NoItemTransaction DEF get_user, Query
<1>2. CASE get_current_user(t)
  <2>1. \E s \in Step \ Told : GoAfresh(t, s)
    BY <1>2 DEF get_current_user, Handlers, Watchlists, Alerts, Assets, Conversations, Told
  <2> QED
    BY <1>2, <2>1, NoItemDictionary DEF get_current_user, At
<1>3. CASE authenticate_user(t)
  BY <1>3, NoItemDictionary DEF authenticate_user, AnswerIf
<1>4. CASE get_user_by_api_key(t)
  <2>1. CASE Query(t, "key", table.user, "key found", "key found")
    BY <1>0, <2>1, NoItemTransaction DEF Query
  <2>2. CASE ~Query(t, "key", table.user, "key found", "key found")
    BY <1>4, <2>2, NoItemDictionary DEF get_user_by_api_key, AnswerIf
  <2> QED
    BY <2>1, <2>2
<1>5. CASE register_user(t)
  <2>1. CASE Insert(t, "insert user", [table EXCEPT !.user = "first"], "user inserted")
    <3>1. /\ op[t].step = "insert user" /\ known' = known /\ table'.item = table.item
          /\ Comes(t, "user inserted") \/ Ends(t, "error")
      BY <1>0, <2>1, InsertForm
    <3> QED
      BY <3>1, EndForm DEF NoItem, Comes, Told
  <2>2. CASE ~Insert(t, "insert user", [table EXCEPT !.user = "first"], "user inserted")
    <3>1. /\ Unchanged
          /\ UNCHANGED known \/ \E e \in {"registered", "token issued", "spent"} : Learn({e})
          /\ (\E a : Answer(t, a)) \/ (Go(t, "insert user") /\ op[t].step # "item inserted")
      BY <1>5, <2>2 DEF register_user, create_user, At
    <3> QED
      BY <1>0, <3>1, NoItemDictionary
  <2> QED
    BY <2>1, <2>2
<1>6. CASE request_password_reset(t)
  <2>1. CASE Transaction(t, "insert token", [table EXCEPT !.token = "unused"], NoRow,
                         "token inserted", "token inserted")
    BY <1>0, <2>1, NoItemTransaction
  <2>2. CASE ~Transaction(t, "insert token", [table EXCEPT !.token = "unused"], NoRow,
                          "token inserted", "token inserted")
    <3>1. /\ Unchanged
          /\ UNCHANGED known \/ \E e \in {"registered", "token issued", "spent"} : Learn({e})
          /\ (\E a : Answer(t, a)) \/ (Go(t, "insert token") /\ op[t].step # "item inserted")
      BY <1>6, <2>2 DEF request_password_reset, At
    <3> QED
      BY <1>0, <3>1, NoItemDictionary
  <2> QED
    BY <2>1, <2>2
<1>7. CASE reset_password(t)
  <2>1. CASE Query(t, "token", table.token, "token found", "token in memory")
    BY <1>0, <2>1, NoItemTransaction DEF Query
  <2>2. CASE Transaction(t, "update", MarkUsed(table, op[t].by), NoRow, "token consumed", "token in memory")
    BY <1>0, <2>2, NoItemTransaction
  <2>3. CASE /\ ~Query(t, "token", table.token, "token found", "token in memory")
             /\ ~Transaction(t, "update", MarkUsed(table, op[t].by), NoRow, "token consumed",
                             "token in memory")
    <3>1. /\ Unchanged
          /\ \/ UNCHANGED known
             \/ /\ op[t].worker \in Workers
                /\ Learn({op[t].worker}) \/ Learn({"spent", op[t].worker})
          /\ (\E a : Answer(t, a)) \/ (Go(t, "update") /\ op[t].step # "item inserted")
      BY <1>0, <1>7, <2>3 DEF reset_password, At, Fits
    <3> QED
      BY <1>0, <3>1, NoItemDictionary
  <2> QED
    BY <2>1, <2>2, <2>3
<1> QED
  BY <1>1, <1>2, <1>3, <1>4, <1>5, <1>6, <1>7 DEF Account_step

LEMMA NoItemThreads ==
    ASSUME TypeInv, NEW t \in Threads, Thread_step(t)
    PROVE  NoItem(t)
<1>0. /\ table \in Rows
      /\ {"owner found", "own"} \cap Told = {}
      /\ {"user exists", "insert item", "upsert"} \subseteq Step \ Told
      /\ [table EXCEPT !.owner = op[t].by].item = table.item
  BY DEF TypeInv, TypeOK, Told, Step, Rows
<1>1. CASE get_thread_owner(t)
  BY <1>0, <1>1, NoItemTransaction DEF get_thread_owner, Query
<1>2. CASE Transaction(t, "upsert", [table EXCEPT !.owner = op[t].by], op[t].found, "own", "own")
  BY <1>0, <1>2, NoItemTransaction
<1>3. ASSUME Unchanged, UNCHANGED known, op[t].step # "item inserted",
             \/ \E a : Answer(t, a)
             \/ \E s \in {"user exists", "insert item", "upsert"} : Go(t, s)
      PROVE  NoItem(t)
  BY <1>0, <1>3, NoItemDictionary
<1>4. CASE validate_thread_ownership(t) \/ stream_travel_events(t)
  BY <1>3, <1>4 DEF validate_thread_ownership, stream_travel_events, AnswerIf, At
<1>5. CASE ensure_user_exists(t)
  BY <1>3, <1>5 DEF ensure_user_exists, At
<1>6. CASE register_thread_owner(t)
  BY <1>2, <1>3, <1>6 DEF register_thread_owner, At
<1> QED
  BY <1>1, <1>4, <1>5, <1>6 DEF Thread_step


LEMMA CreateItem ==
    ASSUME TypeInv, ItemInv, NEW t \in Threads, NEW c \in Creates, Create(t, c)
    PROVE  ItemInv'
<1>0. /\ table \in Rows /\ op[t].call \in Creates /\ "creating" \in known /\ "created" \notin known
      /\ \A u \in Threads : op[u].call \in Creates => u = t
      /\ NewItem(op[t].by) # NoRow
  <2>1. op[t].step \in ItemSteps
    BY DEF Create, InsertItem, Insert, At, ItemSteps
  <2>2. NewItem(op[t].by) \in Item
    BY <2>1, NowTypes, ItemCalls, ItemTypes
  <2> QED
    BY <2>2, StoreAssumption DEF Item, TypeInv, TypeOK, Create, ItemInv, OneItem
<1>1. NoRow \notin Creates \cup Deletes /\ Creates \cap Deletes = {}
  BY StoreAssumption DEF Operation, OfUsers, Resets, Creates, Deletes
<1>2. CASE InsertItem(t)
  <2>1. /\ op[t].step = "insert item" /\ known' = known
        /\ \/ Comes(t, "item inserted") /\ table'.item = NewItem(op[t].by)
           \/ Ends(t, "error") /\ table'.item \in {NoRow, NewItem(op[t].by)}
    <3>1. table.item = NoRow
      BY <1>0, <1>2 DEF InsertItem, Insert, At, ItemInv, OneItem
    <3>2. [table EXCEPT !.item = NewItem(op[t].by)].item = NewItem(op[t].by)
      BY <1>0 DEF Rows
    <3> QED
      BY <1>2, <3>1, <3>2, InsertForm DEF InsertItem
  <2>2. table.item = NoRow /\ ~Gone /\ "deleted" \notin known
    BY <1>0, <2>1 DEF ItemInv, OneItem, Gone
  <2>3. /\ Others(t) /\ op'[t].call \in {op[t].call, NoRow} /\ op'[t].knew \subseteq op[t].knew
        /\ op'[t].step \in {"item inserted", "idle"}
        /\ op'[t].step = "item inserted" => table'.item # NoRow
        /\ op'[t].call # NoRow => op'[t].step = "item inserted"
    BY <1>0, <2>1, EndForm DEF Comes
  <2>4. OneItem'
    BY <1>0, <1>1, <2>1, <2>3 DEF ItemInv, OneItem, Others
  <2>5. Kept'
    BY <1>0, <1>1, <2>1, <2>2, <2>3 DEF ItemInv, Kept, Others
  <2>6. ASSUME NEW u \in Threads
        PROVE  ItemTold(u)'
    BY <2>1, <2>2, <2>3 DEF ItemInv, ItemTold, Others
  <2> QED
    BY <2>1, <2>2, <2>4, <2>5, <2>6 DEF ItemInv
<1>3. CASE /\ op[t].step = "item inserted" /\ Answer(t, "ok") /\ Learn({"created"}) /\ Unchanged
  <2>1. /\ Others(t) /\ op'[t].call = NoRow /\ op'[t].step = "idle" /\ op'[t].knew = {}
        /\ table' = table /\ known' = known \cup {"created"}
    BY <1>3, AnswerForm, EndForm DEF Learn, Unchanged
  <2>2. \A u \in Threads : op'[u].call \notin Creates
    BY <1>0, <1>1, <2>1 DEF Others
  <2>3. OneItem'
    BY <1>0, <2>1, <2>2 DEF OneItem
  <2>4. Kept'
    BY <1>1, <1>3, <2>1 DEF ItemInv, Kept, Others
  <2>5. Gone => Gone'
    BY <2>1, <2>2 DEF Gone
  <2>6. ASSUME NEW u \in Threads
        PROVE  ItemTold(u)'
    BY <2>1, <2>5 DEF ItemInv, ItemTold, Others
  <2> QED
    BY <2>1, <2>3, <2>4, <2>5, <2>6 DEF ItemInv
<1> QED
  BY <1>2, <1>3 DEF Create, At

LEMMA ReadItem ==
    ASSUME TypeInv, ItemInv, NEW t \in Threads, NEW c, Read(t, c)
    PROVE  ItemInv'
<1>1. CASE Query(t, "item", ItemOf(table, op[t].by), "item found", "item in memory")
  <2>1. /\ op[t].step = "item" /\ op[t].call \in Reads
        /\ known' = known /\ table' = table
        /\ \/ Comes(t, "item found") /\ op'[t].found = ItemOf(table, op[t].by)
           \/ Comes(t, "item in memory")
    <3>1. /\ op[t].step = "item" /\ known' = known /\ table' = table
          /\ \/ Comes(t, "item found") /\ op'[t].found = ItemOf(table, op[t].by)
             \/ Comes(t, "item in memory")
      BY <1>1, TransactionForm DEF Query
    <3> QED
      BY <3>1, NowTypes DEF Fits
  <2>2. \A u \in Threads :
           /\ op'[u].call = op[u].call /\ op'[u].by = op[u].by
           /\ op[u].call \in Creates => op'[u].step = op[u].step
           /\ op'[u].step = "item inserted" => op[u].step = "item inserted"
    BY <2>1 DEF Comes, Others, Reads, Creates
  <2>3. OneItem'
    BY <2>1, <2>2 DEF ItemInv, OneItem
  <2>4. Kept' /\ (Gone => Gone')
    BY <2>1, <2>2 DEF ItemInv, Kept, Gone, Owned
  <2>5. ASSUME NEW u \in Threads
        PROVE  ItemTold(u)'
    <3>1. CASE u = t
      <4>1. Gone => ItemOf(table, op[t].by) = NoRow
        BY DEF Gone, ItemOf, Owned
      <4> QED
        BY <2>1, <3>1, <4>1 DEF Comes, ItemInv, ItemTold
    <3>2. CASE u # t
      BY <2>1, <2>4, <3>2 DEF Comes, Others, ItemInv, ItemTold
    <3> QED
      BY <3>1, <3>2
  <2> QED
    BY <2>1, <2>3, <2>4, <2>5 DEF ItemInv
<1>2. CASE ~Query(t, "item", ItemOf(table, op[t].by), "item found", "item in memory")
  BY <1>2, NoItemDictionary, NoItemInv DEF Read, AnswerItem
<1> QED
  BY <1>1, <1>2


LEMMA MarkItem ==
    ASSUME TypeInv, ItemInv, NEW t \in Threads, mark_alert_read(t)
    PROVE  ItemInv'
<1>1. CASE Transaction(t, "mark", Marked(table, op[t].by), ItemOf(table, op[t].by), "marked",
                       "read in memory")
  <2>1. /\ op[t].step = "mark" /\ op[t].call = "mark_alert_read" /\ known' = known
        /\ table' \in {table, Marked(table, op[t].by)}
        /\ \/ Comes(t, "marked") /\ op'[t].found = ItemOf(table, op[t].by)
           \/ Comes(t, "read in memory")
    <3>1. /\ op[t].step = "mark" /\ known' = known
          /\ table' \in {table, Marked(table, op[t].by)}
          /\ \/ Comes(t, "marked") /\ op'[t].found = ItemOf(table, op[t].by)
             \/ Comes(t, "read in memory")
      <4> DEFINE after == Marked(table, op[t].by)
                 row == ItemOf(table, op[t].by)
      <4>1. Transaction(t, "mark", after, row, "marked", "read in memory")
        BY <1>1
      <4> HIDE DEF after, row
      <4>2. /\ op[t].step = "mark" /\ known' = known /\ table' \in {table, after}
            /\ \/ Comes(t, "marked") /\ op'[t].found = row
               \/ Comes(t, "read in memory")
        BY <4>1, TransactionForm
      <4> QED
        BY <4>2 DEF after, row
    <3> QED
      BY <3>1, NowTypes DEF Fits
  <2>2. \A u \in Threads :
           /\ op'[u].call = op[u].call /\ op'[u].by = op[u].by
           /\ op[u].call \in Creates => op'[u].step = op[u].step
           /\ op'[u].step = "item inserted" => op[u].step = "item inserted"
    BY <2>1 DEF Comes, Others, Creates
  <2>3. /\ table'.item = NoRow <=> table.item = NoRow
        /\ \A u \in Users : Owned(table', u) <=> Owned(table, u)
    <3>1. table \in Rows
      BY DEF TypeInv, TypeOK
    <3>2. CASE table' = table
      BY <3>2
    <3>3. CASE table' = Marked(table, op[t].by) /\ Owned(table, op[t].by)
      <4>1. table.item \in Item /\ table'.item = [table.item EXCEPT !.read = TRUE]
        BY <3>1, <3>3 DEF Marked, Owned, Rows
      <4> QED
        BY <4>1, StoreAssumption DEF Owned, Item
    <3>4. CASE table' = Marked(table, op[t].by) /\ ~Owned(table, op[t].by)
      BY <3>4 DEF Marked
    <3> QED
      BY <2>1, <3>2, <3>3, <3>4
  <2>4. OneItem'
    BY <2>1, <2>2, <2>3 DEF ItemInv, OneItem
  <2>5. Gone => Gone'
    BY <2>1, <2>2, <2>3 DEF Gone
  <2>6. Kept'
    <3>1. \A u \in Threads : op[u].call \in Deletes /\ op[u].step # "idle" => op[u].by \in Users
      BY NowTypes DEF Fits, Invocation, OfUsers, OfAnyone, LogIns, Resets, Deletes
    <3>2. \A u \in Threads : op[u].step = "idle" => op[u].call = NoRow
      BY NowTypes DEF Fits
    <3>3. NoRow \notin Deletes
      BY StoreAssumption DEF Operation, OfUsers, Resets
    <3> QED
      BY <2>1, <2>2, <2>3, <3>1, <3>2, <3>3 DEF ItemInv, Kept
  <2>7. ASSUME NEW u \in Threads
        PROVE  ItemTold(u)'
    <3>1. CASE u = t
      <4>1. Gone => ItemOf(table, op[t].by) = NoRow
        BY DEF Gone, ItemOf, Owned
      <4> QED
        BY <2>1, <3>1, <4>1 DEF Comes, ItemInv, ItemTold
    <3>2. CASE u # t
      BY <2>1, <2>5, <3>2 DEF Comes, Others, ItemInv, ItemTold
    <3> QED
      BY <3>1, <3>2
  <2> QED
    BY <2>1, <2>4, <2>5, <2>6, <2>7 DEF ItemInv
<1>2. CASE ~Transaction(t, "mark", Marked(table, op[t].by), ItemOf(table, op[t].by), "marked",
                        "read in memory")
  BY <1>2, NoItemDictionary, NoItemInv DEF mark_alert_read, AnswerItem
<1> QED
  BY <1>1, <1>2

LEMMA DeleteItem ==
    ASSUME TypeInv, ItemInv, NEW t \in Threads, NEW c \in Deletes,
           NEW otherwise \in {"item again", "item in memory"}, Delete(t, c, otherwise)
    PROVE  ItemInv'
<1>0. /\ table \in Rows /\ op[t].call \in Deletes /\ op[t].call \notin Creates
      /\ "remove" \in Step \ Told /\ "item in memory" \in Step \ Told
  BY DEF Delete, TypeInv, TypeOK, Deletes, Creates, Step, Told
<1> DEFINE after == IF Owned(table, op[t].by) THEN [table EXCEPT !.item = NoRow] ELSE table
<1>1. CASE Transaction(t, "delete", after, ItemOf(table, op[t].by), "deleted", otherwise)
  <2>1. /\ op[t].step = "delete" /\ known' = known
        /\ \/ /\ Comes(t, "deleted") /\ op'[t].found = ItemOf(table, op[t].by)
              /\ table' = after
           \/ Comes(t, otherwise) /\ table' \in {table, after}
    <3> HIDE DEF after
    <3> QED
      BY <1>1, TransactionForm
  <2>2. \A u \in Threads :
           /\ op'[u].call = op[u].call /\ op'[u].by = op[u].by /\ op'[u].knew = op[u].knew
           /\ op[u].call \in Creates => op'[u].step = op[u].step
           /\ op'[u].step = "item inserted" => op[u].step = "item inserted"
    BY <1>0, <2>1 DEF Comes, Others
  <2>3. CASE ~Owned(table, op[t].by)
    <3>1. table' = table /\ (op'[t].step = "deleted" => op'[t].found = NoRow)
      BY <2>1, <2>3 DEF ItemOf, Comes
    <3>2. OneItem'
      BY <2>1, <2>2, <3>1 DEF ItemInv, OneItem
    <3>3. Kept' /\ (Gone => Gone')
      BY <2>1, <2>2, <3>1 DEF ItemInv, Kept, Gone
    <3>4. ASSUME NEW u \in Threads
          PROVE  ItemTold(u)'
      <4>1. CASE u = t
        BY <2>1, <2>2, <3>1, <4>1 DEF Comes, ItemInv, ItemTold
      <4>2. CASE u # t
        BY <2>1, <3>3, <4>2 DEF Comes, Others, ItemInv, ItemTold
      <4> QED
        BY <4>1, <4>2
    <3> QED
      BY <2>1, <3>2, <3>3, <3>4 DEF ItemInv
  <2>4. CASE Owned(table, op[t].by) /\ table' = table
    <3>1. table.item # NoRow /\ Comes(t, otherwise)
      BY <1>0, <2>1, <2>4 DEF Owned, Rows
    <3>2. OneItem'
      BY <2>1, <2>2, <2>4 DEF ItemInv, OneItem
    <3>3. Kept' /\ (Gone => Gone')
      BY <2>1, <2>2, <2>4 DEF ItemInv, Kept, Gone
    <3>4. ASSUME NEW u \in Threads
          PROVE  ItemTold(u)'
      <4>1. CASE u = t
        BY <2>1, <2>2, <3>1, <4>1 DEF Comes, ItemInv, ItemTold
      <4>2. CASE u # t
        BY <2>1, <3>3, <4>2 DEF Comes, Others, ItemInv, ItemTold
      <4> QED
        BY <4>1, <4>2
    <3> QED
      BY <2>1, <3>2, <3>3, <3>4 DEF ItemInv
  <2>5. CASE Owned(table, op[t].by) /\ table' = [table EXCEPT !.item = NoRow]
    <3>1. /\ table'.item = NoRow /\ table.item # NoRow /\ "deleting" \in known
          /\ Comes(t, "deleted") \/ Comes(t, otherwise)
      BY <1>0, <2>1, <2>5 DEF Owned, Rows, ItemInv, Kept
    <3>2. Gone'
      BY <2>1, <2>2, <3>1 DEF ItemInv, OneItem, Gone
    <3>3. OneItem' /\ Kept'
      BY <2>1, <2>2, <3>1 DEF ItemInv, OneItem, Kept
    <3>4. "deleted" \notin known
      BY <3>1 DEF ItemInv, Gone
    <3>5. ASSUME NEW u \in Threads
          PROVE  ItemTold(u)'
      BY <2>1, <2>2, <3>2, <3>4 DEF ItemInv, ItemTold
    <3> QED
      BY <3>2, <3>3, <3>5 DEF ItemInv
  <2> QED
    BY <2>1, <2>3, <2>4, <2>5
<1>2. CASE /\ At(t, "deleted") /\ op[t].found # NoRow /\ Answer(t, "ok") /\ Learn({"deleted"})
           /\ Unchanged
  <2>1. /\ Others(t) /\ op'[t].call = NoRow /\ op'[t].step = "idle" /\ op'[t].knew = {}
        /\ table' = table /\ known' = known \cup {"deleted"}
    BY <1>2, AnswerForm, EndForm DEF Learn, Unchanged
  <2>2. Gone /\ NoRow \notin Creates \cup Deletes
    BY <1>2, StoreAssumption DEF At, ItemInv, ItemTold, Operation, OfUsers
  <2>3. \A u \in Threads : \/ op'[u] = op[u]
                           \/ op'[u].call = NoRow /\ op'[u].step = "idle" /\ op'[u].knew = {}
    BY <2>1 DEF Others
  <2>4. Gone' /\ OneItem'
    BY <2>1, <2>2, <2>3 DEF Gone, ItemInv, OneItem
  <2>5. Kept'
    BY <2>1, <2>2, <2>3 DEF ItemInv, Kept
  <2>6. ASSUME NEW u \in Threads
        PROVE  ItemTold(u)'
    BY <2>1, <2>3, <2>4 DEF ItemInv, ItemTold
  <2> QED
    BY <2>4, <2>5, <2>6 DEF ItemInv
<1>3. CASE /\ Unchanged /\ UNCHANGED known
           /\ \/ \E a : Answer(t, a)
              \/ \E s \in {"remove", "item in memory"} : Go(t, s) /\ op[t].step # "item inserted"
  BY <1>0, <1>3, NoItemDictionary, NoItemInv
<1> QED
  BY <1>1, <1>2, <1>3 DEF Delete, At


LEMMA ItemInit == Init => ItemInv
<1> SUFFICES ASSUME Init
             PROVE  ItemInv
  OBVIOUS
<1>1. known = {} /\ table.item = NoRow /\ \A t \in Threads : op[t] = Idle("none")
  BY DEF Init, NoRows
<1>2. NoRow \notin Creates \cup Deletes
  BY StoreAssumption DEF Operation, OfUsers, Resets
<1>3. \A t \in Threads : op[t].step = "idle" /\ op[t].call = NoRow /\ op[t].knew = {}
  BY <1>1, IdleForm
<1> QED
  BY <1>1, <1>2, <1>3 DEF ItemInv, OneItem, Kept, ItemTold

LEMMA BeginItem ==
    ASSUME TypeInv, ItemInv, NEW t \in Threads, NEW w \in Workers, NEW c \in calls,
           Begin(t, w, c[1], c[2])
    PROVE  ItemInv'
<1>1. /\ Others(t) /\ table' = table /\ op'[t] = Fresh(w, c[1], c[2])
      /\ known' = known \cup Requested(c[1], c[2])
  BY BeginForm
<1>2. /\ op'[t].call = c[1] /\ op'[t].by = c[2] /\ op'[t].step \in {"token", "key", "user"}
      /\ op'[t].knew = known \cap Spoken
  BY <1>1, FreshForm
<1>3. /\ known \subseteq known'
      /\ "created" \in known' <=> "created" \in known
      /\ "deleted" \in known' <=> "deleted" \in known
      /\ c[1] \in Creates => "creating" \in known'
  BY <1>1 DEF Requested, Passwords
<1>4. /\ c[1] \in Creates => "creating" \notin known
      /\ c[1] \in Deletes => "created" \in known \/ table.item # NoRow
  BY DEF Begin, Possible
<1>5. c[1] \in Deletes /\ "deleting" \notin known' => table.item # NoRow /\ ~Owned(table, c[2])
  <2>1. SUFFICES ASSUME c[1] \in Deletes, "deleting" \notin known'
                 PROVE  table.item # NoRow /\ ~Owned(table, c[2])
    OBVIOUS
  <2>2. table.item # NoRow
    BY <1>3, <1>4, <2>1 DEF ItemInv, Kept
  <2> QED
    BY <1>1, <2>1, <2>2 DEF Requested
<1>6. OneItem'
  <2>1. c[1] \in Creates =>
           /\ "created" \notin known' /\ table.item = NoRow
           /\ \A u \in Threads : op[u].call \notin Creates
    BY <1>3, <1>4 DEF ItemInv, OneItem
  <2>2. \A u \in Threads : op'[u].call \in Creates =>
           \/ u # t /\ op'[u] = op[u] /\ c[1] \notin Creates
           \/ u = t /\ c[1] \in Creates
    BY <1>1, <1>2, <2>1 DEF Others
  <2>3. "created" \in known' \/ table'.item # NoRow => "creating" \in known'
    BY <1>1, <1>3 DEF ItemInv, OneItem
  <2>4. ASSUME NEW u \in Threads, op'[u].call \in Creates
        PROVE  /\ "creating" \in known' /\ "created" \notin known'
               /\ \A v \in Threads : op'[v].call \in Creates => v = u
               /\ op'[u].step # "item inserted" => table'.item = NoRow
    <3>1. CASE c[1] \in Creates
      BY <1>1, <1>3, <2>1, <2>2, <2>4, <3>1
    <3>2. CASE c[1] \notin Creates
      <4>1. op'[u] = op[u] /\ \A v \in Threads : op'[v].call \in Creates => op'[v] = op[v]
        BY <2>2, <2>4, <3>2
      <4> QED
        BY <1>1, <1>3, <2>4, <4>1 DEF ItemInv, OneItem
    <3> QED
      BY <3>1, <3>2
  <2> QED
    BY <2>3, <2>4 DEF OneItem
<1>7. Kept'
  BY <1>1, <1>2, <1>3, <1>5 DEF Others, ItemInv, Kept
<1>8. Gone => Gone'
  <2>1. SUFFICES ASSUME Gone
                 PROVE  Gone'
    OBVIOUS
  <2>2. c[1] \notin Creates
    BY <1>4, <2>1 DEF Gone
  <2>3. \A u \in Threads : op'[u].call \in Creates => op'[u].step = "item inserted"
    BY <1>1, <1>2, <2>1, <2>2 DEF Others, Gone
  <2> QED
    BY <1>1, <1>3, <2>1, <2>3 DEF Gone
<1>9. ASSUME NEW u \in Threads
      PROVE  ItemTold(u)'
  <2>1. CASE u = t
    BY <1>2, <1>3, <2>1 DEF ItemTold
  <2>2. CASE u # t
    BY <1>1, <1>3, <1>8, <2>2 DEF Others, ItemInv, ItemTold
  <2> QED
    BY <2>1, <2>2
<1> QED
  BY <1>3, <1>6, <1>7, <1>8, <1>9 DEF ItemInv

LEMMA ItemInvStep == TypeInv /\ ItemInv /\ [Next]_vars => ItemInv'
<1> SUFFICES ASSUME TypeInv, ItemInv, [Next]_vars
             PROVE  ItemInv'
  OBVIOUS
<1>1. ASSUME NEW t \in Threads, NEW w \in Workers, NEW c \in calls, Begin(t, w, c[1], c[2])
      PROVE  ItemInv'
  BY <1>1, BeginItem
<1>2. ASSUME NEW t \in Threads, Item_step(t)
      PROVE  ItemInv'
  <2>1. CASE create_watchlist(t) \/ create_alert(t) \/ create_asset(t)
    BY <2>1, CreateItem DEF create_watchlist, create_alert, create_asset, Creates
  <2>2. CASE get_watchlist(t) \/ list_watchlists(t) \/ list_alerts(t) \/ get_asset(t)
             \/ list_assets(t)
    BY <2>2, ReadItem DEF get_watchlist, list_watchlists, list_alerts, get_asset, list_assets
  <2>3. CASE mark_alert_read(t)
    BY <2>3, MarkItem
  <2>4. CASE delete_watchlist(t) \/ delete_alert(t) \/ delete_asset(t)
    BY <2>4, DeleteItem DEF delete_watchlist, delete_alert, delete_asset, Deletes
  <2> QED
    BY <1>2, <2>1, <2>2, <2>3, <2>4 DEF Item_step
<1>3. ASSUME NEW t \in Threads, Account_step(t) \/ Thread_step(t)
      PROVE  ItemInv'
  BY <1>3, NoItemAccounts, NoItemThreads, NoItemInv
<1>4. CASE Expire \/ UNCHANGED vars
  <2>1. UNCHANGED <<table, op, known>>
    BY <1>4 DEF Expire, vars
  <2>2. OneItem' /\ Kept' /\ (Gone => Gone')
    BY <2>1 DEF ItemInv, OneItem, Kept, Gone, Owned
  <2> QED
    BY <2>1, <2>2 DEF ItemInv, ItemTold
<1>5. ASSUME NEW w \in Workers, Restart(w)
      PROVE  ItemInv'
  <2>1. /\ table' = table /\ known' = known
        /\ \A t \in Threads : op'[t] = op[t] \/ op'[t] = Idle("none")
    BY <1>5, RestartForm
  <2>2. NoRow \notin Creates \cup Deletes
    BY StoreAssumption DEF Operation, OfUsers, Resets
  <2>3. \A t \in Threads :
           \/ op'[t] = op[t]
           \/ op'[t].call = NoRow /\ op'[t].step = "idle" /\ op'[t].knew = {}
    BY <2>1, IdleForm
  <2>4. OneItem'
    BY <2>1, <2>2, <2>3 DEF ItemInv, OneItem
  <2>5. Kept' /\ (Gone => Gone')
    BY <2>1, <2>2, <2>3 DEF ItemInv, Kept, Gone
  <2> QED
    BY <2>1, <2>3, <2>4, <2>5 DEF ItemInv, ItemTold
<1> QED
  BY <1>1, <1>2, <1>3, <1>4, <1>5 DEF Next

\* An account or an item whose creation was acknowledged is in the table,
\* unless its owner has asked to delete it.
THEOREM RowsKept == Spec => []AcknowledgedRowsKept
<1>1. UserInv /\ ItemInv => AcknowledgedRowsKept
  BY DEF UserInv, ItemInv, Kept, AcknowledgedRowsKept
<1> QED
  BY <1>1, TypeHolds, UserInit, UserInvStep, ItemInit, ItemInvStep, PTL DEF Spec

\* Only a read answers a read.
LEMMA ReadAnswers ==
    ASSUME TypeInv, NEW t \in Threads, Account_step(t) \/ Thread_step(t) \/ Item_step(t),
           op[t].call \in Reads \cup {"mark_alert_read"}, op'[t].step = "idle"
    PROVE  Read(t, op[t].call) \/ mark_alert_read(t)
<1>1. /\ Fits(op[t])
      /\ op[t].call \notin {"register_user", "request_password_reset", "get_user_by_api_key",
            "reset_password", "stream_travel_events", "validate_thread_ownership"}
               \cup LogIns \cup Creates \cup Deletes
  BY NowTypes DEF LogIns, Creates, Reads, Deletes
<1>2. ~get_user(t)
  <2>1. SUFFICES ASSUME get_user(t)
                 PROVE  FALSE
    OBVIOUS
  <2>2. Comes(t, "user found")
    BY <2>1, TransactionForm DEF get_user, Query
  <2> QED
    BY <2>2 DEF Comes
<1>3. ~get_current_user(t)
  <2>1. SUFFICES ASSUME get_current_user(t)
                 PROVE  FALSE
    OBVIOUS
  <2>2. PICK s \in Step : <<op[t].call, s>> \in Handlers /\ GoAfresh(t, s)
    BY <2>1 DEF get_current_user
  <2>3. s # "idle"
    BY <2>2 DEF Handlers, Watchlists, Alerts, Assets, Conversations
  <2> QED
    BY <2>2, <2>3, GoAfreshForm DEF Comes
<1>4. /\ ~authenticate_user(t) /\ ~get_user_by_api_key(t) /\ ~register_user(t)
      /\ ~request_password_reset(t) /\ ~reset_password(t)
  BY <1>1 DEF authenticate_user, get_user_by_api_key, register_user, create_user,
              request_password_reset, reset_password, Query, Transaction, Insert, At, Fits
<1>5. ~Thread_step(t)
  BY <1>1 DEF Thread_step, get_thread_owner, validate_thread_ownership, stream_travel_events,
              ensure_user_exists, register_thread_owner, Query, Transaction, At, Fits
<1>6. \A c \in Creates : ~Create(t, c)
  BY <1>1 DEF Create
<1>7. \A c \in Deletes : \A otherwise : ~Delete(t, c, otherwise)
  BY <1>1 DEF Delete
<1>8. \A c : Read(t, c) => Read(t, op[t].call)
  BY DEF Read
<1> QED
  BY <1>2, <1>3, <1>4, <1>5, <1>6, <1>7, <1>8
     DEF Account_step, Item_step, create_watchlist, create_alert, create_asset, get_watchlist,
         list_watchlists, list_alerts, get_asset, list_assets, delete_watchlist, delete_alert,
         delete_asset, Creates, Deletes

\* After the acknowledged deletion from the database a later request finds the
\* item only in a dictionary, and so only if its own query failed.
THEOREM DeletedStayGone == Spec => DeletedItemsGone
<1> DEFINE Absent ==
      \A t \in Threads :
          /\ op[t].call \in Reads \cup {"mark_alert_read"}
          /\ Answered(t, "ok")
          /\ "deleted" \in op[t].knew
          => op[t].failed
<1>1. ASSUME TypeInv, ItemInv, [Next]_vars, NEW t \in Threads,
             op[t].call \in Reads \cup {"mark_alert_read"}, op[t].step # "idle",
             op'[t].step = "idle", op'[t].answer = "ok", "deleted" \in op[t].knew, ~op[t].failed
      PROVE  FALSE
  <2>1. Account_step(t) \/ Thread_step(t) \/ Item_step(t)
    BY <1>1, IdleForm, Stepper
  <2>2. Read(t, op[t].call) \/ mark_alert_read(t)
    BY <1>1, <2>1, ReadAnswers
  <2>3. op[t].step \in {"item found", "marked"} => op[t].found = NoRow
    BY <1>1 DEF ItemInv, ItemTold
  <2>4. op[t].step \notin {"item in memory", "read in memory"}
    BY <1>1, NowTypes DEF Fits
  <2>5. ~AnswerItem(t, NoRow)
    BY <1>1, AnswerForm, EndForm DEF AnswerItem
  <2>6. ~Query(t, "item", ItemOf(table, op[t].by), "item found", "item in memory")
    <3>1. SUFFICES ASSUME Query(t, "item", ItemOf(table, op[t].by), "item found",
                                "item in memory")
                   PROVE  FALSE
      OBVIOUS
    <3>2. Comes(t, "item found") \/ Comes(t, "item in memory")
      BY <1>1, <3>1, TransactionForm DEF Query
    <3> QED
      BY <1>1, <3>2 DEF Comes
  <2>7. ~Transaction(t, "mark", Marked(table, op[t].by), ItemOf(table, op[t].by), "marked",
                     "read in memory")
    <3>1. SUFFICES ASSUME Transaction(t, "mark", Marked(table, op[t].by), ItemOf(table, op[t].by),
                                      "marked", "read in memory")
                   PROVE  FALSE
      OBVIOUS
    <3>2. Comes(t, "marked") \/ Comes(t, "read in memory")
      BY <1>1, <3>1, TransactionForm
    <3> QED
      BY <1>1, <3>2 DEF Comes
  <2> QED
    BY <2>2, <2>3, <2>4, <2>5, <2>6, <2>7 DEF Read, ItemSeen, mark_alert_read, At
<1>2. TypeInv /\ ItemInv /\ [Next]_vars => [Absent]_vars
  BY <1>1 DEF Answered
<1> QED
  BY <1>2, TypeHolds, ItemInit, ItemInvStep, PTL DEF Spec, DeletedItemsGone

=============================================================================
