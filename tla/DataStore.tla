------------------------------ MODULE DataStore ------------------------------
(***************************************************************************)
(* DataStore of tripmate/database/store.py, under the services and routes  *)
(* that call it: every operation executes a transaction in PostgreSQL and  *)
(* then brings the dictionaries of its own worker process up to date;      *)
(* when the transaction fails most operations go on with the dictionaries. *)
(*                                                                         *)
(* Operations run in threads (asyncio.to_thread) of several workers, so    *)
(* anything may happen between a transaction and the dictionaries.  A      *)
(* transaction that raises may have been committed: the answer is lost.    *)
(*                                                                         *)
(* One row of each table is under scrutiny: an account, its password reset *)
(* token, the owner of a thread, and a watchlist, alert or asset, of which *)
(* a behaviour has one.  A user is looked up in one step, whether by id or *)
(* by name and email.  Every worker has a pool; without one the operations  *)
(* are dictionary operations only.  The accounts that are seeded at start  *)
(* and operations that no service calls (delete_user, create_api_key, the  *)
(* token budgets) are left out.                                            *)
(***************************************************************************)
EXTENDS Naturals

CONSTANTS
    Workers,
    Threads,
    Users,
    Mixes,     \* sets of operations that clients use together, each with the
               \* user or the password that it is called with
    NoRow

Reads == {"get_watchlist", "list_watchlists", "list_alerts", "get_asset", "list_assets"}
Creates == {"create_watchlist", "create_alert", "create_asset"}
Deletes == {"delete_watchlist", "delete_alert", "delete_asset"}
Passwords == {"first", "new", "other"}
LogIns == {"authenticate_user"}
Resets == {"reset_password"}
OfUsers == Reads \cup Creates \cup Deletes \cup
           {"mark_alert_read", "stream_travel_events", "validate_thread_ownership"}
OfAnyone == {"register_user", "get_user_by_api_key", "request_password_reset"}
Operation == OfUsers \cup LogIns \cup Resets \cup OfAnyone
Invocation ==
    (OfUsers \X Users) \cup ((LogIns \cup Resets) \X Passwords) \cup (OfAnyone \X {NoRow})

Events == {"spent", "deleted", "registered", "asking", "token issued", "creating", "created",
           "deleting"}

ASSUME StoreAssumption ==
    /\ NoRow \notin Users \cup Operation
    /\ NoRow \notin Passwords \cup {"missing", "dummy", "unused", "used"}
    /\ NoRow \notin [owner : Users, read : BOOLEAN]
    /\ Mixes \subseteq SUBSET Invocation
    /\ Workers \cap (Events \cup Passwords) = {}

VARIABLES
    table,     \* the rows in PostgreSQL
    memory,    \* the dictionaries of each worker
    op,        \* the operation that each thread executes, and its last answer
    expired,   \* the reset token is older than 15 minutes
    known,     \* history: what clients have been told or have asked for
    calls      \* the operations that the clients of this behaviour use

vars == <<table, memory, op, expired, known, calls>>

\* A password; "missing": a dictionary without password_hash, "dummy": a stub.
Account == Passwords \cup {"missing", "dummy"}
Item == [owner : Users, read : BOOLEAN]
Row == Users \cup Account \cup {"unused", "used", NoRow}
Rows == [user : Account \cup {NoRow}, token : {"unused", "used", NoRow},
         owner : Users \cup {NoRow}, item : Item \cup {NoRow}]
NoRows == [user |-> NoRow, token |-> NoRow, owner |-> NoRow, item |-> NoRow]

Step == {"idle", "user", "user found", "insert user", "user inserted", "key", "key found",
         "insert token", "token inserted", "token", "token found", "update",
         "token consumed", "token in memory", "owner", "owner found", "upsert",
         "own", "user exists", "insert item", "item inserted", "item", "item found",
         "item in memory", "mark", "marked", "read in memory", "delete",
         "deleted", "item again", "remove"}
Answers == {"none", "ok", "refused", "error"}
Spoken == {"spent", "deleted"} \cup Workers
Fact == Events \cup Workers \cup Passwords

Idle(a) == [call |-> NoRow, by |-> NoRow, worker |-> NoRow, step |-> "idle",
            found |-> NoRow, failed |-> FALSE, knew |-> {}, answer |-> a]

Init ==
    /\ calls \in Mixes
    /\ table = [NoRows EXCEPT !.user =
                   IF <<"register_user", NoRow>> \in calls THEN NoRow ELSE "first"]
    /\ memory = [w \in Workers |-> NoRows]
    /\ op = [t \in Threads |-> Idle("none")]
    /\ expired = FALSE
    /\ known = {}

-----------------------------------------------------------------------------
(* Transactions and dictionaries.                                          *)

Mine(t) == memory[op[t].worker]
At(t, s) == op[t].step = s

\* `with pool.connection()': goes on at `done', or at `failed' after an
\* exception, which does not tell whether the transaction was committed.
Transaction(t, s, after, row, done, failed) ==
    /\ At(t, s)
    /\ \/ /\ table' = after
          /\ op' = [op EXCEPT ![t].step = done, ![t].found = row]
       \/ /\ table' \in {table, after}
          /\ op' = [op EXCEPT ![t].step = failed, ![t].failed = TRUE]
    /\ UNCHANGED <<memory, expired, known, calls>>

Query(t, s, row, done, failed) == Transaction(t, s, table, row, done, failed)

\* INSERT and the like, where an exception is passed on to the caller.
Insert(t, s, after, done) ==
    /\ At(t, s)
    /\ \/ /\ table' = after
          /\ op' = [op EXCEPT ![t].step = done]
       \/ /\ table' \in {table, after}
          /\ op' = [op EXCEPT ![t] = Idle("error")]
    /\ UNCHANGED <<memory, expired, known, calls>>

Go(t, s) == op' = [op EXCEPT ![t].step = s]
\* ... with a new query to come.
GoAfresh(t, s) == op' = [op EXCEPT ![t].step = s, ![t].found = NoRow, ![t].failed = FALSE]
Answer(t, a) == op' = [op EXCEPT ![t] = Idle(a)]
AnswerIf(t, yes) == Answer(t, IF yes THEN "ok" ELSE "refused")
Remember(t, row, v) == memory' = [memory EXCEPT ![op[t].worker][row] = v]
Learn(facts) == known' = known \cup facts
Unchanged == UNCHANGED <<table, expired, calls>>

-----------------------------------------------------------------------------
(* Accounts.                                                               *)

\* Mutation of UserSeen: the dictionary comes first.
UserSeenInMemory(t) == IF Mine(t).user # NoRow THEN Mine(t).user ELSE op[t].found
\* What the look-up returns: the table's row, else the dictionary's, be it
\* that there is no row or that the query failed.
UserSeen(t) == IF op[t].found # NoRow THEN op[t].found ELSE Mine(t).user

\* get_user_by_username_or_email
get_user(t) == Query(t, "user", table.user, "user found", "user found")
KeepUser(t) == Remember(t, "user", UserSeen(t))

authenticate_user(t) ==
    /\ At(t, "user found")
    /\ op[t].call \in LogIns
    /\ KeepUser(t)
    /\ IF UserSeen(t) = "missing" THEN Answer(t, "error")
       ELSE AnswerIf(t, UserSeen(t) = op[t].by)
    /\ UNCHANGED known
    /\ Unchanged

\* Where the handler goes on when the caller is known.
Watchlists == {<<"list_watchlists", "item">>, <<"create_watchlist", "user exists">>,
               <<"get_watchlist", "item">>, <<"delete_watchlist", "delete">>}
Alerts == {<<"list_alerts", "item">>, <<"create_alert", "user exists">>,
           <<"mark_alert_read", "mark">>, <<"delete_alert", "delete">>}
Assets == {<<"list_assets", "item">>, <<"create_asset", "user exists">>,
           <<"get_asset", "item">>, <<"delete_asset", "delete">>}
Conversations == {<<"stream_travel_events", "owner">>, <<"validate_thread_ownership", "owner">>}
Handlers == Watchlists \cup Alerts \cup Assets \cup Conversations

\* A signed token is enough: its claims stand in for a user that is not found.
get_current_user(t) ==
    /\ At(t, "user found")
    /\ KeepUser(t)
    /\ \E s \in Step : <<op[t].call, s>> \in Handlers /\ GoAfresh(t, s)
    /\ UNCHANGED known
    /\ Unchanged

\* The dictionary entry it leaves has no password_hash.
get_user_by_api_key(t) ==
    \/ Query(t, "key", table.user, "key found", "key found")
    \/ /\ At(t, "key found")
       /\ IF op[t].found # NoRow THEN Remember(t, "user", "missing") ELSE UNCHANGED memory
       /\ AnswerIf(t, op[t].found # NoRow)
       /\ UNCHANGED known
       /\ Unchanged

\* The name is UNIQUE: a second registration that overlapped raises.
create_user(t) ==
    \/ table.user = NoRow /\ Insert(t, "insert user", [table EXCEPT !.user = "first"],
                                    "user inserted")
    \/ /\ table.user # NoRow
       /\ At(t, "insert user")
       /\ Answer(t, "error")
       /\ UNCHANGED <<memory, known>>
       /\ Unchanged

register_user(t) ==
    \/ /\ At(t, "user found")
       /\ op[t].call = "register_user"
       /\ KeepUser(t)
       /\ IF UserSeen(t) # NoRow THEN Answer(t, "refused") ELSE Go(t, "insert user")
       /\ UNCHANGED known
       /\ Unchanged
    \/ create_user(t)
    \/ /\ At(t, "user inserted")
       /\ Remember(t, "user", "first")
       /\ Answer(t, "ok")
       /\ Learn({"registered"})
       /\ Unchanged

\* create_password_reset_token
request_password_reset(t) ==
    \/ /\ At(t, "user found")
       /\ op[t].call = "request_password_reset"
       /\ KeepUser(t)
       /\ IF UserSeen(t) = NoRow THEN Answer(t, "refused") ELSE Go(t, "insert token")
       /\ UNCHANGED known
       /\ Unchanged
    \/ Transaction(t, "insert token", [table EXCEPT !.token = "unused"], NoRow,
                   "token inserted", "token inserted")
    \/ /\ At(t, "token inserted")
       /\ Remember(t, "token", "unused")
       /\ Answer(t, "ok")
       /\ Learn({"token issued"})
       /\ Unchanged

\* The password of an entry is changed to p, if there is one.
Changed(entry, p) ==
    [entry EXCEPT !.user = IF @ = NoRow THEN @ ELSE p,
                  !.token = IF @ = NoRow THEN @ ELSE "used"]

\* Mutation of MarkUsed: the second UPDATE is left out.
MarkUsedNever(rows, p) == [rows EXCEPT !.user = p]
MarkUsed(rows, p) == [rows EXCEPT !.user = p, !.token = "used"]

\* verify_and_consume_reset_token; nothing locks the row between the query and
\* the two updates, so of two resets that overlap both may succeed and the later
\* one overwrites the password of the other.
reset_password(t) ==
    \/ Query(t, "token", table.token, "token found", "token in memory")
    \/ /\ At(t, "token found")
       /\ IF op[t].found # "unused" \/ expired THEN Answer(t, "refused") ELSE Go(t, "update")
       /\ UNCHANGED <<memory, known>>
       /\ Unchanged
    \/ Transaction(t, "update", MarkUsed(table, op[t].by), NoRow, "token consumed",
                   "token in memory")
    \/ /\ At(t, "token consumed")
       /\ memory' = [memory EXCEPT ![op[t].worker] = Changed(@, op[t].by)]
       /\ Answer(t, "ok")
       /\ Learn({"spent", op[t].worker})
       /\ Unchanged
    \/ /\ At(t, "token in memory")
       /\ IF Mine(t).token = "unused" /\ ~expired /\ Mine(t).user # NoRow
          THEN /\ memory' = [memory EXCEPT ![op[t].worker] = Changed(@, op[t].by)]
               /\ Answer(t, "ok")
               /\ Learn({op[t].worker})
          ELSE Answer(t, "refused") /\ UNCHANGED <<memory, known>>
       /\ Unchanged

Expire ==
    /\ "token issued" \in known
    /\ expired' = TRUE
    /\ UNCHANGED <<table, memory, op, known, calls>>

-----------------------------------------------------------------------------
(* Owners of threads.                                                      *)

get_thread_owner(t) == Query(t, "owner", table.owner, "owner found", "owner found")

\* Mutation of OwnerSeen: the dictionary comes first.
OwnerSeenInMemory(t) == IF Mine(t).owner # NoRow THEN Mine(t).owner ELSE op[t].found
OwnerSeen(t) == IF op[t].found # NoRow THEN op[t].found ELSE Mine(t).owner

validate_thread_ownership(t) ==
    /\ At(t, "owner found")
    /\ op[t].call = "validate_thread_ownership"
    /\ Remember(t, "owner", OwnerSeen(t))
    /\ AnswerIf(t, OwnerSeen(t) = op[t].by)
    /\ UNCHANGED known
    /\ Unchanged

\* The owner is checked, then registered, whatever happened in between.
stream_travel_events(t) ==
    /\ At(t, "owner found")
    /\ op[t].call = "stream_travel_events"
    /\ Remember(t, "owner", OwnerSeen(t))
    /\ IF OwnerSeen(t) \in {NoRow, op[t].by} THEN Go(t, "user exists") ELSE Answer(t, "refused")
    /\ UNCHANGED known
    /\ Unchanged

\* A stub for a user that this worker has not met.  INSERT .. ON CONFLICT DO
\* NOTHING does nothing, as the caller has an account.
ensure_user_exists(t) ==
    /\ At(t, "user exists")
    /\ IF Mine(t).user = NoRow THEN Remember(t, "user", "dummy") ELSE UNCHANGED memory
    /\ Go(t, IF op[t].call \in Creates THEN "insert item" ELSE "upsert")
    /\ UNCHANGED known
    /\ Unchanged

register_thread_owner(t) ==
    \/ Transaction(t, "upsert", [table EXCEPT !.owner = op[t].by], op[t].found, "own", "own")
    \/ /\ At(t, "own")
       /\ Remember(t, "owner", op[t].by)
       /\ Answer(t, "ok")
       /\ UNCHANGED known
       /\ Unchanged

-----------------------------------------------------------------------------
(* Watchlists, alerts and assets.                                          *)

NewItem(u) == [owner |-> u, read |-> FALSE]
Owned(rows, u) == rows.item # NoRow /\ rows.item.owner = u
\* What the owner finds, and nobody else does.
ItemOf(rows, u) == IF Owned(rows, u) THEN u ELSE NoRow

\* Mutation of InsertItem: the exception is swallowed.
InsertItemQuietly(t) ==
    Transaction(t, "insert item", [table EXCEPT !.item = NewItem(op[t].by)], NoRow,
                "item inserted", "item inserted")
InsertItem(t) ==
    Insert(t, "insert item", [table EXCEPT !.item = NewItem(op[t].by)], "item inserted")

Create(t, c) ==
    /\ op[t].call = c
    /\ \/ InsertItem(t)
       \/ /\ At(t, "item inserted")
          /\ Remember(t, "item", NewItem(op[t].by))
          /\ Answer(t, "ok")
          /\ Learn({"created"})
          /\ Unchanged
create_watchlist(t) == Create(t, "create_watchlist")
create_alert(t) == Create(t, "create_alert")
create_asset(t) == Create(t, "create_asset")

AnswerItem(t, item) == Answer(t, IF item # NoRow THEN "ok" ELSE "none")

\* Mutation of ItemSeen: no row means that the dictionary is asked, as for users.
ItemSeenOrRemembered(t) ==
    IF op[t].found # NoRow THEN op[t].found ELSE ItemOf(Mine(t), op[t].by)
\* No row is an answer: the dictionary is asked only after an exception.
ItemSeen(t) == op[t].found

Read(t, c) ==
    /\ op[t].call = c
    /\ \/ Query(t, "item", ItemOf(table, op[t].by), "item found", "item in memory")
       \/ /\ At(t, "item found")
          /\ AnswerItem(t, ItemSeen(t))
          /\ UNCHANGED <<memory, known>>
          /\ Unchanged
       \/ /\ At(t, "item in memory")
          /\ AnswerItem(t, ItemOf(Mine(t), op[t].by))
          /\ UNCHANGED <<memory, known>>
          /\ Unchanged
get_watchlist(t) == Read(t, "get_watchlist")
list_watchlists(t) == Read(t, "list_watchlists")
list_alerts(t) == Read(t, "list_alerts")
get_asset(t) == Read(t, "get_asset")
list_assets(t) == Read(t, "list_assets")

Marked(rows, u) == IF Owned(rows, u) THEN [rows EXCEPT !.item.read = TRUE] ELSE rows

mark_alert_read(t) ==
    \/ Transaction(t, "mark", Marked(table, op[t].by), ItemOf(table, op[t].by), "marked",
                   "read in memory")
    \/ /\ At(t, "marked")
       /\ IF op[t].found = NoRow THEN UNCHANGED memory
          ELSE Remember(t, "item", [owner |-> op[t].by, read |-> TRUE])
       /\ AnswerItem(t, op[t].found)
       /\ UNCHANGED known
       /\ Unchanged
    \/ /\ At(t, "read in memory")
       /\ memory' = [memory EXCEPT ![op[t].worker] = Marked(@, op[t].by)]
       /\ AnswerItem(t, ItemOf(Mine(t), op[t].by))
       /\ UNCHANGED known
       /\ Unchanged

\* After an exception a watchlist or an asset is looked up again, in the table
\* if that works now, and then removed from the dictionary only.
Delete(t, c, otherwise) ==
    /\ op[t].call = c
    /\ \/ Transaction(t, "delete",
                      IF Owned(table, op[t].by) THEN [table EXCEPT !.item = NoRow] ELSE table,
                      ItemOf(table, op[t].by), "deleted", otherwise)
       \/ /\ At(t, "deleted")
          /\ IF op[t].found # NoRow
             THEN Remember(t, "item", NoRow) /\ Answer(t, "ok") /\ Learn({"deleted"})
             ELSE Answer(t, "refused") /\ UNCHANGED <<memory, known>>
          /\ Unchanged
       \/ /\ At(t, "item again")
          /\ \/ IF Owned(table, op[t].by) THEN Go(t, "remove") ELSE Answer(t, "refused")
             \/ Go(t, "item in memory")
          /\ UNCHANGED <<memory, known>>
          /\ Unchanged
       \/ /\ At(t, "item in memory")
          /\ IF Owned(Mine(t), op[t].by) THEN Go(t, "remove") ELSE Answer(t, "refused")
          /\ UNCHANGED <<memory, known>>
          /\ Unchanged
       \/ /\ At(t, "remove")
          /\ Remember(t, "item", NoRow)
          /\ Answer(t, IF Mine(t).item = NoRow THEN "error" ELSE "ok")
          /\ UNCHANGED known
          /\ Unchanged
delete_watchlist(t) == Delete(t, "delete_watchlist", "item again")
delete_alert(t) == Delete(t, "delete_alert", "item in memory")
delete_asset(t) == Delete(t, "delete_asset", "item again")

-----------------------------------------------------------------------------
(* Requests, and the end of a worker process.                              *)

\* Where each request starts: with the look-up of a user, mostly its caller's.
FirstStep(c) ==
    IF c = "reset_password" THEN "token"
    ELSE IF c = "get_user_by_api_key" THEN "key"
    ELSE "user"

\* Identifiers and tokens are drawn at random: nobody has one that has not been
\* handed out, and one item and one token are all that a behaviour creates.
Possible(c) ==
    /\ c \in Creates => "creating" \notin known
    /\ c = "request_password_reset" => "asking" \notin known
    /\ c = "reset_password" => "token issued" \in known
    /\ c \in Deletes \cup {"mark_alert_read", "get_watchlist", "get_asset"} =>
          "created" \in known \/ table.item # NoRow

\* The passwords of resets are history until one of them is acknowledged.
Requested(c, u) ==
    {f \in {"creating", "asking", "deleting"} \cup Passwords :
        \/ f = "creating" /\ c \in Creates
        \/ f = "asking" /\ c = "request_password_reset"
        \/ f = "deleting" /\ c \in Deletes /\ (table.item # NoRow => Owned(table, u))
        \/ f = u /\ c \in Resets /\ "spent" \notin known}

Begin(t, w, c, u) ==
    /\ At(t, "idle")
    /\ Possible(c)
    /\ op' = [op EXCEPT ![t] =
                [call |-> c, by |-> u, worker |-> w, step |-> FirstStep(c), found |-> NoRow,
                 failed |-> FALSE, knew |-> known \cap Spoken, answer |-> "none"]]
    /\ Learn(Requested(c, u))
    /\ UNCHANGED memory
    /\ Unchanged

\* The process of a worker ends and is started again.
Restart(w) ==
    /\ memory' = [memory EXCEPT ![w] = NoRows]
    /\ op' = [t \in Threads |-> IF op[t].worker = w THEN Idle("none") ELSE op[t]]
    /\ UNCHANGED known
    /\ Unchanged

Account_step(t) ==
    \/ get_user(t) \/ get_current_user(t) \/ authenticate_user(t)
    \/ get_user_by_api_key(t) \/ register_user(t)
    \/ request_password_reset(t) \/ reset_password(t)
Thread_step(t) ==
    \/ get_thread_owner(t) \/ validate_thread_ownership(t) \/ stream_travel_events(t)
    \/ ensure_user_exists(t) \/ register_thread_owner(t)
Item_step(t) ==
    \/ create_watchlist(t) \/ get_watchlist(t) \/ list_watchlists(t) \/ delete_watchlist(t)
    \/ create_alert(t) \/ list_alerts(t) \/ mark_alert_read(t) \/ delete_alert(t)
    \/ create_asset(t) \/ get_asset(t) \/ list_assets(t) \/ delete_asset(t)

Next ==
    \/ \E t \in Threads :
          \/ \E w \in Workers, c \in calls : Begin(t, w, c[1], c[2])
          \/ Account_step(t) \/ Thread_step(t) \/ Item_step(t)
    \/ Expire
    \/ \E w \in Workers : Restart(w)

Spec == Init /\ [][Next]_vars

-----------------------------------------------------------------------------

\* Types of the variables.
TypeOK ==
    /\ calls \in Mixes
    /\ table \in Rows
    /\ memory \in [Workers -> Rows]
    /\ op \in [Threads ->
          [call : Operation \cup {NoRow}, by : Users \cup Passwords \cup {NoRow},
           worker : Workers \cup {NoRow}, step : Step, found : Row, failed : BOOLEAN,
           knew : SUBSET Fact, answer : Answers]]
    /\ expired \in BOOLEAN
    /\ known \subseteq Fact

\* An account or an item whose creation was acknowledged is in the database,
\* whatever failed on the way and whichever worker is restarted, unless its
\* owner has asked to delete it.
AcknowledgedRowsKept ==
    /\ "registered" \in known => table.user # NoRow
    /\ "created" \in known /\ "deleting" \notin known => table.item # NoRow

Answered(t, a) == op[t].step # "idle" /\ op'[t].step = "idle" /\ op'[t].answer = a

\* Once the deletion of an item from the database was acknowledged, a later
\* request finds it, on whatever worker, only if its own query failed.
DeletedItemsGone ==
    [][\A t \in Threads :
          /\ op[t].call \in Reads \cup {"mark_alert_read"}
          /\ Answered(t, "ok")
          /\ "deleted" \in op[t].knew
          => op[t].failed]_vars

\* A reset begun after the token was spent is refused, wherever it looks: in
\* the database if the database spent it, in the dictionaries of a worker if
\* that worker has seen it spent.  (What one has spent the other may accept.)
SpentTokenRefused ==
    [][\A t \in Threads :
          op[t].call = "reset_password" /\ Answered(t, "ok") =>
              IF At(t, "token consumed") THEN "spent" \notin op[t].knew
              ELSE op[t].worker \notin op[t].knew]_vars

\* The passwords of all resets that began before one was acknowledged.
Asked == known \cap Passwords

\* After a reset by the database was acknowledged, a log-in whose own query does
\* not fail succeeds, on every worker, only with the password of a reset that
\* had begun by then: not with the old one, and not with that of a later use of
\* the token.  If all of them asked for one password then that one succeeds.
\* (Two that overlap leave the later writer's password, whichever that is.)
PasswordsStick ==
    [][\A t \in Threads :
          /\ op[t].call \in LogIns /\ "spent" \in op[t].knew /\ ~op[t].failed
          /\ Answered(t, "ok") \/ Answered(t, "refused") \/ Answered(t, "error")
          => /\ Answered(t, "ok") => op[t].by \in Asked
             /\ Asked = {op[t].by} => Answered(t, "ok")]_vars

\* A registered owner loses the thread only to a request whose query failed or
\* that had looked before the owner was registered.
OnlyOverlapsTakeThreads ==
    [][\A t \in Threads :
          At(t, "upsert") /\ op'[t].step = "own" /\ table'.owner # table.owner =>
              table.owner = NoRow \/ op[t].failed \/ op[t].found # table.owner]_vars

=============================================================================
