------------------------------ MODULE TaskPool ------------------------------
(***************************************************************************)
(* What AsyncTaskQueue of tripmate/tasks/queue.py promises to those who    *)
(* submit tasks and look at their records, whatever its loop, its          *)
(* semaphore and its cancellations do: at most max_concurrent handlers     *)
(* work at once, each for a task that was still PENDING and of a queue     *)
(* that is open; a task is CANCELLED because somebody asked for it or      *)
(* because the queue was closed; and a final status stays, but that a      *)
(* handler which was at work when its task was cancelled reports its own   *)
(* outcome.                                                                *)
(***************************************************************************)
EXTENDS Integers, FiniteSets

CONSTANTS Tasks, max_concurrent

VARIABLES
    status,     \* what the record of each task says
    working,    \* the tasks whose handlers are at work
    open        \* stop() has not come to its end

vars == <<status, working, open>>

Init ==
    /\ status = [t \in Tasks |-> "none"]
    /\ working = {}
    /\ open = TRUE

Submit(t) ==
    /\ status[t] = "none"
    /\ status' = [status EXCEPT ![t] = "PENDING"]
    /\ UNCHANGED <<working, open>>

Start(t) ==
    /\ open
    /\ status[t] = "PENDING"
    /\ Cardinality(working) < max_concurrent
    /\ status' = [status EXCEPT ![t] = "RUNNING"]
    /\ working' = working \cup {t}
    /\ UNCHANGED open

Cancel(t) ==
    /\ status[t] \in {"PENDING", "RUNNING"}
    /\ status' = [status EXCEPT ![t] = "CANCELLED"]
    /\ UNCHANGED <<working, open>>

End(t) ==
    /\ t \in working
    /\ working' = working \ {t}
    /\ \/ status' = [status EXCEPT ![t] = "COMPLETED"]
       \/ status' = [status EXCEPT ![t] = "FAILED"]
       \/ /\ status[t] = "CANCELLED" \/ ~open
          /\ status' = [status EXCEPT ![t] = "CANCELLED"]
    /\ UNCHANGED open

Close ==
    /\ open' = FALSE
    /\ UNCHANGED <<status, working>>

Next == Close \/ \E t \in Tasks : Submit(t) \/ Start(t) \/ Cancel(t) \/ End(t)

Spec == Init /\ [][Next]_vars

=============================================================================
