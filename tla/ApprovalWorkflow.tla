-------------------------- MODULE ApprovalWorkflow --------------------------
(***************************************************************************)
(* TravelService (tripmate/services/travel_service.py) and the graph it    *)
(* drives (tripmate/graph/workflow.py), for one conversation thread:       *)
(* planning rounds that stop for a human decision, and the requests that   *)
(* start, stream and resume them.                                          *)
(*                                                                         *)
(* The checkpoint of the thread is shared and survives everything; what    *)
(* TravelService itself remembers belongs to one worker process and dies   *)
(* with it.  LangGraph is modelled by its contract: a run loads the        *)
(* checkpoint, executes node after node and writes the checkpoint after    *)
(* each; the latest write wins.                                            *)
(*                                                                         *)
(* All requests come from the owner of the thread.  RUN_STORE, which only  *)
(* the telemetry routes read, and the events are left out.                 *)
(***************************************************************************)
EXTENDS Integers

CONSTANTS
    Requests,       \* clients; each has one request under way at a time
    Workers,
    WorkerOf,       \* WorkerOf[r]: the worker process that serves r
    MaxRounds,      \* bound on the planning rounds
    APPROVAL_TTL,   \* in ticks
    Serial,         \* clients take turns: one request at a time
    CanFail,        \* nodes and checkpoint writes may raise
    CanCrash,       \* workers may be restarted
    CanDisconnect   \* clients may give up a stream

ASSUME ApprovalAssumption ==
    /\ WorkerOf \in [Requests -> Workers]
    /\ MaxRounds \in Nat
    /\ APPROVAL_TTL \in Nat \ {0}
    /\ {Serial, CanFail, CanCrash, CanDisconnect} \subseteq BOOLEAN

VARIABLES
    checkpoint,   \* the state of the thread in the checkpointer
    waited,       \* ticks since the thread began to wait for its decision, or
                  \* since the stream that shows the draft has come to its end
    history,      \* _approval_history of each worker, for this thread
    stamp,        \* _approval_timestamps of each worker, as an age
    pc,           \* where each request is
    run,          \* the state that the graph run of a request works on
    answer,       \* the decision that a request carries
    reply         \* the reply to the last request

vars == <<checkpoint, waited, history, stamp, pc, run, answer, reply>>

Decision == {"APPROVED", "REVISION_REQUESTED"}

\* Mutation of Edges: the critic may approve in the place of the human.
EdgesSkippingHuman ==
    [supervisor |-> {"parallel_specialists", "guardrail_blocked"},
     guardrail_blocked |-> {"END"},
     parallel_specialists |-> {"critic"},
     critic |-> {"itinerary_agent"},
     itinerary_agent |-> {"human_approval", "final_agent"},
     human_approval |-> {"final_agent"},
     final_agent |-> {"END"}]
\* Mutation of Edges: the final agent follows itself.
EdgesLooping ==
    [supervisor |-> {"parallel_specialists", "guardrail_blocked"},
     guardrail_blocked |-> {"END"},
     parallel_specialists |-> {"critic"},
     critic |-> {"itinerary_agent"},
     itinerary_agent |-> {"human_approval"},
     human_approval |-> {"final_agent"},
     final_agent |-> {"final_agent"}]
\* The nodes of the graph and its edges.
Edges ==
    [supervisor |-> {"parallel_specialists", "guardrail_blocked"},
     guardrail_blocked |-> {"END"},
     parallel_specialists |-> {"critic"},
     critic |-> {"itinerary_agent"},
     itinerary_agent |-> {"human_approval"},
     human_approval |-> {"final_agent"},
     final_agent |-> {"END"}]
Node == DOMAIN Edges
Status == {"RUNNING", "BLOCKED", "WAITING_FOR_APPROVAL", "COMPLETED"} \cup Decision

State ==
    [round : 0..MaxRounds, next : Node \cup {"END"}, status : Status,
     decision : Decision \cup {"none"}]
NoThread == [round |-> 0, next |-> "END", status |-> "RUNNING", decision |-> "none"]

Reply == [code : {0, 200, 400, 404, 410, 500}, result : State]
Refusal(code) == [code |-> code, result |-> NoThread]
NoReply == Refusal(0)
Success(s) == [code |-> 200, result |-> s]

Unset == -1
AtApproval(s) == s.next = "human_approval"
Finished(s) == s.next = "END"
Decided(s) == Finished(s) /\ s.status \in Decision \cup {"COMPLETED"}

Init ==
    /\ checkpoint = NoThread
    /\ waited = 0
    /\ history = [w \in Workers |-> NoThread]
    /\ stamp = [w \in Workers |-> Unset]
    /\ pc = [r \in Requests |-> "idle"]
    /\ run = [r \in Requests |-> NoThread]
    /\ answer = [r \in Requests |-> "none"]
    /\ reply = [r \in Requests |-> NoReply]

-----------------------------------------------------------------------------

MayCall(r) ==
    /\ pc[r] = "idle"
    /\ Serial => \A s \in Requests : pc[s] = "idle"

Goto(r, p) == pc' = [pc EXCEPT ![r] = p]
Leave(r) == Goto(r, "idle") /\ run' = [run EXCEPT ![r] = NoThread]
Answer(r, a) == Leave(r) /\ reply' = [reply EXCEPT ![r] = a]
Put(r, s) == run' = [run EXCEPT ![r] = s] /\ checkpoint' = s

\* Mutation of FreshState: the state builder keeps the last decision.
FreshStateDecided(n) ==
    [round |-> n, next |-> "supervisor", status |-> "RUNNING", decision |-> checkpoint.decision]
\* Mutation of FreshState: a new round goes by the name of the last one.
FreshStateSameRun(n) ==
    [round |-> 1, next |-> "supervisor", status |-> "RUNNING", decision |-> "none"]
\* TravelWorkflowStateBuilder resets every field.
FreshState(n) ==
    [round |-> n, next |-> "supervisor", status |-> "RUNNING", decision |-> "none"]

\* execute_travel_plan and stream_travel_events, up to the graph's first node.
Start(r, how) ==
    /\ MayCall(r)
    /\ checkpoint.round < MaxRounds
    /\ Put(r, FreshState(checkpoint.round + 1))
    /\ Goto(r, how)
    /\ answer' = [answer EXCEPT ![r] = "none"]
    /\ reply' = [reply EXCEPT ![r] = NoReply]
    /\ UNCHANGED <<waited, history, stamp>>

StatusAfter(s, n) ==
    CASE n = "guardrail_blocked" -> "BLOCKED"
      [] n = "human_approval" -> "WAITING_FOR_APPROVAL"
      [] n = "END" /\ s.next = "final_agent" -> "COMPLETED"
      [] OTHER -> s.status

\* One node of a graph run; human_approval interrupts it, see Decide.
RunNode(r) ==
    /\ pc[r] \in {"executing", "streaming", "resuming"}
    /\ ~AtApproval(run[r])
    /\ ~Finished(run[r])
    /\ \E n \in Edges[run[r].next] :
          /\ Put(r, [run[r] EXCEPT !.next = n, !.status = StatusAfter(run[r], n)])
          /\ waited' = IF n = "human_approval" THEN 0 ELSE waited
    /\ UNCHANGED <<history, stamp, pc, answer, reply>>

Stopped(r) == AtApproval(run[r]) \/ Finished(run[r])

Stamp(r, s) ==
    stamp' = IF AtApproval(s) THEN [stamp EXCEPT ![WorkerOf[r]] = 0] ELSE stamp

\* execute_travel_plan goes by the result of its own run.
Executed(r) ==
    /\ pc[r] = "executing"
    /\ Stopped(r)
    /\ Stamp(r, run[r])
    /\ Answer(r, Success(run[r]))
    /\ UNCHANGED <<checkpoint, waited, history, answer>>

\* stream_travel_events goes by what it then reads from the checkpointer, as
\* soon as the client has taken the events of the run.
Streamed(r) ==
    /\ pc[r] = "streaming"
    /\ Stopped(r)
    /\ Stamp(r, checkpoint)
    /\ waited' = IF AtApproval(checkpoint) THEN 0 ELSE waited
    /\ Answer(r, Success(checkpoint))
    /\ UNCHANGED <<checkpoint, history, answer>>

Disconnect(r) ==
    /\ CanDisconnect
    /\ pc[r] = "streaming"
    /\ Leave(r)
    /\ UNCHANGED <<checkpoint, waited, history, stamp, answer, reply>>

-----------------------------------------------------------------------------
(* resume_travel_plan.                                                     *)

\* The decision of an earlier call is replayed from _approval_history.
Replay(r, d) ==
    /\ MayCall(r)
    /\ history[WorkerOf[r]] # NoThread
    /\ answer' = [answer EXCEPT ![r] = d]
    /\ Answer(r, Success(history[WorkerOf[r]]))
    /\ UNCHANGED <<checkpoint, waited, history, stamp>>

Ask(r, d) ==
    /\ MayCall(r)
    /\ history[WorkerOf[r]] = NoThread
    /\ answer' = [answer EXCEPT ![r] = d]
    /\ reply' = [reply EXCEPT ![r] = NoReply]
    /\ Goto(r, "asking")
    /\ UNCHANGED <<checkpoint, waited, history, stamp, run>>

\* approval_created_at, the fallback of the code, is never written.
Expired(w) == stamp[w] # Unset /\ stamp[w] > APPROVAL_TTL

\* The state as aget_state returns it does not allow a resumption.
Refuse(r) ==
    /\ pc[r] = "asking"
    /\ \/ checkpoint = NoThread /\ Answer(r, Refusal(404))
       \/ /\ checkpoint # NoThread
          /\ ~AtApproval(checkpoint)
          /\ ~Decided(checkpoint)
          /\ Answer(r, Refusal(400))
       \/ AtApproval(checkpoint) /\ Expired(WorkerOf[r]) /\ Answer(r, Refusal(410))
    /\ UNCHANGED <<checkpoint, waited, history, stamp, answer>>

Remember(r, s) == history' = [history EXCEPT ![WorkerOf[r]] = s]

\* The thread was decided already: by another worker, or before a restart.
Recall(r) ==
    /\ pc[r] = "asking"
    /\ Decided(checkpoint)
    /\ Remember(r, checkpoint)
    /\ Answer(r, Success(checkpoint))
    /\ UNCHANGED <<checkpoint, waited, stamp, answer>>

\* Mutation of Accept: the expiry check is dropped.
AcceptLate(r) ==
    /\ pc[r] = "asking"
    /\ AtApproval(checkpoint)
    /\ Goto(r, "accepted")
    /\ UNCHANGED <<checkpoint, waited, history, stamp, run, answer, reply>>
Accept(r) ==
    /\ pc[r] = "asking"
    /\ AtApproval(checkpoint)
    /\ ~Expired(WorkerOf[r])
    /\ Goto(r, "accepted")
    /\ UNCHANGED <<checkpoint, waited, history, stamp, run, answer, reply>>

\* ainvoke(Command(resume)) loads the checkpoint and takes the run up there;
\* the decision is dropped unless that is at human_approval.
Load(r) ==
    /\ pc[r] = "accepted"
    /\ run' = [run EXCEPT ![r] = checkpoint]
    /\ Goto(r, IF AtApproval(checkpoint) THEN "deciding" ELSE "resuming")
    /\ UNCHANGED <<checkpoint, waited, history, stamp, answer, reply>>

\* human_approval_node.
Decide(r) ==
    /\ pc[r] = "deciding"
    /\ Put(r, [run[r] EXCEPT !.next = "final_agent", !.status = answer[r],
                             !.decision = answer[r]])
    /\ Goto(r, "resuming")
    /\ UNCHANGED <<waited, history, stamp, answer, reply>>

Resumed(r) ==
    /\ pc[r] = "resuming"
    /\ Stopped(r)
    /\ Remember(r, run[r])
    /\ stamp' = [stamp EXCEPT ![WorkerOf[r]] = Unset]
    /\ Answer(r, Success(run[r]))
    /\ UNCHANGED <<checkpoint, waited, answer>>

-----------------------------------------------------------------------------

\* A node or an access to the checkpointer raises.
Fail(r) ==
    /\ CanFail
    /\ pc[r] # "idle"
    /\ pc[r] \in {"executing", "streaming", "resuming"} => ~Stopped(r)
    /\ Answer(r, Refusal(500))
    /\ UNCHANGED <<checkpoint, waited, history, stamp, answer>>

Restart(w) ==
    /\ CanCrash
    /\ history' = [history EXCEPT ![w] = NoThread]
    /\ stamp' = [stamp EXCEPT ![w] = Unset]
    /\ pc' = [r \in Requests |-> IF WorkerOf[r] = w THEN "idle" ELSE pc[r]]
    /\ run' = [r \in Requests |-> IF WorkerOf[r] = w THEN NoThread ELSE run[r]]
    /\ UNCHANGED <<checkpoint, waited, answer, reply>>

Older(age) == IF age \in {Unset, APPROVAL_TTL + 1} THEN age ELSE age + 1

\* execute_travel_plan stamps an interrupted run at once; a stream only when
\* the client has taken all of it, however long that lasts.
Tick ==
    /\ \A r \in Requests : pc[r] = "executing" => ~AtApproval(run[r])
    /\ waited' = Older(waited)
    /\ stamp' = [w \in Workers |-> Older(stamp[w])]
    /\ UNCHANGED <<checkpoint, history, pc, run, answer, reply>>

Execute(r) == Start(r, "executing")
Stream(r) == Start(r, "streaming")
Post(r) == \E d \in Decision : Replay(r, d) \/ Ask(r, d)
Progress(r) ==
    \/ RunNode(r) \/ Executed(r) \/ Streamed(r)
    \/ Refuse(r) \/ Recall(r) \/ Accept(r) \/ Load(r) \/ Decide(r) \/ Resumed(r)

Next ==
    \/ \E r \in Requests :
          Execute(r) \/ Stream(r) \/ Post(r) \/ Progress(r) \/ Disconnect(r) \/ Fail(r)
    \/ \E w \in Workers : Restart(w)
    \/ Tick

Spec == Init /\ [][Next]_vars

\* The event loop runs every request that is not waiting for its client, and
\* every await of a request is under a time-out.
Served(r) == WF_vars(Progress(r))
FairSpec == Spec /\ \A r \in Requests : Served(r)

-----------------------------------------------------------------------------

\* Types of the variables.
TypeOK ==
    /\ checkpoint \in State
    /\ waited \in 0..APPROVAL_TTL + 1
    /\ history \in [Workers -> State]
    /\ stamp \in [Workers -> Unset..APPROVAL_TTL + 1]
    /\ pc \in [Requests -> {"idle", "executing", "streaming", "asking", "accepted",
                            "deciding", "resuming"}]
    /\ run \in [Requests -> State]
    /\ answer \in [Requests -> Decision \cup {"none"}]
    /\ reply \in [Requests -> Reply]

\* However requests overlap, fail or die, nothing gets past the human: the
\* final agent works, and a plan is COMPLETED, only after a decision.
DecidedFirst(s) ==
    s.next = "final_agent" \/ s.status = "COMPLETED" => s.decision \in Decision
NothingPastTheHuman ==
    /\ DecidedFirst(checkpoint)
    /\ \A w \in Workers : DecidedFirst(history[w])
    /\ \A r \in Requests : DecidedFirst(run[r]) /\ DecidedFirst(reply[r].result)

\* The decisions that clients were told about a round are one and the same,
\* whichever worker told them and whatever they asked for.
RepliesAgree ==
    \A r, s \in Requests :
        LET a == reply[r]  b == reply[s] IN
        /\ answer[r] # "none" /\ a.code = 200
        /\ answer[s] # "none" /\ b.code = 200
        /\ a.result.round = b.result.round
        => a.result.decision = b.result.decision

\* As long as clients take turns, the thread goes through its rounds as
\* ApprovalRound says, whatever fails, is restarted or is disconnected.
PhaseBefore ==
    [supervisor |-> "planning", parallel_specialists |-> "planning",
     critic |-> "planning", itinerary_agent |-> "planning",
     guardrail_blocked |-> "blocked", human_approval |-> "waiting",
     final_agent |-> "decided"]
PhaseAtEnd == [RUNNING |-> "new", BLOCKED |-> "blocked", COMPLETED |-> "completed"]
PhaseOf(s) == IF Finished(s) THEN PhaseAtEnd[s.status] ELSE PhaseBefore[s.next]
Rounds == INSTANCE ApprovalRound WITH
    round <- checkpoint.round,
    phase <- PhaseOf(checkpoint),
    decision <- checkpoint.decision
KeepsRounds == Rounds!Spec

\* No decision is accepted later than APPROVAL_TTL_SECONDS after the thread
\* began to wait or, if the draft was streamed, after the stream has ended,
\* unless the worker asked has no time stamp for the thread.
NoLateDecision ==
    [][\A r \in Requests :
          pc[r] = "asking" /\ pc'[r] = "accepted" =>
              waited <= APPROVAL_TTL \/ stamp[WorkerOf[r]] = Unset]_vars

\* The answer to a decision is about the round that is current.
AnswersCurrentRound ==
    [][\A r \in Requests :
          answer'[r] # "none" /\ reply'[r] # reply[r] /\ reply'[r].code = 200
              => reply'[r].result.round = checkpoint.round]_vars

\* A decided plan gets its final answer, or a new round is begun.
DecidedPlansComplete == checkpoint.next = "final_agent" ~> checkpoint.next # "final_agent"

\* Every request is answered.
EveryRequestEnds == \A r \in Requests : pc[r] # "idle" ~> pc[r] = "idle"

=============================================================================
