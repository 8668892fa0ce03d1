----------------------- MODULE ApprovalWorkflowProofs -----------------------
(***************************************************************************)
(* Proofs about ApprovalWorkflow for every number of clients, workers and  *)
(* rounds.                                                                 *)
(***************************************************************************)
EXTENDS ApprovalWorkflow, TLAPS

LEMMA NodeNames ==
    Node = {"supervisor", "guardrail_blocked", "parallel_specialists", "critic",
            "itinerary_agent", "human_approval", "final_agent"}
BY DEF Node, Edges

\* What a node that RunNode executes leads to: never past human_approval,
\* and to a finished plan only from final_agent.
LEMMA EdgesAvoidHuman ==
    ASSUME NEW s \in State, ~AtApproval(s), ~Finished(s), NEW n \in Edges[s.next]
    PROVE  /\ n \in Node \cup {"END"}
           /\ n # "final_agent"
           /\ StatusAfter(s, n) \in Status
           /\ StatusAfter(s, n) = "COMPLETED" => s.next = "final_agent" \/ s.status = "COMPLETED"
<1>1. s.next \in Node \ {"human_approval"}
  BY DEF State, AtApproval, Finished
<1>2. n \in Node \cup {"END"} /\ n # "final_agent"
  BY <1>1, NodeNames DEF Edges
<1>3. StatusAfter(s, n) \in {"BLOCKED", "WAITING_FOR_APPROVAL", "COMPLETED", s.status}
  BY DEF StatusAfter
<1>4. StatusAfter(s, n) = "COMPLETED" => s.next = "final_agent" \/ s.status = "COMPLETED"
  BY DEF StatusAfter
<1>5. s.status \in Status
  BY DEF State
<1> QED
  BY <1>2, <1>3, <1>4, <1>5 DEF Status

-----------------------------------------------------------------------------

\* States that are complete only after a decision, and replies with such states.
Good == {s \in State : DecidedFirst(s)}
GoodReply == [code : {0, 200, 400, 404, 410, 500}, result : Good]
Place == {"idle", "executing", "streaming", "asking", "accepted", "deciding", "resuming"}

LEMMA NoThreadIsGood == NoThread \in Good
BY ApprovalAssumption DEF NoThread, Good, State, Status, DecidedFirst

LEMMA FreshStateIsGood ==
    ASSUME NEW n \in 0..MaxRounds
    PROVE  FreshState(n) \in Good
BY NodeNames DEF FreshState, Good, State, Status, DecidedFirst

LEMMA NodeKeepsGood ==
    ASSUME NEW s \in Good, ~AtApproval(s), ~Finished(s), NEW n \in Edges[s.next]
    PROVE  [s EXCEPT !.next = n, !.status = StatusAfter(s, n)] \in Good
<1> DEFINE t == [s EXCEPT !.next = n, !.status = StatusAfter(s, n)]
<1>1. /\ n \in Node \cup {"END"}
      /\ n # "final_agent"
      /\ StatusAfter(s, n) \in Status
      /\ StatusAfter(s, n) = "COMPLETED" => s.next = "final_agent" \/ s.status = "COMPLETED"
  BY EdgesAvoidHuman DEF Good
<1>2. t \in State /\ t.next = n /\ t.status = StatusAfter(s, n) /\ t.decision = s.decision
  BY <1>1 DEF Good, State
<1> QED
  BY <1>1, <1>2 DEF Good, DecidedFirst

LEMMA DecisionMakesGood ==
    ASSUME NEW s \in Good, NEW d \in Decision
    PROVE  [s EXCEPT !.next = "final_agent", !.status = d, !.decision = d] \in Good
<1> DEFINE t == [s EXCEPT !.next = "final_agent", !.status = d, !.decision = d]
<1>1. t \in State
  BY NodeNames DEF Good, State, Status
<1>2. t.decision = d
  BY DEF Good, State
<1> QED
  BY <1>1, <1>2 DEF Good, DecidedFirst

LEMMA RepliesAreGood ==
    ASSUME NEW s \in Good, NEW code \in {0, 200, 400, 404, 410, 500}
    PROVE  Success(s) \in GoodReply /\ Refusal(code) \in GoodReply
BY NoThreadIsGood DEF GoodReply, Success, Refusal

-----------------------------------------------------------------------------

\* Every state around is good, and a request that is on its way to
\* human_approval carries a decision.
Inv ==
    /\ checkpoint \in Good
    /\ history \in [Workers -> Good]
    /\ run \in [Requests -> Good]
    /\ reply \in [Requests -> GoodReply]
    /\ pc \in [Requests -> Place]
    /\ answer \in [Requests -> Decision \cup {"none"}]
    /\ \A r \in Requests : pc[r] \in {"asking", "accepted", "deciding"} => answer[r] \in Decision

LEMMA InvInit == Init => Inv
BY NoThreadIsGood, RepliesAreGood DEF Init, Inv, NoReply, Place

LEMMA InvStep == Inv /\ [Next]_vars => Inv'
<1> SUFFICES ASSUME Inv, [Next]_vars
             PROVE  Inv'
  OBVIOUS
<1> USE NoThreadIsGood, RepliesAreGood
    DEF Inv, Place, Goto, Leave, Answer, Put, NoReply
<1>1. ASSUME NEW r \in Requests, NEW how \in {"executing", "streaming"}, Start(r, how)
      PROVE  Inv'
  <2>1. checkpoint.round + 1 \in 0..MaxRounds
    BY <1>1, ApprovalAssumption DEF Start, Good, State
  <2>2. FreshState(checkpoint.round + 1) \in Good
    BY <2>1, FreshStateIsGood
  <2> QED
    BY <1>1, <2>2 DEF Start
<1>2. ASSUME NEW r \in Requests, RunNode(r)
      PROVE  Inv'
  <2>1. PICK n \in Edges[run[r].next] :
           Put(r, [run[r] EXCEPT !.next = n, !.status = StatusAfter(run[r], n)])
    BY <1>2 DEF RunNode
  <2>2. [run[r] EXCEPT !.next = n, !.status = StatusAfter(run[r], n)] \in Good
    BY <1>2, NodeKeepsGood DEF RunNode
  <2> QED
    BY <1>2, <2>1, <2>2 DEF RunNode
<1>3. ASSUME NEW r \in Requests, Executed(r) \/ Streamed(r) \/ Disconnect(r) \/ Fail(r)
      PROVE  Inv'
  BY <1>3 DEF Executed, Streamed, Disconnect, Fail
<1>4. ASSUME NEW r \in Requests, NEW d \in Decision, Replay(r, d) \/ Ask(r, d)
      PROVE  Inv'
  <2>1. history[WorkerOf[r]] \in Good
    BY ApprovalAssumption
  <2> QED
    BY <1>4, <2>1 DEF Replay, Ask
<1>5. ASSUME NEW r \in Requests, Refuse(r)
      PROVE  Inv'
  BY <1>5 DEF Refuse
<1>6. ASSUME NEW r \in Requests, Recall(r) \/ Resumed(r)
      PROVE  Inv'
  BY <1>6 DEF Recall, Resumed, Remember
<1>7. ASSUME NEW r \in Requests, Accept(r) \/ Load(r)
      PROVE  Inv'
  BY <1>7 DEF Accept, Load
<1>8. ASSUME NEW r \in Requests, Decide(r)
      PROVE  Inv'
  <2>1. [run[r] EXCEPT !.next = "final_agent", !.status = answer[r],
                       !.decision = answer[r]] \in Good
    BY <1>8, DecisionMakesGood DEF Decide
  <2> QED
    BY <1>8, <2>1 DEF Decide
<1>9. ASSUME NEW w \in Workers, Restart(w)
      PROVE  Inv'
  BY <1>9 DEF Restart
<1>10. CASE Tick \/ UNCHANGED vars
  BY <1>10 DEF Tick, vars
<1> QED
  BY <1>1, <1>2, <1>3, <1>4, <1>5, <1>6, <1>7, <1>8, <1>9, <1>10
     DEF Next, Execute, Stream, Post, Progress

\* The human-in-the-loop promise, for every number of overlapping, failing,
\* disconnected and killed requests: no final answer without a decision.
THEOREM HumanDecides == Spec => []NothingPastTheHuman
<1>1. Inv => NothingPastTheHuman
  BY DEF Inv, Good, GoodReply, NothingPastTheHuman
<1> QED
  BY <1>1, InvInit, InvStep, PTL DEF Spec

\* The ages stay in their bounds, however requests overlap.
AgeTypes ==
    /\ waited \in 0..APPROVAL_TTL + 1
    /\ stamp \in [Workers -> Unset..APPROVAL_TTL + 1]

LEMMA AgeTypesStep ==
    ASSUME AgeTypes, [Next]_vars
    PROVE  AgeTypes'
<1> USE ApprovalAssumption DEF AgeTypes
<1>1. ASSUME NEW r \in Requests, Progress(r)
      PROVE  AgeTypes'
  <2>1. CASE RunNode(r)
    <3>1. waited' \in {0, waited} /\ UNCHANGED stamp
      BY <2>1 DEF RunNode
    <3> QED
      BY <3>1
  <2>2. CASE Executed(r) \/ Streamed(r) \/ Resumed(r)
    <3>1. stamp' \in {stamp, [stamp EXCEPT ![WorkerOf[r]] = 0], [stamp EXCEPT ![WorkerOf[r]] = Unset]}
      BY <2>2 DEF Executed, Streamed, Resumed, Stamp
    <3>2. waited' \in {0, waited}
      BY <2>2 DEF Executed, Streamed, Resumed
    <3> QED
      BY <3>1, <3>2 DEF Unset
  <2>3. CASE Refuse(r) \/ Recall(r) \/ Accept(r) \/ Load(r) \/ Decide(r)
    <3>1. UNCHANGED <<waited, stamp>>
      BY <2>3 DEF Refuse, Recall, Accept, Load, Decide
    <3> QED
      BY <3>1
  <2> QED
    BY <1>1, <2>1, <2>2, <2>3 DEF Progress
<1>2. ASSUME NEW r \in Requests, Execute(r) \/ Stream(r) \/ Post(r) \/ Disconnect(r) \/ Fail(r)
      PROVE  AgeTypes'
  BY <1>2 DEF Execute, Stream, Start, Post, Replay, Ask, Disconnect, Fail
<1>3. ASSUME NEW w \in Workers, Restart(w)
      PROVE  AgeTypes'
  BY <1>3 DEF Restart, Unset
<1>4. CASE Tick
  <2> DEFINE Ages == Unset..APPROVAL_TTL + 1
  <2>1. \A b \in Ages : Older(b) \in Ages
    BY DEF Older, Unset
  <2>2. Older(waited) \in 0..APPROVAL_TTL + 1
    BY DEF Older, Unset
  <2> HIDE DEF Ages
  <2>3. stamp \in [Workers -> Ages]
    BY DEF Ages
  <2>4. stamp' \in [Workers -> Ages]
    BY <1>4, <2>1, <2>3 DEF Tick
  <2> QED
    BY <1>4, <2>2, <2>4 DEF Tick, Ages
<1>5. CASE UNCHANGED vars
  BY <1>5 DEF vars
<1> QED
  BY <1>1, <1>2, <1>3, <1>4, <1>5 DEF Next

\* Every variable has its type, for every number of overlapping requests,
\* workers and rounds: no run, reply or history ever holds anything but a state
\* of the thread, and no age leaves its bounds.
THEOREM TypeCorrect == Spec => []TypeOK
<1>1. Init => AgeTypes
  BY ApprovalAssumption DEF Init, AgeTypes, Unset
<1>2. Inv /\ AgeTypes => TypeOK
  BY DEF Inv, AgeTypes, TypeOK, Good, GoodReply, Reply, Place
<1> QED
  BY <1>1, <1>2, AgeTypesStep, InvInit, InvStep, PTL DEF Spec

-----------------------------------------------------------------------------
(* Clients that take turns.                                                *)

\* The status of the thread fits the node that comes next.
WellFormed(s) ==
    /\ s.next \in {"supervisor", "parallel_specialists", "critic", "itinerary_agent"}
          => s.status = "RUNNING"
    /\ s.next = "guardrail_blocked" => s.status = "BLOCKED"
    /\ s.next = "END" /\ s # NoThread => s.status \in {"BLOCKED", "COMPLETED"}

Running(r) == pc[r] \in {"executing", "streaming", "deciding", "resuming"}

\* One request at a time is under way; its graph run works on the checkpoint;
\* and what it found waiting is still waiting.
TurnsInv ==
    /\ \A r, s \in Requests : pc[r] # "idle" /\ pc[s] # "idle" => r = s
    /\ \A r \in Requests : Running(r) => run[r] = checkpoint
    /\ \A r \in Requests : pc[r] \in {"accepted", "deciding"} => AtApproval(checkpoint)
    /\ WellFormed(checkpoint)

\* The graph moves on from s to t with one of its planning or final nodes.
NodeDone(s, t) ==
    /\ t.round = s.round /\ t.decision = s.decision
    /\ \/ s.next = "supervisor" /\ t.next = "parallel_specialists" /\ t.status = "RUNNING"
       \/ s.next = "supervisor" /\ t.next = "guardrail_blocked" /\ t.status = "BLOCKED"
       \/ s.next = "guardrail_blocked" /\ t.next = "END" /\ t.status = "BLOCKED"
       \/ /\ s.next \in {"parallel_specialists", "critic"}
          /\ t.next \in {"critic", "itinerary_agent"} /\ t.status = "RUNNING"
       \/ s.next = "itinerary_agent" /\ t.next = "human_approval"
       \/ s.next = "final_agent" /\ t.next = "END" /\ t.status = "COMPLETED"

LEMMA NodeKeepsWellFormed ==
    ASSUME NEW s \in Good, WellFormed(s), ~AtApproval(s), ~Finished(s),
           NEW n \in Edges[s.next]
    PROVE  /\ WellFormed([s EXCEPT !.next = n, !.status = StatusAfter(s, n)])
           /\ NodeDone(s, [s EXCEPT !.next = n, !.status = StatusAfter(s, n)])
<1> DEFINE t == [s EXCEPT !.next = n, !.status = StatusAfter(s, n)]
<1>1. s.next \in Node \ {"human_approval"}
  BY DEF Good, State, AtApproval, Finished
<1>2. t.next = n /\ t.status = StatusAfter(s, n) /\ t.round = s.round /\ t.decision = s.decision
  BY DEF Good, State
<1>3. /\ s.next = "supervisor" => n \in {"parallel_specialists", "guardrail_blocked"}
      /\ s.next = "guardrail_blocked" => n = "END"
      /\ s.next = "parallel_specialists" => n = "critic"
      /\ s.next = "critic" => n = "itinerary_agent"
      /\ s.next = "itinerary_agent" => n = "human_approval"
      /\ s.next = "final_agent" => n = "END"
  BY DEF Edges
<1>4. /\ n = "guardrail_blocked" => t.status = "BLOCKED"
      /\ n = "human_approval" => t.status = "WAITING_FOR_APPROVAL"
      /\ n = "END" /\ s.next = "final_agent" => t.status = "COMPLETED"
      /\ n \in {"parallel_specialists", "critic", "itinerary_agent"} => t.status = s.status
      /\ n = "END" /\ s.next # "final_agent" => t.status = s.status
  BY <1>2 DEF StatusAfter
<1> QED
  <2> HIDE DEF t
  <2>1. WellFormed(t) /\ NodeDone(s, t)
    BY <1>1, <1>2, <1>3, <1>4, NodeNames DEF WellFormed, NodeDone
  <2> QED
    BY <2>1 DEF t

LEMMA TurnsInit == Init => TurnsInv
BY DEF Init, TurnsInv, Running, WellFormed, NoThread

LEMMA TurnsStep ==
    ASSUME Serial, Inv, TurnsInv, [Next]_vars
    PROVE  TurnsInv'
<1> USE DEF Inv, TurnsInv, Place, Goto, Leave, Answer, Put, Running
<1>1. ASSUME NEW r \in Requests, NEW how \in {"executing", "streaming"}, Start(r, how)
      PROVE  TurnsInv'
  <2>1. WellFormed(FreshState(checkpoint.round + 1))
    BY DEF WellFormed, FreshState
  <2>2. \A s \in Requests : pc[s] = "idle"
    BY <1>1 DEF Start, MayCall
  <2>3. checkpoint' = FreshState(checkpoint.round + 1) /\ WellFormed(checkpoint)'
    BY <1>1, <2>1 DEF Start, WellFormed
  <2> QED
    BY <1>1, <2>2, <2>3 DEF Start
<1>2. ASSUME NEW r \in Requests, RunNode(r)
      PROVE  TurnsInv'
  <2>1. PICK n \in Edges[run[r].next] :
           Put(r, [run[r] EXCEPT !.next = n, !.status = StatusAfter(run[r], n)])
    BY <1>2 DEF RunNode
  <2>2. run[r] = checkpoint /\ ~AtApproval(checkpoint) /\ ~Finished(checkpoint)
    BY <1>2 DEF RunNode
  <2>3. WellFormed(checkpoint')
    BY <2>1, <2>2, NodeKeepsWellFormed
  <2>4. WellFormed(checkpoint)'
    BY <2>3 DEF WellFormed
  <2> QED
    BY <1>2, <2>1, <2>4 DEF RunNode
<1>3. ASSUME NEW r \in Requests, checkpoint' = checkpoint,
             \/ pc' = [pc EXCEPT ![r] = "idle"]
             \/ /\ pc' = [pc EXCEPT ![r] = "asking"]
                /\ \A s \in Requests : pc[s] = "idle"
             \/ /\ pc' = [pc EXCEPT ![r] = "accepted"]
                /\ AtApproval(checkpoint) /\ pc[r] # "idle",
             \A s \in Requests \ {r} : run'[s] = run[s]
      PROVE  TurnsInv'
  BY <1>3 DEF WellFormed, AtApproval
<1>4. ASSUME NEW r \in Requests,
             \/ Executed(r) \/ Streamed(r) \/ Disconnect(r) \/ Fail(r)
             \/ \E d \in Decision : Replay(r, d) \/ Ask(r, d)
             \/ Refuse(r) \/ Recall(r) \/ Accept(r) \/ Resumed(r)
      PROVE  TurnsInv'
  <2>1. checkpoint' = checkpoint /\ \A s \in Requests \ {r} : run'[s] = run[s]
    BY <1>4 DEF Executed, Streamed, Disconnect, Fail, Replay, Ask, Refuse, Recall, Accept, Resumed
  <2>2. \/ pc' = [pc EXCEPT ![r] = "idle"]
        \/ /\ pc' = [pc EXCEPT ![r] = "asking"]
           /\ \A s \in Requests : pc[s] = "idle"
        \/ /\ pc' = [pc EXCEPT ![r] = "accepted"]
           /\ AtApproval(checkpoint) /\ pc[r] # "idle"
    BY <1>4 DEF Executed, Streamed, Disconnect, Fail, Replay, Ask, Refuse, Recall, Accept,
                Resumed, MayCall
  <2> QED
    BY <1>3, <2>1, <2>2
<1>5. ASSUME NEW r \in Requests, Load(r)
      PROVE  TurnsInv'
  <2>1. \A s \in Requests \ {r} : pc[s] = "idle"
    BY <1>5 DEF Load
  <2> QED
    BY <1>5, <2>1 DEF Load, WellFormed, AtApproval
<1>6. ASSUME NEW r \in Requests, Decide(r)
      PROVE  TurnsInv'
  <2>1. checkpoint'.next = "final_agent"
    BY <1>6 DEF Decide, Good, State
  <2>2. WellFormed(checkpoint)'
    BY <2>1 DEF WellFormed
  <2>3. \A s \in Requests \ {r} : pc[s] = "idle"
    BY <1>6 DEF Decide
  <2> QED
    BY <1>6, <2>2, <2>3 DEF Decide
<1>7. ASSUME NEW w \in Workers, Restart(w)
      PROVE  TurnsInv'
  BY <1>7 DEF Restart, WellFormed, AtApproval
<1>8. CASE Tick \/ UNCHANGED vars
  BY <1>8 DEF Tick, vars, WellFormed, AtApproval
<1> QED
  BY <1>1, <1>2, <1>4, <1>5, <1>6, <1>7, <1>8
     DEF Next, Execute, Stream, Post, Progress

-----------------------------------------------------------------------------

\* As long as clients take turns the thread implements ApprovalRound: a round
\* is decided once, while it waits, and completed only then, whatever fails, is
\* restarted or is disconnected.
THEOREM TurnsKeepRounds == Serial /\ Spec => KeepsRounds
<1> SUFFICES ASSUME Serial
             PROVE  Spec => KeepsRounds
  OBVIOUS
<1>1. Init => Rounds!Init
  BY DEF Init, Rounds!Init, PhaseOf, PhaseAtEnd, Finished, NoThread
<1>2. ASSUME Inv, TurnsInv, [Next]_vars
      PROVE  [Rounds!Next]_(Rounds!roundVars)
  <2> USE <1>2
  <2>1. ASSUME checkpoint' = checkpoint
        PROVE  UNCHANGED Rounds!roundVars
    BY <2>1 DEF Rounds!roundVars
  <2>2. ASSUME NEW r \in Requests, NEW how \in {"executing", "streaming"}, Start(r, how)
        PROVE  Rounds!Start
    <3>1. checkpoint' = FreshState(checkpoint.round + 1)
      BY <2>2 DEF Start, Put
    <3>2. PhaseOf(checkpoint') = "planning"
      BY <3>1 DEF PhaseOf, PhaseBefore, FreshState, Finished
    <3> QED
      BY <3>1, <3>2 DEF Rounds!Start, FreshState
  <2>3. ASSUME NEW r \in Requests, RunNode(r)
        PROVE  Rounds!Next \/ UNCHANGED Rounds!roundVars
    <3>1. PICK n \in Edges[run[r].next] :
             Put(r, [run[r] EXCEPT !.next = n, !.status = StatusAfter(run[r], n)])
      BY <2>3 DEF RunNode
    <3>2. /\ run[r] = checkpoint
          /\ ~AtApproval(checkpoint) /\ ~Finished(checkpoint)
          /\ checkpoint \in Good /\ WellFormed(checkpoint)
      BY <2>3 DEF RunNode, TurnsInv, Running, Inv
    <3> DEFINE s == checkpoint
               t == checkpoint'
    <3>3. /\ n \in Edges[s.next]
          /\ t = [s EXCEPT !.next = n, !.status = StatusAfter(s, n)]
      BY <3>1, <3>2 DEF Put
    <3>4. NodeDone(s, t)
      BY <3>2, <3>3, NodeKeepsWellFormed
    <3>5. /\ s.next \in {"supervisor", "parallel_specialists", "critic", "itinerary_agent"}
                => PhaseOf(s) = "planning"
          /\ s.next = "guardrail_blocked" => PhaseOf(s) = "blocked"
          /\ s.next = "final_agent" => PhaseOf(s) = "decided"
      BY DEF PhaseOf, PhaseBefore, Finished
    <3>6. /\ t.next \in {"parallel_specialists", "critic", "itinerary_agent"}
                => PhaseOf(t) = "planning"
          /\ t.next = "guardrail_blocked" => PhaseOf(t) = "blocked"
          /\ t.next = "END" /\ t.status = "BLOCKED" => PhaseOf(t) = "blocked"
          /\ t.next = "human_approval" => PhaseOf(t) = "waiting"
          /\ t.next = "END" /\ t.status = "COMPLETED" => PhaseOf(t) = "completed"
      BY DEF PhaseOf, PhaseBefore, PhaseAtEnd, Finished
    <3>7. \/ PhaseOf(s) = "planning" /\ PhaseOf(t) \in {"planning", "blocked", "waiting"}
          \/ PhaseOf(s) = "blocked" /\ PhaseOf(t) = "blocked"
          \/ PhaseOf(s) = "decided" /\ PhaseOf(t) = "completed"
      BY <3>4, <3>5, <3>6 DEF NodeDone
    <3> QED
      BY <3>4, <3>7 DEF NodeDone, Rounds!Next, Rounds!Submit, Rounds!Complete, Rounds!roundVars
  <2>4. ASSUME NEW r \in Requests, Decide(r)
        PROVE  Rounds!Next
    <3>1. /\ AtApproval(checkpoint) /\ run[r] = checkpoint
          /\ answer[r] \in Decision /\ checkpoint \in Good
      BY <2>4 DEF Decide, TurnsInv, Running, Inv
    <3>2. /\ checkpoint'.next = "final_agent"
          /\ checkpoint'.decision = answer[r]
          /\ checkpoint'.round = checkpoint.round
      BY <2>4, <3>1 DEF Decide, Put, Good, State
    <3>3. PhaseOf(checkpoint) = "waiting" /\ PhaseOf(checkpoint') = "decided"
      BY <3>1, <3>2 DEF PhaseOf, PhaseBefore, AtApproval, Finished
    <3> QED
      BY <3>1, <3>2, <3>3 DEF Rounds!Next, Rounds!Decide
  <2>5. ASSUME NEW r \in Requests,
               \/ Executed(r) \/ Streamed(r) \/ Disconnect(r) \/ Fail(r)
               \/ \E d \in Decision : Replay(r, d) \/ Ask(r, d)
               \/ Refuse(r) \/ Recall(r) \/ Accept(r) \/ Load(r) \/ Resumed(r)
        PROVE  checkpoint' = checkpoint
    BY <2>5 DEF Executed, Streamed, Disconnect, Fail, Replay, Ask, Refuse, Recall, Accept,
                Load, Resumed
  <2>6. ASSUME \/ \E w \in Workers : Restart(w)
               \/ Tick \/ UNCHANGED vars
        PROVE  checkpoint' = checkpoint
    BY <2>6 DEF Restart, Tick, vars
  <2>7. \/ Rounds!Next
        \/ UNCHANGED Rounds!roundVars
    BY <1>2, <2>1, <2>2, <2>3, <2>4, <2>5, <2>6
       DEF Next, Execute, Stream, Post, Progress, Rounds!Next
  <2> QED
    BY <2>7
<1> QED
  BY <1>1, <1>2, TurnsInit, TurnsStep, InvInit, InvStep, PTL
     DEF Spec, KeepsRounds, Rounds!Spec

-----------------------------------------------------------------------------
(* The age of a draft.                                                     *)

\* Nobody waits for a stamp, except for the end of a stream: no stamp is younger
\* than the draft.
AgesInv ==
    /\ waited \in 0..APPROVAL_TTL + 1
    /\ stamp \in [Workers -> Unset..APPROVAL_TTL + 1]
    /\ \A w \in Workers : stamp[w] = Unset \/ waited <= stamp[w]
    /\ \A r \in Requests :
          pc[r] = "executing" /\ AtApproval(run[r]) => waited = 0

LEMMA AgesInit == Init => AgesInv
BY ApprovalAssumption DEF Init, AgesInv, Unset

LEMMA OlderKeepsOrder ==
    ASSUME NEW a \in 0..APPROVAL_TTL + 1, NEW b \in Unset..APPROVAL_TTL + 1,
           b = Unset \/ a <= b
    PROVE  /\ Older(a) \in 0..APPROVAL_TTL + 1 /\ Older(b) \in Unset..APPROVAL_TTL + 1
           /\ Older(b) = Unset \/ Older(a) <= Older(b)
BY ApprovalAssumption DEF Older, Unset

LEMMA AgesTick ==
    ASSUME AgesInv, Tick
    PROVE  /\ waited' \in 0..APPROVAL_TTL + 1
           /\ stamp' \in [Workers -> Unset..APPROVAL_TTL + 1]
           /\ \A w \in Workers : stamp'[w] = Unset \/ waited' <= stamp'[w]
<1> DEFINE Ages == Unset..APPROVAL_TTL + 1
<1>1. waited' = Older(waited) /\ stamp' = [w \in Workers |-> Older(stamp[w])]
  BY DEF Tick
<1>2. ASSUME NEW w \in Workers
      PROVE  /\ Older(waited) \in 0..APPROVAL_TTL + 1 /\ Older(stamp[w]) \in Ages
             /\ Older(stamp[w]) = Unset \/ Older(waited) <= Older(stamp[w])
  BY OlderKeepsOrder DEF AgesInv
<1>3. Older(waited) \in 0..APPROVAL_TTL + 1
  BY ApprovalAssumption DEF AgesInv, Older, Unset
<1> HIDE DEF Ages
<1>4. stamp' \in [Workers -> Ages]
  BY <1>1, <1>2
<1> QED
  BY <1>1, <1>2, <1>3, <1>4 DEF Ages

LEMMA AgesStep ==
    ASSUME Inv, TurnsInv, AgesInv, [Next]_vars
    PROVE  AgesInv'
<1> USE ApprovalAssumption DEF Inv, AgesInv, Place, Goto, Leave, Answer, Put, AtApproval
<1>1. ASSUME NEW r \in Requests, NEW how \in {"executing", "streaming"}, Start(r, how)
      PROVE  AgesInv'
  <2>1. FreshState(checkpoint.round + 1).next = "supervisor"
    BY DEF FreshState
  <2> QED
    BY <1>1, <2>1 DEF Start
<1>2. ASSUME NEW r \in Requests, RunNode(r)
      PROVE  AgesInv'
  <2>1. PICK n \in Edges[run[r].next] :
           /\ Put(r, [run[r] EXCEPT !.next = n, !.status = StatusAfter(run[r], n)])
           /\ waited' = IF n = "human_approval" THEN 0 ELSE waited
    BY <1>2 DEF RunNode
  <2>2. run'[r].next = n /\ \A s \in Requests : s # r => run'[s] = run[s]
    BY <2>1 DEF Good, State
  <2>3. UNCHANGED <<stamp, pc>>
    BY <1>2 DEF RunNode
  <2>4. waited' = 0 \/ waited' = waited
    BY <2>1
  <2>5. \A w \in Workers : stamp'[w] = Unset \/ waited' <= stamp'[w]
    BY <2>3, <2>4 DEF Unset
  <2>6. \A s \in Requests :
           pc'[s] = "executing" /\ run'[s].next = "human_approval" => waited' = 0
    BY <2>1, <2>2, <2>3
  <2> QED
    BY <2>3, <2>4, <2>5, <2>6
<1>3. ASSUME NEW r \in Requests, Executed(r) \/ Streamed(r)
      PROVE  AgesInv'
  <2>1. run[r] = checkpoint
    BY <1>3 DEF Executed, Streamed, TurnsInv, Running
  <2>2. waited' \in {0, waited} /\ (AtApproval(checkpoint) => waited' = 0)
    BY <1>3, <2>1 DEF Executed, Streamed
  <2>3. stamp' = IF AtApproval(checkpoint) THEN [stamp EXCEPT ![WorkerOf[r]] = 0] ELSE stamp
    BY <1>3, <2>1 DEF Executed, Streamed, Stamp
  <2>4. /\ pc' = [pc EXCEPT ![r] = "idle"]
        /\ run' = [run EXCEPT ![r] = NoThread]
    BY <1>3 DEF Executed, Streamed
  <2> QED
    BY <2>2, <2>3, <2>4 DEF Unset
<1>4. ASSUME NEW r \in Requests, Load(r) \/ Decide(r)
      PROVE  AgesInv'
  BY <1>4 DEF Load, Decide
<1>5. ASSUME NEW r \in Requests, Resumed(r)
      PROVE  AgesInv'
  BY <1>5 DEF Resumed, Unset
<1>6. ASSUME NEW r \in Requests,
             \/ Disconnect(r) \/ Fail(r)
             \/ \E d \in Decision : Replay(r, d) \/ Ask(r, d)
             \/ Refuse(r) \/ Recall(r) \/ Accept(r)
      PROVE  AgesInv'
  <2>1. UNCHANGED <<waited, stamp>> /\ \E p \in {"idle", "asking", "accepted"} : pc' = [pc EXCEPT ![r] = p]
    BY <1>6 DEF Disconnect, Fail, Replay, Ask, Refuse, Recall, Accept
  <2>2. \A s \in Requests : s # r => run'[s] = run[s]
    BY <1>6 DEF Disconnect, Fail, Replay, Ask, Refuse, Recall, Accept
  <2> QED
    BY <2>1, <2>2
<1>7. ASSUME NEW w \in Workers, Restart(w)
      PROVE  AgesInv'
  BY <1>7 DEF Restart, Unset
<1>8. CASE Tick
  <2>1. \A r \in Requests :
           pc'[r] = "executing" => run'[r].next # "human_approval"
    BY <1>8 DEF Tick
  <2>2. /\ waited' \in 0..APPROVAL_TTL + 1
        /\ stamp' \in [Workers -> Unset..APPROVAL_TTL + 1]
        /\ \A w \in Workers : stamp'[w] = Unset \/ waited' <= stamp'[w]
    BY <1>8, AgesTick
  <2> QED
    BY <2>1, <2>2
<1>9. CASE UNCHANGED vars
  BY <1>9 DEF vars
<1> QED
  BY <1>1, <1>2, <1>3, <1>4, <1>5, <1>6, <1>7, <1>8, <1>9
     DEF Next, Execute, Stream, Post, Progress

\* As long as clients take turns, a worker that has a time stamp for the thread
\* accepts no decision for a draft that waits for longer than APPROVAL_TTL, or
\* whose stream has ended longer ago.
THEOREM TurnsDecideInTime == Serial /\ Spec => NoLateDecision
<1> SUFFICES ASSUME Serial
             PROVE  Spec => NoLateDecision
  OBVIOUS
<1>1. ASSUME Inv, AgesInv, [Next]_vars
      PROVE  [\A r \in Requests :
                 pc[r] = "asking" /\ pc'[r] = "accepted" =>
                     waited <= APPROVAL_TTL \/ stamp[WorkerOf[r]] = Unset]_vars
  <2> SUFFICES ASSUME NEW r \in Requests, pc[r] = "asking", pc'[r] = "accepted"
               PROVE  waited <= APPROVAL_TTL \/ stamp[WorkerOf[r]] = Unset
    OBVIOUS
  <2> USE <1>1, ApprovalAssumption DEF Inv, Place, Goto, Leave, Answer
  <2>1. Accept(r)
    <3>1. ASSUME NEW s \in Requests, \E how \in {"executing", "streaming"} : Start(s, how)
          PROVE  FALSE
      BY <3>1 DEF Start
    <3>2. ASSUME NEW s \in Requests,
                 \/ RunNode(s) \/ Executed(s) \/ Streamed(s) \/ Disconnect(s) \/ Fail(s)
                 \/ \E d \in Decision : Replay(s, d) \/ Ask(s, d)
                 \/ Refuse(s) \/ Recall(s) \/ Load(s) \/ Decide(s) \/ Resumed(s)
          PROVE  FALSE
      BY <3>2 DEF RunNode, Executed, Streamed, Disconnect, Fail, Replay, Ask, Refuse, Recall,
                  Load, Decide, Resumed
    <3>3. ASSUME NEW s \in Requests, Accept(s)
          PROVE  s = r
      BY <3>3 DEF Accept
    <3>4. ASSUME \/ \E w \in Workers : Restart(w)
                 \/ Tick \/ UNCHANGED vars
          PROVE  FALSE
      BY <3>4 DEF Restart, Tick, vars
    <3> QED
      BY <3>1, <3>2, <3>3, <3>4 DEF Next, Execute, Stream, Post, Progress
  <2>2. stamp[WorkerOf[r]] = Unset \/ stamp[WorkerOf[r]] <= APPROVAL_TTL
    BY <2>1 DEF Accept, Expired, AgesInv, Unset
  <2> QED
    BY <2>2 DEF AgesInv, Unset
<1> QED
  BY <1>1, InvInit, InvStep, TurnsInit, TurnsStep, AgesInit, AgesStep, PTL
     DEF Spec, NoLateDecision

-----------------------------------------------------------------------------
(* What clients were told.                                                 *)

\* The states that answered a decision, or will answer the next one.
IsTold(s) ==
    \/ s # NoThread /\ \E w \in Workers : history[w] = s
    \/ \E r \in Requests : answer[r] # "none" /\ reply[r].code = 200 /\ reply[r].result = s
Told == {s \in Good : IsTold(s)}

\* A round that clients were told about is over, and told states agree on it.
Agreement ==
    /\ \A s \in Told : /\ s.round <= checkpoint.round
                       /\ s.round = checkpoint.round =>
                             Finished(checkpoint) /\ s.decision = checkpoint.decision
    /\ \A s, t \in Told : s.round = t.round => s.decision = t.decision

\* A request that plans was given no decision; one that resumes is past it.
CarriesDecision ==
    \A r \in Requests :
        /\ pc[r] \in {"executing", "streaming"} => answer[r] = "none"
        /\ pc[r] = "resuming" => checkpoint.next \in {"final_agent", "END"}

LEMMA AgreementInit == Init => Agreement /\ CarriesDecision
BY DEF Init, Agreement, CarriesDecision, Told, IsTold, NoReply, Refusal

\* Only the checkpoint of a finished round is told anew, and a checkpoint that
\* clients were told about gives way to that of a new round only.
LEMMA AgreementKept ==
    ASSUME Agreement, checkpoint \in Good, checkpoint' \in Good,
           \/ /\ Told' \subseteq Told \cup {checkpoint}
              /\ Told' \subseteq Told \/ Finished(checkpoint)
              /\ checkpoint' = checkpoint
           \/ /\ Told' \subseteq Told
              /\ \/ checkpoint'.round = checkpoint.round /\ ~Finished(checkpoint)
                 \/ checkpoint'.round = checkpoint.round + 1
    PROVE  Agreement'
<1> DEFINE told == Told
           toldThen == Told'
<1>1. /\ told \subseteq Good
      /\ \A s \in Good : s.round \in Int
  BY ApprovalAssumption DEF Told, Good, State
<1>2. /\ \A s \in told : /\ s.round <= checkpoint.round
                         /\ s.round = checkpoint.round =>
                               Finished(checkpoint) /\ s.decision = checkpoint.decision
      /\ \A s, t \in told : s.round = t.round => s.decision = t.decision
  BY DEF Agreement
<1> HIDE DEF told
<1>3. CASE /\ Told' \subseteq Told \cup {checkpoint}
           /\ Told' \subseteq Told \/ Finished(checkpoint)
           /\ checkpoint' = checkpoint
  <2>1. /\ toldThen \subseteq told \cup {checkpoint}
        /\ toldThen \subseteq told \/ Finished(checkpoint)
    BY <1>3 DEF told
  <2> HIDE DEF toldThen
  <2>2. /\ \A s \in toldThen : /\ s.round <= checkpoint.round
                               /\ s.round = checkpoint.round =>
                                     Finished(checkpoint) /\ s.decision = checkpoint.decision
        /\ \A s, t \in toldThen : s.round = t.round => s.decision = t.decision
    BY <1>1, <1>2, <2>1
  <2> QED
    BY <1>3, <2>2 DEF Agreement, Finished, toldThen
<1>4. CASE /\ Told' \subseteq Told
           /\ \/ checkpoint'.round = checkpoint.round /\ ~Finished(checkpoint)
              \/ checkpoint'.round = checkpoint.round + 1
  <2>1. toldThen \subseteq told
    BY <1>4 DEF told
  <2> HIDE DEF toldThen
  <2>2. /\ \A s \in toldThen : s.round < checkpoint'.round
        /\ \A s, t \in toldThen : s.round = t.round => s.decision = t.decision
    BY <1>1, <1>2, <1>4, <2>1
  <2>3. \A s \in toldThen : s.round \in Int /\ checkpoint'.round \in Int
    BY <1>1, <2>1
  <2>4. \A s \in toldThen : s.round <= checkpoint'.round /\ s.round # checkpoint'.round
    BY <2>2, <2>3
  <2> QED
    BY <2>2, <2>4 DEF Agreement, toldThen
<1> QED
  BY <1>3, <1>4

\* A step that answers no decision tells nothing new.
LEMMA NothingTold ==
    ASSUME Inv, NEW r \in Requests,
           history' = history,
           \A q \in Requests : q # r => answer'[q] = answer[q] /\ reply'[q] = reply[q],
           answer'[r] = "none" \/ reply'[r].code # 200
    PROVE  Told' \subseteq Told
BY DEF Told, IsTold

LEMMA AgreementStep ==
    ASSUME Serial, Inv, TurnsInv, Inv', Agreement, CarriesDecision, [Next]_vars
    PROVE  Agreement' /\ CarriesDecision'
<1> USE DEF Inv
<1>1. ASSUME NEW r \in Requests, NEW how \in {"executing", "streaming"}, Start(r, how)
      PROVE  Agreement' /\ CarriesDecision'
  <2>1. Told' \subseteq Told
    BY <1>1, NothingTold DEF Start, NoReply, Refusal
  <2>2. checkpoint' = FreshState(checkpoint.round + 1)
    BY <1>1 DEF Start, Put
  <2>3. checkpoint'.round = checkpoint.round + 1
    BY <2>2 DEF FreshState
  <2>4. Agreement'
    BY <2>1, <2>3, AgreementKept
  <2>5. CarriesDecision'
    BY <1>1 DEF Start, MayCall, Goto, CarriesDecision
  <2> QED
    BY <2>4, <2>5
<1>2. ASSUME NEW r \in Requests, RunNode(r)
      PROVE  Agreement' /\ CarriesDecision'
  <2>1. PICK n \in Edges[run[r].next] :
           Put(r, [run[r] EXCEPT !.next = n, !.status = StatusAfter(run[r], n)])
    BY <1>2 DEF RunNode
  <2>2. /\ run[r] = checkpoint /\ checkpoint \in Good
        /\ ~Finished(checkpoint) /\ ~AtApproval(checkpoint)
    BY <1>2 DEF RunNode, TurnsInv, Running
  <2>3. checkpoint'.round = checkpoint.round /\ checkpoint'.next = n
    BY <2>1, <2>2 DEF Put, Good, State
  <2>4. Told' \subseteq Told
    BY <1>2 DEF RunNode, Told, IsTold
  <2>5. Agreement'
    BY <2>2, <2>3, <2>4, AgreementKept
  <2>6. checkpoint.next = "final_agent" => n = "END"
    BY <2>1, <2>2 DEF Edges
  <2>7. CarriesDecision'
    BY <1>2, <2>2, <2>3, <2>6 DEF RunNode, CarriesDecision, Finished
  <2> QED
    BY <2>5, <2>7
<1>3. ASSUME NEW r \in Requests, Executed(r) \/ Streamed(r)
      PROVE  Agreement' /\ CarriesDecision'
  <2>1. answer[r] = "none"
    BY <1>3 DEF Executed, Streamed, CarriesDecision
  <2>2. Told' \subseteq Told
    BY <1>3, <2>1, NothingTold DEF Executed, Streamed, Answer
  <2>3. Agreement'
    BY <1>3, <2>2, AgreementKept DEF Executed, Streamed
  <2>4. CarriesDecision'
    BY <1>3 DEF Executed, Streamed, Answer, Leave, Goto, CarriesDecision
  <2> QED
    BY <2>3, <2>4
<1>4. ASSUME NEW r \in Requests, Refuse(r) \/ Fail(r)
      PROVE  Agreement' /\ CarriesDecision'
  <2>1. \E code \in {400, 404, 410, 500} : Answer(r, Refusal(code))
    BY <1>4 DEF Refuse, Fail
  <2>2. Told' \subseteq Told
    BY <1>4, <2>1, NothingTold DEF Refuse, Fail, Answer, Refusal
  <2>3. Agreement'
    BY <1>4, <2>2, AgreementKept DEF Refuse, Fail
  <2>4. CarriesDecision'
    BY <1>4, <2>1 DEF Refuse, Fail, Answer, Leave, Goto, CarriesDecision
  <2> QED
    BY <2>3, <2>4
<1>5. ASSUME NEW r \in Requests, NEW d \in Decision, Ask(r, d)
      PROVE  Agreement' /\ CarriesDecision'
  <2>1. Told' \subseteq Told
    BY <1>5, NothingTold DEF Ask, NoReply, Refusal
  <2>2. Agreement'
    BY <1>5, <2>1, AgreementKept DEF Ask
  <2>3. CarriesDecision'
    BY <1>5 DEF Ask, Goto, CarriesDecision
  <2> QED
    BY <2>2, <2>3
<1>6. ASSUME NEW r \in Requests, NEW d \in Decision, Replay(r, d)
      PROVE  Agreement' /\ CarriesDecision'
  <2>1. /\ history[WorkerOf[r]] \in Good /\ history[WorkerOf[r]] # NoThread
        /\ WorkerOf[r] \in Workers
    BY <1>6, ApprovalAssumption DEF Replay
  <2>2. /\ history' = history /\ checkpoint' = checkpoint
        /\ answer' = [answer EXCEPT ![r] = d]
        /\ reply' = [reply EXCEPT ![r] = Success(history[WorkerOf[r]])]
        /\ pc' = [pc EXCEPT ![r] = "idle"]
    BY <1>6 DEF Replay, Answer, Leave, Goto
  <2>3. Told' \subseteq Told
    BY <2>1, <2>2 DEF Told, IsTold, Success
  <2>4. Agreement'
    BY <2>2, <2>3, AgreementKept
  <2>5. CarriesDecision'
    BY <2>2 DEF CarriesDecision
  <2> QED
    BY <2>4, <2>5
<1>7. ASSUME NEW r \in Requests, Recall(r) \/ Resumed(r)
      PROVE  Agreement' /\ CarriesDecision'
  <2>1. Finished(checkpoint)
    BY <1>7 DEF Recall, Decided, Resumed, Stopped, TurnsInv, Running, CarriesDecision,
                AtApproval, Finished
  <2>2. /\ history' = [history EXCEPT ![WorkerOf[r]] = checkpoint]
        /\ reply' = [reply EXCEPT ![r] = Success(checkpoint)]
        /\ answer' = answer /\ checkpoint' = checkpoint
        /\ pc' = [pc EXCEPT ![r] = "idle"]
    BY <1>7 DEF Recall, Resumed, Remember, Answer, Leave, Goto, TurnsInv, Running
  <2>3. Told' \subseteq Told \cup {checkpoint}
    BY <2>2 DEF Told, IsTold, Success
  <2>4. Agreement'
    BY <2>1, <2>2, <2>3, AgreementKept
  <2>5. CarriesDecision'
    BY <2>2 DEF CarriesDecision
  <2> QED
    BY <2>4, <2>5
<1>8. ASSUME NEW r \in Requests, Accept(r) \/ Disconnect(r) \/ Load(r)
      PROVE  Agreement' /\ CarriesDecision'
  <2>1. UNCHANGED <<checkpoint, history, answer, reply>>
    BY <1>8 DEF Accept, Disconnect, Load
  <2>2. \E p \in {"accepted", "idle", "deciding"} : pc' = [pc EXCEPT ![r] = p]
    BY <1>8 DEF Accept, Disconnect, Load, Leave, Goto, TurnsInv
  <2>3. Told' \subseteq Told
    BY <2>1 DEF Told, IsTold
  <2>4. Agreement'
    BY <2>1, <2>3, AgreementKept
  <2>5. CarriesDecision'
    BY <2>1, <2>2 DEF CarriesDecision
  <2> QED
    BY <2>4, <2>5
<1>9. ASSUME NEW r \in Requests, Decide(r)
      PROVE  Agreement' /\ CarriesDecision'
  <2>1. run[r] = checkpoint /\ checkpoint \in Good /\ ~Finished(checkpoint)
    BY <1>9 DEF Decide, TurnsInv, Running, AtApproval, Finished
  <2>2. checkpoint'.round = checkpoint.round /\ checkpoint'.next = "final_agent"
    BY <1>9, <2>1 DEF Decide, Put, Good, State
  <2>3. Told' \subseteq Told
    BY <1>9 DEF Decide, Told, IsTold
  <2>4. Agreement'
    BY <2>1, <2>2, <2>3, AgreementKept
  <2>5. CarriesDecision'
    BY <1>9, <2>2 DEF Decide, Goto, CarriesDecision
  <2> QED
    BY <2>4, <2>5
<1>10. ASSUME NEW w \in Workers, Restart(w)
       PROVE  Agreement' /\ CarriesDecision'
  <2>1. \A v \in Workers : history'[v] \in {history[v], NoThread}
    BY <1>10 DEF Restart
  <2>2. Told' \subseteq Told
    BY <1>10, <2>1 DEF Restart, Told, IsTold
  <2>3. Agreement'
    BY <1>10, <2>2, AgreementKept DEF Restart
  <2>4. CarriesDecision'
    BY <1>10 DEF Restart, CarriesDecision
  <2> QED
    BY <2>3, <2>4
<1>11. CASE Tick \/ UNCHANGED vars
  BY <1>11 DEF Tick, vars, Agreement, CarriesDecision, Told, IsTold, Finished
<1> QED
  BY <1>1, <1>2, <1>3, <1>4, <1>5, <1>6, <1>7, <1>8, <1>9, <1>10, <1>11
     DEF Next, Execute, Stream, Post, Progress

\* As long as clients take turns, all replies about a round name the same
\* decision, whichever worker gave them and whatever the clients asked for.
THEOREM TurnsAgree == Serial /\ Spec => []RepliesAgree
<1> SUFFICES ASSUME Serial
             PROVE  Spec => []RepliesAgree
  OBVIOUS
<1>1. Inv /\ Agreement => RepliesAgree
  <2> SUFFICES ASSUME Inv, Agreement, NEW r \in Requests, NEW s \in Requests,
                      answer[r] # "none", reply[r].code = 200,
                      answer[s] # "none", reply[s].code = 200,
                      reply[r].result.round = reply[s].result.round
               PROVE  reply[r].result.decision = reply[s].result.decision
    BY DEF RepliesAgree
  <2>1. reply[r].result \in Told /\ reply[s].result \in Told
    BY DEF Inv, GoodReply, Told, IsTold
  <2> QED
    BY <2>1 DEF Agreement
<1>2. Inv /\ TurnsInv /\ Inv' /\ Agreement /\ CarriesDecision /\ [Next]_vars =>
          Agreement' /\ CarriesDecision'
  BY AgreementStep
<1> QED
  BY <1>1, <1>2, InvInit, InvStep, TurnsInit, TurnsStep, AgreementInit, PTL DEF Spec
-----------------------------------------------------------------------------
(* Every request ends.  What a request has left to do is bounded by the    *)
(* longest way through the graph, and no other request can lengthen it.    *)

\* The nodes between a state and the end of its run.
NodesLeft(s) ==
    CASE s.next = "supervisor" -> 5
      [] s.next = "parallel_specialists" -> 4
      [] s.next = "critic" -> 3
      [] s.next \in {"itinerary_agent", "final_agent", "guardrail_blocked"} -> 2
      [] OTHER -> 1

\* The awaits that a request has before it at most.
Left(r) ==
    CASE pc[r] = "asking" -> 8
      [] pc[r] = "accepted" -> 7
      [] pc[r] = "deciding" -> 6
      [] pc[r] \in {"executing", "streaming", "resuming"} -> NodesLeft(run[r])
      [] OTHER -> 0

LEMMA NodesLeftBounds ==
    ASSUME NEW s
    PROVE  NodesLeft(s) \in 1..5
BY DEF NodesLeft

LEMMA LeftBounds ==
    ASSUME NEW r \in Requests
    PROVE  /\ Left(r) \in 0..8 /\ Left(r)' \in 0..8
           /\ Inv => (Left(r) = 0 <=> pc[r] = "idle")
<1>1. /\ NodesLeft(run[r]) \in 1..5 /\ NodesLeft(run[r])' \in 1..5
      /\ NodesLeft(run'[r]) \in 1..5
  BY NodesLeftBounds DEF NodesLeft
<1> QED
  BY <1>1 DEF Left, Inv, Place

\* A node leads nearer to the end.
LEMMA NodeNearsEnd ==
    ASSUME NEW s \in Good, ~AtApproval(s), ~Finished(s), NEW n \in Edges[s.next]
    PROVE  NodesLeft([s EXCEPT !.next = n, !.status = StatusAfter(s, n)]) < NodesLeft(s)
<1> DEFINE t == [s EXCEPT !.next = n, !.status = StatusAfter(s, n)]
<1>1. s.next \in Node \ {"human_approval"}
  BY DEF Good, State, AtApproval, Finished
<1>2. t.next = n
  BY DEF Good, State
<1>3. /\ s.next = "supervisor" => n \in {"parallel_specialists", "guardrail_blocked"}
      /\ s.next = "guardrail_blocked" => n = "END"
      /\ s.next = "parallel_specialists" => n = "critic"
      /\ s.next = "critic" => n = "itinerary_agent"
      /\ s.next = "itinerary_agent" => n = "human_approval"
      /\ s.next = "final_agent" => n = "END"
  BY DEF Edges
<1> HIDE DEF t
<1>4. NodesLeft(t) < NodesLeft(s)
  BY <1>1, <1>2, <1>3, NodeNames DEF NodesLeft
<1> QED
  BY <1>4 DEF t

\* A step of the request itself brings it nearer to its answer.
LEMMA ProgressNears ==
    ASSUME Inv, NEW r \in Requests, Progress(r)
    PROVE  Left(r)' < Left(r)
<1> USE DEF Inv, Place, Goto, Leave, Answer, Put
<1>1. CASE RunNode(r)
  <2>1. PICK n \in Edges[run[r].next] :
           Put(r, [run[r] EXCEPT !.next = n, !.status = StatusAfter(run[r], n)])
    BY <1>1 DEF RunNode
  <2>2. NodesLeft([run[r] EXCEPT !.next = n, !.status = StatusAfter(run[r], n)])
          < NodesLeft(run[r])
    BY <1>1, NodeNearsEnd DEF RunNode
  <2>3. NodesLeft(run'[r]) < NodesLeft(run[r]) /\ pc' = pc
    BY <1>1, <2>1, <2>2 DEF RunNode
  <2>4. Left(r) = NodesLeft(run[r]) /\ Left(r)' = NodesLeft(run'[r])
    BY <1>1, <2>3 DEF RunNode, Left, NodesLeft
  <2> QED
    BY <2>3, <2>4
<1>2. CASE Executed(r) \/ Streamed(r) \/ Refuse(r) \/ Recall(r) \/ Resumed(r)
  <2>1. pc[r] # "idle" /\ pc'[r] = "idle"
    BY <1>2 DEF Executed, Streamed, Refuse, Recall, Resumed
  <2>2. Left(r)' = 0
    BY <2>1 DEF Left
  <2> QED
    BY <2>1, <2>2, LeftBounds
<1>3. CASE Accept(r)
  BY <1>3 DEF Accept, Left
<1>4. CASE Load(r)
  <2>1. Left(r) = 7 /\ pc'[r] \in {"deciding", "resuming"}
    BY <1>4 DEF Load, Left
  <2>2. Left(r)' \in {6, NodesLeft(run'[r])}
    BY <2>1 DEF Left, NodesLeft
  <2> QED
    BY <2>1, <2>2, NodesLeftBounds
<1>5. CASE Decide(r)
  <2>1. Left(r) = 6 /\ pc'[r] = "resuming"
    BY <1>5 DEF Decide, Left
  <2>2. Left(r)' = NodesLeft(run'[r])
    BY <2>1 DEF Left, NodesLeft
  <2> QED
    BY <2>1, <2>2, NodesLeftBounds
<1> QED
  BY <1>1, <1>2, <1>3, <1>4, <1>5 DEF Progress

\* No step of anybody sets a request back.
LEMMA NobodySetsBack ==
    ASSUME Inv, [Next]_vars, NEW r \in Requests, pc[r] # "idle"
    PROVE  Left(r)' <= Left(r)
<1>1. CASE pc'[r] = pc[r] /\ run'[r] = run[r]
  <2>1. Left(r)' = Left(r)
    BY <1>1 DEF Left, NodesLeft
  <2> QED
    BY <2>1, LeftBounds
<1>2. CASE pc'[r] = "idle"
  <2>1. Left(r)' = 0
    BY <1>2 DEF Left
  <2> QED
    BY <2>1, LeftBounds
<1>3. CASE Progress(r)
  BY <1>3, LeftBounds, ProgressNears
<1>4. ASSUME NEW q \in Requests, q # r,
             Execute(q) \/ Stream(q) \/ Post(q) \/ Progress(q) \/ Disconnect(q) \/ Fail(q)
      PROVE  pc'[r] = pc[r] /\ run'[r] = run[r]
  <2> USE DEF Inv, Goto, Leave, Answer, Put
  <2>1. CASE Execute(q) \/ Stream(q) \/ Post(q) \/ Disconnect(q) \/ Fail(q)
    BY <1>4, <2>1 DEF Execute, Stream, Start, Post, Replay, Ask, Disconnect, Fail
  <2>2. CASE RunNode(q) \/ Executed(q) \/ Streamed(q) \/ Resumed(q)
    BY <1>4, <2>2 DEF RunNode, Executed, Streamed, Resumed
  <2>3. CASE Refuse(q) \/ Recall(q) \/ Accept(q) \/ Load(q) \/ Decide(q)
    BY <1>4, <2>3 DEF Refuse, Recall, Accept, Load, Decide
  <2> QED
    BY <1>4, <2>1, <2>2, <2>3 DEF Progress
<1>5. CASE Execute(r) \/ Stream(r) \/ Post(r)
  BY <1>5 DEF Execute, Stream, Start, Post, Replay, Ask, MayCall
<1>6. CASE Disconnect(r) \/ Fail(r)
  BY <1>2, <1>6 DEF Disconnect, Fail, Inv, Goto, Leave, Answer
<1>7. ASSUME NEW w \in Workers, Restart(w)
      PROVE  pc'[r] = "idle" \/ (pc'[r] = pc[r] /\ run'[r] = run[r])
  BY <1>7 DEF Restart
<1>8. CASE Tick \/ UNCHANGED vars
  BY <1>1, <1>8 DEF Tick, vars
<1> QED
  BY <1>1, <1>2, <1>3, <1>4, <1>5, <1>6, <1>7, <1>8 DEF Next

LEMMA TypesHold == Spec => []Inv
BY InvInit, InvStep, PTL DEF Spec

\* No request is left without a step that it can take.  The provers know nothing
\* of ENABLED: this is a hypothesis of what follows, and RequestsHaveBranches is
\* what can be proved of it.
RequestsCanGoOn ==
    \A r \in Requests : pc[r] # "idle" => ENABLED <<Progress(r)>>_vars

\* As long as a request can go on, it gets on.
LEMMA RequestNears ==
    ASSUME NEW r \in Requests, NEW k \in 1..8
    PROVE  FairSpec /\ []RequestsCanGoOn => (Left(r) = k ~> Left(r) < k)
<1>1. FairSpec => Spec /\ Served(r)
  BY DEF FairSpec
<1>2. FairSpec => WF_vars(Progress(r))
  BY <1>1, PTL DEF Served
<1>3. Inv /\ RequestsCanGoOn /\ Left(r) = k => ENABLED <<Progress(r)>>_vars
  BY LeftBounds DEF RequestsCanGoOn
<1>4. Inv /\ [Next]_vars /\ Left(r) = k => (Left(r) = k)' \/ (Left(r) < k)'
  <2> SUFFICES ASSUME Inv, [Next]_vars, Left(r) = k
               PROVE  Left(r)' <= k
    BY LeftBounds
  <2> QED
    BY LeftBounds, NobodySetsBack
<1>5. Inv /\ <<Progress(r)>>_vars /\ Left(r) = k => (Left(r) < k)'
  BY ProgressNears
<1> QED
  BY <1>1, <1>2, <1>3, <1>4, <1>5, TypesHold, PTL DEF Spec

LEMMA RequestEnds ==
    ASSUME NEW r \in Requests
    PROVE  FairSpec /\ []RequestsCanGoOn => (pc[r] # "idle" ~> pc[r] = "idle")
<1> DEFINE GetsOn(k) == FairSpec /\ []RequestsCanGoOn => (Left(r) = k ~> Left(r) < k)
<1>1. \A k \in 1..8 : GetsOn(k)
  BY RequestNears
<1>2. /\ GetsOn(1) /\ GetsOn(2) /\ GetsOn(3) /\ GetsOn(4)
      /\ GetsOn(5) /\ GetsOn(6) /\ GetsOn(7) /\ GetsOn(8)
  <2> HIDE DEF GetsOn
  <2> QED
    BY <1>1
<1>3. /\ Left(r) < 8 => Left(r) = 7 \/ Left(r) < 7
      /\ Left(r) < 7 => Left(r) = 6 \/ Left(r) < 6
      /\ Left(r) < 6 => Left(r) = 5 \/ Left(r) < 5
      /\ Left(r) < 5 => Left(r) = 4 \/ Left(r) < 4
      /\ Left(r) < 4 => Left(r) = 3 \/ Left(r) < 3
      /\ Left(r) < 3 => Left(r) = 2 \/ Left(r) < 2
      /\ Left(r) < 2 => Left(r) = 1 \/ Left(r) < 1
  BY LeftBounds
<1>4. Inv /\ pc[r] # "idle" => Left(r) = 8 \/ Left(r) < 8
  BY LeftBounds
<1>5. Inv /\ Left(r) < 1 => pc[r] = "idle"
  BY LeftBounds
<1>6. FairSpec => []Inv
  BY TypesHold DEF FairSpec
<1> QED
  BY <1>2, <1>3, <1>4, <1>5, <1>6, PTL

\* Every request that is under way comes to its end, for every number of
\* requests that overlap, fail and are restarted, if the event loop serves each
\* of them and none is ever left without a step (RequestsCanGoOn).
THEOREM RequestsEnd == FairSpec /\ []RequestsCanGoOn => EveryRequestEnds
BY RequestEnds DEF EveryRequestEnds

-----------------------------------------------------------------------------
(* Decided plans are completed.                                            *)

\* The run that writes the final answer.
Finishing(r) == pc[r] = "resuming" /\ run[r].next = "final_agent"

\* A decided plan has a run that is about to finish it.
FinalInv == checkpoint.next = "final_agent" => \E r \in Requests : Finishing(r)

LEMMA FinalInit == Init => FinalInv
BY DEF Init, FinalInv, NoThread

\* Only the run itself ends its final agent, and the checkpoint is then past it.
LEMMA FinishingKept ==
    ASSUME ~CanFail, ~CanCrash, Inv, [Next]_vars, NEW r \in Requests, Finishing(r)
    PROVE  Finishing(r)' \/ (Progress(r) /\ checkpoint'.next # "final_agent")
<1> USE DEF Inv, Goto, Leave, Answer, Put, Finishing
<1>1. CASE pc'[r] = pc[r] /\ run'[r] = run[r]
  BY <1>1
<1>2. ASSUME NEW q \in Requests, q # r,
             Execute(q) \/ Stream(q) \/ Post(q) \/ Progress(q) \/ Disconnect(q)
      PROVE  pc'[r] = pc[r] /\ run'[r] = run[r]
  <2>1. CASE Execute(q) \/ Stream(q) \/ Post(q) \/ Disconnect(q)
    BY <1>2, <2>1 DEF Execute, Stream, Start, Post, Replay, Ask, Disconnect
  <2>2. CASE RunNode(q) \/ Executed(q) \/ Streamed(q) \/ Resumed(q)
    BY <1>2, <2>2 DEF RunNode, Executed, Streamed, Resumed
  <2>3. CASE Refuse(q) \/ Recall(q) \/ Accept(q) \/ Load(q) \/ Decide(q)
    BY <1>2, <2>3 DEF Refuse, Recall, Accept, Load, Decide
  <2> QED
    BY <1>2, <2>1, <2>2, <2>3 DEF Progress
<1>3. ASSUME Execute(r) \/ Stream(r) \/ Post(r) \/ Disconnect(r)
      PROVE  FALSE
  BY <1>3 DEF Execute, Stream, Start, Post, Replay, Ask, MayCall, Disconnect
<1>4. CASE Progress(r)
  <2>1. RunNode(r)
    BY <1>4 DEF Progress, Executed, Streamed, Refuse, Recall, Accept, Load, Decide, Resumed,
                Stopped, AtApproval, Finished
  <2>2. PICK n \in Edges[run[r].next] :
           Put(r, [run[r] EXCEPT !.next = n, !.status = StatusAfter(run[r], n)])
    BY <2>1 DEF RunNode
  <2>3. n = "END"
    BY DEF Edges
  <2>4. checkpoint'.next = "END"
    BY <2>2, <2>3 DEF Good, State
  <2> QED
    BY <1>4, <2>4
<1>5. CASE Tick \/ UNCHANGED vars
  BY <1>1, <1>5 DEF Tick, vars
<1> QED
  BY <1>1, <1>2, <1>3, <1>4, <1>5 DEF Next, Fail, Restart

LEMMA FinalStep ==
    ASSUME ~CanFail, ~CanCrash, Inv, FinalInv, [Next]_vars
    PROVE  FinalInv'
<1>1. CASE checkpoint'.next # "final_agent"
  BY <1>1 DEF FinalInv
<1>2. CASE checkpoint' = checkpoint /\ checkpoint.next = "final_agent"
  <2>1. PICK r \in Requests : Finishing(r)
    BY <1>2 DEF FinalInv
  <2> QED
    BY <1>2, <2>1, FinishingKept DEF FinalInv
<1>3. ASSUME NEW r \in Requests, Execute(r) \/ Stream(r)
      PROVE  checkpoint'.next # "final_agent"
  BY <1>3 DEF Execute, Stream, Start, Put, FreshState
<1>4. ASSUME NEW r \in Requests, RunNode(r)
      PROVE  checkpoint'.next # "final_agent"
  <2>1. PICK n \in Edges[run[r].next] :
           Put(r, [run[r] EXCEPT !.next = n, !.status = StatusAfter(run[r], n)])
    BY <1>4 DEF RunNode
  <2>2. run[r] \in State
    BY DEF Inv, Good
  <2>3. n # "final_agent"
    BY <1>4, <2>2, EdgesAvoidHuman DEF RunNode
  <2>4. checkpoint'.next = n
    BY <2>1, <2>2 DEF Put, State
  <2> QED
    BY <2>3, <2>4
<1>5. ASSUME NEW r \in Requests, Decide(r)
      PROVE  FinalInv'
  <2>1. pc'[r] = "resuming" /\ run'[r].next = "final_agent"
    BY <1>5 DEF Decide, Inv, Goto, Put, Good, State
  <2> QED
    BY <2>1 DEF FinalInv, Finishing
<1>6. ASSUME NEW r \in Requests,
             \/ Executed(r) \/ Streamed(r) \/ Disconnect(r) \/ Post(r) \/ Refuse(r)
             \/ Recall(r) \/ Accept(r) \/ Load(r) \/ Resumed(r)
      PROVE  checkpoint' = checkpoint
  BY <1>6 DEF Executed, Streamed, Disconnect, Post, Replay, Ask, Refuse, Recall, Accept, Load,
              Resumed
<1>7. CASE Tick \/ UNCHANGED vars
  BY <1>1, <1>2, <1>7 DEF Tick, vars
<1> QED
  BY <1>1, <1>2, <1>3, <1>4, <1>5, <1>6, <1>7 DEF Next, Progress, Fail, Restart

\* What holds from now on, and what it leads to.
Onwards ==
    /\ [][Next]_vars
    /\ []Inv
    /\ []RequestsCanGoOn
WillBePast == <>(checkpoint.next # "final_agent")

LEMMA FinishingFinishes ==
    ASSUME ~CanFail, ~CanCrash, NEW r \in Requests
    PROVE  Onwards /\ Served(r) => (Finishing(r) => WillBePast)
<1>1. Inv /\ [Next]_vars /\ Finishing(r) => Finishing(r)' \/ (checkpoint.next # "final_agent")'
  BY FinishingKept
<1>2. Inv /\ <<Progress(r)>>_vars /\ Finishing(r) => (checkpoint.next # "final_agent")'
  <2> SUFFICES ASSUME Inv, Progress(r), Finishing(r)
               PROVE  checkpoint'.next # "final_agent"
    OBVIOUS
  <2>1. RunNode(r)
    BY DEF Finishing, Progress, Executed, Streamed, Refuse, Recall, Accept, Load, Decide, Resumed,
           Stopped, AtApproval, Finished
  <2>2. PICK n \in Edges[run[r].next] :
           Put(r, [run[r] EXCEPT !.next = n, !.status = StatusAfter(run[r], n)])
    BY <2>1 DEF RunNode
  <2>3. n = "END"
    BY DEF Edges, Finishing
  <2> QED
    BY <2>2, <2>3 DEF Put, Inv, Good, State
<1>3. RequestsCanGoOn /\ Finishing(r) => ENABLED <<Progress(r)>>_vars
  BY DEF RequestsCanGoOn, Finishing
<1> QED
  BY <1>1, <1>2, <1>3, PTL DEF Onwards, Served, WillBePast

\* As long as no node fails and no worker is restarted, every decided plan is
\* completed or followed by a new round, however many rounds and decisions
\* overlap it.  The fairness is that of FairSpec, stated of every suffix of the
\* behaviour, which is the same.
THEOREM DecidedComplete ==
    ASSUME ~CanFail, ~CanCrash
    PROVE  /\ Spec
           /\ [](\A r \in Requests : Served(r))
           /\ []RequestsCanGoOn
           => DecidedPlansComplete
<1>1. FinalInv /\ Onwards /\ (\A r \in Requests : Served(r))
        => (checkpoint.next = "final_agent" => WillBePast)
  BY FinishingFinishes DEF FinalInv
<1>2. Inv /\ FinalInv /\ [Next]_vars => FinalInv'
  BY FinalStep
<1> QED
  BY <1>1, <1>2, FinalInit, TypesHold, PTL DEF Spec, Onwards, WillBePast, DecidedPlansComplete

-----------------------------------------------------------------------------
(* What RequestsCanGoOn says, with the guards of Progress written out in    *)
(* place of ENABLED.  Whatever is done under such a guard is a change: it   *)
(* brings the request nearer to its end (ProgressNears).                    *)

MayRefuse(r) ==
    \/ checkpoint = NoThread
    \/ ~AtApproval(checkpoint) /\ ~Decided(checkpoint)
    \/ AtApproval(checkpoint) /\ Expired(WorkerOf[r])

HasBranch(r) ==
    \/ /\ pc[r] \in {"executing", "streaming", "resuming"}
       /\ Stopped(r) \/ (run[r].next \in Node /\ Edges[run[r].next] # {})
    \/ /\ pc[r] = "asking"
       /\ \/ MayRefuse(r) \/ Decided(checkpoint)
          \/ AtApproval(checkpoint) /\ ~Expired(WorkerOf[r])
    \/ pc[r] \in {"accepted", "deciding"}

\* A run stands at a node that has a successor, has ended or waits for the
\* human, and resume_travel_plan has a branch for whatever it is given back:
\* for every number of requests, workers and rounds, and whatever fails.
THEOREM RequestsHaveBranches ==
    Spec => [](\A r \in Requests : pc[r] # "idle" => HasBranch(r))
<1>1. ASSUME Inv, NEW r \in Requests, pc[r] # "idle"
      PROVE  HasBranch(r)
  <2>1. CASE pc[r] \in {"executing", "streaming", "resuming"}
    <3>1. run[r].next \in Node \cup {"END"}
      BY <1>1 DEF Inv, Good, State
    <3>2. \A n \in Node : Edges[n] # {}
      BY NodeNames DEF Edges
    <3> QED
      BY <2>1, <3>1, <3>2 DEF HasBranch, Stopped, Finished
  <2>2. CASE pc[r] = "asking"
    BY <2>2 DEF HasBranch, MayRefuse
  <2> QED
    BY <1>1, <2>1, <2>2 DEF HasBranch, Inv, Place
<1>2. Inv => \A r \in Requests : pc[r] # "idle" => HasBranch(r)
  BY <1>1
<1> QED
  BY <1>2, TypesHold, PTL

=============================================================================
