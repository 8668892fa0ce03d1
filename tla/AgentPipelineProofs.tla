------------------------ MODULE AgentPipelineProofs ------------------------
(***************************************************************************)
(* Proofs about AgentPipeline for every set of plans and callers, every    *)
(* configuration and every threshold: the plans use the breaker as its     *)
(* specification says, and every plan ends.                                *)
(***************************************************************************)
EXTENDS AgentPipeline, CircuitBreakerProofs

LEMMA PlansAreCallers == \A p \in Plans : p \in Callers
BY PipelineAssumption

\* Each step of an LLM call is one step of the breaker, or none.
LEMMA CallIsStep ==
    ASSUME NEW p \in Plans, CallLLM(p)
    PROVE  [Next]_vars
BY PlansAreCallers
   DEF CallLLM, Send, Refuse, Receive, TypeErrorRaised, AttemptFails, Finish, Next

\* What the agents do between their calls does not touch it.
LEMMA AgentIsStutter ==
    ASSUME NEW p \in Plans, Begin(p) \/ Agent(p) \/ human_approval_node(p)
    PROVE  UNCHANGED vars
BY DEF Begin, Agent, human_approval_node, advanced_guardrail_check, guardrail_blocked_node,
       create_plan, FlightTools, HotelAgent, WeatherAgent, ToolsDone,
       parallel_specialists_node, BudgetAgent, evaluate_plan, ItineraryAgent,
       run_final_agent, Turn, EndTurn

LEMMA PipelineStep == [PipelineNext]_pipelineVars => [Next]_vars
<1> SUFFICES ASSUME [PipelineNext]_pipelineVars
             PROVE  [Next]_vars
  OBVIOUS
<1>1. ASSUME NEW p \in Plans, Begin(p) \/ CallLLM(p) \/ Agent(p) \/ human_approval_node(p)
      PROVE  [Next]_vars
  BY <1>1, CallIsStep, AgentIsStutter
<1>2. ASSUME NEW p \in Plans, Disconnect(p)
      PROVE  [Next]_vars
  BY <1>2, PlansAreCallers DEF Disconnect, Finish, Next
<1>3. ASSUME NEW c \in Callers \ Plans, OtherCaller(c)
      PROVE  [Next]_vars
  BY <1>3 DEF OtherCaller, Next
<1>4. CASE Elsewhere
  BY <1>4 DEF Elsewhere, Next
<1>5. CASE UNCHANGED pipelineVars
  BY <1>5 DEF pipelineVars
<1> QED
  BY <1>1, <1>2, <1>3, <1>4, <1>5 DEF PipelineNext

\* Plans with their retries, fallbacks and disconnections are callers of the
\* breaker like any other, so it keeps all its promises among them.
THEOREM PlansUseBreaker == PipelineSpec => Spec
<1>1. PipelineInit => Init
  BY DEF PipelineInit
<1> QED
  BY <1>1, PipelineStep, PTL DEF PipelineSpec, Spec

\* Its counters agree with its state, a streak of failures always trips it, its
\* slots do not leak, it implements CircuitGate, and with a slot left it is not
\* stuck and goes nowhere but towards CLOSED, whatever plans do.
THEOREM BreakerAmongPlans ==
    PipelineSpec => /\ []CountersAgreeWithState
                    /\ []StreakTrips
                    /\ []NoLeakedSlot
                    /\ KeepsGatePromise
                    /\ []RecoveryNotStuck
                    /\ RecoveryAdvances
BY PlansUseBreaker, CountersCorrect, StreakAlwaysTrips, SlotsNeverLeak, ImplementsGate,
   NeverStuckHalfOpen, HealthyOnlyAdvances, PTL

\* Nor do plans trip it without evidence.
COROLLARY PlansTripOnEvidence ==
    ASSUME HistoryCap >= failure_threshold
    PROVE  PipelineSpec => []TripsOnlyOnEvidence
<1>1. Spec => []TripsOnlyOnEvidence
  BY NoSpuriousTrip
<1> QED
  BY <1>1, PlansUseBreaker, PTL

-----------------------------------------------------------------------------
(* Types.                                                                  *)

\* The variables of a plan, apart from those of the breaker.
PlanTypes ==
    /\ stage \in [Plans -> Stage]
    /\ call \in [Plans -> CallState]
    /\ attempt \in [Plans -> 0..max_retries]
    /\ tools \in [Plans -> SUBSET Specialists]

InsideBreaker == \A p \in Plans : Running(p) <=> call[p] \in InCall

\* Only an agent that has an LLM to ask, and the turn, has a call.
OnlyAskersCall ==
    \A p \in Plans :
        call[p] # "ready" =>
            /\ stage[p] \notin AtRest \cup {"guardrail_blocked"}
            /\ stage[p] = "specialists" => "flight_agent" \in Specialists
            /\ get_model # NoModel

PlanInv == PlanTypes /\ InsideBreaker /\ OnlyAskersCall

\* How an LLM call changes the plan's variables and its place in the breaker.
LEMMA CallEffect ==
    ASSUME TypeOK, PlanTypes, InsideBreaker, NEW p \in Plans, CallLLM(p)
    PROVE  /\ UNCHANGED <<keys, stage, tools>>
           /\ \E c \in CallState : call' = [call EXCEPT ![p] = c]
           /\ attempt' \in [Plans -> 0..max_retries]
           /\ \A q \in Plans \ {p} : attempt'[q] = attempt[q]
           /\ \A q \in Plans \ {p} : admitted'[q] = admitted[q]
           /\ Running(p)' <=> call'[p] \in InCall
<1> USE PlansAreCallers, PipelineAssumption
    DEF PlanTypes, CallState, InCall, SetCall, Running, TypeOK, Admission
<1>1. CASE Send(p)
  <2>1. \E a \in {"regular", "trial"} : admitted' = [admitted EXCEPT ![p] = a]
    BY <1>1 DEF Send, Admit, AdmitRegular, AdmitTrial, AdmitFirstTrial
  <2>2. /\ UNCHANGED <<keys, stage, attempt, tools>>
        /\ \E c \in {"calling", "calling_bare"} : call' = [call EXCEPT ![p] = c]
    BY <1>1 DEF Send
  <2> QED
    BY <2>1, <2>2
<1>2. CASE Refuse(p)
  <2>1. admitted' = admitted /\ ~Running(p)
    BY <1>2 DEF Refuse, vars, InsideBreaker
  <2> QED
    BY <1>2, <2>1 DEF Refuse
<1>3. CASE Receive(p) \/ TypeErrorRaised(p) \/ AttemptFails(p)
  <2>1. admitted' = [admitted EXCEPT ![p] = "none"]
    BY <1>3 DEF Receive, TypeErrorRaised, AttemptFails, Succeed, FailTransient, FailPermanent,
                TimeOut, Leave
  <2>2. /\ UNCHANGED <<keys, stage, tools>>
        /\ \E c \in CallState \ InCall : call' = [call EXCEPT ![p] = c]
        /\ \/ attempt' = attempt
           \/ MayTryAgain(p) /\ attempt' = [attempt EXCEPT ![p] = @ + 1]
    BY <1>3 DEF Receive, TypeErrorRaised, AttemptFails
  <2>3. /\ attempt' \in [Plans -> 0..max_retries]
        /\ \A q \in Plans \ {p} : attempt'[q] = attempt[q]
    BY <2>2 DEF MayTryAgain
  <2>4. /\ \A q \in Plans \ {p} : admitted'[q] = admitted[q]
        /\ ~Running(p)' /\ call'[p] \notin InCall
    BY <2>1, <2>2
  <2> QED
    BY <2>2, <2>3, <2>4
<1> QED
  BY <1>1, <1>2, <1>3 DEF CallLLM

\* The turn of an agent ends outside of the breaker.
LEMMA AgentEffect ==
    ASSUME PlanInv, NEW p \in Plans, Agent(p)
    PROVE  /\ UNCHANGED <<vars, keys>>
           /\ \/ /\ UNCHANGED <<stage, call, attempt>>
                 /\ \E a \in tools[p] : tools' = [tools EXCEPT ![p] = @ \ {a}]
              \/ /\ call[p] \notin InCall
                 /\ \E s \in Stage \ {stage[p], "guardrail"} : EndTurn(p, s)
                 /\ tools' = tools \/ tools' = [tools EXCEPT ![p] = Specialists]
<1>1. CASE FlightTools(p) \/ HotelAgent(p) \/ WeatherAgent(p)
  BY <1>1 DEF FlightTools, HotelAgent, WeatherAgent, ToolsDone
<1>2. CASE ~(FlightTools(p) \/ HotelAgent(p) \/ WeatherAgent(p))
  <2>1. /\ stage[p] # "guardrail_blocked" /\ ~(stage[p] = "specialists" /\ "flight_agent" \notin Specialists)
           => Consulted(p)
        /\ \E s \in Stage \ {stage[p], "guardrail"} : EndTurn(p, s)
        /\ tools' = tools \/ tools' = [tools EXCEPT ![p] = Specialists]
    BY <1>2 DEF Agent, advanced_guardrail_check, guardrail_blocked_node, create_plan,
                parallel_specialists_node, FlightAgentDone, BudgetAgent, evaluate_plan,
                ItineraryAgent, run_final_agent, Turn, Stage
  <2>2. call[p] \notin InCall
    BY <2>1 DEF PlanInv, OnlyAskersCall, Consulted, InCall
  <2> QED
    BY <2>1, <2>2 DEF EndTurn
<1> QED
  BY <1>1, <1>2

LEMMA ModelKept == UNCHANGED keys => UNCHANGED get_model
BY DEF get_model, create_model, is_configured

LEMMA PlanInit == PipelineInit => PlanInv
<1> SUFFICES ASSUME PipelineInit
             PROVE  PlanInv
  OBVIOUS
<1>1. InsideBreaker
  BY PlansAreCallers DEF PipelineInit, Init, InsideBreaker, Running, InCall
<1>2. PlanTypes
  BY PipelineAssumption DEF PipelineInit, PlanTypes, Stage, CallState
<1> QED
  BY <1>1, <1>2 DEF PipelineInit, PlanInv, OnlyAskersCall

LEMMA PlanStep ==
    ASSUME TypeOK, PlanInv, [PipelineNext]_pipelineVars
    PROVE  PlanInv'
<1> USE PipelineAssumption, ModelKept DEF PlanInv, PlanTypes
<1>1. ASSUME NEW p \in Plans, CallLLM(p)
      PROVE  PlanInv'
  <2>1. /\ UNCHANGED <<keys, stage, tools>>
        /\ \E c \in CallState : call' = [call EXCEPT ![p] = c]
        /\ attempt' \in [Plans -> 0..max_retries]
        /\ \A q \in Plans \ {p} : admitted'[q] = admitted[q]
        /\ Running(p)' <=> call'[p] \in InCall
    BY <1>1, CallEffect
  <2>2. InsideBreaker'
    BY <2>1 DEF InsideBreaker, Running
  <2>3. call[p] = "ready" => Asks(p)
    BY <1>1 DEF CallLLM, Send, Refuse, Receive, TypeErrorRaised, AttemptFails, InCall
  <2>4. OnlyAskersCall'
    BY <2>1, <2>3 DEF OnlyAskersCall, Asks
  <2> QED
    BY <2>1, <2>2, <2>4
<1>2. ASSUME NEW p \in Plans, Agent(p)
      PROVE  PlanInv'
  <2>1. CASE UNCHANGED <<vars, keys, stage, call, attempt>>
             /\ \E a \in tools[p] : tools' = [tools EXCEPT ![p] = @ \ {a}]
    BY <2>1 DEF InsideBreaker, OnlyAskersCall, Running, vars
  <2>2. ASSUME NEW s \in Stage, EndTurn(p, s), call[p] \notin InCall,
               tools' = tools \/ tools' = [tools EXCEPT ![p] = Specialists]
        PROVE  PlanInv'
    <3>1. UNCHANGED <<admitted, keys>>
      BY <2>2 DEF EndTurn, vars
    <3>2. InsideBreaker' /\ OnlyAskersCall'
      BY <2>2, <3>1 DEF EndTurn, SetCall, InsideBreaker, OnlyAskersCall, Running, InCall
    <3>3. PlanTypes'
      BY <2>2 DEF EndTurn, SetCall, CallState
    <3> QED
      BY <3>2, <3>3
  <2> QED
    BY <1>2, <2>1, <2>2, AgentEffect
<1>3. ASSUME NEW p \in Plans, Begin(p) \/ human_approval_node(p)
      PROVE  PlanInv'
  <2>1. UNCHANGED <<vars, keys, call, attempt, tools>>
        /\ \E s \in Stage : stage' = [stage EXCEPT ![p] = s]
    BY <1>3 DEF Begin, human_approval_node, Stage
  <2>2. call[p] = "ready"
    BY <1>3 DEF OnlyAskersCall, AtRest, Begin, human_approval_node
  <2>3. PlanTypes'
    BY <1>3, <2>1 DEF Begin, human_approval_node, vars, TypeOK, CircuitState
  <2>4. InsideBreaker' /\ OnlyAskersCall'
    BY <2>1, <2>2 DEF InsideBreaker, OnlyAskersCall, Running, vars
  <2> QED
    BY <2>3, <2>4
<1>4. ASSUME NEW p \in Plans, Disconnect(p)
      PROVE  PlanInv'
  <2>1. /\ ~Running(p)' /\ \A q \in Plans \ {p} : admitted'[q] = admitted[q]
    BY <1>4, PlansAreCallers DEF Disconnect, TimeOut, Leave, InsideBreaker, Running, vars, TypeOK
  <2>2. InsideBreaker' /\ OnlyAskersCall'
    BY <1>4, <2>1 DEF Disconnect, SetCall, InsideBreaker, OnlyAskersCall, Running, InCall
  <2>3. PlanTypes'
    BY <1>4 DEF Disconnect, SetCall, CallState, Stage
  <2> QED
    BY <2>2, <2>3
<1>5. ASSUME NEW c \in Callers \ Plans, OtherCaller(c)
      PROVE  PlanInv'
  <2>1. \A q \in Plans : admitted'[q] = admitted[q]
    BY <1>5 DEF OtherCaller, Admit, AdmitRegular, AdmitTrial, AdmitFirstTrial, Finish, Succeed,
                FailTransient, FailPermanent, TimeOut, Leave, TypeOK
  <2> QED
    BY <1>5, <2>1 DEF OtherCaller, planVars, InsideBreaker, OnlyAskersCall, Running
<1>6. CASE Elsewhere
  BY <1>6 DEF Elsewhere, reset, Tick, Heal, planVars, InsideBreaker, OnlyAskersCall, Running
<1>7. CASE UNCHANGED pipelineVars
  BY <1>7 DEF pipelineVars, planVars, vars, InsideBreaker, OnlyAskersCall, Running
<1> QED
  BY <1>1, <1>2, <1>3, <1>4, <1>5, <1>6, <1>7 DEF PipelineNext

LEMMA PlanInvHolds == PipelineSpec => []PlanInv
BY PlanInit, PlanStep, PlansUseBreaker, TypeCorrect, PTL DEF PipelineSpec

\* The variables keep their types; in particular a plan is inside the breaker
\* exactly while its LLM call is under way, however calls fail, are retried or
\* are given up with the plan.
THEOREM PlansTypeCorrect == PipelineSpec => []PipelineTypeOK
<1>1. TypeOK /\ PlanInv => PipelineTypeOK
  BY DEF PlanInv, PlanTypes, InsideBreaker, PipelineTypeOK
<1> QED
  BY <1>1, PlanInvHolds, PlansUseBreaker, TypeCorrect, PTL

-----------------------------------------------------------------------------
(* Every plan ends.  A plan has a bounded number of agents before it, and  *)
(* an agent a bounded number of steps: its attempts at the LLM, each sent, *)
(* perhaps sent again without config, and answered, and the tools of the   *)
(* specialists.                                                            *)

\* The agents between a plan and its next rest.
AgentsLeft(p) ==
    CASE stage[p] = "guardrail" -> 6
      [] stage[p] = "planner" -> 5
      [] stage[p] = "specialists" -> 4
      [] stage[p] = "budget" -> 3
      [] stage[p] = "critic" -> 2
      [] stage[p] \in {"itinerary", "guardrail_blocked", "final"} -> 1
      [] OTHER -> 0

AttemptsLeft(p) == max_retries - attempt[p]

\* The steps that the LLM call of the plan's agent takes at most.
CallLeft(p) ==
    CASE call[p] \in {"ready", "sleeping"} -> 4 * AttemptsLeft(p) + 4
      [] call[p] = "calling" -> 4 * AttemptsLeft(p) + 3
      [] call[p] = "bare" -> 4 * AttemptsLeft(p) + 2
      [] call[p] = "calling_bare" -> 4 * AttemptsLeft(p) + 1
      [] OTHER -> 0

One(condition) == IF condition THEN 1 ELSE 0
ToolsLeft(p) ==
    One("flight_agent" \in tools[p]) + One("hotel_agent" \in tools[p])
      + One("weather_agent" \in tools[p])

StepsLeft(p) == CallLeft(p) + ToolsLeft(p)

LEMMA LeftBounds ==
    ASSUME PlanTypes, NEW p \in Plans
    PROVE  /\ AgentsLeft(p) \in 0..6 /\ (AgentsLeft(p) = 0 <=> stage[p] \in AtRest)
           /\ AttemptsLeft(p) \in 0..max_retries
           /\ CallLeft(p) \in 0..(4 * max_retries + 4)
           /\ ToolsLeft(p) \in 0..3
           /\ StepsLeft(p) \in 0..(4 * max_retries + 7)
<1> USE PipelineAssumption DEF PlanTypes
<1>1. AgentsLeft(p) \in 0..6 /\ (AgentsLeft(p) = 0 <=> stage[p] \in AtRest)
  BY DEF AgentsLeft, Stage, AtRest
<1>2. AttemptsLeft(p) \in 0..max_retries
  BY DEF AttemptsLeft
<1>3. CallLeft(p) \in 0..(4 * max_retries + 4)
  BY <1>2 DEF CallLeft
<1>4. ToolsLeft(p) \in 0..3
  BY DEF ToolsLeft, One
<1> QED
  BY <1>1, <1>2, <1>3, <1>4 DEF StepsLeft

\* The plan is nearer to its rest: at a later agent, or farther with this one.
Nearer(p, a, n) == AgentsLeft(p) < a \/ (AgentsLeft(p) = a /\ StepsLeft(p) < n)
Here(p, a, n) == AgentsLeft(p) = a /\ StepsLeft(p) = n

\* Every step of an LLM call uses up one of the steps it has.
LEMMA CallNears ==
    ASSUME TypeOK, PlanInv, NEW p \in Plans, CallLLM(p)
    PROVE  AgentsLeft(p)' = AgentsLeft(p) /\ StepsLeft(p)' < StepsLeft(p)
<1>1. UNCHANGED <<stage, tools>>
  BY CallEffect DEF PlanInv
<1>2. AgentsLeft(p)' = AgentsLeft(p) /\ ToolsLeft(p)' = ToolsLeft(p)
  BY <1>1 DEF AgentsLeft, ToolsLeft, One
<1>3. AttemptsLeft(p) \in 0..max_retries
  BY LeftBounds DEF PlanInv
<1>4. CallLeft(p)' \in Int /\ CallLeft(p)' < CallLeft(p)
  <2> USE DEF PlanInv, PlanTypes
  <2>1. CASE Send(p)
    <3>1. /\ attempt' = attempt
          /\ \/ call[p] = "bare" /\ call'[p] = "calling_bare"
             \/ call[p] \in {"ready", "sleeping"} /\ call'[p] = "calling"
      BY <2>1 DEF Send, SetCall
    <3> QED
      BY <1>3, <3>1, PipelineAssumption DEF CallLeft, AttemptsLeft
  <2>2. CASE Refuse(p) \/ Receive(p)
    <3>1. /\ attempt' = attempt
          /\ call[p] \in {"ready", "sleeping", "bare", "calling", "calling_bare"}
          /\ call'[p] \in {"failed", "answered"}
      BY <2>2 DEF Refuse, Receive, SetCall, InCall
    <3> QED
      BY <1>3, <3>1, PipelineAssumption DEF CallLeft, AttemptsLeft
  <2>3. CASE TypeErrorRaised(p)
    <3>1. attempt' = attempt /\ call[p] = "calling" /\ call'[p] = "bare"
      BY <2>3 DEF TypeErrorRaised, SetCall
    <3> QED
      BY <1>3, <3>1, PipelineAssumption DEF CallLeft, AttemptsLeft
  <2>4. CASE AttemptFails(p)
    <3>1. /\ call[p] \in {"calling", "calling_bare"}
          /\ \/ call'[p] = "sleeping" /\ attempt'[p] = attempt[p] + 1
             \/ call'[p] = "failed"
      BY <2>4 DEF AttemptFails, SetCall, InCall
    <3> QED
      BY <1>3, <3>1, PipelineAssumption DEF CallLeft, AttemptsLeft
  <2> QED
    BY <2>1, <2>2, <2>3, <2>4 DEF CallLLM
<1> QED
  BY <1>2, <1>4, LeftBounds DEF StepsLeft, PlanInv

\* The agent's own steps are done with a tool, or with the agent.
LEMMA AgentNears ==
    ASSUME PlanInv, NEW p \in Plans, Agent(p)
    PROVE  \/ AgentsLeft(p)' < AgentsLeft(p)
           \/ AgentsLeft(p)' = AgentsLeft(p) /\ StepsLeft(p)' < StepsLeft(p)
<1> USE DEF PlanInv, PlanTypes
<1>1. CASE FlightTools(p) \/ HotelAgent(p) \/ WeatherAgent(p)
  <2>1. UNCHANGED <<stage, call, attempt>>
        /\ \E a \in {"flight_agent", "hotel_agent", "weather_agent"} :
              a \in tools[p] /\ tools'[p] = tools[p] \ {a}
    BY <1>1 DEF FlightTools, HotelAgent, WeatherAgent, ToolsDone
  <2>2. AgentsLeft(p)' = AgentsLeft(p) /\ CallLeft(p)' = CallLeft(p)
    BY <2>1 DEF AgentsLeft, CallLeft, AttemptsLeft
  <2>3. ToolsLeft(p)' < ToolsLeft(p) /\ ToolsLeft(p)' \in Int
    BY <2>1 DEF ToolsLeft, One
  <2> QED
    BY <2>2, <2>3, LeftBounds, PipelineAssumption DEF StepsLeft
<1>2. CASE ~(FlightTools(p) \/ HotelAgent(p) \/ WeatherAgent(p))
  <2> USE DEF EndTurn, Turn, AgentsLeft, Stage
  <2>1. CASE advanced_guardrail_check(p) \/ guardrail_blocked_node(p) \/ create_plan(p)
    BY <2>1 DEF advanced_guardrail_check, guardrail_blocked_node, create_plan
  <2>2. CASE parallel_specialists_node(p)
    BY <2>2 DEF parallel_specialists_node
  <2>3. CASE BudgetAgent(p) \/ evaluate_plan(p) \/ ItineraryAgent(p) \/ run_final_agent(p)
    BY <2>3 DEF BudgetAgent, evaluate_plan, ItineraryAgent, run_final_agent
  <2> QED
    BY <1>2, <2>1, <2>2, <2>3 DEF Agent
<1> QED
  BY <1>1, <1>2

\* A plan only comes nearer to its rest: nobody else moves it.
LEMMA NobodySetsBack ==
    ASSUME TypeOK, PlanInv, [PipelineNext]_pipelineVars, NEW p \in Plans, stage[p] \notin AtRest
    PROVE  \/ AgentsLeft(p)' < AgentsLeft(p)
           \/ /\ AgentsLeft(p)' = AgentsLeft(p)
              /\ StepsLeft(p)' < StepsLeft(p) \/ StepsLeft(p)' = StepsLeft(p)
<1> USE DEF PlanInv, PlanTypes
<1>1. ASSUME stage'[p] = stage[p], call'[p] = call[p], attempt'[p] = attempt[p],
             tools'[p] = tools[p]
      PROVE  AgentsLeft(p)' = AgentsLeft(p) /\ StepsLeft(p)' = StepsLeft(p)
  BY <1>1 DEF AgentsLeft, StepsLeft, CallLeft, AttemptsLeft, ToolsLeft, One
<1>2. StepsLeft(p) \in Int /\ AgentsLeft(p) \in 1..6
  BY LeftBounds, PipelineAssumption
<1>3. CASE CallLLM(p) \/ Agent(p)
  BY <1>2, <1>3, CallNears, AgentNears
<1>4. CASE Disconnect(p)
  <2>1. stage'[p] = "idle"
    BY <1>4 DEF Disconnect
  <2>2. AgentsLeft(p)' = 0
    BY <2>1 DEF AgentsLeft
  <2> QED
    BY <1>2, <2>2
<1>5. ASSUME NEW q \in Plans \ {p},
             \/ Begin(q) \/ CallLLM(q) \/ Agent(q) \/ human_approval_node(q) \/ Disconnect(q)
      PROVE  /\ stage'[p] = stage[p] /\ call'[p] = call[p]
             /\ attempt'[p] = attempt[p] /\ tools'[p] = tools[p]
  <2>1. CASE CallLLM(q)
    BY <2>1, CallEffect
  <2>2. CASE Agent(q)
    BY <2>2, AgentEffect DEF EndTurn, SetCall
  <2>3. CASE Begin(q) \/ human_approval_node(q) \/ Disconnect(q)
    BY <2>3 DEF Begin, human_approval_node, Disconnect, SetCall
  <2> QED
    BY <1>5, <2>1, <2>2, <2>3
<1>6. CASE Begin(p) \/ human_approval_node(p)
  BY <1>6 DEF Begin, human_approval_node, AtRest
<1>7. CASE Elsewhere \/ (\E c \in Callers \ Plans : OtherCaller(c)) \/ UNCHANGED pipelineVars
  BY <1>1, <1>2, <1>7 DEF Elsewhere, OtherCaller, planVars, pipelineVars
<1> QED
  BY <1>1, <1>2, <1>3, <1>4, <1>5, <1>6, <1>7 DEF PipelineNext

\* No plan is left without a step that it can take.  The provers know nothing
\* of ENABLED: this is a hypothesis of what follows, and PlansHaveBranches is
\* what can be proved of it.
PlansCanGoOn ==
    \A p \in Plans :
        stage[p] \notin AtRest => ENABLED <<CallLLM(p) \/ Agent(p)>>_pipelineVars

\* As long as a plan can go on, it gets on.
LEMMA PlanNears ==
    ASSUME NEW p \in Plans, NEW a \in 1..6, NEW n \in Nat
    PROVE  PipelineFairSpec /\ []PlansCanGoOn => (Here(p, a, n) ~> Nearer(p, a, n))
<1>1. PipelineFairSpec => PipelineSpec /\ Goes(p)
  BY DEF PipelineFairSpec
<1>2. PipelineFairSpec => WF_pipelineVars(CallLLM(p) \/ Agent(p))
  BY <1>1, PTL DEF Goes
<1>3. PlanInv /\ PlansCanGoOn /\ Here(p, a, n)
        => ENABLED <<CallLLM(p) \/ Agent(p)>>_pipelineVars
  BY LeftBounds DEF PlanInv, PlansCanGoOn, Here
<1>4. TypeOK /\ PlanInv /\ [PipelineNext]_pipelineVars /\ Here(p, a, n)
        => Here(p, a, n)' \/ Nearer(p, a, n)'
  BY LeftBounds, NobodySetsBack DEF PlanInv, Here, Nearer
<1>5. TypeOK /\ PlanInv /\ <<CallLLM(p) \/ Agent(p)>>_pipelineVars /\ Here(p, a, n)
        => Nearer(p, a, n)'
  BY CallNears, AgentNears DEF Here, Nearer
<1> QED
  BY <1>1, <1>2, <1>3, <1>4, <1>5, PlanInvHolds, PlansUseBreaker, TypeCorrect, PTL
     DEF PipelineSpec

\* An agent is done after some of its steps; with one retry they are at most 11.
LEMMA AgentDone ==
    ASSUME max_retries <= 1, NEW p \in Plans, NEW a \in 1..6
    PROVE  PipelineFairSpec /\ []PlansCanGoOn => (AgentsLeft(p) = a ~> AgentsLeft(p) < a)
<1> DEFINE GetsOn(n) ==
        PipelineFairSpec /\ []PlansCanGoOn => (Here(p, a, n) ~> Nearer(p, a, n))
<1>1. \A n \in 0..11 : GetsOn(n)
  BY PlanNears
<1>2. /\ GetsOn(0) /\ GetsOn(1) /\ GetsOn(2) /\ GetsOn(3) /\ GetsOn(4) /\ GetsOn(5)
      /\ GetsOn(6) /\ GetsOn(7) /\ GetsOn(8) /\ GetsOn(9) /\ GetsOn(10) /\ GetsOn(11)
  <2> HIDE DEF GetsOn
  <2> QED
    BY <1>1
<1>3. ASSUME PlanInv
      PROVE  StepsLeft(p) \in 0..11
  BY <1>3, LeftBounds, PipelineAssumption DEF PlanInv
<1>4. /\ PlanInv /\ Nearer(p, a, 11) => Here(p, a, 10) \/ Nearer(p, a, 10)
      /\ PlanInv /\ Nearer(p, a, 10) => Here(p, a, 9) \/ Nearer(p, a, 9)
      /\ PlanInv /\ Nearer(p, a, 9) => Here(p, a, 8) \/ Nearer(p, a, 8)
      /\ PlanInv /\ Nearer(p, a, 8) => Here(p, a, 7) \/ Nearer(p, a, 7)
      /\ PlanInv /\ Nearer(p, a, 7) => Here(p, a, 6) \/ Nearer(p, a, 6)
      /\ PlanInv /\ Nearer(p, a, 6) => Here(p, a, 5) \/ Nearer(p, a, 5)
      /\ PlanInv /\ Nearer(p, a, 5) => Here(p, a, 4) \/ Nearer(p, a, 4)
      /\ PlanInv /\ Nearer(p, a, 4) => Here(p, a, 3) \/ Nearer(p, a, 3)
      /\ PlanInv /\ Nearer(p, a, 3) => Here(p, a, 2) \/ Nearer(p, a, 2)
      /\ PlanInv /\ Nearer(p, a, 2) => Here(p, a, 1) \/ Nearer(p, a, 1)
      /\ PlanInv /\ Nearer(p, a, 1) => Here(p, a, 0) \/ Nearer(p, a, 0)
  BY <1>3 DEF Here, Nearer
<1>5. PlanInv /\ AgentsLeft(p) = a => Here(p, a, 11) \/ Nearer(p, a, 11)
  BY <1>3 DEF Here, Nearer
<1>6. PlanInv /\ Nearer(p, a, 0) => AgentsLeft(p) < a
  BY <1>3 DEF Nearer
<1>7. PipelineFairSpec => []PlanInv
  BY PlanInvHolds DEF PipelineFairSpec
<1> QED
  BY <1>2, <1>4, <1>5, <1>6, <1>7, PTL

LEMMA PlanEnds ==
    ASSUME max_retries <= 1, NEW p \in Plans
    PROVE  PipelineFairSpec /\ []PlansCanGoOn => (stage[p] \notin AtRest ~> stage[p] \in AtRest)
<1> DEFINE GetsOn(a) ==
        PipelineFairSpec /\ []PlansCanGoOn => (AgentsLeft(p) = a ~> AgentsLeft(p) < a)
<1>1. \A a \in 1..6 : GetsOn(a)
  BY AgentDone
<1>2. GetsOn(1) /\ GetsOn(2) /\ GetsOn(3) /\ GetsOn(4) /\ GetsOn(5) /\ GetsOn(6)
  <2> HIDE DEF GetsOn
  <2> QED
    BY <1>1
<1>3. ASSUME PlanInv
      PROVE  AgentsLeft(p) \in 0..6 /\ (AgentsLeft(p) = 0 <=> stage[p] \in AtRest)
  BY <1>3, LeftBounds DEF PlanInv
<1>4. /\ PlanInv /\ AgentsLeft(p) < 6 => AgentsLeft(p) = 5 \/ AgentsLeft(p) < 5
      /\ PlanInv /\ AgentsLeft(p) < 5 => AgentsLeft(p) = 4 \/ AgentsLeft(p) < 4
      /\ PlanInv /\ AgentsLeft(p) < 4 => AgentsLeft(p) = 3 \/ AgentsLeft(p) < 3
      /\ PlanInv /\ AgentsLeft(p) < 3 => AgentsLeft(p) = 2 \/ AgentsLeft(p) < 2
      /\ PlanInv /\ AgentsLeft(p) < 2 => AgentsLeft(p) = 1 \/ AgentsLeft(p) < 1
      /\ PlanInv /\ AgentsLeft(p) < 1 => stage[p] \in AtRest
  BY <1>3
<1>5. PlanInv /\ stage[p] \notin AtRest => AgentsLeft(p) = 6 \/ AgentsLeft(p) < 6
  BY <1>3
<1>6. PipelineFairSpec => []PlanInv
  BY PlanInvHolds DEF PipelineFairSpec
<1> QED
  BY <1>2, <1>4, <1>5, <1>6, PTL

\* Every plan comes to its rest, whatever the provider, the breaker and the
\* other plans do, if the event loop serves each plan and none is ever left
\* without a step (PlansCanGoOn).  max_retries is 1 wherever
\* the code calls invoke_llm_with_resilience.
THEOREM PlansEnd ==
    ASSUME max_retries <= 1
    PROVE  PipelineFairSpec /\ []PlansCanGoOn => EveryPlanEnds
BY PlanEnds DEF EveryPlanEnds

-----------------------------------------------------------------------------
(* What PlansCanGoOn says, with the guards of CallLLM and Agent written out *)
(* in place of ENABLED.  Whatever is done under such a guard is a change:   *)
(* it brings the plan nearer to its rest (CallNears, AgentNears).           *)

MayAdmit(p) ==
    /\ ~Running(p)
    /\ \/ state = "CLOSED"
       \/ state = "HALF_OPEN" /\ active_half_open_trials < half_open_max_trials
       \/ state = "OPEN" /\ CooldownOver

HasBranch(p) ==
    \/ /\ call[p] \in {"ready", "sleeping", "bare"}
       /\ Asks(p)
       /\ MayAdmit(p) \/ Rejects
    \/ call[p] \in InCall /\ Running(p)
    \/ stage[p] = "guardrail_blocked"
    \/ stage[p] = "specialists" /\ tools[p] \cap Specialists # {}
    \/ stage[p] = "specialists" /\ tools[p] = {} /\ FlightAgentDone(p)
    \/ /\ stage[p] \in {"guardrail", "planner", "budget", "critic", "itinerary", "final"}
       /\ Consulted(p)

\* The breaker lets a plan in or turns it away, a call under way is in the
\* breaker and can be answered, and an agent whose LLM was asked, or that has
\* none, can end its turn: for every configuration, cut of the agents' list and
\* number of plans no plan is left without a branch of the code.
THEOREM PlansHaveBranches ==
    PipelineSpec => [](\A p \in Plans : stage[p] \notin AtRest => HasBranch(p))
<1>1. ASSUME TypeOK, PlanInv, NEW p \in Plans, stage[p] \notin AtRest
      PROVE  HasBranch(p)
  <2> USE <1>1 DEF PlanInv, PlanTypes
  <2>1. CASE call[p] \in InCall
    BY <2>1 DEF HasBranch, InsideBreaker
  <2>2. CASE stage[p] = "guardrail_blocked"
    BY <2>2 DEF HasBranch
  <2>3. CASE stage[p] = "specialists" /\ tools[p] # {}
    BY <2>3 DEF HasBranch
  <2>4. CASE Consulted(p) /\ ~(stage[p] = "specialists" /\ tools[p] # {})
    BY <2>4 DEF HasBranch, FlightAgentDone, Stage, AtRest
  <2>5. CASE /\ stage[p] = "specialists" /\ tools[p] = {}
             /\ "flight_agent" \notin Specialists
    BY <2>5 DEF HasBranch, FlightAgentDone
  <2>6. ASSUME /\ ~Consulted(p) /\ call[p] \notin InCall
               /\ stage[p] # "guardrail_blocked"
               /\ stage[p] = "specialists" =>
                     tools[p] = {} /\ "flight_agent" \in Specialists
        PROVE  HasBranch(p)
    <3>1. call[p] \in {"ready", "sleeping", "bare"}
      BY <2>6 DEF Consulted, CallState, InCall
    <3>2. Asks(p)
      BY <2>6 DEF Asks, Consulted
    <3>3. MayAdmit(p) \/ Rejects
      <4>1. ~Running(p)
        BY <2>6 DEF InsideBreaker
      <4>2. state \in {"CLOSED", "OPEN", "HALF_OPEN"}
        BY DEF TypeOK, CircuitState
      <4>3. active_half_open_trials < half_open_max_trials
              \/ active_half_open_trials >= half_open_max_trials
        BY BreakerAssumption DEF TypeOK
      <4> QED
        BY <4>1, <4>2, <4>3 DEF MayAdmit, Rejects
    <3> QED
      BY <3>1, <3>2, <3>3 DEF HasBranch
  <2> QED
    BY <2>1, <2>2, <2>3, <2>4, <2>5, <2>6
<1>2. TypeOK /\ PlanInv => \A p \in Plans : stage[p] \notin AtRest => HasBranch(p)
  BY <1>1
<1> QED
  BY <1>2, PlanInvHolds, PlansUseBreaker, TypeCorrect, PTL

=============================================================================
