---------------------------- MODULE AgentPipeline ----------------------------
(***************************************************************************)
(* One request's way through the agents: the input guardrail, the planner, *)
(* the parallel specialists, budget, critic, itinerary, the human's        *)
(* decision and the final answer (tripmate/agents/ and the nodes of        *)
(* tripmate/graph/workflow.py), and the path of each LLM call through      *)
(* invoke_llm_with_resilience: at most max_retries retries, a time-out per *)
(* attempt and the circuit breaker of the provider.                        *)
(*                                                                         *)
(* The breaker is the module CircuitBreaker.  A request is one of its      *)
(* Callers, because it never has two LLM calls under way; the other        *)
(* Callers are other users of the breaker.  All calls go to the breaker    *)
(* named "groq", the default of provider_name, whichever provider's client *)
(* get_model returned.                                                     *)
(*                                                                         *)
(* Prompts, answers, evidence and latencies are left out: what is kept of  *)
(* an answer is whether there was one, and a guardrail's verdict.  The     *)
(* tools of a specialist never raise (see ToolCalls); they only take time. *)
(***************************************************************************)
EXTENDS CircuitBreaker

CONSTANTS
    Plans,                \* the requests under way, some of the Callers
    Configurations,       \* sets of providers whose API keys may be set
    NoLibrary,            \* providers whose client cannot be created
    max_retries,
    MAX_PARALLEL_AGENTS

ASSUME PipelineAssumption ==
    /\ Plans \subseteq Callers
    /\ max_retries \in Nat
    /\ MAX_PARALLEL_AGENTS \in Nat

VARIABLES
    keys,       \* the providers whose API keys are set, the same for ever
    stage,      \* the agent or node that each plan is at
    call,       \* how far the LLM call of that agent is
    attempt,    \* retries made of it
    tools       \* tools that the specialists of the plan still wait for

planVars == <<stage, call, attempt, tools>>
pipelineVars == <<vars, keys, planVars>>

NoModel == "none"
priority == [groq |-> 1, openrouter |-> 2, huggingface |-> 3]
Provider == DOMAIN priority

is_configured(s) == s \in keys
create_model(s) == IF is_configured(s) /\ s \notin NoLibrary THEN s ELSE NoModel

\* The breakers of the providers are not consulted.
get_model ==
    LET usable == {s \in Provider : create_model(s) # NoModel}
    IN  IF usable = {} THEN NoModel
        ELSE CHOOSE s \in usable : \A t \in usable : priority[s] <= priority[t]

AGENT_ORDER == <<"flight_agent", "hotel_agent", "weather_agent",
                 "budget_agent", "itinerary_agent">>

\* Every agent is in KNOWN_AGENTS, so the planner's selection does not matter;
\* the list is cut off after MAX_PARALLEL_AGENTS.
selected_agents == {AGENT_ORDER[i] : i \in {j \in 1..5 : j <= MAX_PARALLEL_AGENTS}}
Specialists == {"flight_agent", "hotel_agent", "weather_agent"} \cap selected_agents

Stage == {"idle", "guardrail", "guardrail_blocked", "planner", "specialists", "budget",
          "critic", "itinerary", "human_approval", "final"}
AtRest == {"idle", "human_approval"}
CallState == {"ready", "calling", "bare", "calling_bare", "sleeping", "answered", "failed"}
InCall == {"calling", "calling_bare"}

PipelineInit ==
    /\ Init
    /\ keys \in Configurations
    /\ stage = [p \in Plans |-> "idle"]
    /\ call = [p \in Plans |-> "ready"]
    /\ attempt = [p \in Plans |-> 0]
    /\ tools = [p \in Plans |-> {}]

-----------------------------------------------------------------------------
(* invoke_llm_with_resilience.                                             *)

SetCall(p, c) == call' = [call EXCEPT ![p] = c]

\* The agent whose turn it is has an LLM to ask and its data at hand.
Asks(p) ==
    /\ stage[p] \notin AtRest \cup {"guardrail_blocked"}
    /\ stage[p] = "specialists" =>
          "flight_agent" \in Specialists /\ "flight_agent" \notin tools[p]
    /\ get_model # NoModel

\* The first attempt, the next one, or the call without config after TypeError.
Send(p) ==
    /\ Asks(p)
    /\ call[p] \in {"ready", "sleeping", "bare"}
    /\ Admit(p)
    /\ SetCall(p, IF call[p] = "bare" THEN "calling_bare" ELSE "calling")
    /\ UNCHANGED <<keys, stage, attempt, tools>>

Rejects ==
    \/ state = "OPEN" /\ ~CooldownOver
    \/ state = "HALF_OPEN" /\ active_half_open_trials >= half_open_max_trials

\* CircuitBreakerOpenException is raised at once.
Refuse(p) ==
    /\ Asks(p)
    /\ call[p] \in {"ready", "sleeping", "bare"}
    /\ Rejects
    /\ SetCall(p, "failed")
    /\ UNCHANGED <<vars, keys, stage, attempt, tools>>

Receive(p) ==
    /\ call[p] \in InCall
    /\ Succeed(p)
    /\ SetCall(p, "answered")
    /\ UNCHANGED <<keys, stage, attempt, tools>>

\* A client that does not accept config is asked again without.
TypeErrorRaised(p) ==
    /\ call[p] = "calling"
    /\ FailPermanent(p)
    /\ SetCall(p, "bare")
    /\ UNCHANGED <<keys, stage, attempt, tools>>

MayTryAgain(p) == attempt[p] < max_retries

\* Mutation of AttemptFails: the attempts are not counted.
AttemptFailsUncounted(p) ==
    /\ call[p] \in InCall
    /\ FailTransient(p) \/ FailPermanent(p) \/ TimeOut(p)
    /\ SetCall(p, "sleeping")
    /\ UNCHANGED <<keys, stage, attempt, tools>>
\* Errors of either kind and time-outs are retried after a sleep.
AttemptFails(p) ==
    /\ call[p] \in InCall
    /\ FailTransient(p) \/ FailPermanent(p) \/ TimeOut(p)
    /\ \/ /\ MayTryAgain(p)
          /\ attempt' = [attempt EXCEPT ![p] = @ + 1]
          /\ SetCall(p, "sleeping")
       \/ /\ ~MayTryAgain(p)
          /\ SetCall(p, "failed")
          /\ UNCHANGED attempt
    /\ UNCHANGED <<keys, stage, tools>>

CallLLM(p) ==
    Send(p) \/ Refuse(p) \/ Receive(p) \/ TypeErrorRaised(p) \/ AttemptFails(p)

-----------------------------------------------------------------------------
(* The agents.  Each ends its turn with the LLM's answer, with what it does *)
(* without an LLM, or with its fallback for every exception.                *)

Consulted(p) == call[p] \in {"answered", "failed"} \/ get_model = NoModel

EndTurn(p, next) ==
    /\ stage' = [stage EXCEPT ![p] = next]
    /\ SetCall(p, "ready")
    /\ attempt' = [attempt EXCEPT ![p] = 0]
    /\ UNCHANGED <<vars, keys>>

\* The query is checked by deterministic_input_check before any LLM sees it.
Begin(p) ==
    /\ stage[p] = "idle"
    /\ \E s \in {"guardrail", "guardrail_blocked"} : stage' = [stage EXCEPT ![p] = s]
    /\ UNCHANGED <<vars, keys, call, attempt, tools>>

\* Only an answer of the LLM blocks the request here: without an LLM, without
\* an answer, or with one that cannot be parsed, it is allowed.
advanced_guardrail_check(p) ==
    /\ stage[p] = "guardrail"
    /\ Consulted(p)
    /\ \/ EndTurn(p, "planner")
       \/ call[p] = "answered" /\ EndTurn(p, "guardrail_blocked")
    /\ UNCHANGED tools

guardrail_blocked_node(p) ==
    /\ stage[p] = "guardrail_blocked"
    /\ EndTurn(p, "idle")
    /\ UNCHANGED tools

\* run_supervisor_routing: _default_plan leads to the same routing.
create_plan(p) ==
    /\ stage[p] = "planner"
    /\ Consulted(p)
    /\ EndTurn(p, "specialists")
    /\ tools' = [tools EXCEPT ![p] = Specialists]

\* The specialists work concurrently; the tools of each are done at some time.
ToolsDone(p, agent) ==
    /\ agent \in tools[p]
    /\ tools' = [tools EXCEPT ![p] = @ \ {agent}]
    /\ UNCHANGED <<vars, keys, stage, call, attempt>>
FlightTools(p) == ToolsDone(p, "flight_agent")
HotelAgent(p) == ToolsDone(p, "hotel_agent")
WeatherAgent(p) == ToolsDone(p, "weather_agent")

\* The flight agent, the only specialist with an LLM call, has ended its turn.
FlightAgentDone(p) == "flight_agent" \in Specialists => Consulted(p)

parallel_specialists_node(p) ==
    /\ stage[p] = "specialists"
    /\ tools[p] = {}
    /\ FlightAgentDone(p)
    /\ EndTurn(p, IF "budget_agent" \in selected_agents THEN "budget" ELSE "critic")
    /\ UNCHANGED tools

Turn(p, from, to) ==
    /\ stage[p] = from
    /\ Consulted(p)
    /\ EndTurn(p, to)
    /\ UNCHANGED tools
BudgetAgent(p) == Turn(p, "budget", "critic")
\* The report is stored; the way on does not depend on it.
evaluate_plan(p) == Turn(p, "critic", "itinerary")
ItineraryAgent(p) == Turn(p, "itinerary", "human_approval")
run_final_agent(p) == Turn(p, "final", "idle")

\* The human answers, or does not.
human_approval_node(p) ==
    /\ stage[p] = "human_approval"
    /\ stage' = [stage EXCEPT ![p] = "final"]
    /\ UNCHANGED <<vars, keys, call, attempt, tools>>

\* A client that leaves a stream cancels the plan with its call; a call that
\* the healthy provider answers anyway is not given up (see Heal).
Disconnect(p) ==
    /\ stage[p] \notin AtRest
    /\ IF call[p] \in InCall THEN TimeOut(p) ELSE UNCHANGED vars
    /\ stage' = [stage EXCEPT ![p] = "idle"]
    /\ SetCall(p, "ready")
    /\ attempt' = [attempt EXCEPT ![p] = 0]
    /\ tools' = [tools EXCEPT ![p] = {}]
    /\ UNCHANGED keys

Agent(p) ==
    \/ advanced_guardrail_check(p) \/ guardrail_blocked_node(p)
    \/ create_plan(p) \/ FlightTools(p) \/ HotelAgent(p) \/ WeatherAgent(p)
    \/ parallel_specialists_node(p) \/ BudgetAgent(p) \/ evaluate_plan(p)
    \/ ItineraryAgent(p) \/ run_final_agent(p)

OtherCaller(c) == (Admit(c) \/ Finish(c)) /\ UNCHANGED <<keys, planVars>>
Elsewhere == (reset \/ Tick \/ Heal) /\ UNCHANGED <<keys, planVars>>

PipelineNext ==
    \/ \E p \in Plans :
          Begin(p) \/ CallLLM(p) \/ Agent(p) \/ human_approval_node(p) \/ Disconnect(p)
    \/ \E c \in Callers \ Plans : OtherCaller(c)
    \/ Elsewhere

PipelineSpec == PipelineInit /\ [][PipelineNext]_pipelineVars

\* The event loop runs every plan that can go on; calls and tools are under
\* time-outs.  Nobody owes a new plan, a decision or a disconnection.  The
\* other users of the breaker are as fair as in CircuitBreaker.
Goes(p) == WF_pipelineVars(CallLLM(p) \/ Agent(p))
OtherGoes(c) ==
    /\ WF_pipelineVars(Admit(c) /\ UNCHANGED <<keys, planVars>>)
    /\ WF_pipelineVars(Finish(c) /\ UNCHANGED <<keys, planVars>>)
TimePasses == WF_pipelineVars(Tick /\ UNCHANGED <<keys, planVars>>)
PipelineFairSpec ==
    /\ PipelineSpec
    /\ \A p \in Plans : Goes(p)
    /\ \A c \in Callers \ Plans : OtherGoes(c)
    /\ TimePasses

-----------------------------------------------------------------------------

\* Types of the variables; a plan is inside the breaker exactly while its call
\* is under way, and at rest only without a call.
PipelineTypeOK ==
    /\ TypeOK
    /\ stage \in [Plans -> Stage]
    /\ call \in [Plans -> CallState]
    /\ attempt \in [Plans -> 0..max_retries]
    /\ tools \in [Plans -> SUBSET Specialists]
    /\ \A p \in Plans : Running(p) <=> call[p] \in InCall

\* Every plan gets to the human, and from the human to its answer, whatever the
\* provider does and even if the breaker never lets a call through again.
EveryPlanEnds == \A p \in Plans : stage[p] \notin AtRest ~> stage[p] \in AtRest

=============================================================================
