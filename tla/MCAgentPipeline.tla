-------------------------- MODULE MCAgentPipeline --------------------------
(* One plan and another user of the provider's breaker, with and without a *)
(* provider.                                                               *)
EXTENDS AgentPipeline

CONSTANTS p1, c1

MCCallers == {p1, c1}
MCPlans == {p1}
MCConfigurations == {{"groq", "openrouter"}, {}}

=============================================================================
