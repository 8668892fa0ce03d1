----------------------------- MODULE ToolSource -----------------------------
(***************************************************************************)
(* What MCPManager of mcp_client.py promises about one server to those who *)
(* ask it for tools, whatever its lock, its caches and its clocks do: one  *)
(* caller at a time opens a session and loads tools, none does while the   *)
(* server rests after a failure, a new session is one whose tools are in   *)
(* nobody's hands, and a tool that is handed out belongs to the session in *)
(* use, whose tools have been loaded.                                      *)
(***************************************************************************)
CONSTANTS Callers, Sessions, None

VARIABLES
    session,    \* the session in use, or None
    ready,      \* its tools have been loaded
    given,      \* per caller: the session of the tool in its hands, or None
    loading,    \* the callers that open the session or load its tools
    resting     \* the server is left alone after a failure

vars == <<session, ready, given, loading, resting>>

Init ==
    /\ session = None
    /\ ready = FALSE
    /\ given = [c \in Callers |-> None]
    /\ loading = {}
    /\ resting = FALSE

Begin(c) ==
    /\ loading = {}
    /\ ready = FALSE /\ resting = FALSE
    /\ loading' = {c}
    /\ UNCHANGED <<session, ready, given, resting>>

Open(c) ==
    /\ loading = {c}
    /\ session = None
    /\ session' \in Sessions \ {given[d] : d \in Callers}
    /\ UNCHANGED <<ready, given, loading, resting>>

\* The tools are there: everybody may have them, the caller has its own.
Load(c) ==
    /\ loading = {c}
    /\ session # None
    /\ given[c] = None
    /\ ready' = TRUE
    /\ given' = [given EXCEPT ![c] = session]
    /\ loading' = {}
    /\ UNCHANGED <<session, resting>>

\* The attempt has failed.  Whether the server is due a rest depends on how long
\* ago it began: the rest is counted from there.
Fail(c) ==
    /\ loading = {c}
    /\ session' = None
    /\ loading' = {}
    /\ resting' \in BOOLEAN
    /\ UNCHANGED <<ready, given>>

\* Somebody's tool has crashed: whatever is in use is given up, and now the
\* server rests.
GiveUp ==
    /\ loading = {}
    /\ session' = None
    /\ ready' = FALSE
    /\ resting' = TRUE
    /\ UNCHANGED <<given, loading>>

\* The caller at work is called off: what it has done so far stays.
Abandon(c) ==
    /\ loading = {c}
    /\ loading' = {}
    /\ UNCHANGED <<session, ready, given, resting>>

HandOut(c) ==
    /\ ready = TRUE
    /\ given[c] = None
    /\ given' = [given EXCEPT ![c] = session]
    /\ UNCHANGED <<session, ready, loading, resting>>

Return(c) ==
    /\ given[c] # None
    /\ given' = [given EXCEPT ![c] = None]
    /\ UNCHANGED <<session, ready, loading, resting>>

RestOver ==
    /\ resting' = FALSE
    /\ UNCHANGED <<session, ready, given, loading>>

Next ==
    \/ GiveUp \/ RestOver
    \/ \E c \in Callers :
          \/ Begin(c) \/ Open(c) \/ Load(c) \/ Fail(c) \/ Abandon(c)
          \/ HandOut(c) \/ Return(c)

Spec == Init /\ [][Next]_vars

=============================================================================
