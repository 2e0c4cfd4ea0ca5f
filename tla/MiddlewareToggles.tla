------------------------- MODULE MiddlewareToggles -------------------------
(***************************************************************************)
(* Which middlewares an agent is given: MIDDLEWARE_REGISTRY, the default   *)
(* lists, the gates and _resolve_toggles of agent/stack.py.                *)
(*                                                                         *)
(* gates is the set of conditioned middlewares whose condition holds: the  *)
(* rubric gate is enabled, model_retry is on, tool_retry is configured,    *)
(* browser tools and PUX_BROWSER_VISION are there, the transport asks for  *)
(* the warm-up, and a web_research server is armed.                        *)
(***************************************************************************)
EXTENDS FiniteSets

Conditioned == {"rubric", "model_retry", "tool_retry", "browser_vision", "prepare", "web-router"}

\* MIDDLEWARE_REGISTRY.
BothScopes == {"audit", "context", "rubric", "read_file_vision", "browser_vision", "prompt_caching"}
Registered == BothScopes \cup Conditioned \cup
    {"routing", "session_guide", "prompt_capture", "interpreter_hints", "interpreter"}
Allowed(scope) == IF scope = "subagent" THEN BothScopes ELSE Registered

\* DEFAULT_SUPERVISOR and DEFAULT_SUBAGENT.
DefaultSubagent == {"context", "read_file_vision", "prompt_caching"}
Defaults(scope) ==
    IF scope = "subagent" THEN DefaultSubagent
    ELSE DefaultSubagent \cup {"routing", "session_guide", "prompt_capture"}

\* Each gate sees the defaults, the additions and the gates before it: the hints
\* come with the interpreter, which no gate turns on.
Gated(gates, scope, adds) ==
    Allowed(scope) \cap
        (gates \cup (IF "interpreter" \in Defaults(scope) \cup adds THEN {"interpreter_hints"} ELSE {}))

\* _resolve_toggles: removals take away defaults and gated ones, additions win.
TurnedOn(gates, scope, adds, removes) ==
    ((Defaults(scope) \cup Gated(gates, scope, adds)) \ removes) \cup adds

\* An unknown name, or one the scope does not allow.
ToggleFails(gates, scope, adds, removes) == ~(TurnedOn(gates, scope, adds, removes) \subseteq Allowed(scope))

\* The builder of a conditioned middleware looks at the condition once more.
BuildNothing(gates) == Conditioned \ gates

\* What is turned on is built, even if it was added by name, unless its builder
\* finds the condition missing.
Mounted(gates, scope, adds, removes) ==
    TurnedOn(gates, scope, adds, removes) \ BuildNothing(gates)
=============================================================================
