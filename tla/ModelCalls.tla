----------------------------- MODULE ModelCalls -----------------------------
(***************************************************************************)
(* One turn of an agent's model node: get_model (agent/model.py) resolves  *)
(* a role to a model and a fallback chain, and the node calls it until the *)
(* answer is complete or an error ends the turn.                           *)
(*                                                                         *)
(* Four layers react to an error, and each must leave the other three's    *)
(* errors alone: the provider pin (_PinnedProviderOpenAI: one retry        *)
(* without the pin), the idle watchdog (ReasoningChatOpenAI.astream: a     *)
(* retry while nothing was shown), the fallback chain                      *)
(* (_FallbackReasoningChatOpenAI and its Anthropic twin, by LangChain's    *)
(* with_fallbacks), and the retry policy of the node (agent/retry.py).     *)
(***************************************************************************)
EXTENDS Naturals, FiniteSets

CONSTANTS
    Requests,       \* how models are asked for and called, see RequestOK
    Chain,          \* length of the active tier's fallback chain
    IdleRetries,    \* PUX_STREAM_IDLE_RETRIES
    NodeAttempts,   \* max_attempts of the node's RetryPolicy
    MaxPieces       \* bound: pieces of output a turn shows

ASSUME BoundsAreNatural ==
    Chain \in Nat /\ IdleRetries \in Nat /\ NodeAttempts \in Nat \ {0} /\ MaxPieces \in Nat \ {0}

\* A request: the role, what pins it to one model (the agent's literal model:,
\* the org's models: block by an id or by an @role, the two environment
\* variables), what the configuration has wrong, what the caller binds, the
\* wire protocol, the provider pin, whether the idle watchdog is on, and whether
\* somebody takes the output piece by piece.
Pin == {"literal", "org", "orgRole", "roleEnv", "legacyEnv"}
RequestOK(r) ==
    /\ r.role \in {"base", "worker", "multimodal", "grader"}
    /\ r.pins \subseteq Pin
    /\ r.broken \subseteq {"tier", "orgRole", "provider", "key"}
    /\ r.form \in {"tools", "structured", "bareSync", "bareAsync"}
    /\ r.kind \in {"openai", "anthropic"}
    /\ r.pinned \in BOOLEAN /\ r.watchdog \in BOOLEAN /\ r.streamed \in BOOLEAN
    /\ r.pinned => r.kind = "openai"
    /\ r.streamed => r.form # "bareSync"

ASSUME RequestsOK == \A r \in Requests : RequestOK(r)

VARIABLES
    request,    \* what is asked for
    stage,      \* "resolve", "call", "stream", "done" or "failed"
    link,       \* the client being called: 0 the primary, k the k-th fallback
    unpinned,   \* the call goes through the twin without a provider pin
    idles,      \* idle retries this client has made
    attempt,    \* executions of the node so far
    shown,      \* pieces of output of the running call the caller has seen
    visible,    \* the caller has seen output of this turn
    causes,     \* errors after which the model was called again
    repeated,   \* errors after which it was called again although output was visible
    error       \* the error that ended the turn

callVars == <<request, stage, link, unpinned, idles, attempt, shown, visible, causes, repeated, error>>

\* The errors of a model call: transient (rate limit, timeout of the client,
\* connection, 5xx), rejected (authentication, bad request, not found), a bad
\* request whose message speaks of a stalled stream, the chunk timeout of
\* langchain-openai, the 404 of a pin nobody can serve, the watchdog's stall.
Failures == {"transient", "rejected", "stalledRequest", "chunkTimeout", "pin404", "idle"}

CallTypeOK ==
    /\ request \in Requests
    /\ stage \in {"resolve", "call", "stream", "done", "failed"}
    /\ link \in 0..Chain /\ unpinned \in BOOLEAN
    /\ idles \in 0..IdleRetries /\ attempt \in 1..NodeAttempts
    /\ shown \in 0..MaxPieces /\ visible \in BOOLEAN
    /\ causes \subseteq Failures /\ repeated \subseteq Failures
    /\ error \in Failures \cup {"none", "config"}

CallInit ==
    /\ request \in Requests
    /\ stage = "resolve" /\ link = 0 /\ unpinned = FALSE
    /\ idles = 0 /\ attempt = 1 /\ shown = 0 /\ visible = FALSE
    /\ causes = {} /\ repeated = {} /\ error = "none"

-----------------------------------------------------------------------------
(***************************************************************************)
(* Resolution: where the id comes from, and whether it may be exchanged.   *)
(***************************************************************************)

\* resolve_model_id: the first source that has an id.
Source(r) ==
    CASE "literal" \in r.pins -> "literal"
      [] "literal" \notin r.pins /\ r.pins \cap {"org", "orgRole"} # {} ->
            IF "org" \in r.pins THEN "org" ELSE "orgRole"
      [] r.pins \cap {"literal", "org", "orgRole"} = {} /\ "roleEnv" \in r.pins -> "roleEnv"
      [] r.pins \ {"legacyEnv"} = {} /\ "legacyEnv" \in r.pins /\ r.role = "base" -> "legacyEnv"
      [] OTHER -> "tier"

\* Mutant: the legacy variable is forgotten among the overrides.
RoleOverriddenButLegacy(r) == r.pins \ {"legacyEnv"} # {}

\* _role_overridden: the second reading of the same priorities.
RoleOverridden(r) ==
    \/ r.pins \ {"legacyEnv"} # {}
    \/ r.role = "base" /\ "legacyEnv" \in r.pins

\* _spec, active_tier, _provider_profile and the key in the environment: what
\* makes get_model raise.  An unknown PUX_TIER is noticed only where the tier is read.
ConfigFails(r) ==
    \/ r.broken \cap {"provider", "key"} # {}
    \/ "orgRole" \in r.broken /\ Source(r) = "orgRole"
    \/ "tier" \in r.broken /\ (Source(r) \in {"tier", "orgRole"} \/ ~RoleOverridden(r))

\* The fallbacks behind the client: none for an overridden role, and none for a
\* bare asynchronous call, because only bind_tools, with_structured_output and
\* the synchronous _generate know the chain.
Fallbacks(r) == IF RoleOverridden(r) \/ r.form = "bareAsync" THEN 0 ELSE Chain

\* Mutant: the schema and the tools are bound to no client.
CarriesFormNever(r, k) == r.form \notin {"tools", "structured"}

\* bind_tools binds the primary only and chains the fallbacks as they are;
\* with_structured_output gives each of them the schema.
CarriesForm(r, k) == k = 0 \/ r.form # "tools"

Resolve ==
    /\ stage = "resolve"
    /\ IF ConfigFails(request) THEN stage' = "failed" /\ error' = "config"
                               ELSE stage' = "call" /\ UNCHANGED error
    /\ UNCHANGED <<request, link, unpinned, idles, attempt, shown, visible, causes, repeated>>

-----------------------------------------------------------------------------
(***************************************************************************)
(* The calls.                                                              *)
(***************************************************************************)

Streams(r) == r.streamed
Watched(r) == r.watchdog /\ r.kind = "openai" /\ Streams(r)

\* A piece of output arrives and is passed on.
Piece ==
    /\ stage \in {"call", "stream"} /\ Streams(request) /\ shown < MaxPieces
    /\ stage' = "stream"
    /\ shown' = shown + 1 /\ visible' = TRUE
    /\ UNCHANGED <<request, link, unpinned, idles, attempt, causes, repeated, error>>

Complete ==
    /\ stage \in {"call", "stream"}
    /\ stage' = "done"
    /\ UNCHANGED <<request, link, unpinned, idles, attempt, shown, visible, causes, repeated, error>>

\* The errors a call may raise: the pin is refused before the first piece, the
\* silence of the provider is reported by whoever watches it.
MayRaise(e) ==
    /\ stage \in {"call", "stream"}
    /\ CASE e = "pin404" -> request.pinned /\ ~unpinned /\ link = 0 /\ stage = "call"
         [] e = "idle" -> Watched(request)
         [] e = "chunkTimeout" -> Streams(request) /\ request.kind = "openai" /\ ~Watched(request)
         [] OTHER -> TRUE

\* Call again because of e.
CallAgain(e) ==
    /\ stage' = "call" /\ shown' = 0
    /\ causes' = causes \cup {e}
    /\ repeated' = IF visible THEN repeated \cup {e} ELSE repeated
    /\ UNCHANGED <<request, visible, error>>

\* Who catches the 404 of a pin: _generate, _stream and _astream.  What _agenerate calls
\* is a coroutine, which raises only when _degrade has returned it.
CatchesPin(r) == Streams(r) \/ r.form = "bareSync"

\* Once more, through a twin without the pin.
Unpin ==
    /\ MayRaise("pin404") /\ ~unpinned /\ CatchesPin(request)
    /\ unpinned' = TRUE
    /\ CallAgain("pin404")
    /\ UNCHANGED <<link, idles, attempt>>

IdleRetryable == shown = 0 /\ idles < IdleRetries

\* Mutant: the watchdog retries a stall in the middle of the output too.
IdleRetryAlways ==
    /\ MayRaise("idle") /\ idles < IdleRetries
    /\ idles' = idles + 1 /\ unpinned' = FALSE
    /\ CallAgain("idle")
    /\ UNCHANGED <<link, attempt>>

\* astream: a stall before any piece reached the caller starts the stream again.
IdleRetry ==
    /\ MayRaise("idle") /\ IdleRetryable
    /\ idles' = idles + 1 /\ unpinned' = FALSE
    /\ CallAgain("idle")
    /\ UNCHANGED <<link, attempt>>

\* with_fallbacks: a transient error before the first piece.
FailsOver(e) == e = "transient" /\ link < Fallbacks(request) /\ shown = 0

\* The next client of the chain takes over.
Failover(e) ==
    /\ MayRaise(e) /\ FailsOver(e)
    /\ link' = link + 1 /\ unpinned' = FALSE /\ idles' = 0
    /\ CallAgain(e)
    /\ UNCHANGED attempt

\* retry_on_stream_stall.  A chunk timeout is an asyncio.TimeoutError, which is
\* TimeoutError, and those are refused first; _StreamIdle matches no class name
\* and no substring of the list.
Recoverable(e) == e \in {"transient", "stalledRequest"}

Handled(e) ==
    \/ e = "pin404" /\ ~unpinned /\ CatchesPin(request)
    \/ e = "idle" /\ IdleRetryable
    \/ FailsOver(e)

\* Mutant: the policy does not count its attempts.
NodeRetryForever(e) ==
    /\ MayRaise(e) /\ ~Handled(e) /\ Recoverable(e)
    /\ attempt' = attempt /\ link' = 0 /\ unpinned' = FALSE /\ idles' = 0
    /\ CallAgain(e)

\* The policy of the node runs the model node again, from the primary.
NodeRetry(e) ==
    /\ MayRaise(e) /\ ~Handled(e) /\ Recoverable(e) /\ attempt < NodeAttempts
    /\ attempt' = attempt + 1 /\ link' = 0 /\ unpinned' = FALSE /\ idles' = 0
    /\ CallAgain(e)

\* The error leaves the node.
Fail(e) ==
    /\ MayRaise(e) /\ ~Handled(e)
    /\ ~(Recoverable(e) /\ attempt < NodeAttempts)
    /\ stage' = "failed" /\ error' = e
    /\ UNCHANGED <<request, link, unpinned, idles, attempt, shown, visible, causes, repeated>>

CallNext ==
    \/ Resolve
    \/ Piece
    \/ Complete
    \/ Unpin
    \/ IdleRetry
    \/ \E e \in Failures : Failover(e) \/ NodeRetry(e) \/ Fail(e)

CallSpec == CallInit /\ [][CallNext]_callVars
\* Every silence has a timer: the watchdog, the chunk timeout or the client's timeout.
CallFairSpec == CallSpec /\ WF_callVars(CallNext)

-----------------------------------------------------------------------------
(***************************************************************************)
(* Properties.                                                             *)
(***************************************************************************)

\* A model that was asked for explicitly, by a literal, an org or the
\* environment, is never exchanged for a fallback: the two readings of the
\* priorities, resolve_model_id (model.py:457-496) and _role_overridden
\* (model.py:425-440), agree for every combination of sources.
PinIsHard == link > 0 => Source(request) = "tier"

\* Output the caller has seen is repeated only by the policy of the node, and only
\* after an error it lets through has cut that output off: a rate limit, a broken
\* connection, a 5xx, the timeout of the client, or a bad request whose message
\* speaks of a stall.  The watchdog, the pin and the chain never repeat it, and
\* a silence that the watchdog or the chunk timeout reports never leads to it
\* (reasoning.py:213-218, retry.py:45-107).
RepeatNeedsCutOff ==
    repeated # {} => attempt > 1 /\ repeated \cap {"transient", "stalledRequest"} # {}

\* The model that ends a turn has lost the tools only if the primary failed
\* over: bind_tools binds the primary alone (model.py:643-644), although the
\* class says that it binds every fallback (model.py:617-619).
ToolsLostOnlyByFailover ==
    stage = "done" /\ ~CarriesForm(request, link) =>
        "transient" \in causes /\ Source(request) = "tier"

\* What retry.py:18-24 and graph.py:141-149 say of the node: a stream the provider lets
\* fall silent, a StreamChunkTimeoutError, is retried in place, so that it ends no turn
\* before the attempts are used up.  (It ends the turn at once: it is a TimeoutError,
\* and retry.py:79-80 refuses those before line 85 can accept it.)
StallIsRetriedInPlace == error = "chunkTimeout" => attempt = NodeAttempts

\* A refused pin costs at most one extra call per stream, never a loop, and every turn
\* ends: the layers' retries are nested, and each is bounded.
TurnEnds == <>(stage \in {"done", "failed"})
=============================================================================
