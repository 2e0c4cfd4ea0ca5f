----------------------------- MODULE AgentLoop -----------------------------
(***************************************************************************)
(* The loop of one agent: a model call, the tool call it asks for, and the *)
(* middlewares each passes through, in the order of MIDDLEWARE_REGISTRY    *)
(* (agent/stack.py), the first of it outermost.                            *)
(*                                                                         *)
(* A tool call goes down through audit, context and routing, which may     *)
(* answer in its place, to tool_retry and the tool; the answer comes up    *)
(* through interpreter_hints, browser_vision and read_file_vision, and     *)
(* then through context, which puts long text aside, and audit.  A model   *)
(* call goes through the two vision middlewares and the web router, which  *)
(* change the list of messages it is given.                                *)
(***************************************************************************)
EXTENDS Naturals, FiniteSets, Sequences

CONSTANTS
    Agents,         \* how the agent was built, see AgentOK
    ToolCalls,      \* the calls its model may ask for: a tool, and the marks of its arguments
    ToolAttempts,   \* executions tool_retry allows, the first included
    MaxToolCalls,   \* bound: tool calls of a conversation
    MaxTexts        \* bound: messages of the user

VARIABLES
    agent,      \* how this one was built
    messages,   \* the conversation, without the results that are plain text
    at,         \* "user", "model", "call", "run" or "over"
    asked,      \* the tool call being made, or the last one
    tries,      \* executions of its tool
    ended,      \* what became of the last tool call, <<>> before there is one
    sent,       \* what the last model call was given, <<>> before there is one
    rounds,     \* web rounds made for the user's question
    forgotten,  \* one of them left no brief in the conversation, or had another query
    ncalls, ntexts  \* counters of the bounds

loopVars == <<agent, messages, at, asked, tries, ended, sent, rounds, forgotten, ncalls, ntexts>>

Shell == {"execute"}                    \* intercept_tools
Context == {"ctx_execute", "ctx_fetch_and_index"}
Exempt == Context                       \* _DENY_EXEMPT_TOOLS
Retrieving == Context                   \* _RETRIEVAL_TOOLS
Screens == {"browser_click"}            \* _SCREENSHOT_SLUGS, under _BROWSER_PREFIX
Layers == {"audit", "context", "routing", "tool_retry", "read_file_vision", "browser_vision",
           "interpreter_hints", "web-router"}

\* The marks of arguments that routing looks for: Python or shell that fetches from
\* the network, the latter into a file, and a script the org declares as a tool.
Marks == {"pyFetch", "shellFetch", "toFile", "script"}
ASSUME ToolCallsOK == \A c \in ToolCalls : c.marks \subseteq Marks

\* The middlewares that are mounted; whether the role's model can see, which the
\* vision middlewares are told; whether the agent runs another model than its
\* role's (model: in its own file, or the one the editor's user has chosen); the
\* tools that tool_retry is scoped to, and whether it goes on when it gives up;
\* whether the org declares scripts; whether a model decides about web rounds.
AgentOK(a) ==
    /\ a.mounted \subseteq Layers
    /\ a.sighted \in BOOLEAN /\ a.other \in BOOLEAN /\ a.declares \in BOOLEAN /\ a.classifier \in BOOLEAN
    /\ a.goesOn \in BOOLEAN

ASSUME AgentsOK == \A a \in Agents : AgentOK(a)

Nothing == [tool |-> "none", marks |-> {}]
LoopInit ==
    /\ agent \in Agents
    /\ messages = <<>> /\ at = "user" /\ asked = Nothing /\ tries = 0 /\ ended = <<>> /\ sent = <<>>
    /\ rounds = 0 /\ forgotten = FALSE /\ ncalls = 0 /\ ntexts = 0

Has(layer) == layer \in agent.mounted

-----------------------------------------------------------------------------
(***************************************************************************)
(* The user, and the model.                                                *)
(***************************************************************************)

\* The user writes: something, a question about the world (always the same), or an image.
UserWrites ==
    /\ at = "user" /\ ntexts < MaxTexts
    /\ \E kind \in {"text", "question", "upload"} : messages' = Append(messages, kind)
    /\ at' = "model" /\ ntexts' = ntexts + 1
    /\ UNCHANGED <<agent, asked, tries, ended, sent, rounds, forgotten, ncalls>>

Human == {"text", "question", "upload", "shot", "note", "brief"}
Pictures == {"upload", "shot", "image"}

\* Mutant: pictures are stripped only from what tools have returned.
SanitizedTools(ms) == [k \in DOMAIN ms |-> IF ms[k] = "image" THEN "text" ELSE ms[k]]

\* _sanitize_messages, for a driver that is taken for blind.
Sanitized(ms) == [k \in DOMAIN ms |-> IF ms[k] \in Pictures THEN "text" ELSE ms[k]]

\* _prune_old_screenshots: the last two pictures that came as messages of the
\* user stay, whoever sent them; the pictures in tool results are not counted.
Pruned(ms) ==
    [k \in DOMAIN ms |->
        IF ms[k] \in {"upload", "shot"} /\ Cardinality({j \in DOMAIN ms : j > k /\ ms[j] \in {"upload", "shot"}}) >= 2
        THEN "note" ELSE ms[k]]

Shown(ms) ==
    LET clean == IF Has("read_file_vision") /\ ~agent.sighted THEN Sanitized(ms) ELSE ms
    IN  IF Has("browser_vision") THEN Pruned(clean) ELSE clean

\* _latest_human_text: also a message that a middleware has put beside a tool's
\* result, in which heuristic_needs_web finds nothing.
Asking(ms) ==
    \E k \in DOMAIN ms : ms[k] = "question" /\ \A j \in DOMAIN ms : j > k => ms[j] \notin Human

\* Mutant: the brief is looked for where the answers are.
AlreadyInjectedLast(ms) == ms # <<>> /\ ms[Len(ms)] = "brief"

\* _already_injected, for the query of the brief.
AlreadyInjected(ms) == \E k \in DOMAIN ms : ms[k] = "brief"

\* arun_web_round: research, or search, and a digest by the worker model.  A brief
\* is never empty; whatever raises means no brief.
RoundOutcomes == {"brief", "failed"}

\* The query of a round: the question itself, or what the classifier calls it,
\* which may differ from one call to the next.
Queries == {"same"} \cup (IF agent.classifier /\ rounds > 0 THEN {"other"} ELSE {})

\* awrap_model_call of the web router.  The brief is inserted into the very list
\* the request carries: the conversation keeps it if that is the conversation's
\* list, and not if a layer further out has made another one.
WebRound ==
    \/ /\ ~(Has("web-router") /\ Asking(Shown(messages)) /\ ~AlreadyInjected(Shown(messages)))
       /\ UNCHANGED <<messages, rounds, forgotten>>
    \/ /\ Has("web-router") /\ Asking(Shown(messages))
       /\ \E query \in Queries, outcome \in RoundOutcomes, copied \in BOOLEAN :
            /\ AlreadyInjected(Shown(messages)) => query = "other"
            /\ Shown(messages) # messages => copied
            /\ rounds' = rounds + 1
            /\ forgotten' = (forgotten \/ copied \/ outcome = "failed" \/ query = "other")
            /\ messages' = IF copied \/ outcome = "failed" THEN messages ELSE <<"brief">> \o messages
    \/ \* The classifier says NONE, or fails.
       /\ Has("web-router") /\ Asking(Shown(messages)) /\ agent.classifier
       /\ UNCHANGED <<messages, rounds, forgotten>>

\* The model answers the user, or asks for a tool.  It is the role's, unless the
\* agent has another one, or the chain has failed over: these may be blind.
ModelCall ==
    /\ at = "model"
    /\ WebRound
    /\ \E failover, sees \in BOOLEAN :
        /\ failover => ~agent.other
        /\ sees # agent.sighted => failover \/ agent.other
        /\ sent' = [pictures |-> Cardinality({k \in DOMAIN messages : Shown(messages)[k] \in Pictures}),
                    sees |-> sees, failover |-> failover]
    /\ \/ at' = "user" /\ UNCHANGED <<asked, ncalls>>
       \/ /\ ncalls < MaxToolCalls /\ ncalls' = ncalls + 1
          /\ at' = "call" /\ asked' \in ToolCalls
    /\ UNCHANGED <<agent, tries, ended, ntexts>>

-----------------------------------------------------------------------------
(***************************************************************************)
(* The way down: routing.                                                  *)
(***************************************************************************)

\* _extract_scan and _deny_tag: the arguments fetch something from the network,
\* in Python or in the shell; in the shell not if the output goes to a file.
Denied(c) ==
    /\ c.tool \notin Exempt
    /\ "pyFetch" \in c.marks \/ ("shellFetch" \in c.marks /\ "toFile" \notin c.marks)

\* _declared_redirect: a shell command runs a script, with the subcommand, that
\* the org declares as a tool.
Redirected(c) == agent.declares /\ c.tool \in Shell /\ "script" \in c.marks

\* An answer on its way up.  A command carries its message, and perhaps one more
\* of the user's kind, and updates of other parts of the agent's state.
Answer(text, form, status) ==
    [carrier |-> "message", text |-> text, form |-> form, status |-> status,
     state |-> {}, companion |-> "none"]

-----------------------------------------------------------------------------
(***************************************************************************)
(* The way up, from the tool outwards.                                     *)
(***************************************************************************)

\* _enrich_eval_result: a classified failure of eval gets a note beside it.
Hinted(r) ==
    IF Has("interpreter_hints") /\ asked.tool = "eval" /\ r.carrier = "message" /\ r.form = "evalError"
    THEN [r EXCEPT !.carrier = "command", !.companion = "note"] ELSE r

\* _screenshot_b64: a screenshot that cannot be fetched, or is too large, is left
\* out; a driver that is taken for blind gets a note about it instead.
Companions == IF agent.sighted THEN {"shot", "none"} ELSE {"note"}

\* BrowserVisionMiddleware._enrich, for the page an action of the browser returns.
Enriched(r, companion) ==
    IF Has("browser_vision") /\ asked.tool \in Screens /\ r.carrier = "message" /\ r.form = "page"
       /\ companion # "none"
    THEN [r EXCEPT !.carrier = "command", !.companion = companion] ELSE r

\* A description by the multimodal role, or a pointer to describe_image; the
\* status stays.
InWords(r) == [r EXCEPT !.form = "plain", !.text = "short"]

\* ReadFileVisionMiddleware._intercept.
Described(r) ==
    IF Has("read_file_vision") /\ ~agent.sighted /\ r.carrier = "message" /\ r.form = "picture"
    THEN InWords(r) ELSE r

\* _stub, and _trim_browser_payload, which keeps the skeleton of a page: the whole
\* is stashed, and a new message without the status takes its place.
Stub(r) == [r EXCEPT !.text = "short", !.status = "ok", !.form = "stub"]

\* Mutant: a command is always made anew.
OffloadedAlways(r) ==
    IF ~Has("context") \/ asked.tool \in Retrieving \/ (r.text # "long" /\ r.carrier = "message") THEN r
    ELSE [(IF r.text = "long" THEN Stub(r) ELSE r) EXCEPT !.state = {}]

\* _offload: the command around long text is made anew too, with its messages only.
Offloaded(r) ==
    IF ~Has("context") \/ asked.tool \in Retrieving \/ r.text # "long" THEN r
    ELSE [Stub(r) EXCEPT !.state = {}]

\* AuditMiddleware: an exception, or _outcome_of what comes up.
Outcome(truth, r) == IF truth = "raised" \/ (r.carrier = "message" /\ r.status = "error") THEN "error" ELSE "ok"

Audited(truth, r) == IF Has("audit") THEN Outcome(truth, r) ELSE "none"

\* The call is over for the tool: r leaves the layers below context.
Surface(truth, r) ==
    LET up == Offloaded(r)
        result == IF up.form = "picture" THEN <<"image">> ELSE <<>>
    IN  /\ ended' = [truth |-> truth, audited |-> Audited(truth, up),
                     form |-> up.form, brought |-> r.state, kept |-> up.state]
        /\ messages' = messages \o result \o (IF up.companion = "none" THEN <<>> ELSE <<up.companion>>)
        /\ at' = "model"

\* RoutingMiddleware._respond: the tool is not called, and nothing says it failed.
Route ==
    /\ at = "call" /\ Has("routing") /\ (Denied(asked) \/ Redirected(asked))
    /\ Surface("notRun", Answer("short", "plain", "ok"))
    /\ UNCHANGED <<agent, asked, tries, sent, rounds, forgotten, ncalls, ntexts>>

Pass ==
    /\ at = "call" /\ ~(Has("routing") /\ (Denied(asked) \/ Redirected(asked)))
    /\ at' = "run" /\ tries' = 1
    /\ UNCHANGED <<agent, messages, asked, ended, sent, rounds, forgotten, ncalls, ntexts>>

-----------------------------------------------------------------------------
(***************************************************************************)
(* The tool.                                                               *)
(***************************************************************************)

\* ctx_execute says in words that the language is not known, that time is up, or
\* that the code failed.
ExecuteAnswers == {[truth |-> t, r |-> Answer(s, "plain", "ok")] : t \in {"ok", "exit"}, s \in {"short", "long"}}

\* ctx_fetch_and_index, like ctx_execute_file, says nothing but that time is up:
\* once the sandbox has answered, exit_code and out, which nothing has assigned,
\* raise a NameError, and nothing is ever stashed for its cache to find.
FetchAnswers == {[truth |-> "exit", r |-> Answer("short", "plain", "ok")]}

\* What tools answer, and whether it was a success.  The tools of the sandbox say
\* in their JSON that something failed, and no more: _make_runner of a declared
\* script that exits with an error, too.  A subagent's report (task) is a command
\* that also carries what the subagent left in the shared state.
Answers(tool) ==
    LET size == {"short", "long"}
    IN  CASE tool = "browser_click" ->
                {[truth |-> "ok", r |-> Answer(s, "page", "ok")] : s \in size}
          [] tool = "read_file" ->
                {[truth |-> "ok", r |-> Answer("none", "picture", "ok")]}
                    \cup {[truth |-> "error", r |-> Answer("short", "plain", "error")]}
          [] tool = "eval" ->
                {[truth |-> "exit", r |-> Answer("short", "evalError", "ok")]}
                    \cup {[truth |-> "ok", r |-> Answer(s, "plain", "ok")] : s \in size}
          [] tool = "task" ->
                {[truth |-> "ok", r |-> [Answer(s, "plain", "ok") EXCEPT !.carrier = "command", !.state = {"files"}]] :
                    s \in size}
          [] tool = "ctx_execute" -> ExecuteAnswers
          [] tool = "ctx_fetch_and_index" -> FetchAnswers
          [] tool \in {"python", "report"} ->
                {[truth |-> t, r |-> Answer(s, "plain", "ok")] : t \in {"ok", "exit"}, s \in size}
          [] OTHER ->
                {[truth |-> t, r |-> Answer(s, "plain", t)] : t \in {"ok", "error"}, s \in size}

ToolAnswers ==
    /\ at = "run"
    /\ \E a \in Answers(asked.tool), companion \in Companions :
        Surface(a.truth, Described(Enriched(Hinted(a.r), companion)))
    /\ UNCHANGED <<agent, asked, tries, sent, rounds, forgotten, ncalls, ntexts>>

Retried == Has("tool_retry") /\ asked.tool \in agent.retries

\* tool_retry runs the tool again after an error of the transport.
Again ==
    /\ at = "run" /\ Retried /\ tries < ToolAttempts
    /\ tries' = tries + 1
    /\ UNCHANGED <<agent, messages, at, asked, ended, sent, rounds, forgotten, ncalls, ntexts>>

\* It gives up at once after any other error, and goes on with an error message.
GiveUp ==
    /\ at = "run" /\ Retried /\ agent.goesOn
    /\ \E s \in {"short", "long"} : Surface("gaveUp", Answer(s, "plain", "error"))
    /\ UNCHANGED <<agent, asked, tries, sent, rounds, forgotten, ncalls, ntexts>>

\* The exception goes up through the layers, which record it, and ends the turn.
Raise ==
    /\ at = "run" /\ ~(Retried /\ agent.goesOn)
    /\ ended' = [truth |-> "raised", form |-> "none", brought |-> {}, kept |-> {},
                 audited |-> Audited("raised", Answer("none", "plain", "ok"))]
    /\ at' = "over"
    /\ UNCHANGED <<agent, messages, asked, tries, sent, rounds, forgotten, ncalls, ntexts>>

LoopNext ==
    \/ UserWrites \/ ModelCall \/ Route \/ Pass
    \/ ToolAnswers \/ Again \/ GiveUp \/ Raise

LoopSpec == LoopInit /\ [][LoopNext]_loopVars

-----------------------------------------------------------------------------
(***************************************************************************)
(* Properties.                                                             *)
(***************************************************************************)

\* What the layers above a tool change about its call, they change only by putting
\* its text aside: only then is an error in the audit log an "ok", the audit being
\* outside of context, and only then is what the tool brought for the agent's
\* state lost (middleware.py:187-191, 225; stack.py:817-823).  A tool that fails
\* without saying so in the status, and a call that was never made, are "ok" too.
OnlyOffloadingDistorts ==
    ended # <<>> =>
        /\ ended.audited = "error" => ended.truth \in {"error", "gaveUp", "raised"}
        /\ ended.audited = "ok" =>
              ended.truth \in {"ok", "exit", "notRun"} \/ (ended.truth \in {"error", "gaveUp"} /\ ended.form = "stub")
        /\ ended.kept # ended.brought => ended.form = "stub"

\* A model that cannot see is sent a picture only if it is not the one the
\* middlewares were told of: the agent's own model:, the model the editor's user
\* has chosen, or a fallback (stack.py:422-426, 451-461; orgs.py:512-515; graph.py:93).
BlindGetsNoPicture ==
    sent # <<>> /\ Has("read_file_vision") /\ ~sent.sees /\ sent.pictures > 0 => sent.failover \/ agent.other

\* A question is looked up on the web again only if the brief could not be kept:
\* it went into a list that was not the conversation's, the round had failed, or
\* the classifier called the question otherwise (web_router.py:264-297).
RoundsOnlyIfForgotten == rounds > 1 => forgotten
=============================================================================
