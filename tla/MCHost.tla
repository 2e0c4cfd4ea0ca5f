------------------------------- MODULE MCHost -------------------------------
EXTENDS ModelCalls, McpHost, DynamicFunctions, BrowserServers, OrgRuntime, ThreadRows, AgentLoop

\* A behaviour is one of one of these parts, which share no state.
VARIABLE part

MCRequests ==
    {r \in [role : {"base", "worker"},
            pins : {{}, {"literal"}, {"org"}, {"orgRole"}, {"roleEnv"}, {"legacyEnv"}, {"legacyEnv", "org"}},
            broken : {{}, {"tier"}, {"key"}, {"orgRole"}},
            form : {"tools", "structured", "bareSync", "bareAsync"}, kind : {"openai", "anthropic"},
            pinned : BOOLEAN, watchdog : BOOLEAN, streamed : BOOLEAN] : RequestOK(r)}
MCTo == [m \in Messages |-> "t"]
MCPortOf == [p \in Processes |-> 9900]
MCJobsOf ==
    ("plain" :> <<>>)
    @@ ("preparing" :> <<[named |-> TRUE, scripted |-> TRUE, gated |-> TRUE],
                         [named |-> FALSE, scripted |-> TRUE, gated |-> FALSE]>>)

MCAgents ==
    LET all == {"audit", "context", "routing", "read_file_vision", "browser_vision", "interpreter_hints"}
        base == [mounted |-> all, sighted |-> TRUE, other |-> FALSE, declares |-> TRUE, classifier |-> FALSE,
                 goesOn |-> TRUE, retries |-> {}]
    IN  {base, [base EXCEPT !.sighted = FALSE], [base EXCEPT !.other = TRUE],
         [base EXCEPT !.mounted = @ \cup {"tool_retry"}, !.retries = {"report"}],
         [base EXCEPT !.mounted = @ \cup {"tool_retry"}, !.retries = {"report"}, !.goesOn = FALSE],
         [base EXCEPT !.mounted = @ \cup {"web-router"}],
         [base EXCEPT !.mounted = @ \cup {"web-router"}, !.classifier = TRUE, !.sighted = FALSE],
         [base EXCEPT !.mounted = {"audit", "context", "read_file_vision"}, !.sighted = FALSE, !.declares = FALSE]}
MCToolCalls ==
    {[tool |-> t, marks |-> {}] : t \in {"execute", "browser_click", "read_file", "eval", "task", "report"}}
    \cup {[tool |-> "execute", marks |-> m] : m \in {{"shellFetch", "toFile"}, {"shellFetch", "script"}, {"script"}}}
    \cup {[tool |-> t, marks |-> {"pyFetch"}] : t \in {"python", "ctx_execute"}}
    \cup {[tool |-> "ctx_fetch_and_index", marks |-> {}]}

CallIdle ==
    /\ request = CHOOSE r \in Requests : TRUE
    /\ stage = "done" /\ link = 0 /\ unpinned = FALSE
    /\ idles = 0 /\ attempt = 1 /\ shown = 0 /\ visible = FALSE
    /\ causes = {} /\ repeated = {} /\ error = "none"

HostPartsInit ==
    /\ part \in {"calls", "host", "functions", "browser", "runtime", "rows", "loop"}
    /\ IF part = "calls" THEN CallInit ELSE CallIdle
    /\ BrowserInit /\ (part # "browser" => own = "down")
    /\ HostInit /\ DynInit /\ RuntimeInit /\ RowsInit
    /\ LoopInit /\ (part # "loop" => agent = CHOOSE a \in Agents : TRUE)

allVars == <<part, callVars, hostVars, dynVars, browserVars, runtimeVars, rowVars, loopVars>>

HostPartsNext ==
    \/ part = "calls" /\ CallNext /\ UNCHANGED <<part, hostVars, dynVars, browserVars, runtimeVars, rowVars, loopVars>>
    \/ part = "host" /\ HostNext /\ UNCHANGED <<part, callVars, dynVars, browserVars, runtimeVars, rowVars, loopVars>>
    \/ part = "functions" /\ DynNext /\ UNCHANGED <<part, callVars, hostVars, browserVars, runtimeVars, rowVars, loopVars>>
    \/ part = "browser" /\ BrowserNext /\ UNCHANGED <<part, callVars, hostVars, dynVars, runtimeVars, rowVars, loopVars>>
    \/ part = "runtime" /\ RuntimeNext /\ UNCHANGED <<part, callVars, hostVars, dynVars, browserVars, rowVars, loopVars>>
    \/ part = "rows" /\ RowsNext /\ UNCHANGED <<part, callVars, hostVars, dynVars, browserVars, runtimeVars, loopVars>>
    \/ part = "loop" /\ LoopNext /\ UNCHANGED <<part, callVars, hostVars, dynVars, browserVars, runtimeVars, rowVars>>

\* The timers of ModelCalls are the only fairness.
HostPartsSpec == HostPartsInit /\ [][HostPartsNext]_allVars /\ WF_callVars(CallNext)
=============================================================================
