----------------------------- MODULE AgentStack -----------------------------
(***************************************************************************)
(* build_graph (agent/graph.py), build_stack (agent/stack.py) and          *)
(* load_subagents (agent/orgs.py): an org's files become a supervisor, its *)
(* tools and middlewares, and one agent per entry of the roster.           *)
(*                                                                         *)
(* One action per reading of the files.  Each loader reads its file again, *)
(* so an edit between two of them gives a build made of two versions.      *)
(***************************************************************************)
EXTENDS OrgAudit, OrgKit

CONSTANTS
    Start,      \* the versions a build may start with
    Requests,   \* the builds asked for: the org; whether the transport is attended, warms up
                \* and can see; the MCP tools that are armed
    Retrieval   \* the tools of the context layer

VARIABLES
    version,    \* the files as they are
    edited,     \* they were edited during the build
    seen,       \* the versions the build has met
    request,    \* the org, what the transport says, the MCP tools that are armed
    step,       \* the next reading, "done" or "failed"
    reason,     \* what the build failed on
    profile,    \* load_profile's answer
    gates,      \* the conditioned middlewares whose condition holds
    sub,        \* the additions and removals for the agents of the roster
    mounted,    \* the middlewares of the supervisor
    surface,    \* the tools an agent may list
    tools,      \* the tools of the supervisor
    declared,   \* the servers the org declares, as the roster was read
    waiting,    \* agents of the roster still to build
    agents      \* the agents built

vars == <<version, edited, seen, request, step, reason, profile, gates, sub, mounted,
          surface, tools, declared, waiting, agents>>
files == World[version]
org == request.org
Steps == {"profile", "gate", "retries", "overrides", "surface", "askUser", "allowlist",
          "prompt", "roster", "agents", "general", "done", "failed"}

\* prefixed and make_specialist_tools.
Sandbox(s) == {<<"pux", t>> : t \in s}
SpecialistTools == Sandbox(Specialists)
AskUser == <<"ask_user">>

\* A request is for an org of the project, not for a base; no tool that is opened for
\* it, and none of the context layer, has the name of ask_user.
ASSUME StartIsKnown == Start \subseteq Versions
ASSUME RequestsAreWellFormed ==
    \A r \in Requests :
        /\ r = [org |-> r.org, transport |-> r.transport, armed |-> r.armed]
        /\ r.org \notin DOMAIN Bare
        /\ AskUser \notin r.armed
ASSUME AskUserIsApart == AskUser \notin Retrieval

Armed(server) == {t \in request.armed : t[2] = server}

\* The MCP tools are opened for the servers the org declares, and for none if one
\* of them is unknown; a server may be down.
Openable(w, o) ==
    IF DOMAIN DeclaredMcp(w, o) \subseteq w.catalog THEN DOMAIN DeclaredMcp(w, o) ELSE {}

StackInit ==
    /\ version \in Start /\ edited = FALSE /\ seen = {version}
    /\ \E r \in Requests : request = [r EXCEPT !.armed = {t \in @ : t[2] \in Openable(files, r.org)}]
    /\ step = "profile" /\ reason = "none"
    /\ profile = <<>> /\ gates = {} /\ sub = [add |-> {}, remove |-> {}] /\ mounted = {}
    /\ surface = {} /\ tools = {} /\ declared = {} /\ waiting = {} /\ agents = <<>>

Stop(why) ==
    /\ step' = "failed" /\ reason' = why
    /\ UNCHANGED <<version, edited, seen, request, profile, gates, sub, mounted, surface,
                   tools, declared, waiting, agents>>
\* The part of a step that leaves everything but the listed variables alone.
Proceed(to) == step' = to /\ UNCHANGED <<version, edited, seen, request, reason>>

-----------------------------------------------------------------------------
(***************************************************************************)
(* The supervisor.                                                         *)
(***************************************************************************)

\* graph.py: load_profile.  Read once, and handed down.
ReadProfile ==
    /\ step = "profile"
    /\ IF LoaderFails(files, org, "profile") THEN Stop("profile")
       ELSE /\ profile' = Profile(files, org)
            /\ Proceed("gate")
            /\ UNCHANGED <<gates, sub, mounted, surface, tools, declared, waiting, agents>>

\* load_rubric_gate.
ReadGate ==
    /\ step = "gate"
    /\ IF LoaderFails(files, org, "rubric") THEN Stop("rubric")
       ELSE /\ gates' = If(Get(Profile(files, org), "rubric", FALSE), "rubric")
            /\ Proceed("retries")
            /\ UNCHANGED <<profile, sub, mounted, surface, tools, declared, waiting, agents>>

\* _model_retry_from_block: on, unless the block says otherwise; and _tool_retry_from_block,
\* which needs a list of tools.
RetriesModel(p) == Get(p, "modelRetry", TRUE)
RetriesTools(p) == "toolRetry" \in DOMAIN p
RouterArmed == Armed("web_research") # {}

\* load_model_retry, load_tool_retry, load_web_router_config, and the conditions
\* that StackCtx knows without a file.
ReadRetries ==
    /\ step = "retries"
    /\ LET p == Profile(files, org)
       IN  IF \E b \in {"modelRetry", "toolRetry", "webRouter"} : LoaderFails(files, org, b)
           THEN Stop("retries")
           ELSE /\ gates' = gates \cup If(RetriesModel(p), "model_retry")
                                  \cup If(RetriesTools(p), "tool_retry")
                                  \cup If("prepare" \in request.transport, "prepare")
                                  \cup If("vision" \in request.transport, "browser_vision")
                                  \cup If(RouterArmed, "web-router")
                /\ Proceed("overrides")
                /\ UNCHANGED <<profile, sub, mounted, surface, tools, declared, waiting, agents>>

\* _normalize_overrides: the profile's excluded middlewares are taken from the
\* supervisor alone.
ForSupervisor(p) ==
    [add |-> Get(p, "supAdd", {}),
     remove |-> Get(p, "supRemove", {}) \cup Get(profile, "excludedMiddleware", {})]
ForAgents(p) == [add |-> Get(p, "subAdd", {}), remove |-> Get(p, "subRemove", {})]

\* load_middleware_overrides, the supervisor's toggles and the baseline of the agents.
ReadOverrides ==
    /\ step = "overrides"
    /\ LET sup == ForSupervisor(Profile(files, org))
           baseline == ForAgents(Profile(files, org))
       IN  IF \/ LoaderFails(files, org, "middleware")
              \/ ToggleFails(gates, "supervisor", sup.add, sup.remove)
              \/ ToggleFails(gates, "subagent", baseline.add, baseline.remove)
           THEN Stop("middleware")
           ELSE /\ mounted' = Mounted(gates, "supervisor", sup.add, sup.remove)
                /\ sub' = baseline
                /\ Proceed("surface")
                /\ UNCHANGED <<profile, gates, surface, tools, declared, waiting, agents>>

\* The context layer gives its tools to whoever asks, if the supervisor has it.
ContextTools == IF "context" \in mounted THEN Retrieval ELSE {}
Excluded(s) == Get(s, "excludedTools", {})

Declared(w, o) == IF HasDir(w, o) THEN Dir(w, o).declared ELSE {}

\* CapabilityResolver.resolve: the registry's tools, the declared scripts, and the
\* dynamic tools if the policy says so.
Surface(w, o) ==
    SpecialistTools \cup Sandbox(Declared(w, o))
        \cup (IF DynamicOn(w, o) THEN {<<"dyn", t>> : t \in Dynamic} ELSE {})

\* The supervisor's tools, but for what the profile excludes.
ReadSurface ==
    /\ step = "surface"
    /\ IF PolicyFails(files, org) THEN Stop("policy")
       ELSE /\ surface' = Surface(files, org)
            /\ tools' = (request.armed \cup surface' \cup ContextTools) \ Excluded(profile)
            /\ Proceed("askUser")
            /\ UNCHANGED <<profile, gates, sub, mounted, declared, waiting, agents>>

\* load_ask_user_enabled: opt in, and never where nobody would answer.
ReadAskUser ==
    /\ step = "askUser"
    /\ IF LoaderFails(files, org, "askUser") THEN Stop("askUser")
       ELSE /\ tools' = tools \cup If(Get(Profile(files, org), "askUser", FALSE)
                                        /\ "attended" \in request.transport, AskUser)
            /\ Proceed("allowlist")
            /\ UNCHANGED <<profile, gates, sub, mounted, surface, declared, waiting, agents>>

\* Mutant: a policy that lists no group lets every specialist through.
AllowedSlugsOpen(w, o) ==
    IF Get(Policy(w, o), "groups", {}) = {} THEN Specialists
    ELSE UNION {Get(Groups, g, {g}) : g \in Get(Policy(w, o), "groups", {})}

\* resolve_tool_allowlist: groups and single slugs; without any, no specialist.
AllowedSlugs(w, o) == UNION {Get(Groups, g, {g}) : g \in Get(Policy(w, o), "groups", {})}
GroupsFail(w, o) == ~(Get(Policy(w, o), "groups", {}) \subseteq DOMAIN Groups \cup Specialists)

\* _scope_supervisor_tools: only the registry's tools are scoped.
Scoped(given, slugs) == given \ Sandbox(Specialists \ slugs)

\* The policy is read a second time; then comes the guard on base_system_prompt.
ReadAllowlist ==
    /\ step = "allowlist"
    /\ IF PolicyFails(files, org) THEN Stop("policy")
       ELSE IF GroupsFail(files, org) THEN Stop("groups")
       ELSE IF "basePrompt" \in DOMAIN profile THEN Stop("basePrompt")
       ELSE /\ tools' = Scoped(tools, AllowedSlugs(files, org))
            /\ Proceed("prompt")
            /\ UNCHANGED <<profile, gates, sub, mounted, surface, declared, waiting, agents>>

\* assemble_prompt of the supervisor.
ReadPrompt ==
    /\ step = "prompt"
    /\ IF PromptFails(files, org) THEN Stop("prompt")
       ELSE IF ExtraPartsFail(files, org) THEN Stop("extraParts")
       ELSE /\ Proceed("roster")
            /\ UNCHANGED <<profile, gates, sub, mounted, surface, tools, declared, waiting, agents>>

-----------------------------------------------------------------------------
(***************************************************************************)
(* The agents of the roster.                                               *)
(***************************************************************************)

\* load_subagents before its loop.
ReadRoster ==
    /\ step = "roster"
    /\ IF org \notin Discovered(files) THEN Stop("org")
       ELSE IF RosterFails(files, org) THEN Stop("roster")
       ELSE /\ declared' = DOMAIN DeclaredMcp(files, org)
            /\ waiting' = Roster(files, org)
            /\ Proceed("agents")
            /\ UNCHANGED <<profile, gates, sub, mounted, surface, tools, agents>>

\* _resolve_tools: every listed tool but the native ones has a name under
\* pux_sandbox_, and must be on the surface.
Listed(spec) == Sandbox(Get(spec, "tools", {}) \ Natives)

\* _resolve_mcp: the ref must be declared by the org itself, its allowlist ("*" if
\* it has none) exposed by the server; a server that is down gives nothing.
McpRefused(spec) ==
    \E s \in DOMAIN Get(spec, "mcp", <<>>) :
        \/ s \notin declared
        \/ Armed(s) # {} /\ ~(spec.mcp[s] \subseteq {"*"} \cup {t[3] : t \in Armed(s)})
Routed(spec) ==
    {t \in request.armed : t[2] \in DOMAIN Get(spec, "mcp", <<>>) /\ {"*", t[3]} \cap spec.mcp[t[2]] # {}}

\* Mutant: an agent that lists only servers gives no tools key.
WideIfNoTools(spec) == Get(spec, "tools", {}) = {}

\* _build_sub gives no tools key to an agent that lists nothing, and deepagents
\* gives such an agent the supervisor's tools.
Wide(spec) == Get(spec, "tools", {}) = {} /\ DOMAIN Get(spec, "mcp", <<>>) = {}

\* Mutant: the agent's own exclusions are forgotten.
OwnToolsButAgent(spec) == (Listed(spec) \cup Routed(spec)) \ Excluded(profile)

\* load_subagents: the org's exclusions, then the agent's.
OwnTools(spec) == ((Listed(spec) \cup Routed(spec)) \ Excluded(profile)) \ Excluded(spec)

\* Mutant: the retrieval tools are not appended.
WithoutRetrieval(own) == own

\* Then the retrieval tools, for an agent that has any tool left.
WithRetrieval(own) == IF own = {} THEN {} ELSE own \cup ContextTools

\* make_subagent_middleware_builder: an agent's own middlewares, over the baseline.
AgentAdds(spec) == sub.add \cup Get(spec, "middleware", {})

\* The agent's own rubric text, in front of the grader.
Override(spec) ==
    /\ Get(spec, "middleware", {}) # {} /\ "rubric" \in DOMAIN spec
    /\ "rubric" \in gates \cap (AgentAdds(spec) \ sub.remove)

\* What _build_sub and the rest of the turn make of a spec.
Built(slug, spec) ==
    [name |-> Get(spec, "name", slug),
     wide |-> Wide(spec),
     tools |-> IF Wide(spec) THEN tools ELSE WithRetrieval(OwnTools(spec)),
     own |-> OwnTools(spec),
     spec |-> spec,
     from |-> version,
     middleware |-> Mounted(gates, "subagent", AgentAdds(spec), sub.remove),
     override |-> Override(spec)]

\* One turn of load_subagents' loop: the files of this agent are read now.
BuildAgent(slug) ==
    /\ step = "agents" /\ slug \in waiting
    /\ IF SpecFails(files, org, slug) THEN Stop("agent")
       ELSE LET spec == Spec(files, org, slug)
            IN  IF ~(Listed(spec) \subseteq surface) THEN Stop("tool")
                ELSE IF McpRefused(spec) THEN Stop("mcp")
                ELSE IF SkillsFail(files, spec) THEN Stop("skills")
                ELSE IF ToggleFails(gates, "subagent", AgentAdds(spec), sub.remove) THEN Stop("middleware")
                ELSE IF "basePrompt" \in DOMAIN spec THEN Stop("agentPrompt")
                ELSE IF ExtraPartsFail(files, org) THEN Stop("extraParts")
                ELSE /\ agents' = Added(agents, slug, Built(slug, spec))
                     /\ waiting' = waiting \ {slug}
                     /\ Proceed("agents")
                     /\ UNCHANGED <<profile, gates, sub, mounted, surface, tools, declared>>

\* build_stack after load_subagents: the general-purpose agent, unless an agent
\* has its name.  Its text is read from _shared/ beside orgs/, and both variants
\* need it, the disabled one too.
General == "general-purpose"
Helper(off) ==
    LET given == IF off THEN {} ELSE (SpecialistTools \cup ContextTools) \ Excluded(profile)
    IN  [name |-> General, wide |-> FALSE, tools |-> given, own |-> given, spec |-> <<>>, from |-> version,
         middleware |-> IF off THEN {} ELSE Mounted(gates, "subagent", sub.add, sub.remove),
         override |-> FALSE]
BuildGeneral ==
    /\ step = "agents" /\ waiting = {}
    /\ IF "generalPurpose" \notin DOMAIN profile \/ \E a \in DOMAIN agents : agents[a].name = General
       THEN /\ Proceed("done")
            /\ UNCHANGED <<profile, gates, sub, mounted, surface, tools, declared, waiting, agents>>
       ELSE IF ~files.gpText THEN Stop("gpText")
       ELSE /\ agents' = Added(agents, General, Helper(profile.generalPurpose = "off"))
            /\ Proceed("done")
            /\ UNCHANGED <<profile, gates, sub, mounted, surface, tools, declared, waiting>>

-----------------------------------------------------------------------------
\* Somebody, or an agent of the harness itself, edits a file of the tree.
Edit ==
    /\ step \notin {"done", "failed"} /\ ~edited
    /\ \E v \in Edits[version] : version' = v /\ seen' = seen \cup {v}
    /\ edited' = TRUE
    /\ UNCHANGED <<request, step, reason, profile, gates, sub, mounted, surface, tools,
                   declared, waiting, agents>>

StackNext ==
    \/ ReadProfile \/ ReadGate \/ ReadRetries \/ ReadOverrides \/ ReadSurface
    \/ ReadAskUser \/ ReadAllowlist \/ ReadPrompt \/ ReadRoster
    \/ \E slug \in waiting : BuildAgent(slug)
    \/ BuildGeneral
    \/ Edit

StackSpec == StackInit /\ [][StackNext]_vars

-----------------------------------------------------------------------------
(***************************************************************************)
(* Properties.                                                             *)
(***************************************************************************)

\* The file an agent begins with: its own, or the last one it extends.
RootFile(w, o, slug) ==
    LET hop == Hops(w, o, slug) IN AgentFile(w, o, hop[Max(Named(hop))])
FromFiles(a) == DOMAIN agents[a].spec # {}

\* What an agent may not use, by the org's profile or by frontmatter, it gets back
\* only in four ways: the retrieval tools are appended after the exclusions
\* (orgs.py:831-848), an agent that lists nothing takes the supervisor's tools, which
\* know nothing of the agent's own exclusions (orgs.py:507, 831), ask_user is added
\* after the profile's (stack.py:1251-1268), and the exclusions of a file that extends
\* another one are lost when the two are merged (kit/loaders.py:385-449; orgs.py:732-746
\* says that they are inherited and overridden as tools are): only those of the file at
\* the root hold.
ExcludedComesBack ==
    \A a \in DOMAIN agents :
        LET back(s) == agents[a].tools \cap Excluded(s)
        IN  /\ back(profile) \subseteq Retrieval \cup {AskUser}
            /\ FromFiles(a) /\ ~agents[a].wide =>
                  back(RootFile(World[agents[a].from], org, a)) \subseteq Retrieval

\* An agent has all the tools of the supervisor only if its files list nothing that
\* counts, or a delta takes the list away again; what does not count is the servers
\* of a delta and the tools_add of an agent that extends none (orgs.py:507,
\* loaders.py:393-411).
WideOnlyWhenUnlisted ==
    \A a \in DOMAIN agents :
        agents[a].wide =>
            LET w == World[agents[a].from]
                hop == Hops(w, org, a)
                root == Max(Named(hop))
                file(k) == Desugar(AgentFile(w, org, hop[k]))
                lists(k, key) == Get(file(k), key, {}) # {}
                deltas == Named(hop) \ {root}
            IN  \/ /\ \A k \in Named(hop) : ~lists(k, "tools")
                   /\ \A k \in deltas : ~lists(k, "tools_add")
                   /\ DOMAIN Get(file(root), "mcp", <<>>) = {}
                \/ \E k \in deltas : \/ lists(k, "tools_remove")
                                     \/ "tools" \in DOMAIN file(k) /\ ~lists(k, "tools")

\* A specialist is in the supervisor's hands only if the org's own policy names it
\* or its group: no parent, no base and no agent of the roster opts in for it
\* (stack.py:1121-1148, policy.py:809-824); ask_user only if somebody is there.
SupervisorOnlyOptedIn ==
    step \in {"prompt", "roster", "agents", "done"} =>
        /\ \A t \in Specialists : <<"pux", t>> \in tools =>
              \E v \in seen : Get(Policy(World[v], org), "groups", {}) \cap
                                ({t} \cup {g \in DOMAIN Groups : t \in Groups[g]}) # {}
        /\ AskUser \in tools => "attended" \in request.transport

\* A clean audit foresees the build, but for what it never looks at: the groups of
\* the tool surface, servers and skills an agent names, dynamic tools an agent
\* lists, extra prompt parts, the text of the general-purpose agent, an agent's
\* base_system_prompt, a parent's manifest, and a profile that is inherited while
\* the org has none of its own (org_validation.py:26-27 has the two never disagree).
AuditCovers ==
    step = "failed" /\ ~edited /\ Problems(files, org) = {} =>
        \/ reason \in {"groups", "mcp", "skills", "extraParts", "gpText", "agentPrompt"}
        \/ reason = "tool" /\ \E a \in waiting : Get(Spec(files, org, a), "tools", {}) \cap Dynamic # {}
        \/ reason = "roster" /\ Len(Chain(files, org)) > 1
        \/ reason \in {"profile", "rubric", "retries", "middleware", "askUser", "basePrompt"}
              /\ DOMAIN Dir(files, org).profile = {}

\* What the harness builds, the kit builds too, with the same agents and, before
\* exclusions and retrieval tools, the same tools (kit/compile.py, orgs.py:466-519).
KitAgrees ==
    step = "done" /\ ~edited =>
        /\ ~KitFails(files, org)
        /\ \A a \in Roster(files, org) :
              LET kit == KitAgent(Spec(files, org, a), Specialists \cup Declared(files, org), request.armed)
              IN  /\ kit.wide = agents[a].wide
                  /\ (kit.tools \ Excluded(profile)) \ Excluded(agents[a].spec) = agents[a].own

\* An agent whose large results are put aside can fetch them back, unless it has
\* no tool left or the supervisor has been denied the context layer (stack.py:390-392,
\* orgs.py:844-848) or its exclusions name the tools.
OffloadedCanBeFetched ==
    \A a \in DOMAIN agents :
        "context" \in agents[a].middleware /\ agents[a].own # {} /\ "context" \in mounted =>
            Retrieval \subseteq agents[a].tools \cup Excluded(profile)

\* A tool an ancestor's profile excludes stays excluded in the child, whatever the
\* child's profile says, if the ancestor lives in the project: the profile of an
\* org of PUX_ORG_PATHS or of a base is never read (profile.py:70-81, 273-330).
AncestorExclusionsHold ==
    step = "done" /\ ~edited =>
        \A o \in ToSet(Chain(files, org)) :
            DirOf(files, o)[1] \in {"orgs", "specialists"} =>
                Excluded(Dir(files, o).profile) \subseteq Excluded(profile)
=============================================================================
