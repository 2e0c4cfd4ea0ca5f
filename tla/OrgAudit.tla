------------------------------ MODULE OrgAudit ------------------------------
(***************************************************************************)
(* The offline contract check of an org, agent/org_validation.py, with the *)
(* validators it calls.  It reads the same files as the build and must     *)
(* foresee what the build refuses.  An operator gives the rules that are   *)
(* broken; rules about layout, wording and token budgets are left out.     *)
(***************************************************************************)
EXTENDS OrgFiles, MiddlewareToggles

CONSTANTS
    Specialists,    \* slugs of the sandbox tools of the registry
    Groups,         \* maps a tool group to its slugs
    Natives,        \* slugs of the file and shell tools
    Dynamic         \* names of the dynamic tools

\* No tool of the registry has the name of a native one, and no declared one may
\* (declared.py:362).
ASSUME NativesAreApart ==
    /\ Natives \cap Specialists = {}
    /\ \A v \in Versions : \A d \in DOMAIN World[v].dirs : Natives \cap World[v].dirs[d].declared = {}

If(c, rule) == IF c THEN {rule} ELSE {}

\* _org_extends_chain_problems: the raw walk.
OrgChainProblems(w, o) ==
    LET up == Up(w, o)
        bad == {k \in 1..Depth(w) : up[k] # None /\ (~HasDir(w, up[k]) \/ ~Dir(w, up[k]).agentsMd)}
    IN  If(bad # {}, "org-extends-resolvable") \cup If(bad = {} /\ up[Depth(w)] # None, "org-extends-acyclic")

\* _first_agent_md and _agent_extends_chain_problems know nothing of pux: names.
PlainFile(w, o, slug) ==
    LET dirs == AgentDirs(w, o)
        hits == {i \in 1..Len(dirs) : slug \in DOMAIN dirs[i]}
    IN  IF hits = {} THEN None ELSE dirs[Min(hits)][slug]
AgentChainProblems(w, o, slug) ==
    LET hop == Hops(w, o, slug)
        stop == {k \in DOMAIN hop : hop[k] # None /\ PlainFile(w, o, hop[k]) = None}
    IN  IF stop # {} THEN If(Min(stop) # 0, "agent-extends-resolvable")
        ELSE If(\A k \in DOMAIN hop : hop[k] # None, "agent-extends-acyclic")

\* A tool an agent may list.
ToolKnown(w, o, t) ==
    \/ t \in Specialists \cup Natives \cup Dir(w, o).declared
    \/ t \in Dynamic /\ DynamicOn(w, o)
\* Mutant: a tool nobody provides passes.
AgentProblemsButTools(w, o, slug) ==
    IF AgentChainProblems(w, o, slug) # {} THEN AgentChainProblems(w, o, slug)
    ELSE IF SpecFails(w, o, slug) THEN {"agent-resolves"}
    ELSE If(~(Get(Spec(w, o, slug), "middleware", {}) \subseteq Allowed("subagent")), "agent-middleware-scope")

\* The part of _audit_org about one agent of the roster: its chain, its file,
\* then the tools and the middlewares of what _load_agent_spec makes of it.
AgentProblems(w, o, slug) ==
    IF AgentChainProblems(w, o, slug) # {} THEN AgentChainProblems(w, o, slug)
    ELSE IF SpecFails(w, o, slug) THEN {"agent-resolves"}
    ELSE LET spec == Spec(w, o, slug)
         IN  If("name" \notin DOMAIN spec, "agent-missing-keys")
               \cup If(\E t \in Get(spec, "tools", {}) : ~ToolKnown(w, o, t), "tool-resolves")
               \cup If(~(Get(spec, "middleware", {}) \subseteq Allowed("subagent")), "agent-middleware-scope")

\* The roster that is checked: the resolved one, the own one if that raises, and
\* none if the manifest is no mapping.
AuditedRoster(w, o) ==
    IF "malformed" \in DOMAIN Dir(w, o).yaml THEN {}
    ELSE IF RosterFails(w, o) THEN OwnRoster(w, o) ELSE Roster(w, o)
RosterProblems(w, o) ==
    LET deny == Get(Dir(w, o).yaml, "roster_deny", {})
    IN  If("malformed" \in DOMAIN Dir(w, o).yaml, "org-yaml-shape")
          \cup If(AuditedRoster(w, o) \cap deny # {}, "roster-deny-enforced")
          \cup If(/\ "general-purpose" \in deny
                  /\ ~LoaderFails(w, o, "profile")
                  /\ Get(Profile(w, o), "generalPurpose", "on") # "off", "roster-deny-disables-general-purpose")

\* The policy is loaded where policy.load looks, if the org's own directory has
\* the file; load_dynamic_tools_enabled lets its error through, and so does this.
\* resolve_mounts looks at the environment, resolve_tool_allowlist is not called.
AuditedPolicy(w, o) == DOMAIN Dir(w, o).policy # {} /\ DOMAIN Policy(w, o) # {}
PolicyProblems(w, o) ==
    If(PolicyFails(w, o), "policy-schema")
      \cup If(AuditedPolicy(w, o) /\ "mountUnset" \in DOMAIN Policy(w, o), "policy-schema")
      \cup If("unknown" \in DOMAIN Dir(w, o).policy, "policy-sections")

\* validate_tool_servers, called only if a policy was loaded: no server of the
\* org may be unknown to the catalog or need a credential.
ServerProblems(w, o) ==
    If(/\ AuditedPolicy(w, o)
       /\ \E s \in DOMAIN DeclaredMcp(w, o) : s \notin w.catalog \/ s \in w.secret, "tool-servers")

\* audit_profile and validate_overrides: only if the org has a profile.yaml of
\* its own, however much it inherits.
ProfileProblems(w, o) ==
    LET p == Profile(w, o)
    IN  IF DOMAIN Dir(w, o).profile = {} THEN {}
        ELSE If(LoaderFails(w, o, "profile"), "profile-schema")
               \cup If(\E b \in {"rubric", "middleware", "modelRetry", "toolRetry", "askUser"} :
                          LoaderFails(w, o, b), "profile-block")
               \cup If(~LoaderFails(w, o, "profile") /\ "basePrompt" \in DOMAIN p, "profile-base-system-prompt")
               \cup If(\/ ~(Get(p, "supAdd", {}) \cup Get(p, "supRemove", {}) \subseteq Registered)
                       \/ ~(Get(p, "subAdd", {}) \cup Get(p, "subRemove", {}) \subseteq BothScopes),
                       "middleware-overrides")

\* audit_org.
Problems(w, o) ==
    IF ~HasDir(w, o) \/ ~Dir(w, o).agentsMd THEN {"org-agents-md"}
    ELSE OrgChainProblems(w, o) \cup RosterProblems(w, o) \cup PolicyProblems(w, o)
           \cup ServerProblems(w, o) \cup ProfileProblems(w, o)
           \cup UNION {AgentProblems(w, o, slug) : slug \in AuditedRoster(w, o)}
=============================================================================
