------------------------------ MODULE OrgFiles ------------------------------
(***************************************************************************)
(* How an org is read off the disk: kit/_paths.py, kit/loaders.py,         *)
(* kit/capabilities_decl.py and the profile reader of agent/profile.py.    *)
(* Every operator takes the tree w of files it reads, because a build      *)
(* reads the tree piece by piece and somebody may edit it in between.      *)
(*                                                                         *)
(* w.dirs    maps <<root, org>> to the directory of an org, roots being    *)
(*           orgs/, orgs/specialists/, one directory of PUX_ORG_PATHS, and *)
(*           the bases the package ships                                   *)
(* w.shared  maps slugs to the agents of orgs/_shared/agents               *)
(* w.catalog is the set of servers of orgs/_shared/tool_servers.yaml, and  *)
(*           w.secret the ones of them that need a credential              *)
(* w.gpText  says whether the text of the general-purpose agent is there   *)
(* w.skills  is the set of skill directories                               *)
(*                                                                         *)
(* A directory has agentsMd (AGENTS.md exists), and partial functions yaml *)
(* (org.yaml), profile, local (profile.local.yaml), policy and agents; an  *)
(* absent file is the empty function.  A file that does not parse has the  *)
(* key "malformed".  Lists are sets: their order decides nothing here.     *)
(***************************************************************************)
EXTENDS Naturals, Sequences, FiniteSets, SequencesExt

CONSTANTS
    Versions,   \* identifiers of the states the files may be in
    World,      \* maps a version to the tree of files
    Edits,      \* maps a version to the versions one edit leads to
    Bare,       \* maps a namespaced name, pux:x, to x
    Library,    \* the sequence of the names of the bases that have an AGENTS.md
    None        \* no name

ASSUME EditsLeadSomewhere == \A v \in Versions : Edits[v] \subseteq Versions
ASSUME FilesAreFinite ==
    \A v \in Versions :
        /\ IsFiniteSet(DOMAIN World[v].dirs) /\ IsFiniteSet(DOMAIN World[v].shared)
        /\ \A d \in DOMAIN World[v].dirs : IsFiniteSet(DOMAIN World[v].dirs[d].agents)
ASSUME NoneIsNoRoot == None \notin {"orgs", "specialists", "extra", "bases"}
\* A namespaced name is looked up in the package, never under it on the disk.
ASSUME FilesHaveBareNames ==
    \A v \in Versions :
        /\ DOMAIN World[v].shared \cap DOMAIN Bare = {}
        /\ \A d \in DOMAIN World[v].dirs :
              /\ d[2] \notin DOMAIN Bare \cup {None}
              /\ DOMAIN World[v].dirs[d].agents \cap DOMAIN Bare = {}

Get(f, k, d) == IF k \in DOMAIN f THEN f[k] ELSE d
\* What is there already stays.
Added(f, k, e) == [x \in DOMAIN f \cup {k} |-> IF x \in DOMAIN f THEN f[x] ELSE e]
Strip(n) == Get(Bare, n, n)

-----------------------------------------------------------------------------
(***************************************************************************)
(* Directories and chains.                                                 *)
(***************************************************************************)

\* search_org_dir: the first root that has the org; a pux: name is a base's.
Roots == <<"orgs", "specialists", "extra">>
RootIn(roots, o) == IF roots = {} THEN <<None, o>> ELSE <<Roots[Min(roots)], o>>
DirOf(w, o) ==
    IF o \in DOMAIN Bare THEN <<"bases", Bare[o]>>
    ELSE RootIn({i \in 1..Len(Roots) : <<Roots[i], o>> \in DOMAIN w.dirs}, o)
HasDir(w, o) == DirOf(w, o) \in DOMAIN w.dirs
Dir(w, o) == w.dirs[DirOf(w, o)]

\* org_extends: a manifest that is no mapping extends nothing.
Parent(w, o) == IF o # None /\ HasDir(w, o) THEN Get(Dir(w, o).yaml, "extends", None) ELSE None

\* A directory is visited once, so a walk of this length goes round.
Depth(w) == Cardinality(DOMAIN w.dirs)
Up(w, o) ==
    LET up[k \in 0..Depth(w)] ==
            IF k = 0 THEN o ELSE Parent(w, up[k - 1])
    IN  up

\* org_extends_chain raises: a cycle, or an ancestor that is no base org.
IsBase(w, a) == HasDir(w, a) /\ Dir(w, a).agentsMd
LeadsNowhere(w, up) ==
    up[Depth(w)] # None \/ \E k \in 1..Depth(w) : up[k] # None /\ ~IsBase(w, up[k])
Broken(w, o) == ~HasDir(w, o) \/ LeadsNowhere(w, Up(w, o))

\* _resolved_org_chain: child first; a broken chain is the org alone.
Chain(w, o) ==
    LET up == Up(w, o)
        length == Cardinality({k \in 0..Depth(w) : up[k] # None})
    IN  IF Broken(w, o) THEN <<o>> ELSE [k \in 1..length |-> up[k - 1]]
Ancestry(w, o) == Reverse(Chain(w, o))

\* _scan_orgs and discover_orgs.
Discovered(w) == {d[2] : d \in {e \in DOMAIN w.dirs : e[1] # "bases" /\ w.dirs[e].agentsMd}}

\* _own_org_agent_slugs, _org_inherit_roster, org_agent_slugs: the own
\* inherit_roster counts, never an ancestor's.
OwnRoster(w, o) == IF HasDir(w, o) THEN Get(Dir(w, o).yaml, "agents", {}) ELSE {}
RosterSources(w, o) ==
    IF HasDir(w, o) /\ ~Get(Dir(w, o).yaml, "inherit_roster", TRUE) THEN {o} ELSE ToSet(Chain(w, o))
Roster(w, o) == UNION {OwnRoster(w, a) : a \in RosterSources(w, o)}
RosterFails(w, o) ==
    \E a \in RosterSources(w, o) : HasDir(w, a) /\ "malformed" \in DOMAIN Dir(w, a).yaml

\* No roster has an agent without a name.
ASSUME AgentsHaveNames ==
    \A v \in Versions : \A d \in DOMAIN World[v].dirs : None \notin Get(World[v].dirs[d].yaml, "agents", {})

\* org_mcp_items_from_dict by way of _org_yaml_mcp_items: never inherited.
\* A server with no allowlist is declared whole (None).
DeclaredMcp(w, o) == IF HasDir(w, o) THEN Get(Dir(w, o).yaml, "mcp", <<>>) ELSE <<>>

\* build_system_prompt reads the AGENTS.md of every org of the chain.
PromptFails(w, o) == \E a \in ToSet(Chain(w, o)) : ~IsBase(w, a)

-----------------------------------------------------------------------------
(***************************************************************************)
(* Agents.                                                                 *)
(***************************************************************************)

\* _agent_search_dirs: own agents first, then the ancestors', then the shared.  Of
\* a chain, only an org that is alone can lack its directory.
AgentsOf(w, orgs) == [i \in 1..Len(orgs) |-> Dir(w, orgs[i]).agents]
AgentDirs(w, o) == AgentsOf(w, IF HasDir(w, o) THEN Chain(w, o) ELSE <<>>) \o <<w.shared>>
LibraryDirs(w) ==
    LET here == SelectSeq(Library, LAMBDA b : <<"bases", b>> \in DOMAIN w.dirs)
    IN  [i \in 1..Len(here) |-> w.dirs[<<"bases", here[i]>>].agents]

\* The first directory that has the agent; library_base_agent_dirs for pux:.
FirstWith(dirs, name) ==
    LET hits == {i \in 1..Len(dirs) : name \in DOMAIN dirs[i]}
    IN  IF hits = {} THEN None ELSE dirs[Min(hits)][name]
AgentFile(w, o, slug) ==
    FirstWith(IF slug \in DOMAIN Bare THEN LibraryDirs(w) ELSE AgentDirs(w, o), Strip(slug))

\* desugar_agent_capabilities: a capabilities block adds tools and skills to the
\* listed ones and replaces mcp; what comes out empty is no key at all.
Desugar(fm) ==
    IF "capabilities" \notin DOMAIN fm THEN fm
    ELSE LET cap == fm.capabilities
             full == [tools |-> Get(fm, "tools", {}) \cup cap.tools,
                      skills |-> Get(fm, "skills", {}) \cup cap.skills,
                      mcp |-> cap.mcp]
             kept == (DOMAIN fm \ {"tools", "skills", "mcp", "capabilities"})
                        \cup {k \in {"tools", "skills"} : full[k] # {}}
                        \cup (IF DOMAIN cap.mcp = {} THEN {} ELSE {"mcp"})
         IN  [k \in kept |-> IF k \in DOMAIN full THEN full[k] ELSE fm[k]]

\* _merge_extends: only these keys of the delta count; every key of the base
\* stays, its mcp and its middleware included.
Merge(base, delta) ==
    LET add == Get(delta, "tools_add", {})
        rem == Get(delta, "tools_remove", {})
        new == (DOMAIN delta \cap {"name", "model", "tools", "skills"})
                 \cup (IF add \cup rem # {} THEN {"tools"} ELSE {})
                 \cup (IF Get(delta, "skills_add", {}) # {} THEN {"skills"} ELSE {})
    IN  [k \in DOMAIN base \cup new |->
            IF k \in {"name", "model", "tools", "skills"} \cap DOMAIN delta THEN delta[k]
            ELSE IF k = "tools" /\ k \in new THEN (Get(base, k, {}) \cup add) \ rem
            ELSE IF k = "skills" /\ k \in new THEN Get(base, k, {}) \cup delta.skills_add
            ELSE base[k]]

\* The agents a spec extends, itself first; None where it ends.
Extended(fm) == IF fm = None THEN None ELSE Get(fm, "extends", None)
Hop(w, o, slug) == IF slug = None THEN None ELSE Extended(AgentFile(w, o, slug))
AgentNames(w) == DOMAIN w.shared \cup UNION {DOMAIN w.dirs[d].agents : d \in DOMAIN w.dirs}
Hops(w, o, slug) ==
    LET n == Cardinality(AgentNames(w))
        hop[k \in 0..(2 * n)] == IF k = 0 THEN slug ELSE Hop(w, o, hop[k - 1])
    IN  hop
Named(hop) == {k \in DOMAIN hop : hop[k] # None}

\* _load_agent_spec raises or finds nothing: a cycle, a missing agent, or a
\* capabilities block of a wrong shape.
Unusable(fm) == fm = None \/ "malformed" \in DOMAIN fm
UnusableHops(w, o, hop) ==
    Named(hop) = DOMAIN hop \/ \E k \in Named(hop) : Unusable(AgentFile(w, o, hop[k]))
SpecFails(w, o, slug) == UnusableHops(w, o, Hops(w, o, slug))

\* _load_agent_spec: the root's frontmatter, each delta laid over it in turn.
Delta(fm) == [f \in DOMAIN fm \ {"extends"} |-> fm[f]]
LaidOver(w, o, hop) ==
    LET last == Max(Named(hop))
        merged[k \in 0..last] ==
            LET fm == Delta(Desugar(AgentFile(w, o, hop[last - k])))
            IN  IF k = 0 THEN fm ELSE Merge(merged[k - 1], fm)
    IN  merged[last]
Spec(w, o, slug) == LaidOver(w, o, Hops(w, o, slug))

\* _resolve_skills: every skill is a directory of one of the skill roots.
SkillsFail(w, spec) == ~(Get(spec, "skills", {}) \subseteq w.skills)

-----------------------------------------------------------------------------
(***************************************************************************)
(* profile.yaml.                                                           *)
(***************************************************************************)

Lists == {"bad", "supAdd", "supRemove", "subAdd", "subRemove", "excludedTools", "excludedMiddleware"}

\* Mutant: a list of the delta replaces the base's.
DeepReplace(base, delta) ==
    [k \in DOMAIN base \cup DOMAIN delta |-> Get(delta, k, Get(base, k, None))]

\* _deep_merge_profile: lists are joined, a scalar of the delta wins.
DeepMerge(base, delta) ==
    [k \in DOMAIN base \cup DOMAIN delta |->
        IF k \in Lists THEN Get(base, k, {}) \cup Get(delta, k, {})
        ELSE Get(delta, k, Get(base, k, None))]

\* _profile_path and _read_profile_yaml: only orgs/ and orgs/specialists/, so an
\* org of PUX_ORG_PATHS and a pux: base have no profile.
OwnProfile(w, o) ==
    LET key == IF <<"orgs", o>> \in DOMAIN w.dirs THEN <<"orgs", o>> ELSE <<"specialists", o>>
    IN  IF key \in DOMAIN w.dirs THEN DeepMerge(w.dirs[key].profile, w.dirs[key].local) ELSE <<>>

\* _resolved_profile_yaml: laid over each other, root first.
Profile(w, o) ==
    LET line == Ancestry(w, o)
        laid[k \in 0..Len(line)] ==
            IF k = 0 THEN <<>> ELSE DeepMerge(laid[k - 1], OwnProfile(w, line[k]))
    IN  laid[Len(line)]

\* Every loader reads the whole profile and raises on a wrong models block and
\* on its own; load_profile rejects the keys nobody peels off for it.
BlockFails(p, block) == {"models", block} \cap Get(p, "bad", {}) # {}
KeysFail(p) == {"webRouter", "extraParts"} \cap DOMAIN p # {}

\* A web_router block that is wrong is there.
RouterBlockIsThere(p) == "webRouter" \in Get(p, "bad", {}) => "webRouter" \in DOMAIN p
ASSUME WrongBlocksAreThere ==
    \A v \in Versions : \A d \in DOMAIN World[v].dirs :
        RouterBlockIsThere(World[v].dirs[d].profile) /\ RouterBlockIsThere(World[v].dirs[d].local)

LoaderFails(w, o, block) ==
    LET p == Profile(w, o)
    IN  "malformed" \in DOMAIN p \/ BlockFails(p, block) \/ (block = "profile" /\ KeysFail(p))

\* _load_extra_parts_for_scope: the profile.yaml nearest to the child that has
\* extra parts, wherever its org is found.
ExtraParts(w, o) ==
    LET having == SelectSeq(Chain(w, o), LAMBDA a : HasDir(w, a) /\ "extraParts" \in DOMAIN Dir(w, a).profile)
    IN  IF having = <<>> THEN None ELSE Dir(w, having[1]).profile.extraParts

\* build_extra_parts: a part is a file, and must be there.
ExtraPartsFail(w, o) == ExtraParts(w, o) = "missing"

\* policy.load: orgs/ or orgs/specialists/, never inherited.
Policy(w, o) ==
    LET keys == <<<<"orgs", o>>, <<"specialists", o>>>>
        having == SelectSeq(keys, LAMBDA k : k \in DOMAIN w.dirs /\ DOMAIN w.dirs[k].policy # {})
    IN  IF having = <<>> THEN <<>> ELSE w.dirs[having[1]].policy
PolicyFails(w, o) == "malformed" \in DOMAIN Policy(w, o)

\* load_dynamic_tools_enabled: in the policy, not in the profile.
DynamicOn(w, o) == Get(Policy(w, o), "dynamic", FALSE)
=============================================================================
