----------------------------- MODULE MCAgents -----------------------------
EXTENDS AgentStack, OrgPack

\* A behaviour is one build or one pack.
VARIABLE part

\* Everything somebody may get wrong, or ask for, in the files of an org that
\* extends another one; a version of the files has at most two of them.
Variations == {
    "cycle", "extendsGone", "extendsExtra", "extendsBase", "ownRoster", "parentMalformed",
    "emptied", "listEmptied", "deltaMcp", "routes", "inheritedRoutes", "unexposed", "extendsSelf", "extendsPux",
    "agentExcludes", "agentRubric", "agentUnscoped", "typo", "dynamicListed", "skillGone", "agentPrompt",
    "excludes", "parentExcludes", "noContext", "rubric", "rubricRemoved", "askUser",
    "noGroups", "groupTypo", "policyMalformed", "general", "noText",
    "webRouter", "parentRetryBad", "parentUnscoped", "extraPartGone", "catalogGone", "wide"}
PackVariations == {
    "renamed", "agentsOut", "included", "blockRoster", "shadowed", "sharedAgent", "parentShared", "sharedSkill", "parentSkill",
    "secret", "parentSecret", "helperSecret", "syntax", "library", "drift", "cache",
    "emptied", "extendsBase", "extendsSelf", "extendsPux", "ownRoster", "cycle", "extendsGone", "parentMalformed", "extendsExtra"}
Rare == {"rubricBad", "askUserBad", "supervisorPrompt"}
MCStart == {{a, b} : a, b \in Variations} \cup {{a} : a \in Rare} \cup {{}}
MCPackStart == {{a, b} : a, b \in PackVariations} \cup {{}}
MCVersions == MCStart \cup MCPackStart \cup {{"library", "drift", "secret"}}
MCEdits == [v \in MCVersions |->
    IF Cardinality(v) = 1
    THEN {w \in MCVersions : v \subseteq w /\ w # v /\
            w \cap {"excludes", "typo", "noContext", "groupTypo", "rubric", "secret", "drift", "parentMalformed"} # {}}
    ELSE {}]

Lay(c, f) == IF c THEN f ELSE <<>>
Python == <<"pux", "python">>

Agent(v) ==
    Lay("emptied" \in v, [extends |-> "shared", tools_remove |-> {"python", "read_file"}])
    @@ Lay("listEmptied" \in v, [extends |-> "shared", tools |-> {}])
    @@ Lay("wide" \in v, [tools_add |-> {"python"}])
    @@ Lay("deltaMcp" \in v, [extends |-> "bare", capabilities |-> [tools |-> {}, skills |-> {}, mcp |-> "srv" :> {"*"}]])
    @@ Lay("routes" \in v, [capabilities |-> [tools |-> {}, skills |-> {}, mcp |-> "srv" :> {"find"}]])
    @@ Lay("unexposed" \in v, [capabilities |-> [tools |-> {"python"}, skills |-> {}, mcp |-> "srv" :> {"nope"}]])
    @@ Lay("extendsSelf" \in v, [extends |-> "a"])
    @@ Lay("extendsPux" \in v, [extends |-> "pux:x", tools_add |-> {"report"}])
    @@ Lay("agentExcludes" \in v, [excludedTools |-> {Python, <<"ctx", "search">>}])
    @@ Lay("agentRubric" \in v, [middleware |-> {"rubric"}, rubric |-> TRUE])
    @@ Lay("agentUnscoped" \in v, [middleware |-> {"prepare"}])
    @@ Lay("typo" \in v, [tools |-> {"pyhton"}])
    @@ Lay("dynamicListed" \in v, [tools |-> {"make_function"}])
    @@ Lay("skillGone" \in v, [skills |-> {"gone"}])
    @@ Lay("agentPrompt" \in v, [basePrompt |-> TRUE])
    @@ Lay("sharedSkill" \in v, [skills |-> {"common"}])
    @@ Lay("parentSkill" \in v, [skills |-> {"craft"}])
    @@ Lay({"emptied", "deltaMcp", "routes", "extendsPux", "wide"} \cap v = {}, [tools |-> {"python", "read_file"}])
    @@ [name |-> "a"]

ChildProfile(v) ==
    Lay("excludes" \in v, [excludedTools |-> {Python, <<"ctx", "search">>, AskUser}])
    @@ Lay("noContext" \in v, [supRemove |-> {"context"}])
    @@ Lay("rubric" \in v, [rubric |-> TRUE])
    @@ Lay("rubricRemoved" \in v, [subRemove |-> {"rubric"}])
    @@ Lay("askUser" \in v, [askUser |-> TRUE])
    @@ Lay("general" \in v, [generalPurpose |-> "on"])
    @@ Lay("webRouter" \in v, [webRouter |-> TRUE])
    @@ Lay("rubricBad" \in v, [bad |-> {"rubric"}])
    @@ Lay("askUserBad" \in v, [bad |-> {"askUser"}])
    @@ Lay("supervisorPrompt" \in v, [basePrompt |-> TRUE])
ParentProfile(v) ==
    Lay("parentExcludes" \in v, [excludedTools |-> {<<"pux", "report">>}])
    @@ Lay("parentRetryBad" \in v, [bad |-> {"toolRetry"}])
    @@ Lay("parentUnscoped" \in v, [subAdd |-> {"prepare"}])
ChildPolicy(v) ==
    IF "policyMalformed" \in v THEN [malformed |-> TRUE]
    ELSE [groups |-> IF "noGroups" \in v THEN {} ELSE IF "groupTypo" \in v THEN {"cdoe"} ELSE {"code"},
          dynamic |-> "dynamicListed" \in v]

ChildManifest(v) ==
    [extends |-> IF "extendsGone" \in v THEN "gone" ELSE IF "extendsExtra" \in v THEN "extra"
                 ELSE IF "extendsBase" \in v THEN "pux:lib" ELSE "parent",
     agents |-> {"a"} \cup (IF "sharedAgent" \in v THEN {"bare"} ELSE {}),
     mcp |-> "srv" :> {"*"}, inherit_roster |-> "ownRoster" \notin v]
    @@ Lay("blockRoster" \in v, [blockRoster |-> TRUE])
    @@ Lay({"renamed", "agentsOut", "included"} \cap v # {},
           [package |-> Lay("renamed" \in v, [name |-> "other"])
                        @@ Lay("agentsOut" \in v, [exclude |-> {"agents"}])
                        @@ Lay("included" \in v, [include |-> {"AGENTS.md", "org.yaml", "agents", "data"}])])
ParentManifest(v) ==
    IF "parentMalformed" \in v THEN [malformed |-> TRUE]
    ELSE Lay("cycle" \in v, [extends |-> "child"]) @@ [agents |-> IF "parentShared" \in v THEN {"bare"} ELSE {"b"}]

Directory(yaml, agentFiles, prof, pol, scripts) ==
    [agentsMd |-> TRUE, yaml |-> yaml, agents |-> agentFiles, profile |-> prof, local |-> <<>>,
     policy |-> pol, declared |-> scripts]

Learned(v) ==
    Lay("library" \in v, [lib |-> ("add" :> IF "drift" \in v THEN "new" ELSE "old")
                                 @@ Lay("cache" \in v, "__pycache__" :> "code")])
ChildDir == <<"orgs", "child">>
ParentDir == <<"specialists", "parent">>

MCWorld == [v \in MCVersions |->
    [dirs |->
        (ChildDir :> (Learned(v) @@ [data |-> {"cookies"}, imports |-> TRUE]
             @@ Directory(ChildManifest(v), "a" :> Agent(v), ChildProfile(v), ChildPolicy(v), {"report"})))
        @@ (ParentDir :>
              (Learned(v) @@ Lay("parentSkill" \in v, [skills |-> {"craft"}])
               @@ Directory(ParentManifest(v),
                        "b" :> (Lay("inheritedRoutes" \in v,
                                    [capabilities |-> [tools |-> {}, skills |-> {}, mcp |-> "other" :> {"*"}]])
                                @@ [name |-> "b", tools |-> {"click", "report"}]),
                        ParentProfile(v), <<>>, {})))
        @@ (<<"extra", "extra">> :>
              Directory([agents |-> {"b"}], "b" :> [name |-> "b", tools |-> {"click"}],
                        Lay("extraPartGone" \in v, [extraParts |-> "missing"]) @@ [excludedTools |-> {<<"pux", "click">>}],
                        [groups |-> {"browser"}], {}))
        @@ (<<"bases", "lib">> :>
              Directory(<<>>, "x" :> [name |-> "x", tools |-> {"click", "python"}], [excludedTools |-> {<<"pux", "click">>}], <<>>, {})),
     shared |-> ("shared" :> [name |-> "s", tools |-> {"python", "read_file"}]) @@ ("bare" :> [name |-> "s"])
                @@ Lay("shadowed" \in v, "b" :> [name |-> "b", tools |-> {"read_file"}]),
     catalog |-> IF "catalogGone" \in v THEN {} ELSE {"srv", "other"},
     secret |-> {}, gpText |-> "noText" \notin v,
     skills |-> (IF "sharedSkill" \in v THEN {"common"} ELSE {}) \cup (IF "parentSkill" \in v THEN {"craft"} ELSE {}),
     helpers |-> {"http"},
     secrets |-> (IF "secret" \in v THEN {<<ChildDir, <<"agents", "a">>>>} ELSE {})
                 \cup (IF "parentSecret" \in v THEN {<<ParentDir, <<"AGENTS.md">>>>} ELSE {})
                 \cup (IF "helperSecret" \in v THEN {<<Shared, <<"sandbox", "http">>>>} ELSE {}),
     broken |-> IF "syntax" \in v THEN {<<ChildDir, <<"sandbox", "report">>>>} ELSE {}]]

MCRequests ==
    {[org |-> o, transport |-> t, armed |-> {<<"mcp", "srv", "find">>, <<"mcp", "srv", "fetch">>}] :
        o \in {"child"}, t \in {{"attended", "prepare"}, {"vision"}}}
    \cup {[org |-> o, transport |-> {}, armed |-> {}] : o \in {"extra", "gone"}}
MCPackRequests ==
    [org : {"child", "parent"}, anchors : {{}, {"manifest"}, {"library"}, {"source"}}]
    \cup {[org |-> "gone", anchors |-> {}]}
MCBare == ("pux:lib" :> "lib") @@ ("pux:x" :> "x")
MCLibrary == <<"lib">>
MCGroups == ("code" :> {"python"}) @@ ("browser" :> {"click"})
MCSpecialists == {"python", "click"}
MCNatives == {"read_file"}
MCDynamic == {"make_function"}
MCRetrieval == {<<"ctx", "search">>}

BuildIdle ==
    /\ version = {} /\ edited = FALSE /\ seen = {} /\ request = [org |-> "child", transport |-> {}, armed |-> {}]
    /\ step = "profile" /\ reason = "none"
    /\ profile = <<>> /\ gates = {} /\ sub = [add |-> {}, remove |-> {}] /\ mounted = {}
    /\ surface = {} /\ tools = {} /\ declared = {} /\ waiting = {} /\ agents = <<>>
PackIdle ==
    /\ pkRequest = [org |-> "child", anchors |-> {}] /\ pkVersion = {} /\ pkEdited = FALSE
    /\ pkStep = "failed" /\ pkReason = "none" /\ pkFiles = <<>> /\ pkFlat = None /\ pkScanned = None
    /\ pkArchive = <<>> /\ pkLayers = NoLayers /\ pkDigests = NoLayers /\ pkEmitted = NoLayers
    /\ pkVerdict = "none"
\* Two variations at once only of the org that extends, to keep the instance small.
AgentsInit ==
    \/ /\ part = "build" /\ StackInit /\ PackIdle
       /\ Cardinality(version) > 1 => org = "child"
    \/ /\ part = "pack" /\ PackInit /\ BuildIdle
       /\ Cardinality(pkVersion) > 1 => pkRequest.org = "child"
AgentsNext ==
    \/ part = "build" /\ StackNext /\ UNCHANGED <<part, packVars>>
    \/ part = "pack" /\ PackNext /\ UNCHANGED <<part, vars>>
AgentsSpec == AgentsInit /\ [][AgentsNext]_<<part, vars, packVars>>
=============================================================================
