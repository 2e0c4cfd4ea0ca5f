------------------------------- MODULE OrgPack -------------------------------
(***************************************************************************)
(* pux pack and pux verify: an org leaves the tree it lives in             *)
(* (pack.py, manifest.py, pack_hooks.py, oci.py).  The pack decides which  *)
(* files go, lets the hooks look at them, and writes an archive and, if    *)
(* asked, an OCI layout.  Each of these steps reads the files again.       *)
(*                                                                         *)
(* Files are named like in OrgFiles, with three more keys of a directory   *)
(* (lib: the learned functions, a map to their text; skills; data), three  *)
(* of org.yaml (package; blockRoster: the roster is not on one line;       *)
(* scripts of policy.yaml) and three of the tree: helpers, the shared      *)
(* scripts; secrets and broken, the files with a secret, or with a syntax  *)
(* error.  A host file is <<directory, path in it>>.                       *)
(***************************************************************************)
EXTENDS OrgKit

CONSTANTS
    PackStart,      \* the versions a pack may start with
    PackRequests    \* the packs and verifications that are asked for

ASSUME PacksStartSomewhere == PackStart \subseteq Versions /\ None \notin Versions
\* A tree and a directory have the parts an unpacked one gets anew; orgs/_shared
\* (here "shared") has no AGENTS.md and so is no org.
ASSUME TreesHaveParts ==
    \A v \in Versions :
        /\ {"dirs", "shared", "skills"} \subseteq DOMAIN World[v]
        /\ \A d \in DOMAIN World[v].dirs :
              /\ d[1] \in {"orgs", "specialists", "extra", "bases"}
              /\ {"agentsMd", "yaml", "agents"} \subseteq DOMAIN World[v].dirs[d]
              /\ World[v].dirs[d].agentsMd => d[2] # "shared"

VARIABLES
    pkRequest,      \* the org, and what the verification is given
    pkVersion,      \* the files as they are
    pkEdited,       \* they were edited since the pack began
    pkStep,         \* the next step
    pkReason,       \* what ended it early
    pkFiles,        \* path in the archive -> host file
    pkFlat,         \* the version AGENTS.md and org.yaml were flattened from, or None
    pkScanned,      \* the version the secrets gate has a report of, or None
    pkArchive,      \* path in the archive -> version of the host file, or None: flattened
    pkLayers,       \* the layers on the disk
    pkDigests,      \* the layers as the layout's manifest has them
    pkEmitted,      \* the layers as they were when the layout was made
    pkVerdict       \* the answer of pux verify

packVars == <<pkRequest, pkVersion, pkEdited, pkStep, pkReason, pkFiles, pkFlat, pkScanned,
              pkArchive, pkLayers, pkDigests, pkEmitted, pkVerdict>>

Tree == World[pkVersion]
NoLayers == [source |-> <<>>, library |-> <<>>]

PackInit ==
    /\ pkRequest \in PackRequests /\ pkVersion \in PackStart
    /\ pkEdited = FALSE /\ pkStep = "collect" /\ pkReason = "none"
    /\ pkFiles = <<>> /\ pkFlat = None /\ pkScanned = None /\ pkArchive = <<>>
    /\ pkLayers = NoLayers /\ pkDigests = NoLayers /\ pkEmitted = NoLayers
    /\ pkVerdict = "none"

PackStops(why) ==
    /\ pkStep' = "failed" /\ pkReason' = why
    /\ UNCHANGED <<pkRequest, pkVersion, pkEdited, pkFiles, pkFlat, pkScanned, pkArchive,
                   pkLayers, pkDigests, pkEmitted, pkVerdict>>
PackProceeds(to) == pkStep' = to /\ UNCHANGED <<pkRequest, pkVersion, pkEdited, pkReason>>

-----------------------------------------------------------------------------
(***************************************************************************)
(* What goes: manifest.py, and the references to shared files.             *)
(***************************************************************************)

\* The files at the top of a directory, and the paths of all of it.
TopFiles(d) ==
    UNION {IF d.agentsMd THEN {<<"AGENTS.md">>} ELSE {},
           IF d.yaml = <<>> THEN {} ELSE {<<"org.yaml">>},
           IF d.profile = <<>> THEN {} ELSE {<<"profile.yaml">>},
           IF d.local = <<>> THEN {} ELSE {<<"profile.local.yaml">>},
           IF d.policy = <<>> THEN {} ELSE {<<"policy.yaml">>}}
PathsIn(d) ==
    TopFiles(d)
    \cup {<<"agents", s>> : s \in DOMAIN d.agents} \cup {<<"sandbox", s>> : s \in d.declared}
    \cup {<<"lib", s>> : s \in DOMAIN Get(d, "lib", <<>>)}
    \cup {<<"skills", s>> : s \in Get(d, "skills", {})} \cup {<<"data", s>> : s \in Get(d, "data", {})}

\* load_manifest: a manifest that is no mapping has no package block; an empty
\* list of includes counts as none.
DefaultInclude == {"AGENTS.md", "org.yaml", "profile.yaml", "policy.yaml", "agents", "skills", "sandbox", "lib"}
Package(d) == IF "malformed" \in DOMAIN d.yaml THEN <<>> ELSE Get(d.yaml, "package", <<>>)
PackageName(w, o) == Get(Package(Dir(w, o)), "name", o)
Includes(d) ==
    IF Get(Package(d), "include", {}) = {} THEN DefaultInclude ELSE Package(d).include

\* HARD_EXCLUDE, effective_excludes and _is_pruned: data/** is the directory at the
\* top, **/__pycache__/** a directory at any depth; an agent or a script is a file.
HardExcluded(p) == p[1] = "data" \/ p \in {<<"lib", "__pycache__">>, <<"skills", "__pycache__">>}
LeftOut(d, p) == p[1] \in Get(Package(d), "exclude", {}) \/ HardExcluded(p)

\* collect_pack_files.
Collected(d) == {p \in PathsIn(d) : p[1] \in Includes(d) /\ ~LeftOut(d, p)}

\* _resolve_shared_agents looks for a local agent in orgs/ and orgs/specialists/
\* only, and never at an ancestor's.
SharedAgents(w, o) ==
    LET own == IF DirOf(w, o)[1] \in {"orgs", "specialists"} THEN DOMAIN Dir(w, o).agents ELSE {}
    IN  (Roster(w, o) \ own) \cap DOMAIN w.shared

\* _resolve_shared_skills: those the agents of the roster list; a missing agent is
\* passed over, a broken one raises.
OwnSkills(w) == UNION {Get(w.dirs[d], "skills", {}) : d \in DOMAIN w.dirs}
SharedSkills(w, o) ==
    (w.skills \ OwnSkills(w)) \cap
        UNION {Get(Spec(w, o, s), "skills", {}) : s \in {r \in Roster(w, o) : AgentFile(w, o, r) # None}}

\* _resolve_shared_sandbox: the scripts of the host hooks and the jobs, and every
\* helper if an own script imports one; nothing without a policy that can be read.
SharedHelpers(w, o) ==
    LET policy == Dir(w, o).policy
    IN  IF DOMAIN policy = {} \/ "malformed" \in DOMAIN policy THEN {}
        ELSE IF Get(Dir(w, o), "imports", FALSE) THEN w.helpers
        ELSE w.helpers \cap Get(policy, "scripts", {})

\* _resolve_tool_servers: the whole catalog, if the org declares a server.
SharedCatalog(w, o) == IF DOMAIN DeclaredMcp(w, o) = {} THEN {} ELSE {"tool_servers.yaml"}

Shared == <<"shared", "shared">>
Selection(w, o) ==
    LET own == {<<PackageName(w, o)>> \o p : p \in Collected(Dir(w, o))}
        shared == {<<"shared", "agents", s>> : s \in SharedAgents(w, o)}
                    \cup {<<"shared", "skills", s>> : s \in SharedSkills(w, o)}
                    \cup {<<"shared", "sandbox", s>> : s \in SharedHelpers(w, o)}
                    \cup {<<"shared", s>> : s \in SharedCatalog(w, o)}
    IN  [p \in own \cup shared |-> <<IF p \in shared THEN Shared ELSE DirOf(w, o), Tail(p)>>]

\* What is there of a host file when it is read.
Readable(w, f) ==
    IF f[1] # Shared THEN f[1] \in DOMAIN w.dirs /\ f[2] \in PathsIn(w.dirs[f[1]])
    ELSE CASE f[2][1] = "agents" -> f[2][2] \in DOMAIN w.shared
           [] f[2][1] = "skills" -> f[2][2] \in w.skills
           [] f[2][1] = "sandbox" -> f[2][2] \in w.helpers
           [] OTHER -> TRUE

\* pack_org up to the hooks; org_extends_chain raises on a broken chain.  An org
\* that extends another one is made flat.
Collect ==
    /\ pkStep = "collect"
    /\ LET o == pkRequest.org
       IN  IF o \notin Discovered(Tree) THEN PackStops("org")
           ELSE IF RosterFails(Tree, o) THEN PackStops("roster")
           ELSE IF \E s \in Roster(Tree, o) : AgentFile(Tree, o, s) # None /\ SpecFails(Tree, o, s)
                THEN PackStops("agent")
           ELSE IF Broken(Tree, o) THEN PackStops("extends")
           ELSE /\ pkFiles' = Selection(Tree, o)
                /\ pkFlat' = IF Len(Chain(Tree, o)) > 1 THEN pkVersion ELSE None
                /\ PackProceeds("syntax")
                /\ UNCHANGED <<pkScanned, pkArchive, pkLayers, pkDigests, pkEmitted, pkVerdict>>

-----------------------------------------------------------------------------
(***************************************************************************)
(* The hooks: run_pack_hooks refuses the pack with the first one that fails.*)
(***************************************************************************)

HostFiles == {pkFiles[p] : p \in DOMAIN pkFiles}
Scripts == {f \in HostFiles : f[2][1] \in {"sandbox", "lib"}}

\* ast_check_hook: an unreadable script is a finding.
CheckSyntax ==
    /\ pkStep = "syntax"
    /\ IF \E f \in Scripts : ~Readable(Tree, f) \/ f \in Tree.broken THEN PackStops("syntax")
       ELSE /\ PackProceeds("secrets")
            /\ UNCHANGED <<pkFiles, pkFlat, pkScanned, pkArchive, pkLayers, pkDigests, pkEmitted, pkVerdict>>

\* Mutant: an exit code of the tool that is no finding passes.
GateLenient(exit) ==
    exit = "absent" \/ (exit = "ran" /\ \E f \in HostFiles : Readable(Tree, f) /\ f \in Tree.secrets)

\* gitleaks_hook: without the tool, or when it fails, the pack is refused, unless no
\* file could be staged.  Exit 0 and 1 both say that it ran: what counts is the
\* report, and a report that is missing or cannot be parsed has no findings.
GateRefuses(exit) ==
    \/ exit = "absent"
    \/ \E f \in HostFiles :
          Readable(Tree, f) /\ (exit = "error" \/ (exit = "ran" /\ f \in Tree.secrets))
CheckSecrets ==
    /\ pkStep = "secrets"
    /\ \E exit \in {"ran", "error", "absent", "noReport"} :
          IF GateRefuses(exit) THEN PackStops("secrets")
          ELSE /\ pkScanned' = IF exit = "noReport" THEN None ELSE pkVersion
               /\ PackProceeds("write")
               /\ UNCHANGED <<pkFiles, pkFlat, pkArchive, pkLayers, pkDigests, pkEmitted, pkVerdict>>

-----------------------------------------------------------------------------
(***************************************************************************)
(* The archive and the layout.                                             *)
(***************************************************************************)

\* The keys of the flattened files have the org's name, those of the collected
\* ones the package's.
Flattened(o) == IF pkFlat = None THEN {} ELSE {<<o, "AGENTS.md">>, <<o, "org.yaml">>}

\* The loop over the files: a file that cannot be read any more is left out.
Written(o) ==
    LET flat == Flattened(o)
        there == {p \in DOMAIN pkFiles : p \in flat \/ Readable(Tree, pkFiles[p])}
    IN  [p \in there |-> IF p \in flat THEN None ELSE pkVersion]

\* _build_manifest reads the roster once more, before the archive is opened.
WriteArchive ==
    /\ pkStep = "write"
    /\ IF RosterFails(Tree, pkRequest.org) THEN PackStops("roster")
       ELSE /\ pkArchive' = Written(pkRequest.org)
            /\ PackProceeds("emit")
            /\ UNCHANGED <<pkFiles, pkFlat, pkScanned, pkLayers, pkDigests, pkEmitted, pkVerdict>>

\* The text of a host file, as far as it decides anything.
TextOf(v, f) ==
    IF f[2][1] = "lib" THEN World[v].dirs[f[1]].lib[f[2][2]] ELSE v

\* _split_layers and _build_layer_tar: the files as they are now, not flattened;
\* the learned functions of the org's own name make the library layer.
IsLibrary(p, o) == Len(p) > 2 /\ p[1] = o /\ p[2] = "lib"
Layers(o) ==
    LET there == {p \in DOMAIN pkFiles : Readable(Tree, pkFiles[p])}
        layer(S) == [p \in S |-> TextOf(pkVersion, pkFiles[p])]
    IN  [library |-> layer({p \in there : IsLibrary(p, o)}), source |-> layer({p \in there : ~IsLibrary(p, o)})]

\* emit_oci_artifact: the archive stays when oras is missing or fails.
Emit ==
    /\ pkStep = "emit"
    /\ \/ PackStops("oras")
       \/ /\ pkLayers' = Layers(pkRequest.org)
          /\ pkDigests' = pkLayers' /\ pkEmitted' = pkLayers'
          /\ PackProceeds("shipped")
          /\ UNCHANGED <<pkFiles, pkFlat, pkScanned, pkArchive, pkVerdict>>

\* The layout travels: a blob rots, is changed in place or gets lost, or it is
\* replaced, or left out, together with the digests that lead to it.  A layer
\* under another media type is as good as left out.
Tampered(layer, lost) ==
    [pkLayers EXCEPT ![layer] = IF lost THEN None ELSE Added(@, <<"added">>, "added")]
Tamper ==
    /\ pkStep = "shipped" /\ pkLayers = pkEmitted
    /\ \E layer \in {"source", "library"}, lost \in BOOLEAN, readdressed \in BOOLEAN :
          /\ pkLayers' = Tampered(layer, lost)
          /\ pkDigests' = IF readdressed THEN pkLayers' ELSE pkDigests
    /\ UNCHANGED <<pkRequest, pkVersion, pkEdited, pkStep, pkReason, pkFiles, pkFlat, pkScanned,
                   pkArchive, pkEmitted, pkVerdict>>

\* _library_layer_digest_from_source: every file under lib/, excluded ones too, at
\* its path in the tree, which names the directory of the specialists.
Attested(w, o) ==
    LET d == DirOf(w, o)
        at(s) == IF d[1] = "specialists" THEN <<"specialists", o, "lib", s>> ELSE <<o, "lib", s>>
        lib == Get(w.dirs[d], "lib", <<>>)
    IN  [p \in {at(s) : s \in DOMAIN lib} |-> lib[p[Len(p)]]]
HasLibrary(w, o) ==
    DirOf(w, o)[1] \in {"orgs", "specialists"} /\ DOMAIN Get(Dir(w, o), "lib", <<>>) # {}

\* Mutant: the blobs are not hashed again.
VerifiesByDigest(anchors, o) ==
    /\ "manifest" \in anchors => pkDigests = pkEmitted
    /\ pkDigests.library # None =>
          /\ "library" \in anchors => pkDigests.library = pkEmitted.library
          /\ "source" \in anchors /\ HasLibrary(Tree, o) => Attested(Tree, o) = pkDigests.library

\* verify_oci_layout: each check counts if its input is there, the two of the
\* library only if the manifest has such a layer.
Verifies(anchors, o) ==
    /\ pkLayers = pkDigests
    /\ "manifest" \in anchors => pkDigests = pkEmitted
    /\ pkDigests.library # None =>
          /\ "library" \in anchors => pkDigests.library = pkEmitted.library
          /\ "source" \in anchors /\ HasLibrary(Tree, o) => Attested(Tree, o) = pkDigests.library
Verify ==
    /\ pkStep = "shipped"
    /\ pkVerdict' = IF Verifies(pkRequest.anchors, pkRequest.org) THEN "ok" ELSE "refused"
    /\ PackProceeds("done")
    /\ UNCHANGED <<pkFiles, pkFlat, pkScanned, pkArchive, pkLayers, pkDigests, pkEmitted>>

-----------------------------------------------------------------------------
PackEdit ==
    /\ pkStep \notin {"done", "failed"} /\ ~pkEdited
    /\ \E v \in Edits[pkVersion] :
          /\ HasDir(World[v], pkRequest.org)
          /\ pkVersion' = v
    /\ pkEdited' = TRUE
    /\ UNCHANGED <<pkRequest, pkStep, pkReason, pkFiles, pkFlat, pkScanned, pkArchive,
                   pkLayers, pkDigests, pkEmitted, pkVerdict>>

PackNext ==
    \/ Collect \/ CheckSyntax \/ CheckSecrets \/ WriteArchive \/ Emit \/ Tamper \/ Verify
    \/ PackEdit

PackSpec == PackInit /\ [][PackNext]_packVars

-----------------------------------------------------------------------------
(***************************************************************************)
(* What a consumer gets: the unpacked archive is a tree for run.py.        *)
(***************************************************************************)

\* Mutant: the flattened manifest keeps its own roster.
FlatYamlOwn(w, o) ==
    LET yaml == Dir(w, o).yaml IN [k \in DOMAIN yaml \ {"extends", "inherit_roster"} |-> yaml[k]]

\* _flatten_org_yaml works line by line: a roster on several lines loses its head.
FlatYaml(w, o) ==
    LET yaml == Dir(w, o).yaml
    IN  IF "blockRoster" \in DOMAIN yaml THEN [malformed |-> TRUE]
        ELSE [k \in (DOMAIN yaml \cup {"agents"}) \ {"extends", "inherit_roster"} |->
                 IF k = "agents" THEN Roster(w, o) ELSE yaml[k]]

\* What there is in a directory of an archive.
Under(paths, name, dir) == {p[3] : p \in {q \in paths : Len(q) = 3 /\ q[1] = name /\ q[2] = dir}}

\* The files under the paths of an archive, read at version v.  The vendored kit
\* brings no bases.
Unpacked(v, paths, flat) ==
    LET w == World[v]
        o == pkRequest.org
        name == PackageName(w, o)
        d == Dir(w, o)
        yaml == IF <<name, "org.yaml">> \notin paths THEN <<>>
                ELSE IF <<name, "org.yaml">> \in flat THEN FlatYaml(w, o) ELSE d.yaml
    IN  [w EXCEPT !.dirs = [k \in {<<"orgs", name>>} |->
                    [d EXCEPT !.agentsMd = <<name, "AGENTS.md">> \in paths, !.yaml = yaml,
                              !.agents = [s \in Under(paths, name, "agents") |-> d.agents[s]]]],
                  !.shared = [s \in Under(paths, "shared", "agents") |-> w.shared[s]],
                  !.skills = Under(paths, name, "skills") \cup Under(paths, "shared", "skills")]

\* What makes the org of the tree and the unpacked one differ: a package under
\* another name or with its own idea of what goes, agents of ancestors and bases,
\* shared agents only another agent extends, and skills of ancestors.
LeftBehind(w, o) ==
    LET d == Dir(w, o)
        at(s) == {h \in {Hops(w, o, s)[k] : k \in DOMAIN Hops(w, o, s)} : h # None}
        goes(h) == h \in DOMAIN d.agents \/ (h \in SharedAgents(w, o) /\ AgentFile(w, o, h) = w.shared[h])
    IN  \/ PackageName(w, o) # o \/ Collected(d) # {p \in PathsIn(d) : p[1] \in DefaultInclude /\ ~HardExcluded(p)}
        \/ \E s \in Roster(w, o) : \E h \in at(s) : ~goes(h)
        \/ \E s \in Roster(w, o) : ~(Get(Spec(w, o, s), "skills", {}) \subseteq
                 {k \in Get(d, "skills", {}) : <<"skills", k>> \in Collected(d)} \cup SharedSkills(w, o))

SameOrg(w, u, o) ==
    /\ ~KitFails(u, o)
    /\ Roster(u, o) = Roster(w, o)
    /\ \A s \in Roster(w, o) : Spec(u, o, s) = Spec(w, o, s)

(***************************************************************************)
(* Properties.                                                             *)
(***************************************************************************)

\* An archive of an org the kit can compile holds the same agents and compiles by
\* itself (pack.py:1-9), but for what the pack leaves behind and for a roster on
\* several lines that is flattened; the layout, which is "the SAME content"
\* (pack.py:886), does so only for an org that extends no other one.
PackStandsAlone ==
    LET o == pkRequest.org
        w == World[pkVersion]
        stands == ~pkEdited /\ ~KitFails(w, o) /\ ~LeftBehind(w, o)
    IN  /\ pkStep = "emit" /\ stands =>
              \/ SameOrg(w, Unpacked(pkVersion, DOMAIN pkArchive, Flattened(o)), o)
              \/ pkFlat # None /\ "blockRoster" \in DOMAIN Dir(w, o).yaml
        /\ pkStep = "shipped" /\ pkLayers = pkEmitted /\ pkFlat = None /\ stands =>
              SameOrg(w, Unpacked(pkVersion, DOMAIN pkEmitted.source \cup DOMAIN pkEmitted.library, {}), o)

\* A file of the archive has a secret only if it was edited after the gate had read
\* it (pack.py:823-870), or if the tool ran and left no report that can be read
\* (pack_hooks.py:165-174, 226-246; its lines 21-23 say that no gate is skipped in
\* silence); the text that is baked in from an ancestor is
\* the one the gate never reads.  What is excluded for good never goes from the
\* org's own directory (manifest.py:58-63); shared files are not asked.
ShippedWasScanned ==
    \A p \in DOMAIN pkArchive :
        /\ pkFiles[p][1] # Shared => ~HardExcluded(pkFiles[p][2])
        /\ pkArchive[p] # None /\ pkFiles[p] \in World[pkArchive[p]].secrets =>
              \/ pkScanned = None
              \/ pkEdited /\ pkArchive[p] # pkScanned

\* A verification that passes has met the layout as it was made, or one whose
\* digests were replaced where nothing it was given reaches: without the manifest's
\* digest, the source layer, a library that was left out altogether (oci.py:499 and 506
\* compare none with nothing, though 455-456 promises the known-good value), or any other
\* if it was given neither the library's digest nor the files; one that refuses has
\* met a changed layout, a library edited since, or has compared the library of an
\* org that lives under specialists/, was renamed, or has excluded files
\* (oci.py:412-436, 439-513).
VerifyTells ==
    LET o == pkRequest.org
        changed == {l \in {"source", "library"} : pkLayers[l] # pkEmitted[l]}
        attests == "source" \in pkRequest.anchors /\ HasLibrary(World[pkVersion], o)
    IN  /\ pkVerdict = "ok" /\ changed # {} =>
              /\ pkLayers = pkDigests /\ "manifest" \notin pkRequest.anchors
              /\ "library" \in changed =>
                    \/ pkLayers.library = None
                    \/ "library" \notin pkRequest.anchors /\ ~attests
        /\ pkVerdict = "refused" /\ changed = {} =>
              /\ attests
              /\ \/ pkEdited
                 \/ DirOf(World[pkVersion], o)[1] = "specialists"
                 \/ PackageName(World[pkVersion], o) # o
                 \/ \E s \in DOMAIN Dir(World[pkVersion], o).lib : <<"lib", s>> \notin Collected(Dir(World[pkVersion], o))
=============================================================================
