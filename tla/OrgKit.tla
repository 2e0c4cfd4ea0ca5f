------------------------------- MODULE OrgKit -------------------------------
(***************************************************************************)
(* The portable kit, kit/compile.py: the same org files compiled for an    *)
(* application that brings its own tools.  It reads the files through the  *)
(* same loaders as the harness, but it takes what the application lacks    *)
(* for granted where the harness refuses.                                  *)
(***************************************************************************)
EXTENDS OrgFiles

\* _resolve_tools: the listed tools the application has.
KitListed(spec, offered) == Get(spec, "tools", {}) \cap offered

\* Mutant: an allowlist lets the whole server through.
KitRoutedWhole(spec, armed) == {t \in armed : t[2] \in DOMAIN Get(spec, "mcp", <<>>)}

\* _resolve_mcp: the routed tools the application has; no declaration is asked for.
KitRouted(spec, armed) ==
    {t \in armed : t[2] \in DOMAIN Get(spec, "mcp", <<>>) /\ {"*", t[3]} \cap spec.mcp[t[2]] # {}}

\* _build_sub.
KitAgent(spec, offered, armed) ==
    [wide |-> Get(spec, "tools", {}) = {} /\ DOMAIN Get(spec, "mcp", <<>>) = {},
     tools |-> {<<"pux", t>> : t \in KitListed(spec, offered)} \cup KitRouted(spec, armed)]

\* compile_org and load_subagents: what of the files makes them raise.
KitFails(w, o) ==
    \/ PromptFails(w, o) \/ RosterFails(w, o)
    \/ \E slug \in Roster(w, o) :
          SpecFails(w, o, slug) \/ SkillsFail(w, Spec(w, o, slug))
=============================================================================
