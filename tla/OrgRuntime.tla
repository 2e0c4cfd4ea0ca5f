----------------------------- MODULE OrgRuntime -----------------------------
(***************************************************************************)
(* What the API server's process shares between requests: the MCP tools of *)
(* an org (runtime/upstream.py), the sandbox (sandbox/exec.py), and the    *)
(* prep jobs that run in it, before an agent (context/prepare_warmup.py)   *)
(* or when asked for over HTTP (runtime/custom_app.py).                    *)
(*                                                                         *)
(* A request for a run is a task of the event loop, which gives way at     *)
(* every await; its jobs, and every request for jobs, run in threads.      *)
(***************************************************************************)
EXTENDS Naturals, Sequences

CONSTANTS
    RunOrgs,        \* orgs runs and jobs are asked for
    JobsOf,         \* per org: job_specs of its policy, <<>> without a policy
    Slots,          \* requests in flight at once
    MaxRequests     \* bound: requests

\* A job spec: does it have a name, a script, a when-predicate.
ASSUME JobSpecsOK ==
    /\ DOMAIN JobsOf = RunOrgs /\ MaxRequests \in Nat
    /\ \A o \in RunOrgs : \A i \in DOMAIN JobsOf[o] :
        JobsOf[o][i] \in [named : BOOLEAN, scripted : BOOLEAN, gated : BOOLEAN]

VARIABLES
    mcpCache,       \* _MCP_CACHE: orgs whose tools are held open
    mcpOpened,      \* per org: times open_org_mcp has opened its servers
    sandbox,        \* _backend: the sandbox all later calls use, 0 for none
    sandboxes,      \* sandboxes made
    requests,       \* requests begun
    slot,           \* per slot: the request being served
    overlapped      \* orgs, and "sandbox", whose first uses overlapped

runtimeVars == <<mcpCache, mcpOpened, sandbox, sandboxes, requests, slot, overlapped>>

Vacant == [kind |-> "none", org |-> "none", step |-> "vacant", results |-> <<>>]

RuntimeInit ==
    /\ mcpCache = {} /\ mcpOpened = [o \in RunOrgs |-> 0]
    /\ sandbox = 0 /\ sandboxes = 0 /\ requests = 0
    /\ slot = [s \in Slots |-> Vacant] /\ overlapped = {}

Takes(s, step) == slot' = [slot EXCEPT ![s].step = step]
Ended(s) == slot' = [slot EXCEPT ![s] = Vacant]

-----------------------------------------------------------------------------
(***************************************************************************)
(* make_graph in runtime mode.                                             *)
(***************************************************************************)

\* _mcp_for up to its await.
AskRun(s, o) ==
    /\ slot[s] = Vacant /\ requests < MaxRequests /\ requests' = requests + 1
    /\ slot' = [slot EXCEPT ![s] = [kind |-> "run", org |-> o, results |-> <<>>,
                                    step |-> IF o \in mcpCache THEN "sandbox" ELSE "open"]]
    /\ overlapped' = IF o \notin mcpCache /\ \E r \in Slots : slot[r].org = o /\ slot[r].step = "open"
                     THEN overlapped \cup {o} ELSE overlapped
    /\ UNCHANGED <<mcpCache, mcpOpened, sandbox, sandboxes>>

\* Mutant: what was opened is not kept.
OpenedUncached(s, ok) ==
    /\ slot[s].step = "open"
    /\ mcpOpened' = IF ok THEN [mcpOpened EXCEPT ![slot[s].org] = @ + 1] ELSE mcpOpened
    /\ IF ok THEN Takes(s, "sandbox") ELSE Ended(s)
    /\ UNCHANGED <<mcpCache, sandbox, sandboxes, requests, overlapped>>

\* open_org_mcp returns, whatever its servers do; or the request ends, by a
\* cancellation or an error of the resolution that is no ValueError.
Opened(s, ok) ==
    /\ slot[s].step = "open"
    /\ LET o == slot[s].org IN
       IF ok THEN /\ mcpCache' = mcpCache \cup {o}
                  /\ mcpOpened' = [mcpOpened EXCEPT ![o] = @ + 1]
                  /\ Takes(s, "sandbox")
             ELSE Ended(s) /\ UNCHANGED <<mcpCache, mcpOpened>>
    /\ UNCHANGED <<sandbox, sandboxes, requests, overlapped>>

-----------------------------------------------------------------------------
(***************************************************************************)
(* shared_backend, from the event loop (build_graph) and from threads.     *)
(***************************************************************************)

\* Where the request goes with its sandbox.
Onward(s) == IF slot[s].kind = "run" THEN "prepare" ELSE "jobs"

SandboxLook(s) ==
    /\ slot[s].step = "sandbox"
    /\ Takes(s, IF sandbox # 0 THEN Onward(s) ELSE "make")
    /\ overlapped' = IF sandbox = 0 /\ \E r \in Slots : slot[r].step = "make"
                     THEN overlapped \cup {"sandbox"} ELSE overlapped
    /\ UNCHANGED <<mcpCache, mcpOpened, sandbox, sandboxes, requests>>

\* _make_backend opens a sandbox and holds it for the life of the process, or
\* raises.  A second one takes the place of the first, which stays open.
SandboxMade(s, ok) ==
    /\ slot[s].step = "make"
    /\ IF ok THEN sandboxes' = sandboxes + 1 /\ sandbox' = sandboxes + 1 /\ Takes(s, Onward(s))
             ELSE Ended(s) /\ UNCHANGED <<sandbox, sandboxes>>
    /\ UNCHANGED <<mcpCache, mcpOpened, requests, overlapped>>

-----------------------------------------------------------------------------
(***************************************************************************)
(* The jobs.                                                               *)
(***************************************************************************)

\* POST /jobs/{org}/run.  An org without jobs, or a name none of them has, is
\* answered before the sandbox is asked for; a name otherwise only selects among
\* the results, for run_jobs gets the whole policy.
AskJobs(s, o) ==
    /\ slot[s] = Vacant /\ requests < MaxRequests /\ requests' = requests + 1
    /\ JobsOf[o] # <<>>
    /\ slot' = [slot EXCEPT ![s] = [kind |-> "jobs", org |-> o, step |-> "sandbox", results |-> <<>>]]
    /\ UNCHANGED <<mcpCache, mcpOpened, sandbox, sandboxes, overlapped>>

\* PrepareWarmupMiddleware, and prepare: nothing to do, or the jobs.  A policy that
\* cannot be read raises, and the agent starts without its jobs.
Prepare(s, readable) ==
    /\ slot[s].step = "prepare"
    /\ Takes(s, IF readable /\ JobsOf[slot[s].org] # <<>> THEN "jobs" ELSE "agent")
    /\ UNCHANGED <<mcpCache, mcpOpened, sandbox, sandboxes, requests, overlapped>>

\* run_jobs: the result of a spec, which may depend on how its script fares.  A
\* predicate that cannot be asked lets the job run.
Outcomes(spec) ==
    IF ~spec.named \/ ~spec.scripted THEN {"failed"}
    ELSE {"ok", "failed", "timeout"} \cup (IF spec.gated THEN {"skipped"} ELSE {})

RunJob(s, status) ==
    /\ slot[s].step = "jobs"
    /\ LET specs == JobsOf[slot[s].org]  n == Len(slot[s].results) IN
       /\ n < Len(specs) /\ status \in Outcomes(specs[n + 1])
       /\ slot' = [slot EXCEPT ![s].results = Append(@, status),
                               ![s].step = IF n + 1 < Len(specs) THEN "jobs" ELSE "agent"]
    /\ UNCHANGED <<mcpCache, mcpOpened, sandbox, sandboxes, requests, overlapped>>

\* The results are logged or answered; a failed one keeps nobody from going on.
Serve(s) ==
    /\ slot[s].step = "agent"
    /\ Ended(s)
    /\ UNCHANGED <<mcpCache, mcpOpened, sandbox, sandboxes, requests, overlapped>>

RuntimeNext ==
    \/ \E s \in Slots : \E o \in RunOrgs : AskRun(s, o) \/ AskJobs(s, o)
    \/ \E s \in Slots, ok \in BOOLEAN : Opened(s, ok) \/ SandboxMade(s, ok) \/ Prepare(s, ok)
    \/ \E s \in Slots : SandboxLook(s) \/ Serve(s)
    \/ \E s \in Slots : \E status \in {"ok", "failed", "timeout", "skipped"} : RunJob(s, status)

RuntimeSpec == RuntimeInit /\ [][RuntimeNext]_runtimeVars

-----------------------------------------------------------------------------
\* The servers of an org, and the sandbox, are opened once in a process unless
\* their first uses overlap: both are looked up, and made, in steps of which
\* another request may come between (upstream.py:94-112, exec.py:113-124), although
\* each is documented as one per process.
OncePerProcess ==
    /\ \A o \in RunOrgs : mcpOpened[o] > 1 => o \in overlapped
    /\ sandboxes > 1 => "sandbox" \in overlapped
=============================================================================
