# A verification of pux-harness in TLA+

pux-harness runs deep agents (LangGraph graphs assembled from declarative
"orgs") behind several front ends: an ACP server that an editor spawns, an MCP
server, a terminal UI and HTTP runtimes.  Tools run in a sandbox container, big
tool results go to a context store in SQLite.  This directory models the parts
whose correctness depends on interleaving, failure, order or on several readers
of the same files, checks them with TLC and proves the most important
properties with TLAPS.

Paths below are relative to the repository; `acp.py` is `pux_harness/acp.py`,
`store.py` is `packages/deepagents-context/deepagents_context/store.py`, and so
on.

## Inventory

| Component | State it keeps | Operations | Hard behaviour | What makes it correct |
|---|---|---|---|---|
| ACP session server (`acp.py`) | one flag `_cancelled`, one compiled graph, per-session locks and shown model | prompt, cancel, new/load/resume/close/delete session, set_config_option | every prompt is a task of its own; retries; questions that outlive a turn; restart | one turn per session, FIFO, every prompt answered, a question is settled by its answer, a cancel hits one turn |
| Thread store (`threads.py`) | `pux_threads`, checkpoint tables, one connection | register, delete, merge metadata | awaits between the statements of one operation, several processes | what was deleted is gone |
| Context store (`store.py`) | events, blobs, two FTS tables, resume snapshots | capture, flush, stash, recall, purge, claim | a connection per worker thread, implicit transactions, one write lock, death in a transaction | handles resolve, indexes agree, limits hold, a snapshot is injected once |
| Context middleware and tools (`middleware.py`, `tools.py`, `session_guide.py`, `context/exec_tools.py`) | none of their own | tool hook, ctx_* tools, session guide | they decide when the store commits; they rewrite what tools answer | what is announced is committed; an answer keeps its meaning |
| Snapshot builder (`snapshot.py`) | none | build_snapshot | byte budget | newest kept, budget kept |
| Stream retry (`agent/retry.py`) and model factory (`agent/model.py`) | none | resolve a role, call, retry, fail over | four layers that retry the same call | a model that was asked for is used; no layer repeats output |
| Run events and custom app (`run_events.py`, `runtime/custom_app.py`) | ring and queues; none | jobs | the ring has no publisher | a job runs when its endpoint is called |
| Upstream runtime (`runtime/upstream.py`) | MCP cache | graph factory | check, await, fill | servers opened once per org |
| MCP server (`mcp_server.py`) | org connections, thread ownership, browser tasks | new/load session, prompt, start_run, deploy_browser_agent | background tasks, lost answers, a search that awaits, restarts | a message runs once; a session is found |
| MCP client and bootstrap (`agent/mcp_client.py`, `mcp_bootstrap.py`, `tool_servers.py`) | loaded tools, a cache of server binaries on disk | open_org_mcp, open, ensure_server | a thread that outlives its timer, concurrent installations, death in a copy | a cache hit is a complete binary, a bad server costs only its own tools, a start returns |
| Sandbox host files (`sandbox/prune.py`, `projects.py`, `jobs.py`, `exec.py`) | JSONL log, JSON registry, the sandbox singleton | prune, record, run jobs, first use | threads that meet in the first use | one sandbox per process |
| Sandbox tools (`sandbox/tools/*`) | the agent's own functions and their index; browser servers | make, edit, call, promote, archive; the browser tools | several threads and processes on one index; ports, late servers | a listed function is there; a page stays open |
| Sandbox policy (`sandbox/policy.py`) | none | load, tool groups, job specs | inheritance that does not happen | only what is opted in is handed out |
| Org resolution (`kit/loaders.py`, `agent/orgs.py`, `profile.py`, `org_validation.py`, ...) | none | search, extends, deltas, profile, audit | many readers of the same files, each with its own rules | the audit, the harness and the kit agree |
| Agent assembly (`agent/graph.py`, `stack.py`, `capabilities.py`) | none | build | one build reads the files a dozen times | exclusions hold, nobody has tools nobody asked for |
| Pack, lockfile, manifest, OCI (`pack.py`, `oci.py`, ...) | files | pack, verify | gate, collection and writing read the files anew | what ships was scanned and stands alone |
| Kit (`kit/*`) | none | compile_org | it must agree with the harness | the same agents |
| Routing and warm-up, vision and prompt middlewares (`context/*`) | none | they wrap model and tool calls | their order, and what they do to one another's results | no picture for a blind model, one web round per question |
| Memory backend, generators | none | | | a factory around a library; developer scripts |
| Command line and terminal UI | the terminal | one-shot runs, printing | a one-shot run writes the thread database | see Thread store |

How they interact: the front ends call the agent assembly, which resolves the
org and compiles a graph whose middlewares include the context middleware and
the session guide; the ACP server feeds that graph and owns the thread store
that is its checkpointer; tools reach the sandbox through `sandbox/exec.py`,
and their results pass the middlewares on the way back to the model.  The audit
(`pux check-contract`), the harness and the kit read the same org files through the
same loaders and judge them separately; the packer ships them.

## What is modelled

### `SessionTurns`, `AcpServer`

`SessionTurns` is the promise to an editor: every session is a FIFO queue of
prompts, the head is the only one that is answered, sessions do not wait for
one another, and what was queued when the process died is lost, not answered
later.  `AcpServer` is the server: `pc` is where a prompt's task stands, `turn`
its locals (attempt, what it feeds next, how often its text was fed), `lock`
and `waiters` are the `asyncio.Lock` of `_prompt_locks`, `cancelled` is
`_cancelled` (with the session whose cancel raised it, which the code does not
remember), `agent` the model of the one compiled graph, `shown` is
`_session_models`, and `index`, `ckpt`, `pending` are the SQLite file.  An
action is what a task does between two awaits:

    Submit -> Enter -> Attempt -> ReadQuestion | ReadNoQuestion -> Feed
      -> Finish | Ask, Present | AskPermission, Decide, Feed | StopOnCancel
      -> (Stall, Retry -> Attempt)* | GiveUp

The graph and the base class of the server are libraries; the model has what
acp.py relies on (the flag is reset at the top of the base `prompt`, looked at
on every chunk; interrupts are checkpointed before they are announced; a
message on a paused thread cancels the paused call).  The text a prompt feeds
and the model's output are abstracted away; whether an exception is
recoverable is a choice.

### `ContextStore`

`db` is what is committed in the SQLite file, `writer` the connection whose
implicit transaction holds the write lock, `draft` what that transaction sees.
`job` is what a worker thread is in the middle of: the tool hook
(`CaptureCall -> Dedup -> Count -> Insert -> Offload -> Flush`), ctx_index, or a
batch.  `Dedup` and `Count` read without the lock, which is the code's own
order; `Locked` is the busy timeout.  A worker that claims a snapshot, or a
batch that raises, leaves its transaction open, and the worker's next commit
takes that along; `Die` rolls it back.  `thread_id` may be empty, in which case
nothing is deduplicated or evicted: the middleware reads it from
`state["configurable"]`, which a LangGraph state need not carry, so both cases
are in the model.  Text is abstracted to the key of an event and to handles.

### `ToolServers`

A start of an org (`pux direct`, `pux acp`, a graph factory) is a coroutine,
`pc` and `at`, that prepares its servers one after another and then probes them
one after another, and a thread, which runs `ensure_server` and which the timer
of `open_org_mcp` does not stop:

    Open -> (Bootstrap -> CacheHit | CacheMiss, Fetch -> Rename
                          | OpenCopy, CopyPiece*, CopyMode -> Connect | Skip)*
      -> StartProbing -> (ProbeListed | ProbeFailed)* -> Listed
    OpenFails, Timeout, FileError and Die cut this short

`file` is the binary at the cache path: which of its pieces are there and
whether it is executable, which is all that the cache test looks at.
`shutil.move` is a rename where it can be (`sameFs`, which a behaviour chooses at its beginning) and otherwise truncates the
target, which keeps its mode, copies, and sets the mode; a piece lands at its
own offset even if another start has truncated the file since.  `overlapped`
and `aborted` are history.  A server on PATH or without a `github:` block is
one that is not `Bootstrapped`; `Reliable` ones always answer; an unset variable
(`Unresolved`) only skips its server.

### `OrgFiles`, `OrgAudit`, `OrgKit`, `MiddlewareToggles`, `AgentStack`, `OrgPack`

`OrgFiles` holds the loaders as operators over a tree of files: the search of an
org's directory, `extends` chains, rosters, the frontmatter of an agent with its
deltas and its `capabilities:` block, and the merged profile and policy.  Its
functions are recursive functions over the length of a chain, and a chain that
has not ended after as many steps as there are directories (or agents) goes round.
A file is a partial function from its keys; a key that is absent and one that is
there and empty differ where the code tells them apart.

Three readers use these loaders.  `OrgAudit` gives the rules `audit_org` finds
broken; `OrgKit` is `compile_org`; `AgentStack` is `build_graph`, whose actions
are its readings:

    ReadProfile -> ReadGate -> ReadRetries -> ReadOverrides -> ReadSurface
      -> ReadAskUser -> ReadAllowlist -> ReadPrompt -> ReadRoster
      -> BuildAgent* -> BuildGeneral

because each loader opens its file anew, and `Edit` may come between any two.
`step = "failed"` with `reason` stands for the exception.  `MiddlewareToggles`
is the registry of middlewares with its scopes, defaults and gates.

`OrgPack` is `pux pack` and `pux verify`: what is collected, the gate that scans
it, the flattening of AGENTS.md and org.yaml over the chain, the archive, the
OCI layout, and verification with its anchors.  The scanner may be absent, fail, or
leave no report that can be read (`GateRefuses`); a layout may be changed on its way, or
lose a layer (`Tamper`), and verification compares what the manifest names (`Verifies`).  An archive is a map from paths to
the version of the file that was read, since the question is always which version
of a file got there.

`MCAgents` runs builds and packs side by side; a behaviour is one of either.

### `ModelCalls`

One turn of the model node: `get_model` resolves a role through its five
sources to a client (`Source`, `RoleOverridden`, the two functions that read the
overrides separately), and the client is called until it completes or an error
ends the turn.  A request may stream or not, and not every way to call the client
catches a refused pin (`CatchesPin`).  Four layers handle an error, each only its own: `Unpin`,
`IdleRetry`, `Failover`, `NodeRetry`.  `shown` is what the running call has
shown, `visible` what the turn has, `repeated` the errors after which the model
was called again although something was visible.  Which errors the libraries
raise is a choice (`MayRaise`).

### `McpHost`

The tools of the MCP server that change something, with the API server they talk
to as an external part: `owner` and `runs` are its threads and runs.  Every
`await` is between two actions, `heard` and `made` say whether an answer was
lost, `ScanMiss` is one round of the search over `_pool` that other calls may
extend meanwhile, and `Restart` forgets the memory.

### `DynamicFunctions`, `BrowserServers`

`DynamicFunctions` is the agent's own library: two roots, each a directory and
an index that every operation reads whole and writes whole, in a process that may
die in between.  `saves` counts the writings of an index, odd while the file is
empty, which tells whether a copy is still the newest.

`BrowserServers` is how a process finds its browser: the port derived from its
pid, the server started there, the one of the container as the last resort, and the
threads that do this without a lock: the warm-up and any number of tool calls
(`ToolThreads`; parallel calls of a model, subagents, or two sessions of one server).  A server comes up late
(`Listens`), and a probe may be answered too late.

### `OrgRuntime`, `ThreadRows`

`OrgRuntime` is the state one API server process shares between requests: the
cache of MCP tools, the sandbox singleton, and the prep jobs run in it.
`overlapped` records first uses that met.

`ThreadRows` is the thread database below `AcpServer`: the shared connection
whose open transaction (`undone`) any task commits, `delete_thread` in three
steps, one-shot runs as other processes, and crashes.  A prompt begins its turn whether
or not its thread has a row, as acp.py does: nothing there asks.

### `AgentLoop`

One agent's loop of model calls and tool calls, with the layers in the order of
the registry.  A tool call is routed, or reaches the tool; its answer comes up
through the hints, the two vision layers, the context layer and the audit, each of
which is an operator on the answer.  A conversation is the sequence of the kinds
of its messages, where the results that are plain text are left out.  `ended` is
what became of the last call and what the audit recorded of it; `sent` is what the
last model call was given.

`MCHost` runs `ModelCalls`, `McpHost`, `DynamicFunctions`, `BrowserServers`,
`OrgRuntime`, `ThreadRows` and `AgentLoop` side by side.  They share no state;
the variable `part` says whose behaviour this is, so that the states add up
instead of multiplying.

## Runs

| Run | Module, cfg | What it shows |
|---|---|---|
| acp | MCAcpServer, AcpServer.cfg | the inductive invariant, one turn per session, one abort per cancel, questions settled by answers, and that AcpServer implements SessionTurns |
| acp_live | MCAcpServer, AcpServerLive.cfg | every prompt is answered; a text is fed at most once per attempt, and before a turn ends normally |
| acp_models | MCAcpServer, AcpServerModels.cfg | a violation: a turn runs on a model its session does not show |
| acp_cancel | MCAcpServer, AcpServerCancel.cfg | a violation: a cancel of one session aborts another's turn |
| context | MCContextStore, ContextStore.cfg | handles resolve, indexes agree, the event limit is overshot by less than the number of workers, a snapshot is injected once |
| context_eviction | MCContextStore, ContextStoreEviction.cfg | a violation: the eviction takes critical events first |
| tools | MCToolServers, ToolServers.cfg | a partial binary passes for complete only after installations overlapped, for good only if one was abandoned, and on one file system never; every start returns |
| tools_partial | MCToolServers, ToolServersPartial.cfg | a violation: a second installation truncates an executable binary |
| tools_isolation | MCToolServers, ToolServersIsolation.cfg | a violation: an OSError of one installation costs the org all its tools |
| agents | MCAgents, Agents.cfg | which tools an agent gets, in which ways an exclusion is undone, where a clean audit fails to foresee a failed build, that kit and harness agree, and what a pack ships, leaves behind and verifies |
| host | MCHost, Host.cfg | the seven parts of the running program, each with the exact ways in which its promise can be broken; a turn's model calls end |
| host_stall | MCHost, HostStall.cfg | a violation: a stalled stream ends the turn at the first execution of the model node |

Several properties of `agents` and `host` have the form "this happens only
if": the code does not keep the plain promise, and the property lists every way in
which it fails, as narrow as TLC lets it be.  `RunsTwiceOnlyIfLost`,
`FunctionLostOnlyByOverlap`, `PageKept`, `OncePerProcess`, `DeletedIsGone` and
`RoundsOnlyIfForgotten` use history variables for that (`cut`, `clobbered`,
`disturbed`, `overlapped`, `written` and `cutOff`, `forgotten`), which no guard
reads.  Some of these ways contradict what the documentation says; the observations
below quote it.

Bounds.  The ACP runs have three prompts, two of one session and one of
another: two are needed for exclusion and order, the third for independence.
Attempts, permission requests, cancels and restarts are bounded by constants;
two attempts distinguish the last from the others, one cancel more or less than
prompts decides `OneAbortPerCancel`.  The context runs have two connections (a
writer and a rival), two threads and the empty one, two handles, a limit of two
events and a window of one, so that four calls pass the limit by more than the
allowed overshoot if nothing is evicted.  The tool runs have two pieces, which is
what it takes to lose one, and one bootstrapped and one remote server, which two of the
three starts do without; three, so that two can overlap and a third can find what they
left, and any of them may die or fail at any point.

The `agents` run has an org, its parent, a base, a shared agent and an org of
`PUX_ORG_PATHS`.  The files are varied in some thirty-five ways for builds and
twenty-five for packs (`Variations`, `PackVariations`): mistakes, wishes, and places
where a file may live.  Every pair of variations is a version of its own, so that
whatever takes two causes is met; an edit between two readings adds a second
variation to a version with one.  Three tools, one MCP server with two tools, and
one retrieval tool are what the properties tell apart.

The `host` run has, per part: a chain of two fallbacks, one idle retry and two
executions of the node, and every request that `MCRequests` lists; two orgs, one thread,
one message with two runs, two calls in flight and a restart; two functions, two
actors, four operations and a death, so that a promotion can overlap a making and
another function can be lost (two promotions of one function that overlap take five, and
are left to the proof); two processes with one port (the collision is
the interesting case; while only one of them is at work it is as if
it had the port alone), each with a warm-up and two tool threads, two calls, two servers
and a crash; two orgs, one of
which has jobs, two slots and three requests, so that a third finds what two left;
two threads, one one-shot run and a crash; eight ways to build an agent, twelve
tool calls, of which two are made, and two messages of the user.

Fairness.  `FairSpec` of AcpServer asks weak fairness of each prompt's task: the
event loop runs every task that can run, a stream ends or times out
(`stream_chunk_timeout`), a graph has a step limit, `asyncio.sleep` returns, and
an editor answers permission requests.  Nothing is fair that belongs to the
editor or the process: no prompt has to be sent and no restart has to happen.
An action of another prompt cannot disable a prompt's step for ever, because an
`asyncio.Lock` is handed to the oldest waiter.

In `ToolServers` only the timer is fair: servers, downloads and file systems may
hang for ever.

In `ModelCalls` the whole next-state relation is weakly fair: a call that hangs is
ended by the client's request timeout, the chunk timeout or the idle watchdog.
The other parts of `MCHost` have no fairness, and no liveness property.

Deadlock is not checked: the server stops when all prompts are answered and the
bounds are used up, and so does the store; every start of an org comes to an
end, as do a build, a pack, a turn and the bounded parts of `MCHost`.

## Proofs

Every invariant that a passing run checks is proved for all values of the
constants; so are the three action properties and the refinement.  The proofs are in
eight modules.

| Module | About | Properties proved |
|---|---|---|
| AcpServerProofs | AcpServer | `TurnsExclude`, `QuestionsSettled`, `CancelsCounted`, `TextsDelivered` |
| AcpServerRefinement | AcpServer, SessionTurns | `InvariantCorrect`, `ServerImplementsTurns` |
| ContextStoreProofs | ContextStore | `HandlesStored`, `IndexCorrect`, `SnapshotsClaimedOnce`, `EventsBounded` |
| ToolServersProofs | ToolServers | the invariant of the cache and its three properties |
| TurnProofs | ModelCalls, AgentLoop | `PinsHold`, `ToolsLostCorrect`, `RepeatsExcused`; `OffloadingDistorts`, `BlindSpared`, `RoundsExcused` |
| HostProofs | McpHost, OrgRuntime, ThreadRows | `SecondRunsExcused`, `SessionsFound`; `OnceCorrect`; `DeletionsWhole` |
| SandboxProofs | DynamicFunctions, BrowserServers | `LostOnlyByOverlap`, `PromotedRuns`; `PageStays` |
| OrgProofs | AgentStack, OrgKit, OrgAudit, OrgPack | `ExcludedReturnsRarely`, `SpecialistsOptedIn`, `OffloadedIsFetched`, `WideIsForTheUnlisted`, `KitBuildsTheSame`, `AncestorsExclude`, `AuditForesees`; `ShipsWhatWasScanned`, `VerifyIsRight`, `ArchiveStandsAlone` |

A theorem is about the specification of its own component (`StackSpec`, `PackSpec`,
`HostSpec`, ...).  The runs `agents` and `host` put several components side by side,
of which one moves at a time.

### AcpServer

The inductive invariant is

    IInv == TypeOK /\ BackoffInv /\ LockInv /\ WaitersInv /\ QuestionInv

`OneTurnPerSession` alone is not inductive: a step would need to know that a
task inside its turn holds the lock (`LockInv`).  The refinement needs that the
waiters of a session are exactly its queued prompts, each once (`WaitersInv`),
or an answer might not be the head of the abstract queue.  `QuestionsSettled`
needs that a running graph has no pending question and a plain message is only
fed where none is pending (`QuestionInv`).  Each of these is checked by TLC, as
`IInv`, before it is proved.

`OneAbortPerCancel` is inductive once the set it counts is known to be finite
(`AbortInv`): the abort of a turn takes the flag down, and only a cancel puts it up.
`TextDelivered` needs to know how often the text has been fed at each point of the
retry loop (`FedInv`): as often as the attempts before this one at most, and once
more from the moment the stream runs.

### ContextStore

The strengthening of `HandedIsStored` and `IndexInSync`, `StoreInv`, says what an
open transaction owes: nobody prepares anything without the lock, what a worker is
about to announce is in its own transaction and it holds the lock, and the
transaction keeps everything handed out so far, so that its commit keeps it too.

`ClaimedOnce` needs that a snapshot which can still be claimed has been injected no more
often than claims were rolled back (`ClaimInv`).  `OvershootIsBounded` needs a count of
its own: the events of a thread and the workers that will append whatever its length
is by then are together below the limit plus the workers (`OvershootInv`).

### ToolServers

`CacheInv` holds for any number of starts and pieces.  `PoisonPassesOrAborted` is
not inductive: a step would need to know that the copy opened last has written
all it passed since (`LastCopyInv`), and `PoisonNeedsOverlap` that there is only
one copy until they overlap (`SoleCopyInv`).  `RenamedIsWhole` follows, since nothing is
ever truncated where `sameFs` holds.

### A turn

    CallInv == CallTypeOK /\ LinkInv /\ PieceInv /\ ShownInv /\ RepeatNeedsCutOff

A fallback is called only after a transient error and never for an overridden role
(`LinkInv`); what was shown, and does not belong to the running call, was cut off
(`ShownInv`).  The step from `LinkInv` to `PinIsHard` is the lemma
`NotOverridden`: the two functions of the code that decide, separately, whether
an override exists agree.

For the loop, `AnswersHonest` says that whatever a tool answers says of the call
what is true, as far as it says it at all, and one lemma per layer says that the
layer keeps that, or makes a stub of the answer.  For the web rounds, `LoopInv`
says that the brief of a round that was not forgotten is in the conversation, which
no step takes away: messages are appended, or put in front.

### The processes that host agents

`RunsTwiceOnlyIfLost` needs that one call at a time asks about a message and waits for
the last of its runs (`AskedInv`), and that all runs of a message of which nothing was
lost have failed but the last, which is waited for or was answered (`RunsInv`).
`SessionKnown` follows from how far a search has come: the connection of the thread's
org, if there was one, is still ahead, or an answer was lost (`ScanInv`).

`OncePerProcess` holds since whoever opens without an overlap is alone and the
first (`OpenInv`, `MakeInv`).  For `DeletedIsGone`, what is not committed
belongs to a deletion at work (`UndoneInv`), a deletion that nothing has disturbed is
alone with its thread and has emptied the tables it has come to, and otherwise the
thread's own row is there as long as any of its rows is, or somebody runs it
(`KeptInv`).  A prompt that begins without the row counts as a disturbance (`written`).

### What agents share in the sandbox

`DynInv` says, of an index that was spared stale saves and broken operations, that it
agrees with its directory but for the names somebody is at work on, that the last of
these to save puts it right, or that somebody's copy is stale already, so that the save to
come will not spare it (`AgreeInv`); and that what was promoted stays listed and out of
the agent's own root unless its name is made again (`PromoteInv`).
A first version of `PromotedIsWhatRuns` could not be proved, and TLC refuted it with
one operation more than the run has: a second promotion that read the index while the
first was writing it finds the name missing from it, and copies the agent's source over the
promoted one.  The property names that case now (`BeingPromoted`).

`BrowserInv` says of a process which nothing disturbed that one of its threads at a time
starts a server, and none does once a port is trusted, that it trusts no port but its own,
and that all its threads meet there the browser it started (`LetAlone`).

### Org files, builds and packs

Nothing here bounds the number of orgs, agents, versions or edits, or the length of a
chain.  A build keeps to five facts: it knows only versions it has met
(`KnownInv`); what an agent has is barred as its own and the org's exclusions say
(`BarredInv`; `RootExcludes` says that its own are those of the file its chain of
`extends` goes back to); the supervisor's specialists were named by a policy it met
(`ScopedInv`); and unless there was an edit, what has been read is what the files
say (`UneditedInv`, whose `AsRead` has one conjunct per reading), from which
`KitAgrees` and `AuditCovers` follow.

The library's induction theorems take an operator and cannot be used with these
provers.  `OrgProofs` gets induction from a set instead: `InductionBySet` says that a
set of naturals with 0 and all successors is Nat, proved from
well-foundedness, and each use names the set of steps at which its claim holds.  That
gives `AgentsCome` (a walk along `extends` ends), `ChainWalks`, `ProfileWalks`
(the merged profile, root first) and with them the properties of chains of any length:
`ExclusionsAddUp` is what makes `AncestorExclusionsHold` true, and `RouterBlockStays`
what the audit needs.

`AuditCovers` splits on the reading that failed: each rule of the audit that is silent
rules its reading out (`CleanProfile`, `CleanRoster`, `CleanAgent`, `CleanPolicy`).

For packs, `ScanInv` says that between the gate and the archive the files are those the
gate read, unless it had no report to read, or were edited; `SelectionIs` says what a selected path is.
`LayerInv` says that a layer which differs from the one that was made is gone or has an
entry too many, which no library of the tree has (`AttestedIsPlain`), and that without an
edit the library of a layout is the one of the tree (`LibraryIsAttested`).

`PackStandsAlone` compares two trees, the one that was packed and the one the archive
unpacks to.  `PackedInv` says that without an edit all that was selected is written, and
all of it is in a layer.  `UnpackedIsTwin` says what the unpacked tree then has of the org
(`Twin`): a directory that extends nothing and lists the whole roster, the org's agents,
and those of `_shared` that go.  So its chain is the org alone (`TwinIsFlat`) and every
agent of the archive is found under the same file (`TwinHasTheFile`).  The walks along
`extends` are searched to depths that differ, as the trees have different
numbers of agents: a walk that ends meets no agent twice (`WalkMeetsEachOnce`), so it is no
longer than the agents it may meet (`WalkIsShort`) and ends in the smaller tree
too (`TwinWalksTheSame`), and what is laid over each other is the same
(`TwinHasTheSpec`).

Trying to prove them changed four properties, which the small instance
had not told from what the code does:

- `AuditCovers` lacked `ask_user` among the blocks that an org without a profile of
  its own inherits unaudited;
- `WideOnlyWhenUnlisted` did not say that the `tools_add` of an agent which extends
  none is ignored (loaders.py:393-411); a variation of `MCAgents` has it now, and
  another one an empty list;
- `ShippedWasScanned` said of every file that it is not excluded for good; shared files
  are not asked (manifest.py:58-63), only the org's own are;
- `PromotedIsWhatRuns`, as said above.

### Assumptions, and what is only model-checked

The assumptions are the named ASSUMEs of the modules, and TLC evaluates them in the
runs.  Names are distinct from the values that stand for their absence
(`None`, `Nobody`, `NoPort`, `Absent`), as are built-in tools from retrieval tools
and `ask_user`; bounds are naturals; workers are finitely many; files are finite and an edit
leads to a version that is one; requests, agents and job specs have the parts the code gives
them; an agent of a roster has a name; a block that is wrong is there.  A file on the disk
has no namespaced name (`FilesHaveBareNames`: `pux:x` is looked up in the package), and
`orgs/_shared` has no AGENTS.md (`TreesHaveParts`; agent/orgs.py:129-130 excludes it so).

Only model-checked is liveness, which the prover does not do: `EveryPromptAnswered`,
`EveryOpenReturns`, `TurnEnds`.

## Findings

1. `acp_models`: the picker's model and the compiled graph can differ
   (acp.py:666 against acp.py:259-262).
2. `acp_cancel`: the cancel flag is not per session (acp.py:634 against
   acp.py:605-611).
3. `context_eviction`: `ORDER BY priority ASC` evicts priority 1, the critical
   one (store.py:384 against store.py:110 and store.py:343).
4. `tools_partial`: the move into the binary cache is a rename only within a file
   system (mcp_bootstrap.py:255 against mcp_bootstrap.py:199-200 and 253-254).
5. `tools_isolation`: an OSError of an installation ends open() for the whole org
   (mcp_client.py:190 against mcp_bootstrap.py:15 and mcp_client.py:168-171).
6. `host_stall`: the classifier of the model node refuses `TimeoutError` before it
   accepts `asyncio.TimeoutError`, which is the same class since Python 3.11, so that the
   in-place retry of a stalled stream never happens (retry.py:79-86 against
   retry.py:18-24 and graph.py:141-149).  What the node does retry is what
   `RepeatNeedsCutOff` names: transient errors, and bad requests that speak of a stall.

## Observations

What the modelling met beside the findings.  No run has one of these as its
property; most are the exceptions a property lists, and each can be read off the
lines.

Org files and builds:

- A clean audit does not foresee: a typing error in a group of the tool surface
  (policy.py:814-817), an agent that lists a dynamic tool, an agent's MCP refs and
  allowlists, a missing skill, an agent's `base_system_prompt`, extra prompt
  parts, the text of the general-purpose agent, a malformed manifest of an
  ancestor, and a bad profile that is inherited by an org without one
  (`AuditCovers`).  Conversely `extends: pux:x` of an agent is an audit error and builds.
- `load_profile` rejects the keys `web_router` and `extra_prompt_parts`, which
  two other loaders read from the same file.
- The retrieval tools are appended after the exclusions (orgs.py:844-848), an agent
  that lists nothing inherits the supervisor's tools in spite of its own exclusions
  (orgs.py:831), and `ask_user` is added after the profile's (`ExcludedComesBack`).
- What a file that extends another one excludes is lost: `_merge_extends` names the keys it
  takes from a delta, and `excluded_tools` is not one of them (kit/loaders.py:385-449), while
  agent/orgs.py:732-746 says that a child "inherits + overrides these exactly as it inherits
  tools/skills" and org_validation.py:1059-1061 lists it among the "delta frontmatter fields".
  This is the fourth way of `ExcludedComesBack`, which is why that speaks of the file at the
  root.
- A delta's `mcp` is dropped too, and a `tools_remove` that empties
  the list widens the agent to the supervisor's tools (`WideOnlyWhenUnlisted`).
- Profile and policy of an org of `PUX_ORG_PATHS` and of a `pux:` base are never read
  (`AncestorExclusionsHold`).
- The text of the general-purpose agent and the tool catalog are cached for the life
  of a process (orgs.py:611), and `validate_tool_servers` reports every server with a
  credential, but only for orgs with a policy.

Packs:

- `_build_manifest` reads the roster again after the gate has passed (pack.py:836), so an
  edit in between can end a pack that has been scanned.  A malformed policy costs the
  archive its helpers, without an error (pack.py:413-416).
- A report of gitleaks that is missing or cannot be parsed counts as no findings, also when
  gitleaks exits with 1 for "leaks" (pack_hooks.py:165-174, 226-246): the pack ships, while
  pack_hooks.py:4-5 says "a leaked secret REFUSES the pack" and 21-23 "there is no silent
  skip of a security gate" (`ShippedWasScanned`, `pkScanned = None`).
- The library's digest and the source attestation are compared only if the manifest names a
  library layer (oci.py:499, 506): a layout that was replaced without one passes, even with
  the known-good digest that oci.py:455-456 speaks of (`VerifyTells`, `pkLayers.library =
  None`).
- The flattened prompts of the ancestors are never scanned (pack.py:823 against
  857), the OCI layers are made of the host's files and not of the flattened ones
  (885-897), the ancestors' agents and skills stay behind, and a block-style roster breaks
  when it is flattened (704-716).
- The source attestation refuses orgs under `specialists/` and any org with an excluded
  file under `lib/` (oci.py:423-435).
- `org.lock.yaml` is read by nothing, and `lockfile.py:136-139` reads a retired key.
- A file that is deleted during a pack is left out in silence; during `pux bundle` it
  leaves a partial archive (cli.py:481-501).

Running program:

- A refused provider pin is fatal where a request does not stream: `_agenerate` awaits the
  coroutine outside the try that would catch the 404 (model.py:548-549, `CatchesPin`), while
  model.py:512 says that "all four generation entry points degrade the same way".
- `ctx_execute_file` and `ctx_fetch_and_index` test `exit_code` and `out`, which are
  assigned nowhere (exec_tools.py:286-288, 356-361): whatever the sandbox answers
  raises.  Routing recommends the second one when it denies a call
  (sandbox_routing.py:83-92).
- `deploy_browser_agent` raises a NameError after it has written its entry
  (mcp_server.py:997), which therefore says "running" for ever; the search of
  `prompt` iterates over a dictionary across an await (mcp_server.py:287);
  `cancel_session`, `set_model` and `reset_session` change nothing.
- A request for one job runs all of them (custom_app.py:187-191), and main.py:305 calls
  a method the backend does not have.
- An agent can make a function with the name of a promoted one (dynamic.py:463), which
  then runs in its place; saves of a stale index lose entries; of two promotions of a function
  that overlap, the second can copy over what the first has published (dynamic.py:315-377).
- Nothing serialises the first browser calls of a process (browser.py:209-224): tool calls
  that start together kill one another's server.
- A prompt on a thread that has been deleted, or is being deleted, runs and leaves
  checkpoints without a row (acp.py:612-630), which a later delete of the session refuses
  to touch (acp.py:1241-1249).
- Two processes may derive the same browser port (a hash of the pid modulo 50), where browser.py:27-31
  promises each a unique pair; first uses that race leak a sandbox (exec.py:119-124).
- Putting a long error aside drops its status, so that the audit, which is
  outermost, logs it as a success (middleware.py:187-191); a Command around long text
  loses its other updates (middleware.py:225); a call that routing has denied and a
  declared script that has failed are logged as successes too.
- The vision middlewares are told whether the role's model can see, not whether the
  agent's own, the client's choice or a fallback can (orgs.py:512, graph.py:93).
- `_prune_old_screenshots` also removes what the user has uploaded, and counts no
  picture in a tool's result.
- The brief of a web round is inserted into the request's own list
  (web_router.py:264-297): it lasts only as long as nothing further out has copied
  that list.

## Not modelled, and why

- Formatting and rendering (tool cards, stubs, guides, the TUI), prompt texts, BM25
  ranking, the field types of org files, command construction for the container:
  text, not control.
- Titles and listing of sessions and history replay: they change nothing the
  properties talk about.  Forking a session is not implemented by the server.
- The snapshot builder: one deterministic function without state, within a unit
  test's reach.
- The memory backend is a factory around a library; generators and smoke tests are
  developer scripts.
- What deepagents, LangGraph and SQLite do by themselves: external, and modelled only
  as far as this code relies on it.
- Code that nothing in this tree calls: the publisher side of `run_events.py` (its
  call site was retired), `projects.record`, and whatever appended to the
  run_events.jsonl that `prune.py` rewrites; `prune.py` itself is a command an
  operator runs by hand.
- The tools of the MCP server that only list or answer with a text.

## Plan

What would come next, most useful first:

1. titles in `ThreadRows`, for the lost update of `merge_metadata` (threads.py:145);
2. an abstract specification of the context store (a map from handles to texts), with
   `ContextStore` as its refinement;
3. the bundle command and the lock file, if something comes to read the latter.
