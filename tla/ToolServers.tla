----------------------------- MODULE ToolServers -----------------------------
(***************************************************************************)
(* How a start of an org gets the tools of its foreign MCP servers:        *)
(* open_org_mcp (agent/mcp_client.py:244-285) opens the servers one after  *)
(* another under one timer, and ensure_server (agent/mcp_bootstrap.py)     *)
(* puts the binary of a server with a github: block into a cache on disk   *)
(* that every pux process of the project shares.                           *)
(*                                                                         *)
(* A start is a process of its own.  ensure_server runs in a thread that   *)
(* the timer does not stop, so a start has two parts: the coroutine (at,   *)
(* pc) and the thread.  shutil.move renames when the scratch directory is  *)
(* on the file system of the cache, and otherwise truncates the target,    *)
(* copies the bytes and then the mode.                                     *)
(***************************************************************************)
EXTENDS Naturals, Sequences, FiniteSets

CONSTANTS
    Starts,         \* starts of an org: pux direct, pux acp, a graph factory
    Servers,        \* names of tool servers
    SpecsOf,        \* the resolved specs of a start, in their order
    Bootstrapped,   \* servers with a github: block whose command is not on PATH
    Reliable,       \* servers that always list their tools
    Chunks          \* pieces in which a binary is copied

ASSUME ChunksArePositive == Chunks \in Nat \ {0}
ASSUME SpecsAreServers == SpecsOf \in [Starts -> Seq(Servers)]
ASSUME ServerKinds == Bootstrapped \subseteq Servers /\ Reliable \subseteq Servers \ Bootstrapped

VARIABLES
    pc,         \* where the coroutine of a start is
    at,         \* index of the spec it is working on
    connected,  \* connections of McpSessionManager.open
    tools,      \* servers whose tools were loaded; once returned, the result
    outcome,    \* how open_org_mcp ended
    thread,     \* what the thread in ensure_server is doing
    written,    \* pieces it has copied
    file,       \* the binary at the cache path of each server
    overlapped, \* servers whose binary was overwritten by a second copy
    aborted,    \* servers a copy of whose binary was abandoned
    sameFs      \* the scratch directory can be renamed into the cache: a fact of the host

vars == <<pc, at, connected, tools, outcome, thread, written, file, overlapped, aborted, sameFs>>

Binary == [pieces : SUBSET (1..Chunks), exec : BOOLEAN]
Whole == 1..Chunks
NoBinary == [pieces |-> {}, exec |-> FALSE]

TypeOK ==
    /\ pc \in [Starts -> {"start", "prepare", "probe", "returned", "dead"}]
    /\ at \in [Starts -> Nat \ {0}]
    /\ connected \in [Starts -> SUBSET Servers]
    /\ tools \in [Starts -> SUBSET Servers]
    /\ outcome \in [Starts -> {"none", "unresolved", "listed", "timeout", "failed"}]
    /\ thread \in [Starts -> {"none", "check", "fetch", "install", "copy",
                              "found", "missing", "raised"}]
    /\ written \in [Starts -> 0..Chunks]
    /\ file \in [Bootstrapped -> Binary]
    /\ overlapped \subseteq Bootstrapped /\ aborted \subseteq Bootstrapped
    /\ sameFs \in BOOLEAN

Init ==
    /\ pc = [c \in Starts |-> "start"]
    /\ at = [c \in Starts |-> 1]
    /\ connected = [c \in Starts |-> {}]
    /\ tools = [c \in Starts |-> {}]
    /\ outcome = [c \in Starts |-> "none"]
    /\ thread = [c \in Starts |-> "none"]
    /\ written = [c \in Starts |-> 0]
    /\ file = [g \in Bootstrapped |-> NoBinary]
    /\ overlapped = {} /\ aborted = {} /\ sameFs \in BOOLEAN

Current(c) == SpecsOf[c][at[c]]
Specs(c) == {SpecsOf[c][i] : i \in 1..Len(SpecsOf[c])}
LastDone(c) == at[c] > Len(SpecsOf[c])

-----------------------------------------------------------------------------
(***************************************************************************)
(* The coroutine: open_org_mcp and McpSessionManager.open.                 *)
(***************************************************************************)

Return(c, how, loaded) ==
    /\ pc' = [pc EXCEPT ![c] = "returned"]
    /\ outcome' = [outcome EXCEPT ![c] = how]
    /\ tools' = [tools EXCEPT ![c] = loaded]

\* resolve_tool_servers returns the specs; from here the timer runs.
Open(c) ==
    /\ pc[c] = "start"
    /\ pc' = [pc EXCEPT ![c] = "prepare"]
    /\ UNCHANGED <<at, connected, tools, outcome, thread, written, file, overlapped, aborted, sameFs>>

\* resolve_tool_servers raises: a reference no catalog knows, a name twice, a spec
\* that cannot be read.  A variable that is not set only skips its server.
Unresolved(c) ==
    /\ pc[c] = "start"
    /\ Return(c, "unresolved", {})
    /\ UNCHANGED <<at, connected, thread, written, file, overlapped, aborted, sameFs>>

\* _maybe_bootstrap: ensure_server begins in a thread of its own.
Bootstrap(c) ==
    /\ pc[c] = "prepare" /\ ~LastDone(c)
    /\ Current(c) \in Bootstrapped /\ thread[c] = "none"
    /\ thread' = [thread EXCEPT ![c] = "check"]
    /\ UNCHANGED <<pc, at, connected, tools, outcome, written, file, overlapped, aborted, sameFs>>

NextSpec(c, servers) ==
    /\ at' = [at EXCEPT ![c] = @ + 1]
    /\ thread' = [thread EXCEPT ![c] = "none"]
    /\ connected' = [connected EXCEPT ![c] = @ \cup servers]
    /\ UNCHANGED <<pc, tools, outcome, written, file, overlapped, aborted, sameFs>>

\* The command of the current spec is known: its connection is set up.
Connect(c) ==
    /\ pc[c] = "prepare" /\ ~LastDone(c)
    /\ Current(c) \in Bootstrapped => thread[c] = "found"
    /\ NextSpec(c, {Current(c)})

\* ensure_server returned None: the spec is skipped.
Skip(c) ==
    /\ pc[c] = "prepare" /\ thread[c] = "missing"
    /\ NextSpec(c, {})

\* ensure_server raised an OSError: open() lets it through, and open_org_mcp
\* returns no tools.
OpenFails(c) ==
    /\ pc[c] = "prepare" /\ thread[c] = "raised"
    /\ Return(c, "failed", {})
    /\ UNCHANGED <<at, connected, thread, written, file, overlapped, aborted, sameFs>>

\* The specs are prepared: the second loop of open() begins.
StartProbing(c) ==
    /\ pc[c] = "prepare" /\ LastDone(c)
    /\ pc' = [pc EXCEPT ![c] = "probe"]
    /\ at' = [at EXCEPT ![c] = 1]
    /\ UNCHANGED <<connected, tools, outcome, thread, written, file, overlapped, aborted, sameFs>>

\* The server lists its tools, and they pass the allowlist.
ProbeListed(c) ==
    /\ pc[c] = "probe" /\ ~LastDone(c)
    /\ Current(c) \in connected[c]
    /\ Current(c) \in Bootstrapped => file[Current(c)].pieces = Whole
    /\ tools' = [tools EXCEPT ![c] = @ \cup {Current(c)}]
    /\ at' = [at EXCEPT ![c] = @ + 1]
    /\ UNCHANGED <<pc, connected, outcome, thread, written, file, overlapped, aborted, sameFs>>

\* The server has no connection, is unreachable or lacks a tool of the
\* allowlist: open() goes on with the next one.
ProbeFailed(c) ==
    /\ pc[c] = "probe" /\ ~LastDone(c)
    /\ Current(c) \in Reliable => Current(c) \notin connected[c]
    /\ at' = [at EXCEPT ![c] = @ + 1]
    /\ UNCHANGED <<pc, connected, tools, outcome, thread, written, file, overlapped, aborted, sameFs>>

\* open() ends, and open_org_mcp returns its tools.
Listed(c) ==
    /\ pc[c] = "probe" /\ LastDone(c)
    /\ Return(c, "listed", tools[c])
    /\ UNCHANGED <<at, connected, thread, written, file, overlapped, aborted, sameFs>>

\* Mutant: the timer is about the probes alone.
TimeoutOfProbes(c) ==
    /\ pc[c] = "probe"
    /\ Return(c, "timeout", {})
    /\ UNCHANGED <<at, connected, thread, written, file, overlapped, aborted, sameFs>>

\* wait_for cancels open(); the thread goes on.
Timeout(c) ==
    /\ pc[c] \in {"prepare", "probe"}
    /\ Return(c, "timeout", {})
    /\ UNCHANGED <<at, connected, thread, written, file, overlapped, aborted, sameFs>>

-----------------------------------------------------------------------------
(***************************************************************************)
(* The thread: ensure_server.                                              *)
(***************************************************************************)

Goto(c, phase) == thread' = [thread EXCEPT ![c] = phase]

\* The cached file is there and executable, which counts as complete.
CacheHit(c) ==
    /\ thread[c] = "check"
    /\ file[Current(c)].exec
    /\ Goto(c, "found")
    /\ UNCHANGED <<pc, at, connected, tools, outcome, written, file, overlapped, aborted, sameFs>>

CacheMiss(c) ==
    /\ thread[c] = "check"
    /\ ~file[Current(c)].exec
    /\ Goto(c, "fetch")
    /\ UNCHANGED <<pc, at, connected, tools, outcome, written, file, overlapped, aborted, sameFs>>

\* The archive is downloaded and the binary extracted in a scratch directory,
\* or the release, the asset or the binary is not there.
Fetch(c) ==
    /\ thread[c] = "fetch"
    /\ Goto(c, "install") \/ Goto(c, "missing")
    /\ UNCHANGED <<pc, at, connected, tools, outcome, written, file, overlapped, aborted, sameFs>>

\* Threads that are copying the binary of g.
Copying(g) == {c \in Starts : thread[c] = "copy" /\ Current(c) = g}

\* Opening for writing empties a file and keeps its mode; a new file is not
\* executable.
Truncate(c) ==
    /\ thread[c] = "install"
    /\ file' = [file EXCEPT ![Current(c)].pieces = {}]
    /\ overlapped' = IF file[Current(c)].exec \/ Copying(Current(c)) # {}
                     THEN overlapped \cup {Current(c)} ELSE overlapped
    /\ written' = [written EXCEPT ![c] = 0]
    /\ Goto(c, "copy")
    /\ UNCHANGED <<pc, at, connected, tools, outcome, aborted, sameFs>>

\* Mutant: shutil.copy in place of shutil.move, which copies on one file system,
\* too.
RenameByCopy(c) == sameFs /\ Truncate(c)

\* shutil.move on one file system: a rename over what is at the path.
Rename(c) ==
    /\ sameFs
    /\ thread[c] = "install"
    /\ file' = [file EXCEPT ![Current(c)] = [pieces |-> Whole, exec |-> TRUE]]
    /\ Goto(c, "found")
    /\ UNCHANGED <<pc, at, connected, tools, outcome, written, overlapped, aborted, sameFs>>

\* Mutant: the target has its mode before it has its bytes.
OpenCopyExecutable(c) ==
    /\ ~sameFs
    /\ thread[c] = "install"
    /\ file' = [file EXCEPT ![Current(c)] = [pieces |-> {}, exec |-> TRUE]]
    /\ written' = [written EXCEPT ![c] = 0]
    /\ Goto(c, "copy")
    /\ UNCHANGED <<pc, at, connected, tools, outcome, overlapped, aborted, sameFs>>

\* shutil.move across file systems is copy2: the bytes, then the mode.
OpenCopy(c) == ~sameFs /\ Truncate(c)

\* Mutant: the copy runs past the end of the binary.
CopyPieceUnbounded(c) ==
    /\ thread[c] = "copy"
    /\ written' = [written EXCEPT ![c] = @ + 1]
    /\ file' = [file EXCEPT ![Current(c)].pieces = @ \cup {written[c] + 1}]
    /\ UNCHANGED <<pc, at, connected, tools, outcome, thread, overlapped, aborted, sameFs>>

\* A piece lands at its own offset, whoever truncated the file since.
CopyPiece(c) ==
    /\ thread[c] = "copy" /\ written[c] < Chunks
    /\ written' = [written EXCEPT ![c] = @ + 1]
    /\ file' = [file EXCEPT ![Current(c)].pieces = @ \cup {written[c] + 1}]
    /\ UNCHANGED <<pc, at, connected, tools, outcome, thread, overlapped, aborted, sameFs>>

\* Mutant: the mode is set before the last piece is written.
CopyModeEarly(c) ==
    /\ thread[c] = "copy" /\ written[c] + 1 = Chunks
    /\ file' = [file EXCEPT ![Current(c)].exec = TRUE]
    /\ Goto(c, "found")
    /\ UNCHANGED <<pc, at, connected, tools, outcome, written, overlapped, aborted, sameFs>>

\* copystat, and the chmod after the move, make the copy executable.
CopyMode(c) ==
    /\ thread[c] = "copy" /\ written[c] = Chunks
    /\ file' = [file EXCEPT ![Current(c)].exec = TRUE]
    /\ Goto(c, "found")
    /\ UNCHANGED <<pc, at, connected, tools, outcome, written, overlapped, aborted, sameFs>>

Abandoned(c) == IF thread[c] = "copy" THEN aborted \cup {Current(c)} ELSE aborted

\* mkdir, the scratch directory or the move raises: a full disk, a busy binary.
FileError(c) ==
    /\ thread[c] \in {"fetch", "install", "copy"}
    /\ aborted' = Abandoned(c)
    /\ Goto(c, "raised")
    /\ UNCHANGED <<pc, at, connected, tools, outcome, written, file, overlapped, sameFs>>

\* The process dies, with its thread.
Die(c) ==
    /\ pc[c] \notin {"start", "dead"}
    /\ pc' = [pc EXCEPT ![c] = "dead"]
    /\ aborted' = Abandoned(c)
    /\ Goto(c, "none")
    /\ UNCHANGED <<at, connected, tools, outcome, written, file, overlapped, sameFs>>

-----------------------------------------------------------------------------
Coroutine(c) ==
    \/ Open(c) \/ Unresolved(c) \/ Bootstrap(c) \/ Connect(c) \/ Skip(c) \/ OpenFails(c)
    \/ StartProbing(c) \/ ProbeListed(c) \/ ProbeFailed(c) \/ Listed(c) \/ Timeout(c)

Thread(c) ==
    \/ CacheHit(c) \/ CacheMiss(c) \/ Fetch(c) \/ Rename(c) \/ OpenCopy(c)
    \/ CopyPiece(c) \/ CopyMode(c) \/ FileError(c)

Next == \E c \in Starts : Coroutine(c) \/ Thread(c) \/ Die(c)

Spec == Init /\ [][Next]_vars

\* The event loop's timer fires, whatever servers and threads do.
FairSpec == Spec /\ \A c \in Starts : WF_vars(Timeout(c))

-----------------------------------------------------------------------------
(***************************************************************************)
(* Properties.                                                             *)
(***************************************************************************)

\* A binary that a start takes for complete, and that is not.
Poisoned(g) == file[g].exec /\ file[g].pieces # Whole

\* A thread works on a bootstrapped server, the one its start is at, and
\* copies only where it cannot rename.
ThreadInv ==
    \A c \in Starts :
        /\ thread[c] # "none" => /\ pc[c] \in {"prepare", "returned"}
                                /\ ~LastDone(c) /\ Current(c) \in Bootstrapped
        /\ thread[c] = "copy" => ~sameFs

\* Unless a copy was abandoned, the binary is complete, or the copy that was
\* opened last is on its way to complete it.
LastCopyInv ==
    \A g \in Bootstrapped \ aborted :
        \/ file[g].pieces = Whole
        \/ \E c \in Copying(g) : 1..written[c] \subseteq file[g].pieces
        \/ Copying(g) = {} /\ file[g] = NoBinary

\* Until copies overlap there is at most one, and the binary becomes
\* executable when it is complete.
SoleCopyInv ==
    \A g \in Bootstrapped \ overlapped :
        /\ file[g].exec => file[g].pieces = Whole /\ Copying(g) = {}
        /\ \A c \in Copying(g) : /\ 1..written[c] \subseteq file[g].pieces
                                 /\ Copying(g) = {c}

\* The inductive invariant of ToolServersProofs: what makes the two properties
\* of the cache below hold in spite of copies without a lock
\* (mcp_bootstrap.py:241-256).
CacheInv == TypeOK /\ ThreadInv /\ LastCopyInv /\ SoleCopyInv

\* One installation, wherever it is cut short, leaves nothing that the test
\* of the cache (mcp_bootstrap.py:215) takes for a complete binary: it takes a
\* second one that truncates what the first made, or is making, executable.
PoisonNeedsOverlap == \A g \in Bootstrapped : Poisoned(g) => g \in overlapped

\* Overlapping installations do no lasting harm (mcp_bootstrap.py:253-256) if
\* none is cut short: the one that truncated last writes every piece again.
PoisonPassesOrAborted ==
    \A g \in Bootstrapped : Poisoned(g) => Copying(g) # {} \/ g \in aborted

\* The module says of open() that each server is probed independently and
\* that one bad server cannot brick the batch (mcp_client.py:168-171), and of
\* ensure_server that every failure returns None (mcp_bootstrap.py:15): then
\* only the timer can cost the tools of a server that works.
BadServerCostsOnlyItself ==
    \A c \in Starts :
        outcome[c] \in {"listed", "failed"} => Reliable \cap Specs(c) \subseteq tools[c]

\* The cache never holds a partial binary, says ensure_server
\* (mcp_bootstrap.py:199-200): what the test at mcp_bootstrap.py:215 accepts
\* is complete.
CacheHoldsNoPartial == \A g \in Bootstrapped : ~Poisoned(g)

\* Where the scratch directory and the cache share a file system, that is so, with any
\* number of installations and however they end: the move is a rename
\* (mcp_bootstrap.py:255), and nothing is ever truncated.
RenamedIsWhole == sameFs => CacheHoldsNoPartial

\* A hung server, or a download that outlives the timer, does not keep a start
\* from returning (mcp_client.py:257-281).
EveryOpenReturns ==
    \A c \in Starts : pc[c] = "prepare" ~> pc[c] \in {"returned", "dead"}
=============================================================================
