------------------------------ MODULE McpHost ------------------------------
(***************************************************************************)
(* The MCP server of the program (mcp_server.py): tools that a host model  *)
(* calls to open sessions and to send them messages, over HTTP to the      *)
(* program's API server, which owns the threads and the runs (external).   *)
(*                                                                         *)
(* The server's memory is two dictionaries, _pool and _thread_org, and the *)
(* table of browser tasks.  Tool calls interleave at every await, an       *)
(* answer of the API server may be lost (AP_TIMEOUT) while the run it was  *)
(* about goes on, and a restart forgets the memory.                        *)
(*                                                                         *)
(* Tools that change nothing are not actions: list_sessions,               *)
(* browser_status, list_orgs, and the four that only answer with a text,   *)
(* cancel_session, reset_session, set_model and reload_profiles.           *)
(***************************************************************************)
EXTENDS Naturals, Sequences, FiniteSets, SequencesExt

CONSTANTS
    Known,          \* what discover_orgs lists
    Stranger,       \* a name load_session accepts although no such org exists
    BrowserOrg,     \* "browser-agent"
    Threads,        \* thread ids
    Messages,       \* messages of the host model
    To,             \* the thread each message is for
    Calls,          \* tool calls that may be in flight at once
    MaxRuns,        \* bound: runs of a message
    MaxRestarts,    \* bound: restarts of the MCP server
    Nobody          \* no org, no thread, no message

ASSUME HostConstants ==
    /\ BrowserOrg \in Known /\ Stranger \notin Known /\ Nobody \notin Known \cup {Stranger}
    /\ To \in [Messages -> Threads]
    /\ MaxRuns \in Nat /\ MaxRestarts \in Nat

VARIABLES
    pool,       \* _pool: orgs with a connection, in the order of insertion
    threadOrg,  \* _thread_org
    browser,    \* _BROWSER_TASKS: what the table says of a thread
    owner,      \* API server: the org a thread was created for
    runs,       \* API server: the runs of each message, oldest first
    call,       \* tool calls in flight, and the last answer of the others
    answer,     \* what the caller was last told about each message
    cut,        \* messages whose call ended in an error while a run of it was known to the API server
    restarts    \* restarts so far

hostVars == <<pool, threadOrg, browser, owner, runs, call, answer, cut, restarts>>

Idle == [pc |-> "idle", org |-> Nobody, thread |-> Nobody, msg |-> Nobody, pos |-> 0, size |-> 0,
         open |-> FALSE, missed |-> FALSE, run |-> 0]

HostInit ==
    /\ pool = <<>> /\ threadOrg = [t \in Threads |-> Nobody] /\ browser = [t \in Threads |-> "none"]
    /\ owner = [t \in Threads |-> Nobody] /\ runs = [m \in Messages |-> <<>>]
    /\ call = [c \in Calls |-> Idle] /\ answer = [m \in Messages |-> "none"]
    /\ cut = {} /\ restarts = 0

Free(c) == call[c].pc \in {"idle", "unknown", "raised"}

-----------------------------------------------------------------------------
(***************************************************************************)
(* Sessions.                                                               *)
(***************************************************************************)

\* _get_org
Pooled(o) == IF o \in ToSet(pool) THEN pool ELSE Append(pool, o)

\* new_session and deploy_browser_agent up to the POST of new_thread.
Open(c, t, o, next) ==
    /\ Free(c) /\ owner[t] = Nobody
    /\ \A d \in Calls : call[d].pc \in {"create", "deploy"} => call[d].thread # t
    /\ pool' = Pooled(o)
    /\ call' = [call EXCEPT ![c] = [Idle EXCEPT !.pc = next, !.org = o, !.thread = t]]
    /\ UNCHANGED <<threadOrg, browser, owner, runs, answer, cut, restarts>>

\* An unknown org is refused before the pool is touched.
NewSession(c, t, o) == o \in Known /\ Open(c, t, o, "create")
DeployBrowser(c, t) == Open(c, t, BrowserOrg, "deploy")

\* The answer to POST /threads, which may be lost after the thread was created.
\* deploy_browser_agent then writes its entry and raises: the name oc of the
\* background task does not exist, so nothing ever updates the entry.
Created(c, made, heard) ==
    /\ call[c].pc \in {"create", "deploy"} /\ (heard => made)
    /\ owner' = IF made THEN [owner EXCEPT ![call[c].thread] = call[c].org] ELSE owner
    /\ threadOrg' = IF heard THEN [threadOrg EXCEPT ![call[c].thread] = call[c].org] ELSE threadOrg
    /\ browser' = IF heard /\ call[c].pc = "deploy" THEN [browser EXCEPT ![call[c].thread] = "running"]
                                                   ELSE browser
    /\ call' = [call EXCEPT ![c] = Idle]
    /\ UNCHANGED <<pool, runs, answer, cut, restarts>>

\* load_session pools whatever name it is given.
LoadSession(c, t, o) ==
    /\ Free(c)
    /\ pool' = Pooled(o)
    /\ call' = [call EXCEPT ![c] = [Idle EXCEPT !.pc = "load", !.org = o, !.thread = t]]
    /\ UNCHANGED <<threadOrg, browser, owner, runs, answer, cut, restarts>>

\* get_thread asks for the thread, not for its org.
Loaded(c, heard) ==
    /\ call[c].pc = "load"
    /\ threadOrg' = IF heard /\ owner[call[c].thread] # Nobody
                    THEN [threadOrg EXCEPT ![call[c].thread] = call[c].org] ELSE threadOrg
    /\ call' = [call EXCEPT ![c] = Idle]
    /\ UNCHANGED <<pool, browser, owner, runs, answer, cut, restarts>>

-----------------------------------------------------------------------------
(***************************************************************************)
(* prompt: find the connection, start a run, wait for it.                  *)
(***************************************************************************)

\* _find_org_for_thread
Mapped(t) == threadOrg[t] # Nobody /\ threadOrg[t] \in ToSet(pool)

\* A message is sent again when its last call was answered with an error.
MayAsk(m) == answer[m] \in {"none", "error", "failed"}

\* The call is over; of a denied one the record remains.
Ends(c, pc, m, said) ==
    /\ call' = [call EXCEPT ![c] = IF pc = "idle" THEN Idle ELSE [@ EXCEPT !.pc = pc]]
    /\ answer' = [answer EXCEPT ![m] = said]

\* The part of prompt before its first await; with an empty pool it ends there.
Prompt(c, m) ==
    /\ Free(c) /\ MayAsk(m) /\ Len(runs[m]) < MaxRuns
    /\ LET t == To[m]
           start == [Idle EXCEPT !.thread = t, !.msg = m, !.size = Len(pool), !.pos = 1,
                                 !.open = owner[t] \in ToSet(pool)]
           pc == IF Mapped(t) THEN "post" ELSE IF pool = <<>> THEN "unknown" ELSE "scan" IN
       /\ call' = [call EXCEPT ![c] = [start EXCEPT !.pc = pc, !.org = IF pc = "post" THEN threadOrg[t] ELSE Nobody]]
       /\ answer' = [answer EXCEPT ![m] = IF pc = "unknown" THEN "error" ELSE "asked"]
    /\ UNCHANGED <<pool, threadOrg, browser, owner, runs, cut, restarts>>

\* The connection whose get_thread is awaited.
Asked(c) == pool[call[c].pos]
Hit(c, heard) == heard /\ owner[call[c].thread] = Asked(c)

\* The thread belongs to the org that was asked.
ScanHit(c) ==
    /\ call[c].pc = "scan" /\ Hit(c, TRUE)
    /\ threadOrg' = [threadOrg EXCEPT ![call[c].thread] = Asked(c)]
    /\ call' = [call EXCEPT ![c].pc = "post", ![c].org = Asked(c)]
    /\ UNCHANGED <<pool, browser, owner, runs, answer, cut, restarts>>

\* Mutant: the first org that does not own the thread ends the search.
ScanMissFirst(c, heard) ==
    /\ call[c].pc = "scan" /\ ~Hit(c, heard)
    /\ Ends(c, "unknown", call[c].msg, "error")
    /\ UNCHANGED <<pool, threadOrg, browser, owner, runs, cut, restarts>>

\* It does not, or the API server could not be asked: the next item of the
\* dictionary, which raises when a session was opened for another org meanwhile.
ScanMiss(c, heard) ==
    /\ call[c].pc = "scan" /\ ~Hit(c, heard)
    /\ LET grown == Len(pool) # call[c].size
           missed == call[c].missed \/ ~heard IN
       IF grown \/ call[c].pos = call[c].size
       THEN /\ call' = [call EXCEPT ![c].pc = IF grown THEN "raised" ELSE "unknown", ![c].missed = missed]
            /\ answer' = [answer EXCEPT ![call[c].msg] = "error"]
       ELSE /\ call' = [call EXCEPT ![c].pos = @ + 1, ![c].missed = missed]
            /\ UNCHANGED answer
    /\ UNCHANGED <<pool, threadOrg, browser, owner, runs, cut, restarts>>

\* POST /threads/{id}/runs: the run is started and its id comes back.
Post(c) ==
    /\ call[c].pc = "post" /\ owner[call[c].thread] # Nobody
    /\ LET m == call[c].msg IN
       /\ runs' = [runs EXCEPT ![m] = Append(@, "running")]
       /\ call' = [call EXCEPT ![c].pc = "wait", ![c].run = Len(runs[m]) + 1]
    /\ UNCHANGED <<pool, threadOrg, browser, owner, answer, cut, restarts>>

\* The thread is unknown to the API server, or it does not answer; the run may
\* have been started all the same.
PostFails(c, started) ==
    /\ call[c].pc = "post" /\ (started => owner[call[c].thread] # Nobody)
    /\ LET m == call[c].msg IN
       /\ runs' = IF started THEN [runs EXCEPT ![m] = Append(@, "running")] ELSE runs
       /\ cut' = IF started THEN cut \cup {m} ELSE cut
       /\ Ends(c, "idle", m, "error")
    /\ UNCHANGED <<pool, threadOrg, browser, owner, restarts>>

\* GET /runs/{id}/wait answers; the mapping is written as it was found before.
Waited(c) ==
    /\ call[c].pc = "wait"
    /\ LET m == call[c].msg  status == runs[m][call[c].run] IN
       /\ status # "running"
       /\ threadOrg' = [threadOrg EXCEPT ![call[c].thread] = call[c].org]
       /\ Ends(c, "idle", m, IF status = "success" THEN "done" ELSE "failed")
    /\ UNCHANGED <<pool, browser, owner, runs, cut, restarts>>

\* Mutant: the retry the unused classifier _is_transient_provider_error promises.
WaitFailsRetried(c) ==
    /\ call[c].pc = "wait" /\ Len(runs[call[c].msg]) < MaxRuns
    /\ call' = [call EXCEPT ![c].pc = "post"]
    /\ UNCHANGED <<pool, threadOrg, browser, owner, runs, answer, cut, restarts>>

\* The wait times out or the connection breaks; the run goes on.
WaitFails(c) ==
    /\ call[c].pc = "wait"
    /\ cut' = cut \cup {call[c].msg}
    /\ Ends(c, "idle", call[c].msg, "error")
    /\ UNCHANGED <<pool, threadOrg, browser, owner, runs, restarts>>

-----------------------------------------------------------------------------
\* The API server ends a run.
RunEnds(m, i, status) ==
    /\ i \in DOMAIN runs[m] /\ runs[m][i] = "running"
    /\ runs' = [runs EXCEPT ![m][i] = status]
    /\ UNCHANGED <<pool, threadOrg, browser, owner, call, answer, cut, restarts>>

\* The MCP server is started again: its memory is empty, calls break off.
Restart ==
    /\ restarts < MaxRestarts /\ restarts' = restarts + 1
    /\ pool' = <<>> /\ threadOrg' = [t \in Threads |-> Nobody] /\ browser' = [t \in Threads |-> "none"]
    /\ call' = [c \in Calls |-> Idle]
    /\ answer' = [m \in Messages |-> IF answer[m] = "asked" THEN "error" ELSE answer[m]]
    /\ cut' = cut \cup {call[c].msg : c \in {d \in Calls : call[d].pc = "wait"}}
    /\ UNCHANGED <<owner, runs>>

HostNext ==
    \/ \E c \in Calls, t \in Threads : \E o \in Known : NewSession(c, t, o)
    \/ \E c \in Calls, t \in Threads : DeployBrowser(c, t)
    \/ \E c \in Calls, t \in Threads : \E o \in Known \cup {Stranger} : LoadSession(c, t, o)
    \/ \E c \in Calls, heard \in BOOLEAN : Loaded(c, heard) \/ ScanMiss(c, heard)
    \/ \E c \in Calls, made \in BOOLEAN, heard \in BOOLEAN : Created(c, made, heard)
    \/ \E c \in Calls, m \in Messages : Prompt(c, m)
    \/ \E c \in Calls : ScanHit(c) \/ Post(c) \/ Waited(c) \/ WaitFails(c)
    \/ \E c \in Calls, started \in BOOLEAN : PostFails(c, started)
    \/ \E m \in Messages : \E i \in 1..MaxRuns, status \in {"success", "error"} : RunEnds(m, i, status)
    \/ Restart

HostSpec == HostInit /\ [][HostNext]_hostVars

-----------------------------------------------------------------------------
(***************************************************************************)
(* Properties.                                                             *)
(***************************************************************************)

\* prompt is at most once unless the caller is misled: a message has a second run
\* only if every earlier run failed, or a call about it ended in an error while
\* its run went on (mcp_server.py:140-170, 326-356: the timeout of the wait and
\* the failure of a run are told apart by their texts alone).
RunsTwiceOnlyIfLost ==
    \A m \in Messages : Len(runs[m]) > 1 =>
        m \in cut \/ \A i \in 1..(Len(runs[m]) - 1) : runs[m][i] = "error"

\* A session whose org has a connection when prompt is called is found, or a
\* question to the API server failed: the search over the pool
\* (mcp_server.py:287-301) goes on past orgs that do not own the thread, and it
\* breaks off only when another session opened an org's first connection.
SessionKnown ==
    \A c \in Calls :
        /\ call[c].pc = "unknown" => ~call[c].open \/ call[c].missed
        /\ call[c].pc = "raised" => Len(pool) > call[c].size
=============================================================================
