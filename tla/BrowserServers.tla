--------------------------- MODULE BrowserServers ---------------------------
(***************************************************************************)
(* Which browser a tool call meets (sandbox/tools/browser.py).  A process  *)
(* derives a port from its pid, starts a browser server on it when the     *)
(* first call needs one, remembers the port, and falls back to the         *)
(* container's own server when it cannot.  The open page, its tabs and its *)
(* login live in that browser and nowhere else.                            *)
(*                                                                         *)
(* The threads of a process get there without a lock, the warm-up and the  *)
(* tool calls of one message, of several agents and of several sessions,   *)
(* and two processes may derive the same port.  Whoever starts a server    *)
(* first kills what listens on its port.  A server comes up late or never, *)
(* and a probe may be answered too late.                                   *)
(*                                                                         *)
(* The tools themselves (click, type_text, ...) are a ToolCall with an     *)
(* endpoint and arguments.                                                 *)
(***************************************************************************)
EXTENDS Naturals, FiniteSets

CONSTANTS
    Processes,      \* processes of the program in one container
    PortOf,         \* _alloc_port_pair: the port of each process
    ToolThreads,    \* the threads in which a process runs tool calls at the same time
    Attempts,       \* PUX_BROWSER_SPAWN_ATTEMPTS
    MaxUses,        \* bound: tool calls
    MaxLaunches,    \* bound: servers started
    MaxCrashes,     \* bound: browsers that crash by themselves
    NoPort

ASSUME BrowserConstants ==
    /\ Attempts \in Nat \ {0} /\ {MaxUses, MaxLaunches, MaxCrashes} \subseteq Nat
    /\ PortOf \in [Processes -> Nat] /\ NoPort \notin Nat /\ "warmup" \notin ToolThreads

VARIABLES
    cached,     \* _process_http_port of each process
    warmed,     \* processes whose warm-up has begun (_warmup_started)
    server,     \* per port: the server that listens, NoPort if none
    starting,   \* servers each process has started that do not listen yet
    launches,   \* servers started
    listened,   \* servers that came to listen, which also names them
    own,        \* the container's server: "down", "idle" (no browser yet) or "ready"
    worker,     \* the threads: what they are doing
    uses,       \* tool calls begun
    crashes,    \* browsers that crashed
    last,       \* per process: the browser its last call met
    moved,      \* processes whose calls have met two browsers
    disturbed   \* processes for which something happened that PageKept excuses

browserVars == <<cached, warmed, server, starting, launches, listened, own, worker, uses, crashes, last, moved,
                disturbed>>

OwnPort == 9876
Ports == {PortOf[p] : p \in Processes}
Workers == Processes \X ({"warmup"} \cup ToolThreads)
Asleep == [step |-> "asleep", tries |-> 0, port |-> NoPort]

BrowserInit ==
    /\ cached = [p \in Processes |-> NoPort] /\ warmed = {}
    /\ server = [q \in Ports |-> NoPort] /\ starting = [p \in Processes |-> 0]
    /\ launches = 0 /\ listened = 0
    /\ own \in {"down", "idle"}
    /\ worker = [w \in Workers |-> Asleep] /\ uses = 0 /\ crashes = 0
    /\ last = [p \in Processes |-> NoPort] /\ moved = {} /\ disturbed = {}

Busy(w) == worker[w].step # "asleep"
Steps(w, step) == worker' = [worker EXCEPT ![w].step = step]
Disturbed(p) == disturbed' = disturbed \cup {p}

\* A thread on its way to a server of its own, and whether a thread of w's process is already.
Cold(w) == worker[w].step \in {"kill", "launch", "poll", "fall back"}
ColdTogether(w) == \E v \in Workers : v # w /\ v[1] = w[1] /\ Cold(v)

-----------------------------------------------------------------------------
(***************************************************************************)
(* _ensure_ephemeral_server                                                *)
(***************************************************************************)

\* A port is remembered, or the process starts from nothing.
Enter(w) ==
    /\ worker' = [worker EXCEPT ![w] = [Asleep EXCEPT !.step = IF cached[w[1]] = NoPort THEN "kill" ELSE "probe"]]
    /\ IF cached[w[1]] = NoPort /\ ColdTogether(w) THEN Disturbed(w[1]) ELSE UNCHANGED disturbed

\* warmup_ephemeral_browser: a thread, once per process.
WarmUp(p) ==
    /\ p \notin warmed /\ warmed' = warmed \cup {p}
    /\ Enter(<<p, "warmup">>)
    /\ UNCHANGED <<cached, server, starting, launches, listened, own, uses, crashes, last, moved>>

\* _sb_post, in any thread of the process that has none: there is no lock.
ToolCall(p) ==
    /\ uses < MaxUses /\ uses' = uses + 1
    /\ \E t \in ToolThreads : ~Busy(<<p, t>>) /\ Enter(<<p, t>>)
    /\ UNCHANGED <<cached, warmed, server, starting, launches, listened, own, crashes, last, moved>>

Alive(q) == IF q = OwnPort THEN own # "down" ELSE server[q] # NoPort

\* The remembered port answers, as far as anybody can tell.
Probe(w, heard) ==
    /\ worker[w].step = "probe"
    /\ LET q == cached[w[1]] IN
       IF Alive(q) /\ heard
       THEN worker' = [worker EXCEPT ![w].step = "post", ![w].port = q] /\ UNCHANGED disturbed
       ELSE /\ Steps(w, "kill")
            /\ IF Alive(q) \/ ColdTogether(w) THEN Disturbed(w[1]) ELSE UNCHANGED disturbed
    /\ UNCHANGED <<cached, warmed, server, starting, launches, listened, own, uses, crashes, last, moved>>

\* _spawn_one_attempt: kill what listens on the process's port, whoever started it;
\* a server that does not listen yet is not found.
Kill(w) ==
    /\ worker[w].step = "kill"
    /\ LET q == PortOf[w[1]] IN
       /\ server' = [server EXCEPT ![q] = NoPort]
       /\ disturbed' = disturbed \cup (IF server[q] = NoPort THEN {} ELSE {p \in Processes \ {w[1]} : PortOf[p] = q})
    /\ Steps(w, "launch")
    /\ UNCHANGED <<cached, warmed, starting, launches, listened, own, uses, crashes, last, moved>>

Launch(w) ==
    /\ worker[w].step = "launch" /\ launches < MaxLaunches
    /\ launches' = launches + 1
    /\ starting' = [starting EXCEPT ![w[1]] = @ + 1]
    /\ Steps(w, "poll")
    /\ UNCHANGED <<cached, warmed, server, listened, own, uses, crashes, last, moved, disturbed>>

\* Mutant: the port is not remembered.
AnsweredForgotten(w) ==
    /\ worker[w].step = "poll" /\ Alive(PortOf[w[1]])
    /\ worker' = [worker EXCEPT ![w].step = "post", ![w].port = PortOf[w[1]]]
    /\ UNCHANGED <<cached, warmed, server, starting, launches, listened, own, uses, crashes, last, moved, disturbed>>

\* Something answers on the port: it is remembered, and gets the stored cookies.
Answered(w) ==
    /\ worker[w].step = "poll" /\ Alive(PortOf[w[1]])
    /\ cached' = [cached EXCEPT ![w[1]] = PortOf[w[1]]]
    /\ worker' = [worker EXCEPT ![w].step = "post", ![w].port = PortOf[w[1]]]
    /\ UNCHANGED <<warmed, server, starting, launches, listened, own, uses, crashes, last, moved, disturbed>>

\* The deadline: another attempt, then the container's own server.
Deadline(w) ==
    /\ worker[w].step = "poll"
    /\ worker' = [worker EXCEPT ![w].tries = @ + 1,
                                ![w].step = IF worker[w].tries + 1 < Attempts THEN "kill" ELSE "fall back"]
    /\ Disturbed(w[1])
    /\ UNCHANGED <<cached, warmed, server, starting, launches, listened, own, uses, crashes, last, moved>>

\* _supervisord_browser_ready: its browser is started when it has none.
FallBack(w, starts) ==
    /\ worker[w].step = "fall back"
    /\ own' = IF own = "idle" /\ starts THEN "ready" ELSE own
    /\ IF own' = "ready"
       THEN /\ cached' = [cached EXCEPT ![w[1]] = OwnPort]
            /\ worker' = [worker EXCEPT ![w].step = "post", ![w].port = OwnPort]
       ELSE worker' = [worker EXCEPT ![w] = Asleep] /\ UNCHANGED cached
    /\ UNCHANGED <<warmed, server, starting, launches, listened, uses, crashes, last, moved, disturbed>>

\* The request reaches whatever listens on the port now.
PostTo(w) ==
    /\ worker[w].step = "post"
    /\ worker' = [worker EXCEPT ![w] = Asleep]
    /\ LET p == w[1]  q == worker[w].port
           met == IF q = OwnPort THEN [name |-> 0, by |-> p] ELSE server[q] IN
       IF w[2] = "warmup" \/ ~Alive(q) THEN UNCHANGED <<last, moved, disturbed>>
       ELSE /\ last' = [last EXCEPT ![p] = met]
            /\ moved' = IF last[p] \notin {NoPort, met} THEN moved \cup {p} ELSE moved
            /\ IF met.by # p THEN Disturbed(p) ELSE UNCHANGED disturbed
    /\ UNCHANGED <<cached, warmed, server, starting, launches, listened, own, uses, crashes>>

-----------------------------------------------------------------------------
\* A started server listens, or finds the port taken and ends.
Listens(p) ==
    /\ starting[p] > 0 /\ starting' = [starting EXCEPT ![p] = @ - 1]
    /\ LET q == PortOf[p] IN
       IF server[q] # NoPort THEN UNCHANGED <<server, listened>>
       ELSE /\ listened' = listened + 1
            /\ server' = [server EXCEPT ![q] = [name |-> listened + 1, by |-> p]]
    /\ UNCHANGED <<cached, warmed, launches, own, worker, uses, crashes, last, moved, disturbed>>

\* A browser crashes.
Crash(q) ==
    /\ server[q] # NoPort /\ crashes < MaxCrashes /\ crashes' = crashes + 1
    /\ server' = [server EXCEPT ![q] = NoPort]
    /\ disturbed' = disturbed \cup {p \in Processes : PortOf[p] = q}
    /\ UNCHANGED <<cached, warmed, starting, launches, listened, own, worker, uses, last, moved>>

BrowserNext ==
    \/ \E p \in Processes : WarmUp(p) \/ ToolCall(p)
    \/ \E w \in Workers :
        \/ Kill(w) \/ Launch(w) \/ Answered(w) \/ Deadline(w) \/ PostTo(w)
        \/ \E ok \in BOOLEAN : Probe(w, ok) \/ FallBack(w, ok)
    \/ \E p \in Processes : Listens(p)
    \/ \E q \in Ports : Crash(q)

BrowserSpec == BrowserInit /\ [][BrowserNext]_browserVars

-----------------------------------------------------------------------------
\* The calls of a process go on in one browser, with its page and its login,
\* until that browser crashes, a probe or a start is slow, two threads of the process
\* (the warm-up, parallel tool calls) start servers at the same time and the second
\* kills what the first started, or another process has the same port
\* (browser.py:106-137, 191-294; the module promises every process a port of its
\* own at 27-31).
PageKept == moved \subseteq disturbed
=============================================================================
