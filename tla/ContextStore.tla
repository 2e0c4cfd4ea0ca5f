---------------------------- MODULE ContextStore ----------------------------
(***************************************************************************)
(* The shared context store of packages/deepagents-context: one SQLite     *)
(* file in WAL mode that every worker thread of every pux process opens    *)
(* with a connection of its own (store.py:182-208), and the middleware and *)
(* tools that write through it.                                            *)
(*                                                                         *)
(* Python's sqlite3 begins a transaction before the first write and keeps  *)
(* it, and the file's one write lock, until the connection commits; reads  *)
(* outside a transaction see what is committed.  A step is a statement, or *)
(* statements nothing can separate because the worker holds the lock.      *)
(***************************************************************************)
EXTENDS Naturals, Sequences, FiniteSets

CONSTANTS
    Workers,        \* worker threads, each with its sqlite connection
    Threads,        \* conversation threads that have an id
    NoThread,       \* thread_id = "": calls no thread is known for
    Keys,           \* what an event says: its type and data_hash
    Priority,       \* EVENT_PRIORITIES: 1 is critical, 4 is low
    Handles,        \* ctx: handles uuid4 can yield
    MaxEvents,      \* MAX_EVENTS_PER_SESSION
    DedupWindow,    \* DEDUP_WINDOW
    MaxBatch,       \* bound: commands of one ctx_batch_execute
    MaxCalls,       \* bound: hooks and tools started
    MaxDeaths,      \* bound: processes that die
    None            \* no writer

ASSUME PriorityType == Priority \in [Keys -> 1..4]
ASSUME LimitsAreNat ==
    /\ {MaxEvents, DedupWindow, MaxBatch} \subseteq Nat \ {0}
    /\ {MaxCalls, MaxDeaths} \subseteq Nat
ASSUME NamesAreFresh == None \notin Workers /\ NoThread \notin Threads
ASSUME SomeKey == Keys # {}
ASSUME WorkersAreFinite == IsFiniteSet(Workers)

Scopes == Threads \cup {NoThread}

VARIABLES
    db,         \* the committed contents of the file
    writer,     \* whose open transaction holds the write lock, or None
    draft,      \* the contents as that transaction sees them
    job,        \* what each worker is doing
    handed,     \* handles in messages the model was given, not purged since
    used,       \* handles drawn so far
    injected,   \* how often a thread's stored snapshot was injected
    calls,      \* hooks and tools started
    deaths      \* processes that died

vars == <<db, writer, draft, job, handed, used, injected, calls, deaths>>

\* What a worker is doing: phase; thread and key of the event being captured;
\* evict: what the COUNT said; big: the result is over the threshold; left:
\* commands of a batch still to run; stash: handles to announce on return.
Phases == {"idle", "dedup", "count", "insert", "offload", "batch", "flush"}

NoJob == [phase |-> "idle", thread |-> NoThread, key |-> CHOOSE k \in Keys : TRUE,
          evict |-> FALSE, big |-> FALSE, left |-> 0, stash |-> {}]

\* The contents of the database: the keys of each thread's events, oldest first (no
\* statement compares the ids of two threads' events); blobs (a handle and a thread)
\* and blobs_fts; session_resume of each thread.
Empty == [events |-> [s \in Scopes |-> <<>>], blobs |-> {}, fts |-> {}, resume |-> [t \in Threads |-> "none"]]

Init ==
    /\ db = Empty /\ draft = Empty /\ writer = None
    /\ job = [w \in Workers |-> NoJob]
    /\ handed = {} /\ used = {}
    /\ injected = [t \in Threads |-> 0]
    /\ calls = 0 /\ deaths = 0

-----------------------------------------------------------------------------
(***************************************************************************)
(* Connections.                                                            *)
(***************************************************************************)

\* What a statement of w reads.
Seen(w) == IF writer = w THEN draft ELSE db

\* A write of w does not wait: nobody else holds the lock.
CanWrite(w) == writer \in {None, w}

\* w writes in its transaction, which stays open.
Write(w, contents) ==
    /\ CanWrite(w)
    /\ writer' = w
    /\ draft' = contents
    /\ UNCHANGED db

\* w writes and commits, its earlier writes included.
WriteAndCommit(w, contents) ==
    /\ CanWrite(w)
    /\ writer' = None
    /\ db' = contents
    /\ draft' = contents

Goto(w, phase) == job' = [job EXCEPT ![w].phase = phase]

\* The last n elements of s.
Latest(s, n) == SubSeq(s, IF Len(s) > n THEN Len(s) - n + 1 ELSE 1, Len(s))

-----------------------------------------------------------------------------
(***************************************************************************)
(* ContextMiddleware.wrap_tool_call, once the tool has run or raised:      *)
(* capture the event, offload a big result, flush, hand the result over.   *)
(***************************************************************************)

Start(w, todo) ==
    /\ job[w].phase = "idle"
    /\ calls < MaxCalls
    /\ calls' = calls + 1
    /\ job' = [job EXCEPT ![w] = todo]
    /\ UNCHANGED <<db, writer, draft, handed, used, injected, deaths>>

\* Only a call of a known thread is deduplicated and evicted for.
CaptureCall(w, thread, key, big) ==
    Start(w, [NoJob EXCEPT !.phase = IF thread = NoThread THEN "insert" ELSE "dedup",
                           !.thread = thread, !.key = key, !.big = big])

AfterCapture(w) == IF job[w].big THEN "offload" ELSE "flush"

\* The first SELECT of capture: an event equal to a recent one is skipped.
Dedup(w) ==
    LET recent == Latest(Seen(w).events[job[w].thread], DedupWindow) IN
    /\ job[w].phase = "dedup"
    /\ Goto(w, IF \E i \in 1..Len(recent) : recent[i] = job[w].key
               THEN AfterCapture(w) ELSE "count")
    /\ UNCHANGED <<db, writer, draft, handed, used, injected, calls, deaths>>

\* The second SELECT of capture: is the thread at its limit?
Count(w) ==
    /\ job[w].phase = "count"
    /\ job' = [job EXCEPT ![w].phase = "insert",
                          ![w].evict = Len(Seen(w).events[job[w].thread]) >= MaxEvents]
    /\ UNCHANGED <<db, writer, draft, handed, used, injected, calls, deaths>>

Remove(s, k) == [i \in 1..(Len(s) - 1) |-> IF i < k THEN s[i] ELSE s[i + 1]]

\* DELETE ... ORDER BY priority ASC, id ASC LIMIT 1.
EvictOne(keys) ==
    LET Before(i, j) == \/ Priority[keys[i]] < Priority[keys[j]]
                        \/ Priority[keys[i]] = Priority[keys[j]] /\ i <= j
    IN  IF keys = <<>> THEN keys
        ELSE Remove(keys, CHOOSE i \in 1..Len(keys) : \A j \in 1..Len(keys) : Before(i, j))

\* Bug variant: the limit is read and then forgotten.
InsertWithoutEviction(w) ==
    /\ job[w].phase = "insert"
    /\ Write(w, [Seen(w) EXCEPT !.events[job[w].thread] = Append(@, job[w].key)])
    /\ Goto(w, AfterCapture(w))
    /\ UNCHANGED <<handed, used, injected, calls, deaths>>

\* The DELETE, if the count asked for it, and the INSERT of capture.
Insert(w) ==
    /\ job[w].phase = "insert"
    /\ Write(w, [Seen(w) EXCEPT !.events[job[w].thread] =
                     Append(IF job[w].evict THEN EvictOne(@) ELSE @, job[w].key)])
    /\ Goto(w, AfterCapture(w))
    /\ UNCHANGED <<handed, used, injected, calls, deaths>>

\* stash_blob: the full text goes into blobs and blobs_fts under a new handle.
StashBlob(w, h) ==
    LET blob == [handle |-> h, thread |-> job[w].thread] IN
    /\ h \notin used
    /\ used' = used \cup {h}
    /\ Write(w, [Seen(w) EXCEPT !.blobs = @ \cup {blob}, !.fts = @ \cup {blob}])

Offload(w, h) ==
    /\ job[w].phase = "offload"
    /\ StashBlob(w, h)
    /\ job' = [job EXCEPT ![w].phase = "flush", ![w].stash = @ \cup {h}]
    /\ UNCHANGED <<handed, injected, calls, deaths>>

\* Bug variant: the stub is handed over without a commit.
ReturnWithoutFlush(w) ==
    /\ job[w].phase = "flush"
    /\ handed' = handed \cup job[w].stash
    /\ job' = [job EXCEPT ![w] = NoJob]
    /\ UNCHANGED <<db, writer, draft, used, injected, calls, deaths>>

\* flush(), then the model gets the result or the stub that names the handle.
Flush(w) ==
    /\ job[w].phase = "flush"
    /\ IF writer = w THEN WriteAndCommit(w, draft) ELSE UNCHANGED <<db, writer, draft>>
    /\ handed' = handed \cup job[w].stash
    /\ job' = [job EXCEPT ![w] = NoJob]
    /\ UNCHANGED <<used, injected, calls, deaths>>

\* busy_timeout passes while another connection holds the lock: the write
\* raises "database is locked", and the hook or tool fails.
Locked(w) ==
    /\ job[w].phase \in {"insert", "offload", "batch"}
    /\ ~ CanWrite(w)
    /\ job' = [job EXCEPT ![w] = NoJob]
    /\ UNCHANGED <<db, writer, draft, handed, used, injected, calls, deaths>>

-----------------------------------------------------------------------------
(***************************************************************************)
(* Tools that write, each in a pool thread.                                *)
(***************************************************************************)

\* ctx_index: stash the text, flush, return the handle.
IndexText(w) == Start(w, [NoJob EXCEPT !.phase = "offload"])

\* ctx_batch_execute runs commands one after the other; every output is
\* stashed, and only the end of the batch commits.
StartBatch(w, n) == Start(w, [NoJob EXCEPT !.phase = "batch", !.left = n])

AfterCommand(w) == IF job[w].left = 1 THEN "flush" ELSE "batch"

BatchCommand(w, h) ==
    /\ job[w].phase = "batch"
    /\ StashBlob(w, h)
    /\ job' = [job EXCEPT ![w].phase = AfterCommand(w), ![w].left = @ - 1,
                          ![w].stash = @ \cup {h}]
    /\ UNCHANGED <<handed, injected, calls, deaths>>

\* The sandbox times out: the batch goes on without this output.
BatchTimeout(w) ==
    /\ job[w].phase = "batch"
    /\ job' = [job EXCEPT ![w].phase = AfterCommand(w), ![w].left = @ - 1]
    /\ UNCHANGED <<db, writer, draft, handed, used, injected, calls, deaths>>

\* The sandbox raises anything else: the tool fails, and nothing ends the
\* transaction that the earlier outputs opened.
BatchRaises(w) ==
    /\ job[w].phase = "batch"
    /\ job' = [job EXCEPT ![w] = NoJob]
    /\ UNCHANGED <<db, writer, draft, handed, used, injected, calls, deaths>>

\* Rows of the scope a purge names; "" names every row.
Purged(rows, thread) == {b \in rows : thread = NoThread \/ b.thread = thread}

HandlesOf(blobs) == {b.handle : b \in blobs}

\* Bug variant: blobs_fts is taken for an external-content table.
PurgeLeavingIndex(w, thread) ==
    LET seen == Seen(w) IN
    /\ job[w].phase = "idle" /\ calls < MaxCalls /\ calls' = calls + 1
    /\ WriteAndCommit(w, [seen EXCEPT
           !.events = [s \in Scopes |-> IF thread \in {NoThread, s} THEN <<>> ELSE @[s]],
           !.blobs = @ \ Purged(@, thread)])
    /\ handed' = handed \ HandlesOf(Purged(seen.blobs, thread))
    /\ UNCHANGED <<job, used, injected, deaths>>

\* ctx_purge, committed at once.
Purge(w, thread) ==
    LET seen == Seen(w) IN
    /\ job[w].phase = "idle" /\ calls < MaxCalls /\ calls' = calls + 1
    /\ WriteAndCommit(w, [seen EXCEPT
           !.events = [s \in Scopes |-> IF thread \in {NoThread, s} THEN <<>> ELSE @[s]],
           !.blobs = @ \ Purged(@, thread),
           !.fts = @ \ Purged(@, thread)])
    /\ handed' = handed \ HandlesOf(Purged(seen.blobs, thread))
    /\ UNCHANGED <<job, used, injected, deaths>>

-----------------------------------------------------------------------------
(***************************************************************************)
(* SessionGuideMiddleware.                                                 *)
(***************************************************************************)

\* Bug variant: the snapshot is read, and not marked.
ClaimSnapshotByReading(w, thread, other) ==
    /\ job[w].phase = "idle" /\ calls < MaxCalls /\ calls' = calls + 1
    /\ other # thread /\ Seen(w).resume[other] = "unconsumed"
    /\ Write(w, Seen(w))
    /\ injected' = [injected EXCEPT ![other] = @ + 1]
    /\ UNCHANGED <<job, handed, used, deaths>>

\* before_agent of thread: one UPDATE picks the snapshot of another session,
\* marks it and returns it for the system prompt.  Nothing commits it here.
\* The code takes the newest; the model, which has no clock, any.
ClaimSnapshot(w, thread, other) ==
    /\ job[w].phase = "idle" /\ calls < MaxCalls /\ calls' = calls + 1
    /\ other # thread /\ Seen(w).resume[other] = "unconsumed"
    /\ Write(w, [Seen(w) EXCEPT !.resume[other] = "consumed"])
    /\ injected' = [injected EXCEPT ![other] = @ + 1]
    /\ UNCHANGED <<job, handed, used, deaths>>

\* The UPDATE that finds no snapshot begins a transaction all the same.
ClaimNothing(w, thread) ==
    /\ job[w].phase = "idle" /\ calls < MaxCalls /\ calls' = calls + 1
    /\ \A other \in Threads \ {thread} : Seen(w).resume[other] # "unconsumed"
    /\ Write(w, Seen(w))
    /\ UNCHANGED <<job, handed, used, injected, deaths>>

\* wrap_model_call: a thread with events gets a new snapshot, committed.
StoreSnapshot(w, thread) ==
    /\ job[w].phase = "idle" /\ calls < MaxCalls /\ calls' = calls + 1
    /\ Seen(w).events[thread] # <<>>
    /\ WriteAndCommit(w, [Seen(w) EXCEPT !.resume[thread] = "unconsumed"])
    /\ injected' = [injected EXCEPT ![thread] = 0]
    /\ UNCHANGED <<job, handed, used, deaths>>

\* The process of w dies; its open transaction is rolled back.
Die(w) ==
    /\ deaths < MaxDeaths
    /\ deaths' = deaths + 1
    /\ job' = [job EXCEPT ![w] = NoJob]
    /\ IF writer = w THEN writer' = None /\ draft' = db ELSE UNCHANGED <<writer, draft>>
    /\ UNCHANGED <<db, handed, used, injected, calls>>

-----------------------------------------------------------------------------
HookStep(w) ==
    \/ \E thread \in Scopes, key \in Keys, big \in BOOLEAN : CaptureCall(w, thread, key, big)
    \/ Dedup(w) \/ Count(w) \/ Insert(w) \/ Flush(w) \/ Locked(w)
    \/ \E h \in Handles : Offload(w, h)

ToolStep(w) ==
    \/ IndexText(w)
    \/ \E n \in 1..MaxBatch : StartBatch(w, n)
    \/ \E h \in Handles : BatchCommand(w, h)
    \/ BatchTimeout(w) \/ BatchRaises(w)
    \/ \E thread \in Scopes : Purge(w, thread)

GuideStep(w) ==
    \E thread \in Threads :
        \/ \E other \in Threads : ClaimSnapshot(w, thread, other)
        \/ ClaimNothing(w, thread)
        \/ StoreSnapshot(w, thread)

Next == \E w \in Workers : HookStep(w) \/ ToolStep(w) \/ GuideStep(w) \/ Die(w)

Spec == Init /\ [][Next]_vars

-----------------------------------------------------------------------------
(***************************************************************************)
(* Properties.                                                             *)
(***************************************************************************)

\* middleware.py:100-102: the handle in a stub can be recalled, from any
\* connection, from the moment the model has it until somebody purges it.
HandedIsStored == handed \subseteq HandlesOf(db.blobs)

\* store.py:819-824: ctx_search finds exactly the blobs that ctx_recall can
\* return, in what is committed and in what a transaction prepares.
IndexInSync == db.fts = db.blobs /\ draft.fts = draft.blobs

\* store.py:374-387: concurrent captures read the count before they take the
\* lock, so a thread can exceed MAX_EVENTS_PER_SESSION, but never by more
\* than the number of other workers, however long it goes on.
OvershootIsBounded ==
    \A t \in Threads : Len(draft.events[t]) < MaxEvents + Cardinality(Workers)

\* store.py:722-739: a stored snapshot is injected into one session only,
\* but for a process that died before its claim was committed.
ClaimedOnce == \A t \in Threads : injected[t] <= 1 + deaths

\* store.py:343 and 110, "eviction of lowest-priority event", "P1 Critical
\* state -- always preserved": a thread at its limit does not lose a critical
\* event while it has a less important one.
CriticalKept ==
    [][\A w \in Workers :
          job[w].phase = "insert" /\ job'[w].phase # "insert" /\ writer' = w /\ job[w].evict =>
             LET mine == Seen(w).events[job[w].thread]
                 kept == draft'.events[job[w].thread]
                 Critical(keys) == {i \in 1..Len(keys) : Priority[keys[i]] = 1}
             IN  (\E i \in 1..Len(mine) : Priority[mine[i]] > 1)
                    => Cardinality(Critical(kept)) >= Cardinality(Critical(mine))]_vars
=============================================================================
