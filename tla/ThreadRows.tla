----------------------------- MODULE ThreadRows -----------------------------
(***************************************************************************)
(* The thread database (threads.py) and its two kinds of writers: the ACP  *)
(* server, whose tasks all share one connection, and the one-shot runs of  *)
(* the command line (main.py), each a process with its own.                *)
(*                                                                         *)
(* A thread is a row of pux_threads and the rows the checkpointer keeps    *)
(* for it.  On the shared connection the three DELETEs of delete_thread    *)
(* are one transaction with whatever other tasks do: the commit of any of  *)
(* them commits the DELETEs done so far, and a crash undoes the others.    *)
(*                                                                         *)
(* SQLite and the checkpointer are external: one writer at a time, and a   *)
(* writer that waits too long gets an error.                               *)
(***************************************************************************)
EXTENDS Naturals, FiniteSets

CONSTANTS
    ThreadIds,
    Directs,        \* one-shot runs
    MaxReboots      \* bound: crashes of the ACP server

ASSUME RebootsNatural == MaxReboots \in Nat

VARIABLES
    stored,     \* per thread: the tables that have committed rows of it
    undone,     \* DELETEs of the shared connection that are not committed
    removing,   \* per thread: DELETEs a delete_thread at work has done, -1 if none is
    turn,       \* threads with a turn in the ACP server
    direct,     \* per one-shot run: its thread and where it is
    reboots,    \* crashes of the ACP server
    written,    \* threads that a run went on with while they were deleted, or began without their row
    cutOff      \* threads whose deletion a crash cut off

rowVars == <<stored, undone, removing, turn, direct, reboots, written, cutOff>>

\* The tables in the order delete_thread empties them.
Tables == <<"pux_threads", "checkpoints", "writes">>
Checkpointed == {"checkpoints", "writes"}

RowsInit ==
    /\ stored = [t \in ThreadIds |-> {}]
    /\ undone = {} /\ removing = [t \in ThreadIds |-> 0 - 1] /\ turn = {}
    /\ direct = [d \in Directs |-> [thread |-> "none", step |-> "new"]]
    /\ reboots = 0 /\ written = {} /\ cutOff = {}

\* What the shared connection reads, which sees its own DELETEs.
Seen(t) == {b \in stored[t] : <<t, b>> \notin undone}

\* A commit of the shared connection, after it has inserted rows of t.
Commit(t, rows) ==
    /\ stored' = [u \in ThreadIds |-> Seen(u) \cup (IF u = t THEN rows ELSE {})]
    /\ undone' = {}

\* A run of t is at work somewhere.
Running(t) == t \in turn \/ \E d \in Directs : direct[d].thread = t /\ direct[d].step \in {"open", "run"}

-----------------------------------------------------------------------------
(***************************************************************************)
(* The ACP server.                                                         *)
(***************************************************************************)

\* new_session registers the thread.
Register(t) ==
    /\ stored[t] = {} /\ removing[t] < 0
    /\ Commit(t, {"pux_threads"})
    /\ UNCHANGED <<removing, turn, direct, reboots, written, cutOff>>

\* A prompt begins, whether or not its thread is there: nothing asks.  A row that is
\* there and has no title yet gets one, which is committed.
BeginTurn(t) ==
    /\ t \notin turn /\ turn' = turn \cup {t}
    /\ \/ "pux_threads" \in Seen(t) /\ Commit(t, {})
       \/ UNCHANGED <<stored, undone>>
    /\ written' = IF removing[t] >= 0 \/ "pux_threads" \notin Seen(t) THEN written \cup {t} ELSE written
    /\ UNCHANGED <<removing, direct, reboots, cutOff>>

\* The checkpointer saves a step of the turn and commits.
SaveStep(t) ==
    /\ t \in turn
    /\ Commit(t, Checkpointed)
    /\ UNCHANGED <<removing, turn, direct, reboots, written, cutOff>>

EndTurn(t) ==
    /\ t \in turn /\ turn' = turn \ {t}
    /\ UNCHANGED <<stored, undone, removing, direct, reboots, written, cutOff>>

\* session/delete of a thread whose row is there, whether or not it has a turn.
BeginDelete(t) ==
    /\ removing[t] < 0 /\ "pux_threads" \in Seen(t)
    /\ removing' = [removing EXCEPT ![t] = 0]
    /\ written' = IF Running(t) THEN written \cup {t} ELSE written
    /\ UNCHANGED <<stored, undone, turn, direct, reboots, cutOff>>

\* Mutant: the writes of the checkpointer are forgotten.
DeleteFromTwo(t) ==
    /\ removing[t] \in 0..1
    /\ undone' = undone \cup {<<t, Tables[removing[t] + 1]>>}
    /\ removing' = [removing EXCEPT ![t] = IF @ = 1 THEN 3 ELSE @ + 1]
    /\ UNCHANGED <<stored, turn, direct, reboots, written, cutOff>>

\* One DELETE, and the task gives way.
DeleteFrom(t) ==
    /\ removing[t] \in 0..2
    /\ undone' = undone \cup {<<t, Tables[removing[t] + 1]>>}
    /\ removing' = [removing EXCEPT ![t] = @ + 1]
    /\ UNCHANGED <<stored, turn, direct, reboots, written, cutOff>>

EndDelete(t) ==
    /\ removing[t] = 3
    /\ removing' = [removing EXCEPT ![t] = 0 - 1]
    /\ Commit(t, {})
    /\ UNCHANGED <<turn, direct, reboots, written, cutOff>>

\* The server dies: its transaction is rolled back.
Reboot ==
    /\ reboots < MaxReboots /\ reboots' = reboots + 1
    /\ cutOff' = cutOff \cup {t \in ThreadIds : removing[t] >= 0}
    /\ undone' = {} /\ turn' = {} /\ removing' = [t \in ThreadIds |-> 0 - 1]
    /\ UNCHANGED <<stored, direct, written>>

-----------------------------------------------------------------------------
(***************************************************************************)
(* A one-shot run.                                                         *)
(***************************************************************************)

\* pux direct, with the thread it is given or a new one.
StartDirect(d, t) ==
    /\ direct[d].step = "new"
    /\ direct' = [direct EXCEPT ![d] = [thread |-> t, step |-> "open"]]
    /\ written' = IF removing[t] >= 0 THEN written \cup {t} ELSE written
    /\ UNCHANGED <<stored, undone, removing, turn, reboots, cutOff>>

\* register_thread (INSERT OR IGNORE), and each step the checkpointer saves; while
\* the server has a transaction open they wait.
DirectRegisters(d) ==
    /\ direct[d].step = "open" /\ undone = {}
    /\ stored' = [stored EXCEPT ![direct[d].thread] = @ \cup {"pux_threads"}]
    /\ direct' = [direct EXCEPT ![d].step = "run"]
    /\ UNCHANGED <<undone, removing, turn, reboots, written, cutOff>>

DirectSaves(d) ==
    /\ direct[d].step = "run" /\ undone = {}
    /\ stored' = [stored EXCEPT ![direct[d].thread] = @ \cup Checkpointed]
    /\ UNCHANGED <<undone, removing, turn, direct, reboots, written, cutOff>>

\* The answer is printed, the recursion limit is hit, the database is locked for
\* too long, or the process is killed.
DirectEnds(d) ==
    /\ direct[d].step \in {"open", "run"}
    /\ direct' = [direct EXCEPT ![d].step = "over"]
    /\ UNCHANGED <<stored, undone, removing, turn, reboots, written, cutOff>>

RowsNext ==
    \/ \E t \in ThreadIds :
        \/ Register(t) \/ BeginTurn(t) \/ SaveStep(t) \/ EndTurn(t)
        \/ BeginDelete(t) \/ DeleteFrom(t) \/ EndDelete(t)
    \/ \E d \in Directs, t \in ThreadIds : StartDirect(d, t)
    \/ \E d \in Directs : DirectRegisters(d) \/ DirectSaves(d) \/ DirectEnds(d)
    \/ Reboot

RowsSpec == RowsInit /\ [][RowsNext]_rowVars

-----------------------------------------------------------------------------
\* A conversation goes as a whole: rows of the checkpointer without the row of the
\* thread, which no list shows and no deletion reaches, but which a later thread of
\* that name continues, are left only while a deletion is at work, by a run that
\* went on through the deletion, by a prompt of a thread whose row is gone, which
\* runs like any other, or by a crash after another task's commit
\* (threads.py:116-132, acp.py:612-706, 1234-1257: the conversation is gone after this).
DeletedIsGone ==
    \A t \in ThreadIds :
        "pux_threads" \notin stored[t] /\ stored[t] # {}
            => removing[t] >= 0 \/ t \in written \/ t \in cutOff
=============================================================================
