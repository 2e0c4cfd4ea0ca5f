----------------------------- MODULE AcpServer -----------------------------
(***************************************************************************)
(* The ACP stdio server of pux_harness/acp.py: one process, one event      *)
(* loop, one `_RegisteringAgentServerACP` over the persistent ThreadStore  *)
(* of pux_harness/threads.py.  Every session/prompt is an asyncio task of  *)
(* its own.  An action is what a task does between two awaits.             *)
(*                                                                         *)
(* The model loop the server inherits from deepagents_acp, and the graph   *)
(* it drives, are external: they are modelled by what acp.py relies on     *)
(* (acp.py:427-441, 594-603, 832-839, 887-903).                            *)
(***************************************************************************)
EXTENDS Naturals, Sequences, FiniteSets

CONSTANTS
    Sessions,       \* session ids (= thread ids of the checkpointer)
    Prompts,        \* session/prompt requests
    SessionOf,      \* the session each request names
    Models,         \* advertised model ids
    DefaultModel,   \* models[0]: the org's base model
    MaxAttempts,    \* _PROMPT_MAX_ATTEMPTS
    MaxGates,       \* bound: permission requests in one turn
    MaxCancels,     \* bound: session/cancel notifications
    MaxRestarts,    \* bound: deaths of the server process
    None            \* no prompt, no session, no graph

ASSUME SessionOfType == SessionOf \in [Prompts -> Sessions]
ASSUME DefaultIsModel == DefaultModel \in Models
ASSUME BoundsAreNat ==
    /\ MaxAttempts \in Nat \ {0}
    /\ {MaxGates, MaxCancels, MaxRestarts} \subseteq Nat
ASSUME NoneIsFresh == None \notin Prompts \cup Sessions \cup Models

VARIABLES
    \* The prompt tasks.
    pc,         \* where each task is
    turn,       \* the locals of its turn
    outcome,    \* how it was answered
    \* The per-session asyncio.Lock of _prompt_locks.
    lock,       \* its holder
    waiters,    \* the tasks queued on it, oldest first
    \* Shared state of the server object.
    cancelled,  \* _cancelled: None is False, s is True and set by a cancel of s
    agent,      \* _agent: the model the ONE compiled graph was built for
    shown,      \* _session_models: what the editor shows for a session
    \* The editor.
    open,       \* sessions it holds a handle to
    ncancels,   \* session/cancel notifications sent
    restarts,   \* deaths of the server process
    \* The SQLite file.
    index,      \* the session's row in pux_threads
    ckpt,       \* TRUE when checkpoints or writes hold rows of the session
    pending     \* the interrupt its latest checkpoint is paused on

taskVars   == <<pc, turn, outcome>>
lockVars   == <<lock, waiters>>
editorVars == <<open, ncancels, restarts>>
storeVars  == <<index, ckpt, pending>>
vars == <<taskVars, lockVars, cancelled, agent, shown, editorVars, storeVars>>

\* A task in one of these phases is inside `async with self._prompt_lock(...)`.
Holding == {"attempting", "reading", "feeding", "running", "asking", "gated", "backoff"}
Phases == {"unsent", "queued", "done", "lost"} \cup Holding

\* "blind": the state could not be read, so the text goes in as a message.
Routes == {"message", "answer", "blind", "decision"}

\* A turn's locals: the attempt of the retry loop, what it feeds the graph
\* next, how often its text entered the conversation, permissions it asked.
Turn == [attempt : 0..MaxAttempts, route : Routes, fed : Nat, gates : 0..MaxGates]
NoTurn == [attempt |-> 0, route |-> "message", fed |-> 0, gates |-> 0]

Outcomes == {"none", "end_turn", "cancelled", "gave_up"}

\* An ask_user question is "unseen" until the editor was shown it.
Questions == {"unseen", "asked"}
Interrupts == Questions \cup {"none", "gate"}

TypeOK ==
    /\ pc \in [Prompts -> Phases]
    /\ turn \in [Prompts -> Turn]
    /\ outcome \in [Prompts -> Outcomes]
    /\ lock \in [Sessions -> Prompts \cup {None}]
    /\ waiters \in [Sessions -> Seq(Prompts)]
    /\ cancelled \in Sessions \cup {None}
    /\ agent \in Models \cup {None}
    /\ shown \in [Sessions -> Models]
    /\ open \subseteq Sessions
    /\ ncancels \in 0..MaxCancels
    /\ restarts \in 0..MaxRestarts
    /\ index \in [Sessions -> {"absent", "row", "deleting", "deleted"}]
    /\ ckpt \in [Sessions -> BOOLEAN]
    /\ pending \in [Sessions -> Interrupts]

Init ==
    /\ pc = [p \in Prompts |-> "unsent"]
    /\ turn = [p \in Prompts |-> NoTurn]
    /\ outcome = [p \in Prompts |-> "none"]
    /\ lock = [s \in Sessions |-> None]
    /\ waiters = [s \in Sessions |-> <<>>]
    /\ cancelled = None
    /\ agent = None
    /\ shown = [s \in Sessions |-> DefaultModel]
    /\ open = {}
    /\ ncancels = 0
    /\ restarts = 0
    /\ index = [s \in Sessions |-> "absent"]
    /\ ckpt = [s \in Sessions |-> FALSE]
    /\ pending = [s \in Sessions |-> "none"]

-----------------------------------------------------------------------------
(***************************************************************************)
(* session/prompt.                                                         *)
(***************************************************************************)

Goto(p, phase) == pc' = [pc EXCEPT ![p] = phase]

\* The task returns its PromptResponse and so leaves the lock.
Respond(p, how) ==
    /\ Goto(p, "done")
    /\ turn' = [turn EXCEPT ![p] = NoTurn]
    /\ outcome' = [outcome EXCEPT ![p] = how]
    /\ lock' = [lock EXCEPT ![SessionOf[p]] = None]

\* Bug variant: the flag is not reset.
ReturnCancelledKeepingFlag(p) ==
    /\ cancelled # None
    /\ Respond(p, "cancelled")
    /\ UNCHANGED cancelled

\* `if self._cancelled: self._cancelled = False; return ... "cancelled"`.
ReturnCancelled(p) ==
    /\ cancelled # None
    /\ cancelled' = None
    /\ Respond(p, "cancelled")

\* The editor sent the request and the title was captured: the dispatcher's
\* task queues on the lock.
Submit(p) ==
    /\ pc[p] = "unsent"
    /\ SessionOf[p] \in open
    /\ Goto(p, "queued")
    /\ waiters' = [waiters EXCEPT ![SessionOf[p]] = Append(@, p)]
    /\ UNCHANGED <<turn, outcome, lock, cancelled, agent, shown, editorVars, storeVars>>

\* Bug variant: a later prompt overtakes.
AnyInLine(p) == pc[p] = "queued"

NextInLine(p) ==
    /\ pc[p] = "queued"
    /\ waiters[SessionOf[p]] # <<>>
    /\ Head(waiters[SessionOf[p]]) = p

\* Bug variant: no per-session lock.
EnterWithoutLock(p) ==
    LET s == SessionOf[p] IN
    /\ NextInLine(p)
    /\ waiters' = [waiters EXCEPT ![s] = Tail(@)]
    /\ \/ /\ ReturnCancelled(p)
       \/ /\ cancelled = None
          /\ lock' = [lock EXCEPT ![s] = p]
          /\ Goto(p, "attempting")
          /\ turn' = [turn EXCEPT ![p].attempt = 1]
          /\ UNCHANGED <<cancelled, outcome>>
    /\ UNCHANGED <<agent, shown, editorVars, storeVars>>

\* The lock is free and p is the oldest waiter.  A cancel that arrived while
\* p was queued ends it here; otherwise the retry loop starts.
Enter(p) ==
    LET s == SessionOf[p] IN
    /\ lock[s] = None
    /\ NextInLine(p)
    /\ waiters' = [waiters EXCEPT ![s] = Tail(@)]
    /\ \/ /\ ReturnCancelled(p)
       \/ /\ cancelled = None
          /\ lock' = [lock EXCEPT ![s] = p]
          /\ Goto(p, "attempting")
          /\ turn' = [turn EXCEPT ![p].attempt = 1]
          /\ UNCHANGED <<cancelled, outcome>>
    /\ UNCHANGED <<agent, shown, editorVars, storeVars>>

\* Top of the retry loop: build the graph if there is none (for the model of
\* this session), then await agent.aget_state.
Attempt(p) ==
    /\ pc[p] = "attempting"
    /\ Goto(p, "reading")
    /\ agent' = IF agent = None THEN shown[SessionOf[p]] ELSE agent
    /\ UNCHANGED <<turn, outcome, lockVars, cancelled, shown, editorVars, storeVars>>

Feeding(p, how) ==
    /\ Goto(p, "feeding")
    /\ turn' = [turn EXCEPT ![p].route = how]

\* The state came back with a pending ask_user: `_resume_ask_user`, whose
\* loop looks at `_cancelled` before it feeds the answer.
ReadQuestion(p) ==
    /\ pc[p] = "reading"
    /\ pending[SessionOf[p]] \in Questions
    /\ \/ /\ ReturnCancelled(p)
       \/ /\ cancelled = None
          /\ Feeding(p, "answer")
          /\ UNCHANGED <<cancelled, outcome, lock>>
    /\ UNCHANGED <<waiters, agent, shown, editorVars, storeVars>>

\* Bug variant: a pending question is not recognised.
ReadNoQuestionByMistake(p) ==
    /\ pc[p] = "reading"
    /\ cancelled' = None
    /\ Feeding(p, "message")
    /\ UNCHANGED <<outcome, lockVars, agent, shown, editorVars, storeVars>>

\* Anything else goes to the base prompt(), which resets `_cancelled` at its
\* top and feeds the text as a message.  An aget_state that raises counts as
\* a thread with no snapshot, even when a question is pending.
ReadNoQuestion(p) ==
    /\ pc[p] = "reading"
    /\ cancelled' = None
    /\ Feeding(p, IF pending[SessionOf[p]] \in Questions THEN "blind" ELSE "message")
    /\ UNCHANGED <<outcome, lockVars, agent, shown, editorVars, storeVars>>

\* Bug variant: the text is sent again with a permission decision.
FeedTextWithDecision(p) ==
    LET s == SessionOf[p] IN
    /\ pc[p] = "feeding"
    /\ turn[p].route = "answer" => pending[s] \in Questions
    /\ turn[p].route = "decision" => pending[s] = "gate"
    /\ Goto(p, "running")
    /\ pending' = [pending EXCEPT ![s] = "none"]
    /\ ckpt' = [ckpt EXCEPT ![s] = TRUE]
    /\ turn' = [turn EXCEPT ![p].fed = @ + 1, ![p].route = "message"]
    /\ UNCHANGED <<outcome, lockVars, cancelled, agent, shown, editorVars, index>>

\* astream takes its input and checkpoints it.  A resume needs the interrupt
\* it resumes; a message on a paused thread cancels the paused tool call.
Feed(p) ==
    LET s == SessionOf[p] IN
    /\ pc[p] = "feeding"
    /\ turn[p].route = "answer" => pending[s] \in Questions
    /\ turn[p].route = "decision" => pending[s] = "gate"
    /\ Goto(p, "running")
    /\ pending' = [pending EXCEPT ![s] = "none"]
    /\ ckpt' = [ckpt EXCEPT ![s] = TRUE]
    /\ turn' = [turn EXCEPT ![p].fed = IF turn[p].route = "decision" THEN @ ELSE @ + 1,
                             ![p].route = "message"]
    /\ UNCHANGED <<outcome, lockVars, cancelled, agent, shown, editorVars, index>>

\* The flag is looked at on every streamed chunk.
StopOnCancel(p) ==
    /\ pc[p] \in {"running", "asking"}
    /\ ReturnCancelled(p)
    /\ UNCHANGED <<waiters, agent, shown, editorVars, storeVars>>

\* The graph runs to its end, checkpointing as it goes.
Finish(p) ==
    /\ pc[p] = "running"
    /\ Respond(p, "end_turn")
    /\ ckpt' = [ckpt EXCEPT ![SessionOf[p]] = TRUE]
    /\ UNCHANGED <<waiters, cancelled, agent, shown, editorVars, index, pending>>

\* The graph pauses on an interrupt, which is in the checkpoint before the
\* chunk that announces it reaches the loop.
Pause(p, interrupt) ==
    LET s == SessionOf[p] IN
    /\ pc[p] = "running"
    /\ pending' = [pending EXCEPT ![s] = interrupt]
    /\ ckpt' = [ckpt EXCEPT ![s] = TRUE]

Ask(p) ==
    /\ Pause(p, "unseen")
    /\ Goto(p, "asking")
    /\ UNCHANGED <<turn, outcome, lockVars, cancelled, agent, shown, editorVars, index>>

\* `_handle_interrupts` presents the question, then _AskUserPause ends the
\* turn; the interrupt stays.
Present(p) ==
    LET s == SessionOf[p] IN
    /\ pc[p] = "asking"
    /\ Respond(p, "end_turn")
    /\ pending' = [pending EXCEPT ![s] = IF @ = "unseen" THEN "asked" ELSE @]
    /\ UNCHANGED <<waiters, cancelled, agent, shown, editorVars, index, ckpt>>

\* A tool gate: the base asks the editor for permission, inline.
AskPermission(p) ==
    /\ turn[p].gates < MaxGates
    /\ Pause(p, "gate")
    /\ Goto(p, "gated")
    /\ turn' = [turn EXCEPT ![p].gates = @ + 1]
    /\ UNCHANGED <<outcome, lockVars, cancelled, agent, shown, editorVars, index>>

\* The editor decides; the loop looks at `_cancelled`, then feeds the decision.
Decide(p) ==
    /\ pc[p] = "gated"
    /\ \/ /\ ReturnCancelled(p)
       \/ /\ cancelled = None
          /\ Feeding(p, "decision")
          /\ UNCHANGED <<cancelled, outcome, lock>>
    /\ UNCHANGED <<waiters, agent, shown, editorVars, storeVars>>

\* Where an exception can be raised: building the graph, feeding it, running
\* it, and telling the editor of an interrupt.
MayRaise(p) ==
    \/ pc[p] = "attempting" /\ agent = None
    \/ pc[p] \in {"feeding", "running", "asking", "gated"}

\* Bug variant: the last attempt is retried too.
StallWithoutLimit(p) ==
    /\ MayRaise(p)
    /\ Goto(p, "backoff")
    /\ UNCHANGED <<turn, outcome, lockVars, cancelled, agent, shown, editorVars, storeVars>>

\* A recoverable exception with attempts left: sleep, then try again.
Stall(p) ==
    /\ MayRaise(p)
    /\ turn[p].attempt < MaxAttempts
    /\ Goto(p, "backoff")
    /\ UNCHANGED <<turn, outcome, lockVars, cancelled, agent, shown, editorVars, storeVars>>

\* A deterministic exception, or the last attempt's: the turn is ended anyway.
GiveUp(p) ==
    /\ MayRaise(p)
    /\ Respond(p, "gave_up")
    /\ UNCHANGED <<waiters, cancelled, agent, shown, editorVars, storeVars>>

\* Bug variant: the attempt is not counted.
RetryForever(p) ==
    /\ pc[p] = "backoff"
    /\ Goto(p, "attempting")
    /\ UNCHANGED <<turn, outcome, lockVars, cancelled, agent, shown, editorVars, storeVars>>

Retry(p) ==
    /\ pc[p] = "backoff"
    /\ Goto(p, "attempting")
    /\ turn' = [turn EXCEPT ![p].attempt = @ + 1]
    /\ UNCHANGED <<outcome, lockVars, cancelled, agent, shown, editorVars, storeVars>>

-----------------------------------------------------------------------------
(***************************************************************************)
(* The other requests of the editor.  None of them takes a prompt lock.    *)
(***************************************************************************)

NewSession(s) ==
    /\ index[s] = "absent"
    /\ index' = [index EXCEPT ![s] = "row"]
    /\ open' = open \cup {s}
    /\ shown' = [shown EXCEPT ![s] = DefaultModel]
    /\ UNCHANGED <<taskVars, lockVars, cancelled, agent, ncancels, restarts, ckpt, pending>>

\* session/load: verify the row, reset what is shown.
LoadSession(s) ==
    /\ index[s] = "row"
    /\ open' = open \cup {s}
    /\ shown' = [shown EXCEPT ![s] = DefaultModel]
    /\ UNCHANGED <<taskVars, lockVars, cancelled, agent, ncancels, restarts, storeVars>>

\* session/resume does what session/load does.
ResumeSession(s) == LoadSession(s)

\* session/close changes nothing on the server.
CloseSession(s) ==
    /\ s \in open
    /\ open' = open \ {s}
    /\ UNCHANGED <<taskVars, lockVars, cancelled, agent, shown, ncancels, restarts, storeVars>>

\* session/set_config_option: `_reset_agent` rebuilds the one graph.
SetModel(s, m) ==
    /\ s \in open
    /\ shown' = [shown EXCEPT ![s] = m]
    /\ agent' = m
    /\ UNCHANGED <<taskVars, lockVars, cancelled, editorVars, storeVars>>

\* session/cancel raises the one shared flag.
Cancel(s) ==
    /\ s \in open
    /\ ncancels < MaxCancels
    /\ ncancels' = ncancels + 1
    /\ cancelled' = s
    /\ UNCHANGED <<taskVars, lockVars, agent, shown, open, restarts, storeVars>>

\* session/delete, once the router knows it: the row is verified and deleted ...
DeleteIndexRow(s) ==
    /\ index[s] = "row"
    /\ index' = [index EXCEPT ![s] = "deleting"]
    /\ open' = open \ {s}
    /\ UNCHANGED <<taskVars, lockVars, cancelled, agent, shown, ncancels, restarts, ckpt, pending>>

\* ... then checkpoints and writes, the commit, and the in-memory entries.
DeleteCheckpoints(s) ==
    /\ index[s] = "deleting"
    /\ index' = [index EXCEPT ![s] = "deleted"]
    /\ ckpt' = [ckpt EXCEPT ![s] = FALSE]
    /\ pending' = [pending EXCEPT ![s] = "none"]
    /\ shown' = [shown EXCEPT ![s] = DefaultModel]
    /\ UNCHANGED <<taskVars, lockVars, cancelled, agent, editorVars>>

\* The process dies and is started again: tasks, locks and the flag are gone,
\* the database stays.  A delete in progress is rolled back unless another
\* task's commit on the shared connection made its first half durable.
Restart ==
    /\ restarts < MaxRestarts
    /\ restarts' = restarts + 1
    /\ pc' = [p \in Prompts |-> IF pc[p] \in {"unsent", "done"} THEN pc[p] ELSE "lost"]
    /\ lock' = [s \in Sessions |-> None]
    /\ waiters' = [s \in Sessions |-> <<>>]
    /\ cancelled' = None
    /\ agent' = None
    /\ shown' = [s \in Sessions |-> DefaultModel]
    /\ open' = {}
    /\ turn' = [p \in Prompts |-> NoTurn]
    /\ \E durable \in SUBSET {s \in Sessions : index[s] = "deleting"} :
          index' = [s \in Sessions |->
                       CASE index[s] # "deleting" -> index[s]
                         [] s \in durable -> "deleted"
                         [] OTHER -> "row"]
    /\ UNCHANGED <<outcome, ncancels, ckpt, pending>>

-----------------------------------------------------------------------------
PromptStep(p) ==
    \/ Enter(p) \/ Attempt(p) \/ ReadQuestion(p) \/ ReadNoQuestion(p)
    \/ Feed(p) \/ StopOnCancel(p) \/ Finish(p)
    \/ Ask(p) \/ Present(p) \/ AskPermission(p) \/ Decide(p)
    \/ Stall(p) \/ GiveUp(p) \/ Retry(p)

SessionStep(s) ==
    \/ NewSession(s) \/ LoadSession(s) \/ ResumeSession(s) \/ CloseSession(s)
    \/ \E m \in Models : SetModel(s, m)
    \/ Cancel(s)
    \/ DeleteIndexRow(s) \/ DeleteCheckpoints(s)

Next ==
    \/ \E p \in Prompts : Submit(p) \/ PromptStep(p)
    \/ \E s \in Sessions : SessionStep(s)
    \/ Restart

Spec == Init /\ [][Next]_vars

\* The event loop runs every task that can run, a turn of the graph ends or
\* raises (streams time out, steps are limited), an editor answers permission
\* requests.
FairSpec == Spec /\ \A p \in Prompts : WF_vars(PromptStep(p))

-----------------------------------------------------------------------------
(***************************************************************************)
(* Properties.                                                             *)
(***************************************************************************)

\* acp.py:605-611, "The lock makes prompts run one-at-a-time per session":
\* no two prompts of a session are inside a turn together, whatever is sent,
\* cancelled, retried, deleted or restarted meanwhile.
OneTurnPerSession ==
    \A p, q \in Prompts :
        p # q /\ SessionOf[p] = SessionOf[q] /\ pc[p] \in Holding => pc[q] \notin Holding

\* What makes type correctness inductive: a sleeping task has attempts left.
BackoffInv == \A p \in Prompts : pc[p] = "backoff" => turn[p].attempt < MaxAttempts

\* What makes OneTurnPerSession inductive: a task is inside its turn exactly
\* when it holds its session's lock.
LockInv ==
    /\ \A p \in Prompts : pc[p] \in Holding <=> lock[SessionOf[p]] = p
    /\ \A s \in Sessions : lock[s] # None => SessionOf[lock[s]] = s

\* The waiters of a session are exactly its queued prompts, each once.
WaitersInv ==
    /\ \A p \in Prompts : pc[p] = "queued" =>
           \E i \in 1..Len(waiters[SessionOf[p]]) : waiters[SessionOf[p]][i] = p
    /\ \A s \in Sessions : \A i \in 1..Len(waiters[s]) :
           /\ pc[waiters[s][i]] = "queued"
           /\ SessionOf[waiters[s][i]] = s
    /\ \A s \in Sessions : \A i, j \in 1..Len(waiters[s]) :
           waiters[s][i] = waiters[s][j] => i = j

\* What makes SettledByAnswer hold: a plain message is about to be fed, or the
\* graph is running, only on a thread that waits for no answer.
QuestionInv ==
    \A p \in Prompts :
        pc[p] = "running" \/ (pc[p] = "feeding" /\ turn[p].route = "message")
            => pending[SessionOf[p]] \notin Questions

IInv == TypeOK /\ BackoffInv /\ LockInv /\ WaitersInv /\ QuestionInv

\* A turn that ended normally put the user's text into the conversation at
\* least once, and no turn puts it there more often than it was attempted: a
\* permission decision or a cancelled attempt never sends it again.
TextDelivered ==
    [][\A p \in Prompts :
          /\ turn'[p].fed <= turn'[p].attempt
          /\ outcome[p] = "none" /\ outcome'[p] = "end_turn" => turn[p].fed > 0]_vars

\* One session/cancel aborts at most one turn: turns that came back
\* "cancelled", plus the flag if it is still up, never outnumber the cancels.
OneAbortPerCancel ==
    Cardinality({p \in Prompts : outcome[p] = "cancelled"})
        + (IF cancelled = None THEN 0 ELSE 1) <= ncancels

\* acp.py:594-599 and 887-893: a pending ask_user question goes away only
\* because a prompt was fed as its answer, the session was deleted, or the
\* read of the state failed.  It is never run over by a plain message.
SettledByAnswer ==
    [][\A s \in Sessions :
          pending[s] \in Questions /\ pending'[s] \notin Questions =>
             \/ index'[s] # index[s]
             \/ \E p \in Prompts : /\ SessionOf[p] = s
                                  /\ pc[p] = "feeding"
                                  /\ turn[p].route \in {"answer", "blind"}]_vars

\* acp.py:645-653, "we always end the turn cleanly": every prompt that
\* reached the server is answered, unless the process dies.
EveryPromptAnswered ==
    \A p \in Prompts : pc[p] = "queued" ~> pc[p] \in {"done", "lost"}

\* The server implements SessionTurns: a session's prompts are answered in
\* the order sent, and sessions do not wait for one another.
InTurn(s) == (IF lock[s] = None THEN <<>> ELSE <<lock[s]>>) \o waiters[s]

Turns == INSTANCE SessionTurns WITH
            queue <- [s \in Sessions |-> InTurn(s)],
            answered <- {p \in Prompts : pc[p] = "done"},
            lost <- {p \in Prompts : pc[p] = "lost"}

TurnsSpec == Turns!Spec

-----------------------------------------------------------------------------
(***************************************************************************)
(* What the documentation promises and the code does not keep.             *)
(***************************************************************************)

\* acp.py:259-262, "the picker is live -- what the editor shows == what
\* runs": a turn runs on the model its session shows when it starts.
ShownModelRuns ==
    [][\A p \in Prompts :
          pc[p] = "reading" /\ pc'[p] = "feeding" => agent = shown[SessionOf[p]]]_vars

\* acp.py:605-611, "different sessions still run in parallel" and no longer
\* abort one another: a turn comes back "cancelled" only for a cancel of its
\* own session.
CancelHitsOwnSession ==
    [][\A p \in Prompts :
          outcome[p] # "cancelled" /\ outcome'[p] = "cancelled"
             => cancelled = SessionOf[p]]_vars
=============================================================================
