---------------------------- MODULE SessionTurns ----------------------------
(***************************************************************************)
(* What the ACP server promises an editor about session/prompt, without    *)
(* saying how: every session is a FIFO queue of prompts, only the prompt   *)
(* at the head of its session's queue is ever answered, sessions do not    *)
(* wait for one another, and a prompt is answered at most once.  Prompts   *)
(* that are queued when the process dies are lost, never answered later.   *)
(***************************************************************************)
EXTENDS Naturals, Sequences

CONSTANTS Sessions, Prompts, SessionOf

VARIABLES
    queue,      \* [Sessions -> Seq(Prompts)]: sent and not yet answered, oldest first
    answered,   \* prompts that got their PromptResponse
    lost        \* prompts whose process died first

vars == <<queue, answered, lost>>

Init ==
    /\ queue = [s \in Sessions |-> <<>>]
    /\ answered = {}
    /\ lost = {}

Queued(p) == \E i \in 1..Len(queue[SessionOf[p]]) : queue[SessionOf[p]][i] = p

\* The editor sends a prompt it has not sent before.
Send(p) ==
    /\ p \notin answered \cup lost
    /\ ~ Queued(p)
    /\ queue' = [queue EXCEPT ![SessionOf[p]] = Append(@, p)]
    /\ UNCHANGED <<answered, lost>>

\* The oldest prompt of a session is answered.
Answer(p) ==
    /\ queue[SessionOf[p]] # <<>>
    /\ Head(queue[SessionOf[p]]) = p
    /\ queue' = [queue EXCEPT ![SessionOf[p]] = Tail(@)]
    /\ answered' = answered \cup {p}
    /\ UNCHANGED lost

\* The server process dies and comes back: everything queued is lost.
Die ==
    /\ queue' = [s \in Sessions |-> <<>>]
    /\ lost' = lost \cup {p \in Prompts : Queued(p)}
    /\ UNCHANGED answered

Next ==
    \/ \E p \in Prompts : Send(p) \/ Answer(p)
    \/ Die

Spec == Init /\ [][Next]_vars
=============================================================================
