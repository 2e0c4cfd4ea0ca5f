-------------------------- MODULE AcpServerProofs --------------------------
(***************************************************************************)
(* TLAPS proofs about AcpServer, for any sessions, prompts and bounds.     *)
(***************************************************************************)
EXTENDS AcpServer, FiniteSetTheorems, TLAPS

-----------------------------------------------------------------------------
(***************************************************************************)
(* Type correctness.                                                       *)
(***************************************************************************)

\* The initial state is well typed.
LEMMA InitTypeOK == Init => TypeOK /\ BackoffInv
<1> USE SessionOfType, DefaultIsModel, BoundsAreNat, NoneIsFresh
<1>1. Init => TypeOK
  BY DEF Init, TypeOK, Phases, Turn, NoTurn, Routes, Outcomes, Interrupts
<1>2. Init => BackoffInv
  BY DEF Init, BackoffInv
<1> QED
  BY <1>1, <1>2

\* Answering a prompt keeps the task variables well typed.
LEMMA RespondTypeOK ==
  ASSUME TypeOK, BackoffInv, NEW p \in Prompts, NEW how \in Outcomes, Respond(p, how)
  PROVE  /\ pc' \in [Prompts -> Phases]
         /\ turn' \in [Prompts -> Turn]
         /\ outcome' \in [Prompts -> Outcomes]
         /\ lock' \in [Sessions -> Prompts \cup {None}]
         /\ BackoffInv'
<1> USE SessionOfType, BoundsAreNat
<1> NoTurn \in Turn
  BY DEF NoTurn, Turn, Routes
<1> QED
  BY DEF TypeOK, BackoffInv, Respond, Goto, Phases

\* A step of a prompt's task keeps the types.
LEMMA PromptStepTypeOK ==
  ASSUME TypeOK, BackoffInv, NEW p \in Prompts, Submit(p) \/ PromptStep(p)
  PROVE  TypeOK' /\ BackoffInv'
<1> USE SessionOfType, DefaultIsModel, BoundsAreNat, NoneIsFresh
<1> DEFINE s == SessionOf[p]
<1>0. /\ s \in Sessions
      /\ turn[p] \in Turn
      /\ {"end_turn", "cancelled", "gave_up"} \subseteq Outcomes
      /\ Questions \subseteq Interrupts /\ {"none", "gate"} \subseteq Interrupts
  BY DEF TypeOK, Outcomes, Interrupts
<1>1. CASE Submit(p)
  <2>1. waiters' \in [Sessions -> Seq(Prompts)]
    BY <1>0, <1>1 DEF Submit, TypeOK
  <2> QED
    BY <1>1, <2>1 DEF Submit, Goto, TypeOK, BackoffInv, Phases, editorVars, storeVars
<1>2. CASE Enter(p)
  <2>1. waiters' \in [Sessions -> Seq(Prompts)]
    BY <1>0, <1>2 DEF Enter, NextInLine, TypeOK
  <2>2. CASE ReturnCancelled(p)
    BY <1>0, <1>2, <2>1, <2>2, RespondTypeOK
       DEF Enter, ReturnCancelled, TypeOK, editorVars, storeVars
  <2>3. CASE ~ ReturnCancelled(p)
    <3>0. /\ turn' = [turn EXCEPT ![p].attempt = 1]
          /\ pc' = [pc EXCEPT ![p] = "attempting"]
          /\ lock' = [lock EXCEPT ![s] = p]
          /\ UNCHANGED <<cancelled, outcome>>
      BY <1>2, <2>3 DEF Enter, Goto
    <3>1. 1 \in 0..MaxAttempts
      OBVIOUS
    <3>2. turn' \in [Prompts -> Turn]
      BY <1>0, <3>0, <3>1 DEF TypeOK, Turn
    <3>3. BackoffInv'
      BY <1>0, <3>0 DEF TypeOK, BackoffInv
    <3> QED
      BY <1>0, <1>2, <2>1, <3>0, <3>2, <3>3
         DEF Enter, TypeOK, Phases, Holding, editorVars, storeVars
  <2> QED
    BY <2>2, <2>3
<1>3. CASE Attempt(p)
  BY <1>0, <1>3 DEF Attempt, Goto, TypeOK, BackoffInv, Phases, Holding, lockVars,
                    editorVars, storeVars
<1>4. CASE ReadQuestion(p)
  <2>1. CASE ReturnCancelled(p)
    BY <1>0, <1>4, <2>1, RespondTypeOK
       DEF ReadQuestion, ReturnCancelled, TypeOK, editorVars, storeVars
  <2>2. CASE ~ ReturnCancelled(p)
    <3>1. /\ pc' = [pc EXCEPT ![p] = "feeding"]
          /\ turn' = [turn EXCEPT ![p].route = "answer"]
          /\ UNCHANGED <<cancelled, outcome, lock>>
      BY <1>4, <2>2 DEF ReadQuestion, Feeding, Goto
    <3>2. turn' \in [Prompts -> Turn]
      BY <1>0, <3>1 DEF TypeOK, Turn, Routes
    <3>3. BackoffInv'
      BY <1>0, <3>1 DEF TypeOK, BackoffInv
    <3> QED
      BY <1>0, <1>4, <3>1, <3>2, <3>3
         DEF ReadQuestion, TypeOK, Phases, Holding, editorVars, storeVars
  <2> QED
    BY <2>1, <2>2
<1>5. CASE ReadNoQuestion(p)
  <2>1. turn' \in [Prompts -> Turn]
    BY <1>0, <1>5 DEF ReadNoQuestion, Feeding, TypeOK, Turn, Routes
  <2> QED
    BY <1>0, <1>5, <2>1
       DEF ReadNoQuestion, Feeding, Goto, TypeOK, BackoffInv, Phases, Holding,
           lockVars, editorVars, storeVars
<1>6. CASE Feed(p)
  <2>1. /\ pc' = [pc EXCEPT ![p] = "running"]
        /\ turn' = [turn EXCEPT ![p].fed = IF turn[p].route = "decision" THEN @ ELSE @ + 1,
                               ![p].route = "message"]
    BY <1>6 DEF Feed, Goto
  <2>2. turn' \in [Prompts -> Turn]
    <3>0. ASSUME NEW n \in Nat
          PROVE  [turn[p] EXCEPT !.fed = n, !.route = "message"] \in Turn
      BY <1>0 DEF Turn, Routes
    <3>1. [turn[p] EXCEPT !.fed = IF turn[p].route = "decision" THEN @ ELSE @ + 1,
                           !.route = "message"] \in Turn
      <4>1. turn[p].fed \in Nat /\ turn[p].fed + 1 \in Nat
        BY <1>0 DEF Turn
      <4>2. CASE turn[p].route = "decision"
        BY <4>1, <4>2, <3>0
      <4>3. CASE turn[p].route # "decision"
        BY <4>1, <4>3, <3>0
      <4> QED
        BY <4>2, <4>3
    <3> QED
      BY <1>0, <2>1, <3>1 DEF TypeOK
  <2>3. BackoffInv'
    BY <1>0, <2>1 DEF TypeOK, BackoffInv
  <2> QED
    BY <1>0, <1>6, <2>1, <2>2, <2>3
       DEF Feed, TypeOK, Phases, Holding, lockVars, editorVars
<1>7. CASE StopOnCancel(p)
  BY <1>0, <1>7, RespondTypeOK
     DEF StopOnCancel, ReturnCancelled, TypeOK, editorVars, storeVars
<1>8. CASE Finish(p)
  BY <1>0, <1>8, RespondTypeOK DEF Finish, TypeOK, editorVars
<1>9. CASE Ask(p)
  BY <1>0, <1>9 DEF Ask, Pause, Goto, TypeOK, BackoffInv, Phases, Holding, lockVars,
                    editorVars, Questions, Interrupts
<1>10. CASE Present(p)
  BY <1>0, <1>10, RespondTypeOK DEF Present, TypeOK, editorVars, Questions, Interrupts
<1>11. CASE AskPermission(p)
  <2>1. /\ pc' = [pc EXCEPT ![p] = "gated"]
        /\ turn' = [turn EXCEPT ![p].gates = @ + 1]
        /\ turn[p].gates < MaxGates
    BY <1>11 DEF AskPermission, Pause, Goto
  <2>2. turn' \in [Prompts -> Turn]
    <3>1. [turn[p] EXCEPT !.gates = @ + 1] \in Turn
      BY <1>0, <2>1, BoundsAreNat DEF Turn, Routes
    <3> QED
      BY <1>0, <2>1, <3>1 DEF TypeOK
  <2>3. BackoffInv'
    BY <1>0, <2>1 DEF TypeOK, BackoffInv
  <2> QED
    BY <1>0, <1>11, <2>1, <2>2, <2>3
       DEF AskPermission, Pause, TypeOK, Phases, Holding, lockVars, editorVars
<1>12. CASE Decide(p)
  <2>1. CASE ReturnCancelled(p)
    BY <1>0, <1>12, <2>1, RespondTypeOK
       DEF Decide, ReturnCancelled, TypeOK, editorVars, storeVars
  <2>2. CASE ~ ReturnCancelled(p)
    <3>1. /\ pc' = [pc EXCEPT ![p] = "feeding"]
          /\ turn' = [turn EXCEPT ![p].route = "decision"]
          /\ UNCHANGED <<cancelled, outcome, lock>>
      BY <1>12, <2>2 DEF Decide, Feeding, Goto
    <3>2. turn' \in [Prompts -> Turn]
      BY <1>0, <3>1 DEF TypeOK, Turn, Routes
    <3>3. BackoffInv'
      BY <1>0, <3>1 DEF TypeOK, BackoffInv
    <3> QED
      BY <1>0, <1>12, <3>1, <3>2, <3>3
         DEF Decide, TypeOK, Phases, Holding, editorVars, storeVars
  <2> QED
    BY <2>1, <2>2
<1>13. CASE Stall(p)
  BY <1>0, <1>13 DEF Stall, Goto, TypeOK, BackoffInv, Phases, Holding, lockVars,
                     editorVars, storeVars
<1>14. CASE GiveUp(p)
  BY <1>0, <1>14, RespondTypeOK DEF GiveUp, TypeOK, editorVars, storeVars
<1>15. CASE Retry(p)
  <2>1. /\ pc' = [pc EXCEPT ![p] = "attempting"]
        /\ turn' = [turn EXCEPT ![p].attempt = @ + 1]
        /\ turn[p].attempt < MaxAttempts
    BY <1>15 DEF Retry, Goto, BackoffInv
  <2>2. turn' \in [Prompts -> Turn]
    <3>1. [turn[p] EXCEPT !.attempt = @ + 1] \in Turn
      BY <1>0, <2>1, BoundsAreNat DEF Turn, Routes
    <3> QED
      BY <1>0, <2>1, <3>1 DEF TypeOK
  <2>3. BackoffInv'
    BY <1>0, <2>1 DEF TypeOK, BackoffInv
  <2> QED
    BY <1>0, <1>15, <2>1, <2>2, <2>3
       DEF Retry, TypeOK, Phases, Holding, lockVars, editorVars, storeVars
<1> QED
  BY <1>1, <1>2, <1>3, <1>4, <1>5, <1>6, <1>7, <1>8, <1>9, <1>10, <1>11, <1>12, <1>13,
     <1>14, <1>15 DEF PromptStep

\* A request other than session/prompt, and a restart, keep the types.
LEMMA SessionStepTypeOK ==
  ASSUME TypeOK, BackoffInv, (\E s \in Sessions : SessionStep(s)) \/ Restart
  PROVE  TypeOK' /\ BackoffInv'
<1> USE SessionOfType, DefaultIsModel, BoundsAreNat, NoneIsFresh
<1>1. ASSUME NEW s \in Sessions, SessionStep(s)
      PROVE  TypeOK' /\ BackoffInv'
  <2>1. BackoffInv'
    BY <1>1 DEF SessionStep, NewSession, LoadSession, CloseSession, ResumeSession, SetModel, Cancel,
                DeleteIndexRow, DeleteCheckpoints, BackoffInv, taskVars
  <2>2. CASE NewSession(s)
    BY <2>1, <2>2 DEF NewSession, TypeOK, Interrupts, taskVars, lockVars, editorVars, storeVars
  <2>3. CASE LoadSession(s) \/ ResumeSession(s)
    <3>1. LoadSession(s)
      BY <2>3 DEF ResumeSession
    <3> QED
      BY <2>1, <3>1 DEF LoadSession, TypeOK, Interrupts, taskVars, lockVars, editorVars, storeVars
  <2>4. CASE CloseSession(s)
    BY <2>1, <2>4 DEF CloseSession, TypeOK, Interrupts, taskVars, lockVars, editorVars, storeVars
  <2>5. CASE \E m \in Models : SetModel(s, m)
    BY <2>1, <2>5 DEF SetModel, TypeOK, Interrupts, taskVars, lockVars, editorVars, storeVars
  <2>6. CASE Cancel(s)
    BY <2>1, <2>6 DEF Cancel, TypeOK, Interrupts, taskVars, lockVars, editorVars, storeVars
  <2>7. CASE DeleteIndexRow(s)
    BY <2>1, <2>7 DEF DeleteIndexRow, TypeOK, Interrupts, taskVars, lockVars, editorVars, storeVars
  <2>8. CASE DeleteCheckpoints(s)
    BY <2>1, <2>8 DEF DeleteCheckpoints, TypeOK, Interrupts, taskVars, lockVars, editorVars, storeVars
  <2> QED
    BY <1>1, <2>2, <2>3, <2>4, <2>5, <2>6, <2>7, <2>8 DEF SessionStep
<1>2. CASE Restart
  <2>1. turn' \in [Prompts -> Turn] /\ BackoffInv'
    BY <1>2 DEF Restart, TypeOK, BackoffInv, Turn, NoTurn, Routes
  <2>2. index' \in [Sessions -> {"absent", "row", "deleting", "deleted"}]
    BY <1>2 DEF Restart, TypeOK
  <2> QED
    BY <1>2, <2>1, <2>2 DEF Restart, TypeOK, Phases
<1> QED
  BY <1>1, <1>2

\* Every reachable state is well typed, and a task that sleeps before a retry
\* always has an attempt left (acp.py:663-710).
THEOREM TypeCorrect == Spec => [](TypeOK /\ BackoffInv)
<1>1. TypeOK /\ BackoffInv /\ [Next]_vars => TypeOK' /\ BackoffInv'
  <2> SUFFICES ASSUME TypeOK, BackoffInv, [Next]_vars
               PROVE  TypeOK' /\ BackoffInv'
    OBVIOUS
  <2>1. CASE UNCHANGED vars
    BY <2>1 DEF TypeOK, BackoffInv, vars, taskVars, lockVars, editorVars, storeVars
  <2> QED
    BY <2>1, PromptStepTypeOK, SessionStepTypeOK DEF Next
<1> QED
  BY <1>1, InitTypeOK, PTL DEF Spec

-----------------------------------------------------------------------------
(***************************************************************************)
(* The lock: at most one turn per session.                                 *)
(***************************************************************************)

\* A task that moves on without touching a lock.
LEMMA MoveKeepsLockInv ==
  ASSUME TypeOK, LockInv, NEW p \in Prompts, NEW phase \in Phases,
         pc' = [pc EXCEPT ![p] = phase], lock' = lock,
         pc[p] \in Holding <=> phase \in Holding
  PROVE  LockInv'
BY SessionOfType DEF TypeOK, LockInv

\* A task that answers: it held the lock, or nobody did.
LEMMA RespondKeepsLockInv ==
  ASSUME TypeOK, LockInv, NEW p \in Prompts, NEW how \in Outcomes, Respond(p, how),
         pc[p] \in Holding \/ lock[SessionOf[p]] = None
  PROVE  LockInv'
<1> DEFINE s == SessionOf[p]
<1>1. /\ s \in Sessions
      /\ lock[s] \in {p, None}
      /\ pc' = [pc EXCEPT ![p] = "done"]
      /\ lock' = [lock EXCEPT ![s] = None]
  BY SessionOfType DEF Respond, Goto, LockInv
<1>2. ASSUME NEW q \in Prompts
      PROVE  pc'[q] \in Holding <=> lock'[SessionOf[q]] = q
  <2>1. q # None
    BY NoneIsFresh
  <2>2. CASE q = p
    BY <1>1, <2>1, <2>2 DEF TypeOK, Holding
  <2>3. CASE q # p /\ SessionOf[q] = s
    BY <1>1, <2>1, <2>3 DEF TypeOK, LockInv
  <2>4. CASE q # p /\ SessionOf[q] # s
    BY <1>1, <2>4, SessionOfType DEF TypeOK, LockInv
  <2> QED
    BY <2>2, <2>3, <2>4
<1>3. \A r \in Sessions : lock'[r] # None => SessionOf[lock'[r]] = r
  BY <1>1 DEF TypeOK, LockInv
<1> QED
  BY <1>2, <1>3 DEF LockInv

\* A task that takes the free lock of its session.
LEMMA AcquireKeepsLockInv ==
  ASSUME TypeOK, LockInv, NEW p \in Prompts, lock[SessionOf[p]] = None,
         pc' = [pc EXCEPT ![p] = "attempting"], lock' = [lock EXCEPT ![SessionOf[p]] = p]
  PROVE  LockInv'
<1>1. ASSUME NEW q \in Prompts
      PROVE  pc'[q] \in Holding <=> lock'[SessionOf[q]] = q
  <2>1. q # None
    BY NoneIsFresh
  <2> QED
    BY <2>1, SessionOfType DEF TypeOK, LockInv, Holding
<1>2. \A r \in Sessions : lock'[r] # None => SessionOf[lock'[r]] = r
  BY SessionOfType DEF TypeOK, LockInv
<1> QED
  BY <1>1, <1>2 DEF LockInv

\* Every step keeps the lock and the phases of the tasks in agreement.
LEMMA StepLockInv ==
  ASSUME TypeOK, LockInv, [Next]_vars
  PROVE  LockInv'
<1> USE DEF Holding, Phases, Outcomes
<1>1. ASSUME NEW p \in Prompts, Submit(p) \/ PromptStep(p)
      PROVE  LockInv'
  <2>1. CASE Submit(p)
    BY <2>1, MoveKeepsLockInv DEF Submit, Goto
  <2>2. CASE Enter(p)
    <3>1. CASE ReturnCancelled(p)
      BY <2>2, <3>1, RespondKeepsLockInv DEF Enter, ReturnCancelled
    <3>2. CASE ~ ReturnCancelled(p)
      BY <2>2, <3>2, AcquireKeepsLockInv DEF Enter, Goto
    <3> QED
      BY <3>1, <3>2
  <2>3. CASE Attempt(p)
    BY <2>3, MoveKeepsLockInv DEF Attempt, Goto, lockVars
  <2>4. CASE ReadQuestion(p)
    <3>1. CASE ReturnCancelled(p)
      BY <2>4, <3>1, RespondKeepsLockInv DEF ReadQuestion, ReturnCancelled
    <3>2. CASE ~ ReturnCancelled(p)
      BY <2>4, <3>2, MoveKeepsLockInv DEF ReadQuestion, Feeding, Goto
    <3> QED
      BY <3>1, <3>2
  <2>5. CASE ReadNoQuestion(p)
    BY <2>5, MoveKeepsLockInv DEF ReadNoQuestion, Feeding, Goto, lockVars
  <2>6. CASE Feed(p)
    BY <2>6, MoveKeepsLockInv DEF Feed, Goto, lockVars
  <2>7. CASE StopOnCancel(p)
    BY <2>7, RespondKeepsLockInv DEF StopOnCancel, ReturnCancelled
  <2>8. CASE Finish(p)
    BY <2>8, RespondKeepsLockInv DEF Finish
  <2>9. CASE Ask(p)
    BY <2>9, MoveKeepsLockInv DEF Ask, Pause, Goto, lockVars
  <2>10. CASE Present(p)
    BY <2>10, RespondKeepsLockInv DEF Present
  <2>11. CASE AskPermission(p)
    BY <2>11, MoveKeepsLockInv DEF AskPermission, Pause, Goto, lockVars
  <2>12. CASE Decide(p)
    <3>1. CASE ReturnCancelled(p)
      BY <2>12, <3>1, RespondKeepsLockInv DEF Decide, ReturnCancelled
    <3>2. CASE ~ ReturnCancelled(p)
      BY <2>12, <3>2, MoveKeepsLockInv DEF Decide, Feeding, Goto
    <3> QED
      BY <3>1, <3>2
  <2>13. CASE Stall(p)
    BY <2>13, MoveKeepsLockInv DEF Stall, MayRaise, Goto, lockVars
  <2>14. CASE GiveUp(p)
    BY <2>14, RespondKeepsLockInv DEF GiveUp, MayRaise
  <2>15. CASE Retry(p)
    BY <2>15, MoveKeepsLockInv DEF Retry, Goto, lockVars
  <2> QED
    BY <1>1, <2>1, <2>2, <2>3, <2>4, <2>5, <2>6, <2>7, <2>8, <2>9, <2>10, <2>11, <2>12,
       <2>13, <2>14, <2>15 DEF PromptStep
<1>2. ASSUME NEW s \in Sessions, SessionStep(s)
      PROVE  LockInv'
  BY <1>2 DEF SessionStep, NewSession, LoadSession, CloseSession, ResumeSession, SetModel, Cancel,
              DeleteIndexRow, DeleteCheckpoints, taskVars, lockVars, LockInv
<1>3. CASE Restart
  BY <1>3, NoneIsFresh, SessionOfType DEF Restart, LockInv, TypeOK
<1>4. CASE UNCHANGED vars
  BY <1>4 DEF LockInv, vars, taskVars, lockVars
<1> QED
  BY <1>1, <1>2, <1>3, <1>4 DEF Next

\* The lock discipline holds in every reachable state.
THEOREM LockCorrect == Spec => []LockInv
<1>1. Init => LockInv
  BY NoneIsFresh, SessionOfType DEF Init, LockInv, Holding
<1>2. TypeOK /\ LockInv /\ [Next]_vars => LockInv'
  BY StepLockInv
<1> QED
  BY <1>1, <1>2, TypeCorrect, PTL DEF Spec

\* acp.py:605-611: at most one prompt of a session is inside a turn, for any
\* number of sessions and prompts and whatever else the editor does.
THEOREM TurnsExclude == Spec => []OneTurnPerSession
<1>1. LockInv => OneTurnPerSession
  BY DEF LockInv, OneTurnPerSession
<1> QED
  BY <1>1, LockCorrect, PTL

-----------------------------------------------------------------------------
(***************************************************************************)
(* ask_user: a pending question is settled by an answer.                   *)
(***************************************************************************)

\* The tasks of a session other than the one that holds its lock.
LEMMA OthersNotHolding ==
  ASSUME LockInv, NEW p \in Prompts, pc[p] \in Holding,
         NEW q \in Prompts, q # p, SessionOf[q] = SessionOf[p]
  PROVE  pc[q] \notin {"running", "feeding"}
BY DEF LockInv, Holding

\* A task steps, and its session has no new question unless it is asking.
LEMMA StepKeepsQuestionInv ==
  ASSUME TypeOK, LockInv, QuestionInv, NEW p \in Prompts, pc[p] \in Holding,
         \A q \in Prompts : q # p => pc'[q] = pc[q] /\ turn'[q] = turn[q],
         \A r \in Sessions : r # SessionOf[p] => pending'[r] = pending[r],
         pc'[p] = "running" \/ (pc'[p] = "feeding" /\ turn'[p].route = "message")
            => pending'[SessionOf[p]] \notin Questions
  PROVE  QuestionInv'
<1> SUFFICES ASSUME NEW q \in Prompts,
                    pc'[q] = "running" \/ (pc'[q] = "feeding" /\ turn'[q].route = "message")
             PROVE  pending'[SessionOf[q]] \notin Questions
  BY DEF QuestionInv
<1>1. CASE q = p
  BY <1>1
<1>2. CASE q # p /\ SessionOf[q] = SessionOf[p]
  BY <1>2, OthersNotHolding
<1>3. CASE q # p /\ SessionOf[q] # SessionOf[p]
  BY <1>3, SessionOfType DEF QuestionInv
<1> QED
  BY <1>1, <1>2, <1>3

\* Answering leaves no task of the session running.
LEMMA RespondKeepsQuestionInv ==
  ASSUME TypeOK, QuestionInv, NEW p \in Prompts, NEW how, Respond(p, how),
         \A r \in Sessions : pending'[r] \in Questions => pending[r] \in Questions
  PROVE  QuestionInv'
BY SessionOfType DEF TypeOK, QuestionInv, Respond, Goto

\* Every step keeps plain messages away from threads that wait for an answer.
LEMMA StepQuestionInv ==
  ASSUME TypeOK, LockInv, QuestionInv, [Next]_vars
  PROVE  QuestionInv'
<1> USE DEF Holding, Questions
<1>1. ASSUME NEW p \in Prompts, Submit(p) \/ PromptStep(p)
      PROVE  QuestionInv'
  <2> turn[p] \in Turn /\ SessionOf[p] \in Sessions
    BY SessionOfType DEF TypeOK
  <2>1. CASE Submit(p)
    BY <2>1 DEF Submit, Goto, QuestionInv, TypeOK, storeVars
  <2>2. CASE Enter(p)
    <3>1. CASE ReturnCancelled(p)
      BY <2>2, <3>1, RespondKeepsQuestionInv DEF Enter, ReturnCancelled, storeVars
    <3>2. CASE ~ ReturnCancelled(p)
      <4>1. /\ pc' = [pc EXCEPT ![p] = "attempting"]
            /\ turn' = [turn EXCEPT ![p].attempt = 1]
            /\ pending' = pending
        BY <2>2, <3>2 DEF Enter, Goto, storeVars
      <4> QED
        BY <4>1 DEF QuestionInv, TypeOK
    <3> QED
      BY <3>1, <3>2
  <2>3. CASE Attempt(p)
    BY <2>3 DEF Attempt, Goto, QuestionInv, TypeOK, storeVars
  <2>4. CASE ReadQuestion(p)
    <3>1. CASE ReturnCancelled(p)
      BY <2>4, <3>1, RespondKeepsQuestionInv DEF ReadQuestion, ReturnCancelled, storeVars
    <3>2. CASE ~ ReturnCancelled(p)
      <4>1. /\ pc[p] = "reading"
            /\ pc' = [pc EXCEPT ![p] = "feeding"]
            /\ turn' = [turn EXCEPT ![p].route = "answer"]
            /\ pending' = pending
        BY <2>4, <3>2 DEF ReadQuestion, Feeding, Goto, storeVars
      <4>2. turn'[p].route = "answer"
        BY <4>1 DEF TypeOK, Turn
      <4> QED
        BY <4>1, <4>2, StepKeepsQuestionInv DEF TypeOK
    <3> QED
      BY <3>1, <3>2
  <2>5. CASE ReadNoQuestion(p)
    <3> DEFINE how == IF pending[SessionOf[p]] \in Questions THEN "blind" ELSE "message"
    <3>1. /\ pc[p] = "reading"
          /\ pc' = [pc EXCEPT ![p] = "feeding"]
          /\ turn' = [turn EXCEPT ![p].route = how]
          /\ pending' = pending
      BY <2>5 DEF ReadNoQuestion, Feeding, Goto, storeVars
    <3>2. turn'[p].route = how
      BY <3>1 DEF TypeOK, Turn
    <3> QED
      BY <3>1, <3>2, StepKeepsQuestionInv DEF TypeOK
  <2>6. CASE Feed(p)
    <3>1. /\ pc[p] = "feeding"
          /\ \A q \in Prompts : q # p => pc'[q] = pc[q] /\ turn'[q] = turn[q]
          /\ pending' = [pending EXCEPT ![SessionOf[p]] = "none"]
      BY <2>6 DEF Feed, Goto, TypeOK
    <3> QED
      BY <3>1, StepKeepsQuestionInv DEF TypeOK
  <2>7. CASE StopOnCancel(p)
    BY <2>7, RespondKeepsQuestionInv DEF StopOnCancel, ReturnCancelled, storeVars
  <2>8. CASE Finish(p)
    BY <2>8, RespondKeepsQuestionInv DEF Finish
  <2>9. CASE Ask(p)
    <3>1. /\ pc[p] = "running"
          /\ pc' = [pc EXCEPT ![p] = "asking"]
          /\ turn' = turn
          /\ pending' = [pending EXCEPT ![SessionOf[p]] = "unseen"]
      BY <2>9 DEF Ask, Pause, Goto
    <3> QED
      BY <3>1, StepKeepsQuestionInv DEF TypeOK
  <2>10. CASE Present(p)
    BY <2>10, RespondKeepsQuestionInv DEF Present, TypeOK
  <2>11. CASE AskPermission(p)
    <3>1. /\ pc[p] = "running"
          /\ pc' = [pc EXCEPT ![p] = "gated"]
          /\ \A q \in Prompts : q # p => turn'[q] = turn[q]
          /\ pending' = [pending EXCEPT ![SessionOf[p]] = "gate"]
      BY <2>11 DEF AskPermission, Pause, Goto, TypeOK
    <3> QED
      BY <3>1, StepKeepsQuestionInv DEF TypeOK
  <2>12. CASE Decide(p)
    <3>1. CASE ReturnCancelled(p)
      BY <2>12, <3>1, RespondKeepsQuestionInv DEF Decide, ReturnCancelled, storeVars
    <3>2. CASE ~ ReturnCancelled(p)
      <4>1. /\ pc[p] = "gated"
            /\ pc' = [pc EXCEPT ![p] = "feeding"]
            /\ turn' = [turn EXCEPT ![p].route = "decision"]
            /\ pending' = pending
        BY <2>12, <3>2 DEF Decide, Feeding, Goto, storeVars
      <4>2. turn'[p].route = "decision"
        BY <4>1 DEF TypeOK, Turn
      <4> QED
        BY <4>1, <4>2, StepKeepsQuestionInv DEF TypeOK
    <3> QED
      BY <3>1, <3>2
  <2>13. CASE Stall(p)
    BY <2>13 DEF Stall, Goto, QuestionInv, TypeOK, storeVars
  <2>14. CASE GiveUp(p)
    BY <2>14, RespondKeepsQuestionInv DEF GiveUp, storeVars
  <2>15. CASE Retry(p)
    <3>1. /\ pc' = [pc EXCEPT ![p] = "attempting"]
          /\ \A q \in Prompts : q # p => turn'[q] = turn[q]
          /\ pending' = pending
      BY <2>15 DEF Retry, Goto, TypeOK, storeVars
    <3> QED
      BY <3>1 DEF QuestionInv, TypeOK
  <2> QED
    BY <1>1, <2>1, <2>2, <2>3, <2>4, <2>5, <2>6, <2>7, <2>8, <2>9, <2>10, <2>11, <2>12,
       <2>13, <2>14, <2>15 DEF PromptStep
<1>2. ASSUME NEW s \in Sessions, SessionStep(s)
      PROVE  QuestionInv'
  <2>1. /\ UNCHANGED taskVars
        /\ pending' = pending \/ pending' = [pending EXCEPT ![s] = "none"]
    BY <1>2 DEF SessionStep, NewSession, LoadSession, CloseSession, ResumeSession, SetModel, Cancel,
                DeleteIndexRow, DeleteCheckpoints, storeVars
  <2> QED
    BY <2>1, SessionOfType DEF QuestionInv, TypeOK, taskVars
<1>3. CASE Restart
  BY <1>3 DEF Restart, QuestionInv
<1>4. CASE UNCHANGED vars
  BY <1>4 DEF QuestionInv, vars, taskVars, storeVars
<1> QED
  BY <1>1, <1>2, <1>3, <1>4 DEF Next

\* No plain message is on its way to a thread that waits for an answer.
THEOREM QuestionsCorrect == Spec => []QuestionInv
<1>1. Init => QuestionInv
  BY DEF Init, QuestionInv
<1>2. TypeOK /\ LockInv /\ QuestionInv /\ [Next]_vars => QuestionInv'
  BY StepQuestionInv
<1> QED
  BY <1>1, <1>2, TypeCorrect, LockCorrect, PTL DEF Spec

\* acp.py:594-599 and 887-893, for any sessions and prompts: a pending
\* question is never run over by a plain message.
THEOREM QuestionsSettled == Spec => SettledByAnswer
<1> DEFINE Settled(s) ==
      pending[s] \in Questions /\ pending'[s] \notin Questions =>
         \/ index'[s] # index[s]
         \/ \E p \in Prompts : /\ SessionOf[p] = s
                              /\ pc[p] = "feeding"
                              /\ turn[p].route \in {"answer", "blind"}
<1>1. TypeOK /\ QuestionInv /\ [Next]_vars => [\A s \in Sessions : Settled(s)]_vars
  <2> SUFFICES ASSUME TypeOK, QuestionInv, Next, NEW s \in Sessions,
                      pending[s] \in Questions, pending'[s] \notin Questions
               PROVE  \/ index'[s] # index[s]
                      \/ \E p \in Prompts : /\ SessionOf[p] = s
                                           /\ pc[p] = "feeding"
                                           /\ turn[p].route \in {"answer", "blind"}
    OBVIOUS
  <2>1. ASSUME NEW p \in Prompts, Feed(p)
        PROVE  /\ SessionOf[p] = s
               /\ pc[p] = "feeding"
               /\ turn[p].route \in {"answer", "blind"}
    <3>1. SessionOf[p] = s /\ pc[p] = "feeding"
      BY <2>1, SessionOfType DEF Feed, TypeOK
    <3>2. turn[p].route \in Routes
      BY DEF TypeOK, Turn
    <3>3. turn[p].route # "message"
      BY <3>1 DEF QuestionInv
    <3>4. turn[p].route # "decision"
      BY <2>1, <3>1 DEF Feed, Questions
    <3> QED
      BY <3>1, <3>2, <3>3, <3>4 DEF Routes
  <2>2. ASSUME NEW p \in Prompts, Ask(p) \/ AskPermission(p)
        PROVE  FALSE
    <3>1. SessionOf[p] = s /\ pc[p] = "running"
      BY <2>2, SessionOfType DEF Ask, AskPermission, Pause, TypeOK
    <3> QED
      BY <3>1 DEF QuestionInv
  <2>3. ASSUME NEW p \in Prompts, Present(p)
        PROVE  FALSE
    BY <2>3 DEF Present, TypeOK, Questions
  <2>4. ASSUME NEW p \in Prompts,
               \/ Submit(p) \/ Enter(p) \/ Attempt(p) \/ ReadQuestion(p) \/ ReadNoQuestion(p)
               \/ StopOnCancel(p) \/ Finish(p) \/ Decide(p)
               \/ Stall(p) \/ GiveUp(p) \/ Retry(p)
        PROVE  FALSE
    BY <2>4 DEF Submit, Enter, Attempt, ReadQuestion, ReadNoQuestion, StopOnCancel, Finish,
                Decide, Stall, GiveUp, Retry, storeVars
  <2>5. ASSUME NEW r \in Sessions, SessionStep(r)
        PROVE  index'[s] # index[s]
    <3>1. DeleteCheckpoints(r)
      BY <2>5 DEF SessionStep, NewSession, LoadSession, CloseSession, ResumeSession, SetModel, Cancel,
                  DeleteIndexRow, storeVars
    <3> QED
      BY <3>1 DEF DeleteCheckpoints, TypeOK
  <2>6. ~ Restart
    BY DEF Restart
  <2> QED
    BY <2>1, <2>2, <2>3, <2>4, <2>5, <2>6 DEF Next, PromptStep
<1> QED
  BY <1>1, TypeCorrect, QuestionsCorrect, PTL DEF Spec, SettledByAnswer

-----------------------------------------------------------------------------
(***************************************************************************)
(* Cancels: one aborts at most one turn.                                   *)
(***************************************************************************)

Aborted == {p \in Prompts : outcome[p] = "cancelled"}
Raised == IF cancelled = None THEN 0 ELSE 1

\* What makes OneAbortPerCancel inductive: it counts a finite set.
AbortInv == IsFiniteSet(Aborted) /\ Cardinality(Aborted) \in Nat /\ OneAbortPerCancel

\* An answer that is no abort, or no answer: the aborted turns are no more than before.
LEMMA SameAborts ==
  ASSUME AbortInv, TypeOK, ncancels' \in Nat, Aborted' \subseteq Aborted,
         \/ Raised' <= Raised /\ ncancels <= ncancels'
         \/ ncancels' = ncancels + 1
  PROVE  AbortInv'
<1>1. IsFiniteSet(Aborted') /\ Cardinality(Aborted') <= Cardinality(Aborted) /\ Cardinality(Aborted') \in Nat
  BY FS_Subset, FS_CardinalityType DEF AbortInv
<1>2. Cardinality(Aborted) + Raised <= ncancels /\ ncancels \in Nat /\ Raised \in 0..1 /\ Raised' \in 0..1
  BY BoundsAreNat DEF AbortInv, OneAbortPerCancel, Aborted, Raised, TypeOK
<1>3. Cardinality(Aborted') + Raised' <= ncancels'
  BY <1>1, <1>2 DEF AbortInv
<1> QED
  BY <1>1, <1>3 DEF AbortInv, OneAbortPerCancel, Aborted, Raised

\* The abort of a turn takes the flag down.
LEMMA AbortUsesTheFlag ==
  ASSUME AbortInv, TypeOK, NEW p \in Prompts, ReturnCancelled(p), ncancels' = ncancels
  PROVE  AbortInv'
<1>1. Aborted' \subseteq Aborted \cup {p}
  BY DEF ReturnCancelled, Respond, Aborted, TypeOK
<1>2. /\ IsFiniteSet(Aborted \cup {p}) /\ Cardinality(Aborted \cup {p}) \in Nat
      /\ Cardinality(Aborted \cup {p}) <= Cardinality(Aborted) + 1
  <2>1. IsFiniteSet(Aborted) /\ Cardinality(Aborted) \in Nat
    BY DEF AbortInv
  <2>2. /\ IsFiniteSet(Aborted \cup {p})
        /\ Cardinality(Aborted \cup {p}) = IF p \in Aborted THEN Cardinality(Aborted) ELSE Cardinality(Aborted) + 1
    BY <2>1, FS_AddElement
  <2> QED
    BY <2>1, <2>2
<1>3. IsFiniteSet(Aborted') /\ Cardinality(Aborted') <= Cardinality(Aborted) + 1 /\ Cardinality(Aborted') \in Nat
  <2>1. Cardinality(Aborted) \in Nat
    BY DEF AbortInv
  <2>2. IsFiniteSet(Aborted') /\ Cardinality(Aborted') <= Cardinality(Aborted \cup {p}) /\ Cardinality(Aborted') \in Nat
    BY <1>1, <1>2, FS_Subset, FS_CardinalityType
  <2> QED
    BY <1>2, <2>1, <2>2
<1>4. Raised = 1 /\ Raised' = 0
  BY DEF ReturnCancelled, Raised
<1>5. Cardinality(Aborted) + Raised <= ncancels /\ ncancels \in Nat
  BY BoundsAreNat DEF AbortInv, OneAbortPerCancel, Aborted, Raised, TypeOK
<1>6. Cardinality(Aborted') + Raised' <= ncancels'
  BY <1>3, <1>4, <1>5 DEF AbortInv
<1> QED
  BY <1>3, <1>6 DEF AbortInv, OneAbortPerCancel, Aborted, Raised

LEMMA StepAbortInv ==
  ASSUME AbortInv, TypeOK, TypeOK', [Next]_vars
  PROVE  AbortInv'
<1>0. ncancels \in Nat /\ ncancels' \in Nat /\ Raised \in 0..1 /\ Raised' \in 0..1
  BY BoundsAreNat DEF TypeOK, Raised
<1>1. ASSUME NEW p \in Prompts, Submit(p) \/ PromptStep(p)
      PROVE  AbortInv'
  <2>1. CASE ReturnCancelled(p)
    <3>1. ncancels' = ncancels
      BY <1>1 DEF Submit, PromptStep, Enter, Attempt, ReadQuestion, ReadNoQuestion, Feed, StopOnCancel, Finish,
                  Ask, Present, AskPermission, Decide, Stall, GiveUp, Retry, editorVars
    <3> QED
      BY <2>1, <3>1, AbortUsesTheFlag
  <2>2. CASE ~ReturnCancelled(p)
    <3>1. \/ outcome' = outcome
          \/ outcome' = [outcome EXCEPT ![p] = "end_turn"]
          \/ outcome' = [outcome EXCEPT ![p] = "gave_up"]
      BY <1>1, <2>2 DEF Submit, PromptStep, Enter, Attempt, ReadQuestion, ReadNoQuestion, Feed, StopOnCancel, Finish,
                  Ask, Present, AskPermission, Decide, Stall, GiveUp, Retry, Respond
    <3>2. Aborted' \subseteq Aborted
      BY <3>1 DEF Aborted, TypeOK
    <3>3. ncancels' = ncancels /\ (cancelled' = cancelled \/ cancelled' = None)
      BY <1>1, <2>2 DEF Submit, PromptStep, Enter, Attempt, ReadQuestion, ReadNoQuestion, Feed, StopOnCancel, Finish,
                  Ask, Present, AskPermission, Decide, Stall, GiveUp, Retry, editorVars
    <3>4. Raised' <= Raised
      BY <3>3 DEF Raised
    <3> QED
      BY <1>0, <3>2, <3>3, <3>4, SameAborts
  <2> QED
    BY <2>1, <2>2
<1>2. ASSUME NEW s \in Sessions, SessionStep(s)
      PROVE  AbortInv'
  <2>1. Aborted' \subseteq Aborted
    BY <1>2 DEF SessionStep, NewSession, LoadSession, CloseSession, ResumeSession, SetModel, Cancel,
                DeleteIndexRow, DeleteCheckpoints, taskVars, Aborted
  <2>2. ncancels' = ncancels + 1 \/ (ncancels' = ncancels /\ cancelled' = cancelled)
    BY <1>2 DEF SessionStep, NewSession, LoadSession, CloseSession, ResumeSession, SetModel, Cancel,
                DeleteIndexRow, DeleteCheckpoints, editorVars
  <2>3. cancelled' = cancelled => Raised' <= Raised
    BY DEF Raised
  <2> QED
    BY <1>0, <2>1, <2>2, <2>3, SameAborts
<1>3. CASE Restart
  <2>1. Aborted' = Aborted /\ ncancels' = ncancels /\ Raised' = 0
    BY <1>3 DEF Restart, Aborted, Raised
  <2> QED
    BY <1>0, <2>1, SameAborts
<1>4. CASE UNCHANGED vars
  <2>1. Aborted' = Aborted /\ ncancels' = ncancels /\ Raised' = Raised
    BY <1>4 DEF vars, taskVars, editorVars, Aborted, Raised
  <2> QED
    BY <1>0, <2>1, SameAborts
<1> QED
  BY <1>1, <1>2, <1>3, <1>4 DEF Next

\* One session/cancel aborts at most one turn, for any prompts, sessions and cancels:
\* every abort takes the one shared flag down, and only a cancel raises it (acp.py:427-438,
\* 634-636, 909-925).
THEOREM CancelsCounted == Spec => []OneAbortPerCancel
<1>1. Init => AbortInv
  <2> SUFFICES ASSUME Init PROVE AbortInv
    OBVIOUS
  <2>1. Aborted = {} /\ Raised = 0 /\ ncancels = 0
    BY DEF Init, Aborted, Raised
  <2> QED
    BY <2>1, FS_EmptySet DEF AbortInv, OneAbortPerCancel, Aborted, Raised
<1>2. AbortInv /\ TypeOK /\ TypeOK' /\ [Next]_vars => AbortInv'
  BY StepAbortInv
<1>3. AbortInv => OneAbortPerCancel
  BY DEF AbortInv
<1> QED
  BY <1>1, <1>2, <1>3, TypeCorrect, PTL DEF Spec

-----------------------------------------------------------------------------
(***************************************************************************)
(* The text of a prompt: sent, and not sent twice in an attempt.           *)
(***************************************************************************)

\* How often the text has been fed, seen from where the task is.
FedOK(p) ==
    /\ turn[p].fed <= turn[p].attempt
    /\ pc[p] \in {"unsent", "queued"} => turn[p].fed = 0
    /\ pc[p] \in {"attempting", "reading"} \/ (pc[p] = "feeding" /\ turn[p].route # "decision") =>
           turn[p].fed < turn[p].attempt
    /\ pc[p] \in {"running", "asking", "gated"} \/ (pc[p] = "feeding" /\ turn[p].route = "decision") =>
           turn[p].fed > 0

FedInv == \A p \in Prompts : FedOK(p)

\* A step of a task leaves the others where they are.
LEMMA FedOthers ==
  ASSUME TypeOK, FedInv, NEW p \in Prompts,
         \A q \in Prompts \ {p} : pc'[q] = pc[q] /\ turn'[q] = turn[q], FedOK(p)'
  PROVE  FedInv'
BY DEF FedInv, FedOK

LEMMA RespondKeepsFed ==
  ASSUME TypeOK, FedInv, NEW p \in Prompts, NEW how, Respond(p, how)
  PROVE  FedInv'
<1>1. /\ pc'[p] = "done" /\ turn'[p] = NoTurn
      /\ \A q \in Prompts \ {p} : pc'[q] = pc[q] /\ turn'[q] = turn[q]
  BY DEF Respond, Goto, TypeOK
<1>2. FedOK(p)'
  BY <1>1 DEF FedOK, NoTurn
<1> QED
  BY <1>1, <1>2, FedOthers

\* A task that goes on without feeding.
LEMMA MoveKeepsFed ==
  ASSUME TypeOK, FedInv, NEW p \in Prompts, NEW phase, NEW x,
         pc' = [pc EXCEPT ![p] = phase], turn' = [turn EXCEPT ![p] = x],
         x.fed = turn[p].fed, x.attempt = turn[p].attempt,
         phase = "queued" => turn[p].fed = 0, phase # "unsent",
         (phase \in {"attempting", "reading"} \/ (phase = "feeding" /\ x.route # "decision")) =>
             turn[p].fed < turn[p].attempt,
         (phase \in {"running", "asking", "gated"} \/ (phase = "feeding" /\ x.route = "decision")) =>
             turn[p].fed > 0
  PROVE  FedInv'
<1>1. /\ pc'[p] = phase /\ turn'[p] = x
      /\ \A q \in Prompts \ {p} : pc'[q] = pc[q] /\ turn'[q] = turn[q]
  BY DEF TypeOK
<1>2. FedOK(p)'
  BY <1>1 DEF FedOK, FedInv
<1> QED
  BY <1>1, <1>2, FedOthers

LEMMA StepFedInv ==
  ASSUME TypeOK, FedInv, [Next]_vars
  PROVE  FedInv'
<1>1. ASSUME NEW p \in Prompts, Submit(p) \/ PromptStep(p)
      PROVE  FedInv'
  <2>0. /\ turn[p] \in Turn /\ turn[p].fed \in Nat /\ turn[p].attempt \in Nat /\ FedOK(p)
        /\ turn = [turn EXCEPT ![p] = turn[p]]
    BY BoundsAreNat DEF TypeOK, Turn, FedInv
  <2>1. ASSUME NEW how, Respond(p, how) PROVE FedInv'
    BY <2>1, RespondKeepsFed
  <2>2. CASE ~\E how : Respond(p, how)
    <3>0. ~ReturnCancelled(p)
      BY <2>2 DEF ReturnCancelled
    <3>1. CASE Submit(p)
      BY <2>0, <3>1, MoveKeepsFed DEF Submit, Goto, FedOK
    <3>2. CASE Enter(p)
      <4> DEFINE x == [turn[p] EXCEPT !.attempt = 1]
      <4>1. pc' = [pc EXCEPT ![p] = "attempting"] /\ turn' = [turn EXCEPT ![p] = x]
        BY <2>0, <3>0, <3>2 DEF Enter, Goto, TypeOK
      <4>2. x.attempt = 1 /\ x.fed = turn[p].fed /\ turn[p].fed = 0
        BY <2>0, <3>2 DEF Enter, NextInLine, Turn, FedOK
      <4>3. FedOK(p)'
        BY <4>1, <4>2 DEF FedOK, TypeOK
      <4> QED
        BY <4>1, <4>3, FedOthers DEF TypeOK
    <3>3. CASE Attempt(p)
      BY <2>0, <3>3, MoveKeepsFed DEF Attempt, Goto, FedOK
    <3>4. ASSUME NEW how \in Routes, Feeding(p, how), pc[p] \in {"reading", "gated"},
                 how = "decision" <=> pc[p] = "gated"
          PROVE  FedInv'
      <4> DEFINE x == [turn[p] EXCEPT !.route = how]
      <4>1. pc' = [pc EXCEPT ![p] = "feeding"] /\ turn' = [turn EXCEPT ![p] = x]
        BY <2>0, <3>4 DEF Feeding, Goto, TypeOK
      <4>2. x.route = how /\ x.fed = turn[p].fed /\ x.attempt = turn[p].attempt
        BY <2>0 DEF Turn
      <4> HIDE DEF x
      <4> QED
        BY <2>0, <3>4, <4>1, <4>2, MoveKeepsFed DEF FedOK
    <3>5. CASE ReadQuestion(p) \/ ReadNoQuestion(p) \/ Decide(p)
      BY <3>0, <3>4, <3>5 DEF ReadQuestion, ReadNoQuestion, Decide, Routes
    <3>6. CASE Feed(p)
      <4> DEFINE n == IF turn[p].route = "decision" THEN turn[p].fed ELSE turn[p].fed + 1
                 x == [turn[p] EXCEPT !.fed = n, !.route = "message"]
      <4>1. pc' = [pc EXCEPT ![p] = "running"] /\ turn' = [turn EXCEPT ![p] = x]
        BY <2>0, <3>6 DEF Feed, Goto, TypeOK
      <4>2. n \in Nat /\ n > 0 /\ n <= turn[p].attempt
        BY <2>0, <3>6 DEF Feed, FedOK
      <4> HIDE DEF n
      <4>3. x.fed = n /\ x.attempt = turn[p].attempt
        BY <2>0 DEF Turn
      <4>4. pc'[p] = "running" /\ turn'[p] = x
        BY <4>1 DEF TypeOK
      <4> HIDE DEF x
      <4>5. FedOK(p)'
        BY <2>0, <4>2, <4>3, <4>4 DEF FedOK
      <4> QED
        BY <4>1, <4>5, FedOthers DEF TypeOK
    <3>7. CASE StopOnCancel(p) \/ Finish(p) \/ Present(p) \/ GiveUp(p)
      BY <3>0, <2>2, <3>7 DEF StopOnCancel, Finish, Present, GiveUp
    <3>8. CASE Ask(p)
      BY <2>0, <3>8, MoveKeepsFed DEF Ask, Pause, Goto, FedOK
    <3>9. CASE AskPermission(p)
      <4> DEFINE n == turn[p].gates + 1
                 x == [turn[p] EXCEPT !.gates = n]
      <4>1. pc' = [pc EXCEPT ![p] = "gated"] /\ turn' = [turn EXCEPT ![p] = x] /\ pc[p] = "running"
        BY <2>0, <3>9 DEF AskPermission, Pause, Goto, TypeOK
      <4> HIDE DEF n
      <4>2. x.fed = turn[p].fed /\ x.attempt = turn[p].attempt
        BY <2>0 DEF Turn
      <4> HIDE DEF x
      <4> QED
        BY <2>0, <4>1, <4>2, MoveKeepsFed DEF FedOK
    <3>10. CASE Stall(p)
      BY <2>0, <3>10, MoveKeepsFed DEF Stall, Goto, FedOK
    <3>11. CASE Retry(p)
      <4> DEFINE n == turn[p].attempt + 1
                 x == [turn[p] EXCEPT !.attempt = n]
      <4>1. pc' = [pc EXCEPT ![p] = "attempting"] /\ turn' = [turn EXCEPT ![p] = x]
        BY <2>0, <3>11 DEF Retry, Goto, TypeOK
      <4>2. n \in Nat /\ turn[p].fed < n
        BY <2>0 DEF FedOK
      <4> HIDE DEF n
      <4>3. x.fed = turn[p].fed /\ x.attempt = n
        BY <2>0 DEF Turn
      <4>4. pc'[p] = "attempting" /\ turn'[p] = x
        BY <4>1 DEF TypeOK
      <4> HIDE DEF x
      <4>5. FedOK(p)'
        BY <2>0, <4>2, <4>3, <4>4 DEF FedOK
      <4> QED
        BY <4>1, <4>5, FedOthers DEF TypeOK
    <3> QED
      BY <1>1, <3>1, <3>2, <3>3, <3>5, <3>6, <3>7, <3>8, <3>9, <3>10, <3>11 DEF PromptStep
  <2> QED
    BY <2>1, <2>2
<1>2. ASSUME NEW s \in Sessions, SessionStep(s)
      PROVE  FedInv'
  BY <1>2 DEF SessionStep, NewSession, LoadSession, CloseSession, ResumeSession, SetModel, Cancel,
              DeleteIndexRow, DeleteCheckpoints, taskVars, FedInv, FedOK
<1>3. CASE Restart
  <2>1. \A p \in Prompts : turn'[p] = NoTurn /\ pc'[p] \in {"unsent", "done", "lost"}
    BY <1>3 DEF Restart
  <2> QED
    BY <2>1 DEF FedInv, FedOK, NoTurn
<1>4. CASE UNCHANGED vars
  BY <1>4 DEF vars, taskVars, FedInv, FedOK
<1> QED
  BY <1>1, <1>2, <1>3, <1>4 DEF Next

\* Every retry, permission decision and pause counted, for any prompts and any number
\* of attempts: a turn that ended normally fed the user's text at least once, and
\* never more often than it was attempted (acp.py:655-710, 909-945).
THEOREM TextsDelivered == Spec => TextDelivered
<1>1. Init => FedInv
  BY DEF Init, FedInv, FedOK, NoTurn
<1>2. TypeOK /\ FedInv /\ [Next]_vars => FedInv'
  BY StepFedInv
<1>3. TypeOK /\ FedInv /\ FedInv' /\ [Next]_vars =>
        [\A p \in Prompts :
            /\ turn'[p].fed <= turn'[p].attempt
            /\ outcome[p] = "none" /\ outcome'[p] = "end_turn" => turn[p].fed > 0]_vars
  <2> SUFFICES ASSUME TypeOK, FedInv, FedInv', Next, NEW p \in Prompts
               PROVE  /\ turn'[p].fed <= turn'[p].attempt
                      /\ outcome[p] = "none" /\ outcome'[p] = "end_turn" => turn[p].fed > 0
    OBVIOUS
  <2>1. turn'[p].fed <= turn'[p].attempt
    BY DEF FedInv, FedOK
  <2>2. ASSUME outcome[p] = "none", outcome'[p] = "end_turn"
        PROVE  turn[p].fed > 0
    <3>1. PICK q \in Prompts : Submit(q) \/ PromptStep(q)
      BY <2>2 DEF Next, SessionStep, NewSession, LoadSession, CloseSession, ResumeSession, SetModel, Cancel,
                  DeleteIndexRow, DeleteCheckpoints, Restart, taskVars
    <3>2. Finish(q) \/ Present(q)
      BY <2>2, <3>1 DEF Submit, PromptStep, Enter, Attempt, ReadQuestion, ReadNoQuestion, Feed, StopOnCancel,
                  Ask, AskPermission, Decide, Stall, GiveUp, Retry, Respond, ReturnCancelled, TypeOK
    <3>3. q = p /\ pc[p] \in {"running", "asking"}
      BY <2>2, <3>2 DEF Finish, Present, Respond, TypeOK
    <3> QED
      BY <3>3 DEF FedInv, FedOK
  <2> QED
    BY <2>1, <2>2
<1> QED
  BY <1>1, <1>2, <1>3, TypeCorrect, PTL DEF Spec, TextDelivered
=============================================================================
