------------------------ MODULE AcpServerRefinement ------------------------
(***************************************************************************)
(* TLAPS proof that the ACP server implements SessionTurns: the prompts of *)
(* a session are answered in the order they were sent.                     *)
(***************************************************************************)
EXTENDS AcpServerProofs, SequenceTheorems

-----------------------------------------------------------------------------
(***************************************************************************)
(* The waiters of a lock.                                                  *)
(***************************************************************************)

\* A step of a task that is not queued, before or after, leaves the waiters.
LEMMA MoveKeepsWaitersInv ==
  ASSUME TypeOK, WaitersInv, NEW p \in Prompts, NEW phase \in Phases,
         pc' = [pc EXCEPT ![p] = phase], waiters' = waiters,
         pc[p] # "queued", phase # "queued"
  PROVE  WaitersInv'
<1>1. \A s \in Sessions : \A i \in 1..Len(waiters[s]) :
         waiters[s][i] \in Prompts /\ waiters[s][i] # p
  BY DEF TypeOK, WaitersInv
<1>2. \A q \in Prompts : q # p => pc'[q] = pc[q]
  BY DEF TypeOK
<1>3. pc'[p] = phase
  BY DEF TypeOK
<1> QED
  BY <1>1, <1>2, <1>3 DEF WaitersInv

\* A prompt joins the end of its session's queue.
LEMMA SubmitKeepsWaitersInv ==
  ASSUME TypeOK, WaitersInv, NEW p \in Prompts, Submit(p)
  PROVE  WaitersInv'
<1> DEFINE s == SessionOf[p]
           w == waiters[s]
<1>1. /\ s \in Sessions /\ w \in Seq(Prompts)
      /\ pc[p] = "unsent"
      /\ pc' = [pc EXCEPT ![p] = "queued"]
      /\ waiters' = [waiters EXCEPT ![s] = Append(w, p)]
  BY SessionOfType DEF Submit, Goto, TypeOK
<1>2. /\ waiters'[s] = Append(w, p)
      /\ \A r \in Sessions : r # s => waiters'[r] = waiters[r]
      /\ pc'[p] = "queued"
      /\ \A q \in Prompts : q # p => pc'[q] = pc[q]
  BY <1>1 DEF TypeOK
<1>3. /\ Len(Append(w, p)) = Len(w) + 1
      /\ \A i \in 1..Len(w) : Append(w, p)[i] = w[i]
      /\ Append(w, p)[Len(w) + 1] = p
  BY <1>1, AppendProperties
<1>4. Len(w) \in Nat
  BY <1>1, LenProperties
<1>5. \A r \in Sessions : \A i \in 1..Len(waiters[r]) :
         waiters[r][i] \in Prompts /\ waiters[r][i] # p
  BY <1>1 DEF TypeOK, WaitersInv
<1>6. \A q \in Prompts : pc'[q] = "queued" =>
         \E i \in 1..Len(waiters'[SessionOf[q]]) : waiters'[SessionOf[q]][i] = q
  <2> SUFFICES ASSUME NEW q \in Prompts, pc'[q] = "queued"
               PROVE  \E i \in 1..Len(waiters'[SessionOf[q]]) : waiters'[SessionOf[q]][i] = q
    OBVIOUS
  <2>1. CASE q = p
    <3>1. Len(w) + 1 \in 1..Len(waiters'[s])
      BY <1>2, <1>3, <1>4
    <3> QED
      BY <2>1, <3>1, <1>2, <1>3
  <2>2. CASE q # p
    <3>1. PICK i \in 1..Len(waiters[SessionOf[q]]) : waiters[SessionOf[q]][i] = q
      BY <2>2, <1>2 DEF WaitersInv
    <3>2. CASE SessionOf[q] = s
      <4>1. i \in 1..Len(waiters'[s]) /\ waiters'[s][i] = q
        BY <3>1, <3>2, <1>2, <1>3, <1>4
      <4> QED
        BY <3>2, <4>1
    <3>3. CASE SessionOf[q] # s
      BY <3>1, <3>3, <1>2, SessionOfType
    <3> QED
      BY <3>2, <3>3
  <2> QED
    BY <2>1, <2>2
<1>7. ASSUME NEW r \in Sessions, NEW i \in 1..Len(waiters'[r])
      PROVE  pc'[waiters'[r][i]] = "queued" /\ SessionOf[waiters'[r][i]] = r
  <2>1. CASE r # s
    BY <1>2, <1>5, <1>7, <2>1 DEF WaitersInv
  <2>2. CASE r = s /\ i \in 1..Len(w)
    <3>1. waiters'[r][i] = w[i] /\ w[i] \in Prompts /\ w[i] # p
      BY <1>1, <1>2, <1>3, <1>5, <2>2
    <3>2. pc[w[i]] = "queued" /\ SessionOf[w[i]] = s
      BY <1>1, <2>2 DEF WaitersInv
    <3> QED
      BY <1>2, <2>2, <3>1, <3>2
  <2>3. CASE r = s /\ i = Len(w) + 1
    BY <1>2, <1>3, <2>3
  <2> QED
    BY <1>2, <1>3, <1>4, <1>7, <2>1, <2>2, <2>3
<1>8. ASSUME NEW r \in Sessions, NEW i \in 1..Len(waiters'[r]), NEW j \in 1..Len(waiters'[r]),
             waiters'[r][i] = waiters'[r][j]
      PROVE  i = j
  <2>1. CASE r # s
    BY <1>2, <1>8, <2>1 DEF WaitersInv
  <2>2. CASE r = s
    <3>1. /\ i \in 1..Len(w) \/ i = Len(w) + 1
          /\ j \in 1..Len(w) \/ j = Len(w) + 1
      BY <1>2, <1>3, <1>4, <2>2
    <3>2. CASE i \in 1..Len(w) /\ j \in 1..Len(w)
      BY <1>1, <1>2, <1>3, <1>8, <2>2, <3>2 DEF WaitersInv
    <3> QED
      BY <1>1, <1>2, <1>3, <1>5, <1>8, <2>2, <3>1, <3>2
  <2> QED
    BY <2>1, <2>2
<1> QED
  BY <1>6, <1>7, <1>8 DEF WaitersInv

\* The oldest waiter leaves the queue and is not queued any more.
LEMMA EnterKeepsWaitersInv ==
  ASSUME TypeOK, WaitersInv, NEW p \in Prompts, NEW phase \in Phases, phase # "queued",
         NextInLine(p), pc' = [pc EXCEPT ![p] = phase],
         waiters' = [waiters EXCEPT ![SessionOf[p]] = Tail(@)]
  PROVE  WaitersInv'
<1> DEFINE s == SessionOf[p]
           w == waiters[s]
<1>1. /\ s \in Sessions /\ w \in Seq(Prompts)
      /\ w # <<>> /\ w[1] = p
  <2>1. s \in Sessions /\ w \in Seq(Prompts) /\ w # <<>> /\ Head(w) = p
    BY SessionOfType DEF NextInLine, TypeOK
  <2> QED
    BY <2>1
<1>2. /\ waiters'[s] = Tail(w)
      /\ \A r \in Sessions : r # s => waiters'[r] = waiters[r]
      /\ \A q \in Prompts : q # p => pc'[q] = pc[q]
      /\ pc'[p] = phase
  BY <1>1 DEF TypeOK
<1>3. /\ Len(w) \in Nat \ {0}
      /\ Len(Tail(w)) = Len(w) - 1
      /\ \A i \in 1..Len(Tail(w)) : Tail(w)[i] = w[i + 1]
  BY <1>1, HeadTailProperties, LenProperties, EmptySeq
<1>4. \A i \in 1..Len(Tail(w)) : i + 1 \in 1..Len(w) /\ i + 1 # 1 /\ w[i + 1] # p
  BY <1>1, <1>3 DEF WaitersInv
<1>5. \A r \in Sessions : r # s => \A i \in 1..Len(waiters[r]) : waiters[r][i] # p
  BY <1>1 DEF WaitersInv
<1>6. \A r \in Sessions : \A i \in 1..Len(waiters[r]) : waiters[r][i] \in Prompts
  BY DEF TypeOK
<1>7. ASSUME NEW q \in Prompts, pc'[q] = "queued"
      PROVE  \E i \in 1..Len(waiters'[SessionOf[q]]) : waiters'[SessionOf[q]][i] = q
  <2>1. q # p /\ pc[q] = "queued"
    BY <1>2, <1>7
  <2>2. PICK i \in 1..Len(waiters[SessionOf[q]]) : waiters[SessionOf[q]][i] = q
    BY <2>1 DEF WaitersInv
  <2>3. CASE SessionOf[q] = s
    <3>1. i # 1
      BY <1>1, <2>1, <2>2, <2>3
    <3>2. i - 1 \in 1..Len(Tail(w)) /\ Tail(w)[i - 1] = q
      BY <1>3, <2>2, <2>3, <3>1
    <3> QED
      BY <1>2, <2>3, <3>2
  <2>4. CASE SessionOf[q] # s
    BY <1>2, <2>2, <2>4, SessionOfType
  <2> QED
    BY <2>3, <2>4
<1>8. ASSUME NEW r \in Sessions, NEW i \in 1..Len(waiters'[r])
      PROVE  pc'[waiters'[r][i]] = "queued" /\ SessionOf[waiters'[r][i]] = r
  <2>1. CASE r # s
    BY <1>2, <1>5, <1>6, <1>8, <2>1 DEF WaitersInv
  <2>2. CASE r = s
    <3>1. i \in 1..Len(Tail(w)) /\ waiters'[r][i] = Tail(w)[i]
      BY <1>2, <1>8, <2>2
    <3>2. waiters'[r][i] = w[i + 1] /\ i + 1 \in 1..Len(w) /\ w[i + 1] # p
      BY <1>3, <1>4, <3>1
    <3>3. w[i + 1] \in Prompts /\ pc[w[i + 1]] = "queued" /\ SessionOf[w[i + 1]] = s
      BY <1>1, <1>6, <3>2 DEF WaitersInv
    <3> QED
      BY <1>2, <2>2, <3>2, <3>3
  <2> QED
    BY <2>1, <2>2
<1>9. ASSUME NEW r \in Sessions, NEW i \in 1..Len(waiters'[r]), NEW j \in 1..Len(waiters'[r]),
             waiters'[r][i] = waiters'[r][j]
      PROVE  i = j
  <2>1. CASE r # s
    BY <1>2, <1>9, <2>1 DEF WaitersInv
  <2>2. CASE r = s
    <3>0. /\ i \in 1..Len(Tail(w)) /\ j \in 1..Len(Tail(w))
          /\ Tail(w)[i] = Tail(w)[j]
      BY <1>2, <1>9, <2>2
    <3>1. w[i + 1] = w[j + 1]
      BY <1>3, <3>0
    <3>2. i + 1 \in 1..Len(w) /\ j + 1 \in 1..Len(w)
      BY <1>4, <3>0
    <3>3. i + 1 = j + 1
      BY <1>1, <3>1, <3>2 DEF WaitersInv
    <3> QED
      BY <3>0, <3>3, <1>3
  <2> QED
    BY <2>1, <2>2
<1> QED
  BY <1>7, <1>8, <1>9 DEF WaitersInv

\* A task inside its turn that moves on without leaving it.
Moves(p) ==
    /\ pc[p] \in Holding
    /\ \E phase \in Holding : pc' = [pc EXCEPT ![p] = phase]
    /\ UNCHANGED lockVars

\* A task inside its turn that answers.
Answers(p) ==
    /\ pc[p] \in Holding
    /\ \E how \in Outcomes : Respond(p, how)
    /\ UNCHANGED waiters

\* The shapes a step of a prompt's task can have.
LEMMA PromptStepShape ==
  ASSUME NEW p \in Prompts, PromptStep(p)
  PROVE  Enter(p) \/ Moves(p) \/ Answers(p)
<1> USE DEF Holding, Outcomes
<1>1. CASE Enter(p)
  BY <1>1
<1>2. CASE Attempt(p) \/ ReadNoQuestion(p) \/ Feed(p)
  BY <1>2 DEF Attempt, ReadNoQuestion, Feed, Feeding, Goto, Moves, lockVars
<1>3. CASE Ask(p) \/ AskPermission(p)
  BY <1>3 DEF Ask, AskPermission, Pause, Goto, Moves, lockVars
<1>4. CASE Stall(p) \/ Retry(p)
  BY <1>4 DEF Stall, Retry, MayRaise, Goto, Moves, lockVars
<1>5. CASE StopOnCancel(p) \/ Finish(p) \/ Present(p) \/ GiveUp(p)
  BY <1>5 DEF StopOnCancel, ReturnCancelled, Finish, Present, GiveUp, MayRaise, Answers
<1>6. CASE ReadQuestion(p)
  <2>1. CASE ReturnCancelled(p)
    BY <1>6, <2>1 DEF ReadQuestion, ReturnCancelled, Answers
  <2>2. CASE ~ ReturnCancelled(p)
    BY <1>6, <2>2 DEF ReadQuestion, Feeding, Goto, Moves, lockVars
  <2> QED
    BY <2>1, <2>2
<1>7. CASE Decide(p)
  <2>1. CASE ReturnCancelled(p)
    BY <1>7, <2>1 DEF Decide, ReturnCancelled, Answers
  <2>2. CASE ~ ReturnCancelled(p)
    BY <1>7, <2>2 DEF Decide, Feeding, Goto, Moves, lockVars
  <2> QED
    BY <2>1, <2>2
<1> QED
  BY <1>1, <1>2, <1>3, <1>4, <1>5, <1>6, <1>7 DEF PromptStep

\* A prompt enters its turn, or is answered "cancelled" instead of entering.
LEMMA EnterShape ==
  ASSUME NEW p \in Prompts, Enter(p)
  PROVE  /\ lock[SessionOf[p]] = None
         /\ NextInLine(p)
         /\ waiters' = [waiters EXCEPT ![SessionOf[p]] = Tail(@)]
         /\ \/ /\ pc' = [pc EXCEPT ![p] = "attempting"]
               /\ lock' = [lock EXCEPT ![SessionOf[p]] = p]
            \/ /\ pc' = [pc EXCEPT ![p] = "done"]
               /\ lock' = [lock EXCEPT ![SessionOf[p]] = None]
BY DEF Enter, ReturnCancelled, Respond, Goto

\* A request that is not a prompt touches neither tasks nor locks.
LEMMA SessionStepShape ==
  ASSUME NEW s \in Sessions, SessionStep(s)
  PROVE  UNCHANGED <<taskVars, lockVars>>
BY DEF SessionStep, NewSession, LoadSession, CloseSession, ResumeSession, SetModel, Cancel,
       DeleteIndexRow, DeleteCheckpoints

\* Every step keeps the waiters in agreement with the queued prompts.
LEMMA StepWaitersInv ==
  ASSUME TypeOK, LockInv, WaitersInv, [Next]_vars
  PROVE  WaitersInv'
<1> USE DEF Holding, Phases
<1>1. ASSUME NEW p \in Prompts, Submit(p)
      PROVE  WaitersInv'
  BY <1>1, SubmitKeepsWaitersInv
<1>2. ASSUME NEW p \in Prompts, PromptStep(p)
      PROVE  WaitersInv'
  <2>1. CASE Enter(p)
    BY <2>1, EnterShape, EnterKeepsWaitersInv
  <2>2. CASE Moves(p)
    BY <2>2, MoveKeepsWaitersInv DEF Moves, lockVars
  <2>3. CASE Answers(p)
    BY <2>3, MoveKeepsWaitersInv DEF Answers, Respond, Goto
  <2> QED
    BY <1>2, <2>1, <2>2, <2>3, PromptStepShape
<1>3. ASSUME NEW s \in Sessions, SessionStep(s)
      PROVE  WaitersInv'
  BY <1>3, SessionStepShape DEF WaitersInv, taskVars, lockVars
<1>4. CASE Restart
  <2>1. \A s \in Sessions : waiters'[s] = <<>> /\ Len(waiters'[s]) = 0
    BY <1>4 DEF Restart
  <2>2. \A p \in Prompts : pc'[p] # "queued"
    BY <1>4 DEF Restart
  <2> QED
    BY <2>1, <2>2 DEF WaitersInv
<1>5. CASE UNCHANGED vars
  BY <1>5 DEF WaitersInv, vars, taskVars, lockVars
<1> QED
  BY <1>1, <1>2, <1>3, <1>4, <1>5 DEF Next

\* The waiters of each session's lock are its queued prompts, each once.
THEOREM WaitersCorrect == Spec => []WaitersInv
<1>1. Init => WaitersInv
  <2> SUFFICES ASSUME Init PROVE WaitersInv
    OBVIOUS
  <2>1. \A s \in Sessions : waiters[s] = <<>> /\ Len(waiters[s]) = 0
    BY DEF Init
  <2>2. \A p \in Prompts : pc[p] # "queued"
    BY DEF Init
  <2> QED
    BY <2>1, <2>2 DEF WaitersInv
<1>2. TypeOK /\ LockInv /\ WaitersInv /\ [Next]_vars => WaitersInv'
  BY StepWaitersInv
<1> QED
  BY <1>1, <1>2, TypeCorrect, LockCorrect, PTL DEF Spec

\* The inductive invariant as a whole: types, attempts left (acp.py:663-710),
\* the lock and its waiters (acp.py:432-449), no plain message on a question.
THEOREM InvariantCorrect == Spec => []IInv
BY TypeCorrect, LockCorrect, WaitersCorrect, QuestionsCorrect, PTL DEF IInv

-----------------------------------------------------------------------------
(***************************************************************************)
(* The refinement.                                                         *)
(***************************************************************************)

Queue == [s \in Sessions |-> InTurn(s)]
Answered == {p \in Prompts : pc[p] = "done"}
Lost == {p \in Prompts : pc[p] = "lost"}

\* The queue of a session, by the state of its lock.
LEMMA InTurnCases ==
  ASSUME TypeOK, NEW s \in Sessions
  PROVE  /\ Queue[s] \in Seq(Prompts)
         /\ lock[s] = None => Queue[s] = waiters[s]
         /\ lock[s] # None => /\ Queue[s] = <<lock[s]>> \o waiters[s]
                              /\ Queue[s] # <<>>
                              /\ Head(Queue[s]) = lock[s]
                              /\ Tail(Queue[s]) = waiters[s]
<1>1. waiters[s] \in Seq(Prompts) /\ lock[s] \in Prompts \cup {None}
  BY DEF TypeOK
<1>2. CASE lock[s] = None
  BY <1>1, <1>2, ConcatEmptySeq DEF Queue, InTurn
<1>3. CASE lock[s] # None
  <2>1. Queue[s] = <<lock[s]>> \o waiters[s] /\ <<lock[s]>> \in Seq(Prompts)
    BY <1>1, <1>3 DEF Queue, InTurn
  <2> QED
    BY <1>1, <1>3, <2>1
<1> QED
  BY <1>2, <1>3

\* A prompt is in the abstract queue exactly when it is sent and unanswered.
LEMMA QueuedIff ==
  ASSUME TypeOK, LockInv, WaitersInv, NEW p \in Prompts
  PROVE  Turns!Queued(p) <=> pc[p] = "queued" \/ pc[p] \in Holding
<1> DEFINE s == SessionOf[p]
           w == waiters[s]
<1>1. s \in Sessions /\ w \in Seq(Prompts) /\ lock[s] \in Prompts \cup {None}
  BY SessionOfType DEF TypeOK
<1>2. Turns!Queued(p) <=> \E i \in 1..Len(Queue[s]) : Queue[s][i] = p
  BY DEF Turns!Queued, Queue
<1>3. pc[p] = "queued" <=> \E i \in 1..Len(w) : w[i] = p
  BY <1>1 DEF WaitersInv
<1>4. pc[p] \in Holding <=> lock[s] = p
  BY DEF LockInv
<1>5. CASE lock[s] = None
  BY <1>1, <1>2, <1>3, <1>4, <1>5, InTurnCases, NoneIsFresh
<1>6. CASE lock[s] # None
  <2>1. Queue[s] = <<lock[s]>> \o w /\ <<lock[s]>> \in Seq(Prompts)
    BY <1>1, <1>6, InTurnCases
  <2>2. Len(Queue[s]) = Len(w) + 1 /\ Len(w) \in Nat
    BY <1>1, <2>1, LenProperties
  <2>3. Queue[s][1] = lock[s]
    BY <1>1, <2>1
  <2>4. \A i \in 1..Len(w) : Queue[s][i + 1] = w[i]
    BY <1>1, <2>1
  <2>5. \A i \in 1..Len(Queue[s]) : i # 1 => i - 1 \in 1..Len(w) /\ Queue[s][i] = w[i - 1]
    BY <1>1, <2>1, <2>2
  <2>6. (\E i \in 1..Len(Queue[s]) : Queue[s][i] = p)
           <=> lock[s] = p \/ \E i \in 1..Len(w) : w[i] = p
    <3>1. ASSUME NEW i \in 1..Len(w), w[i] = p
          PROVE  i + 1 \in 1..Len(Queue[s]) /\ Queue[s][i + 1] = p
      BY <2>2, <2>4, <3>1
    <3> QED
      BY <2>2, <2>3, <2>5, <3>1
  <2> QED
    BY <1>2, <1>3, <1>4, <2>6
<1> QED
  BY <1>5, <1>6

\* What a step does to the abstract variables, in terms of the session's lock.
LEMMA OtherQueues ==
  ASSUME TypeOK, NEW s \in Sessions,
         \A r \in Sessions : r # s => lock'[r] = lock[r] /\ waiters'[r] = waiters[r],
         NEW q, Queue'[s] = q
  PROVE  Queue' = [Queue EXCEPT ![s] = q]
BY DEF Queue, InTurn

\* Sending a prompt appends it to its session's queue.
LEMMA SubmitRefines ==
  ASSUME IInv, NEW p \in Prompts, Submit(p)
  PROVE  Turns!Send(p)
<1> DEFINE s == SessionOf[p]
           w == waiters[s]
<1> USE DEF IInv
<1>1. /\ s \in Sessions /\ w \in Seq(Prompts)
      /\ pc[p] = "unsent"
      /\ pc' = [pc EXCEPT ![p] = "queued"]
      /\ waiters' = [waiters EXCEPT ![s] = Append(w, p)]
      /\ lock' = lock
  BY SessionOfType DEF Submit, Goto, TypeOK
<1>2. p \notin Answered \cup Lost /\ ~ Turns!Queued(p)
  BY <1>1, QueuedIff DEF Answered, Lost, Holding
<1>3. Answered' = Answered /\ Lost' = Lost
  BY <1>1 DEF Answered, Lost, TypeOK
<1>4. Queue'[s] = Append(Queue[s], p)
  <2>1. waiters'[s] = Append(w, p) /\ lock'[s] = lock[s]
    BY <1>1 DEF TypeOK
  <2>2. CASE lock[s] = None
    <3>1. Queue[s] = w /\ Append(w, p) \in Seq(Prompts)
      BY <1>1, <2>2, InTurnCases, AppendProperties
    <3>2. Queue'[s] = <<>> \o Append(w, p)
      BY <1>1, <2>1, <2>2 DEF Queue, InTurn
    <3> QED
      BY <3>1, <3>2, ConcatEmptySeq
  <2>3. CASE lock[s] # None
    <3>1. Queue[s] = <<lock[s]>> \o w /\ <<lock[s]>> \in Seq(Prompts) /\ <<p>> \in Seq(Prompts)
      BY <1>1, <2>3, InTurnCases DEF TypeOK
    <3>2. Queue'[s] = <<lock[s]>> \o (w \o <<p>>)
      BY <1>1, <2>1, <2>3, AppendIsConcat DEF Queue, InTurn
    <3>3. Append(Queue[s], p) = (<<lock[s]>> \o w) \o <<p>>
      BY <1>1, <3>1, AppendIsConcat, ConcatProperties
    <3> QED
      BY <1>1, <3>1, <3>2, <3>3, ConcatAssociative
  <2> QED
    BY <2>2, <2>3
<1>5. Queue' = [Queue EXCEPT ![s] = Append(Queue[s], p)]
  BY <1>1, <1>4, OtherQueues DEF TypeOK
<1> QED
  BY <1>2, <1>3, <1>5 DEF Turns!Send, Queue, Answered, Lost

\* A prompt leaves the head of its session's queue, answered.
LEMMA AnswerRefines ==
  ASSUME IInv, NEW p \in Prompts,
         pc' = [pc EXCEPT ![p] = "done"], pc[p] # "lost",
         Queue[SessionOf[p]] # <<>>, Head(Queue[SessionOf[p]]) = p,
         Queue' = [Queue EXCEPT ![SessionOf[p]] = Tail(Queue[SessionOf[p]])]
  PROVE  Turns!Answer(p)
<1>1. Answered' = Answered \cup {p} /\ Lost' = Lost
  BY DEF Answered, Lost, IInv, TypeOK
<1> QED
  BY <1>1 DEF Turns!Answer, Queue, Answered, Lost

\* Entering a turn changes no queue; being cancelled on entry is an answer.
LEMMA EnterRefines ==
  ASSUME IInv, NEW p \in Prompts, Enter(p)
  PROVE  Turns!Answer(p) \/ UNCHANGED Turns!vars
<1> DEFINE s == SessionOf[p]
           w == waiters[s]
<1> USE DEF IInv
<1>1. /\ s \in Sessions /\ w \in Seq(Prompts) /\ w # <<>> /\ Head(w) = p
      /\ lock[s] = None /\ pc[p] = "queued"
      /\ waiters'[s] = Tail(w)
      /\ \A r \in Sessions : r # s => waiters'[r] = waiters[r]
  BY SessionOfType, EnterShape DEF NextInLine, TypeOK
<1>2. Queue[s] = w
  BY <1>1, InTurnCases
<1>3. CASE pc' = [pc EXCEPT ![p] = "attempting"] /\ lock' = [lock EXCEPT ![s] = p]
  <2>1. lock'[s] = p /\ \A r \in Sessions : r # s => lock'[r] = lock[r]
    BY <1>1, <1>3 DEF TypeOK
  <2>2. Queue'[s] = <<p>> \o Tail(w)
    BY <1>1, <2>1, NoneIsFresh DEF Queue, InTurn
  <2>3. <<p>> \o Tail(w) = w
    BY <1>1
  <2>4. Queue' = [Queue EXCEPT ![s] = w]
    BY <1>1, <2>1, <2>2, <2>3, OtherQueues
  <2>5. Queue' = Queue
    BY <1>1, <1>2, <2>4 DEF Queue
  <2>6. Answered' = Answered /\ Lost' = Lost
    BY <1>1, <1>3 DEF Answered, Lost, TypeOK
  <2> QED
    BY <2>5, <2>6 DEF Turns!vars, Queue, Answered, Lost
<1>4. CASE pc' = [pc EXCEPT ![p] = "done"] /\ lock' = [lock EXCEPT ![s] = None]
  <2>1. lock'[s] = None /\ \A r \in Sessions : r # s => lock'[r] = lock[r]
    BY <1>1, <1>4 DEF TypeOK
  <2>2. Tail(w) \in Seq(Prompts)
    BY <1>1, HeadTailProperties
  <2>3. Queue'[s] = Tail(w)
    BY <1>1, <2>1, <2>2, ConcatEmptySeq DEF Queue, InTurn
  <2>4. Queue' = [Queue EXCEPT ![s] = Tail(Queue[s])]
    BY <1>1, <1>2, <2>1, <2>3, OtherQueues
  <2> QED
    BY <1>1, <1>2, <1>4, <2>4, AnswerRefines
<1> QED
  BY <1>3, <1>4, EnterShape

\* Moving on inside a turn changes no queue.
LEMMA MoveRefines ==
  ASSUME IInv, NEW p \in Prompts, Moves(p)
  PROVE  UNCHANGED Turns!vars
<1>1. Answered' = Answered /\ Lost' = Lost
  BY DEF Moves, Holding, Answered, Lost, IInv, TypeOK
<1> QED
  BY <1>1 DEF Moves, lockVars, Turns!vars, InTurn, Answered, Lost

\* The holder of the lock is the head of its session's queue.
LEMMA HolderRefines ==
  ASSUME IInv, NEW p \in Prompts, Answers(p)
  PROVE  Turns!Answer(p)
<1> DEFINE s == SessionOf[p]
<1> USE DEF IInv
<1>1. /\ s \in Sessions /\ waiters[s] \in Seq(Prompts)
      /\ lock[s] = p /\ p # None
      /\ pc' = [pc EXCEPT ![p] = "done"] /\ pc[p] # "lost"
      /\ lock' = [lock EXCEPT ![s] = None] /\ waiters' = waiters
  BY SessionOfType, NoneIsFresh DEF Answers, Respond, Goto, LockInv, TypeOK, Holding
<1>2. /\ Queue[s] # <<>> /\ Head(Queue[s]) = p
      /\ Tail(Queue[s]) = waiters[s]
  BY <1>1, InTurnCases
<1>3. lock'[s] = None /\ \A r \in Sessions : r # s => lock'[r] = lock[r]
  BY <1>1 DEF TypeOK
<1>4. Queue'[s] = waiters[s]
  BY <1>1, <1>3, ConcatEmptySeq DEF Queue, InTurn
<1>5. Queue' = [Queue EXCEPT ![s] = Tail(Queue[s])]
  BY <1>1, <1>2, <1>3, <1>4, OtherQueues
<1> QED
  BY <1>1, <1>2, <1>5, AnswerRefines

\* A restart empties every queue and loses what was in it.
LEMMA RestartRefines ==
  ASSUME IInv, Restart
  PROVE  Turns!Die
<1> USE DEF IInv
<1>1. Queue' = [s \in Sessions |-> <<>>]
  <2>1. \A s \in Sessions : lock'[s] = None /\ waiters'[s] = <<>>
    BY DEF Restart
  <2>2. \A s \in Sessions : InTurn(s)' = <<>>
    BY <2>1, ConcatEmptySeq, EmptySeq DEF InTurn
  <2> QED
    BY <2>2 DEF Queue
<1>2. \A p \in Prompts : pc'[p] = IF pc[p] \in {"unsent", "done"} THEN pc[p] ELSE "lost"
  BY DEF Restart
<1>3. Answered' = Answered
  BY <1>2 DEF Answered
<1>4. Lost' = Lost \cup {p \in Prompts : Turns!Queued(p)}
  <2>1. \A p \in Prompts : pc[p] \in Phases
    BY DEF TypeOK
  <2> QED
    BY <1>2, <2>1, QueuedIff DEF Lost, Phases, Holding
<1> QED
  BY <1>1, <1>3, <1>4 DEF Turns!Die, Queue, Answered, Lost

\* The server implements SessionTurns: for any sessions and prompts, the
\* prompts of a session are answered in the order sent, each at most once.
THEOREM ServerImplementsTurns == Spec => TurnsSpec
<1>1. Init => Turns!Init
  <2> SUFFICES ASSUME Init PROVE Turns!Init
    OBVIOUS
  <2>1. \A s \in Sessions : InTurn(s) = <<>>
    BY ConcatEmptySeq, EmptySeq DEF Init, InTurn
  <2>2. Answered = {} /\ Lost = {}
    BY DEF Init, Answered, Lost
  <2> QED
    BY <2>1, <2>2 DEF Turns!Init, Answered, Lost
<1>2. IInv /\ [Next]_vars => [Turns!Next]_(Turns!vars)
  <2> SUFFICES ASSUME IInv, [Next]_vars
               PROVE  Turns!Next \/ UNCHANGED Turns!vars
    OBVIOUS
  <2>1. ASSUME NEW p \in Prompts, Submit(p)
        PROVE  Turns!Next
    BY <2>1, SubmitRefines DEF Turns!Next
  <2>2. ASSUME NEW p \in Prompts, PromptStep(p)
        PROVE  Turns!Next \/ UNCHANGED Turns!vars
    BY <2>2, PromptStepShape, EnterRefines, MoveRefines, HolderRefines DEF Turns!Next
  <2>3. ASSUME NEW s \in Sessions, SessionStep(s)
        PROVE  UNCHANGED Turns!vars
    BY <2>3, SessionStepShape DEF Turns!vars, InTurn, taskVars, lockVars
  <2>4. CASE Restart
    BY <2>4, RestartRefines DEF Turns!Next
  <2>5. CASE UNCHANGED vars
    BY <2>5 DEF Turns!vars, InTurn, vars, taskVars, lockVars
  <2> QED
    BY <2>1, <2>2, <2>3, <2>4, <2>5 DEF Next
<1> QED
  BY <1>1, <1>2, InvariantCorrect, PTL DEF Spec, TurnsSpec, Turns!Spec
=============================================================================
