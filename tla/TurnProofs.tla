----------------------------- MODULE TurnProofs -----------------------------
(***************************************************************************)
(* TLAPS proofs about a turn of an agent: the layers that retry a model    *)
(* call (ModelCalls) and the layers around its tools and its messages      *)
(* (AgentLoop).                                                            *)
(***************************************************************************)
EXTENDS ModelCalls, AgentLoop, FiniteSetTheorems, TLAPS

-----------------------------------------------------------------------------
(***************************************************************************)
(* ModelCalls, for any requests, any length of the fallback chain and any  *)
(* numbers of retries: a model that was asked for explicitly is never      *)
(* exchanged, only a failover loses the tools, and output is repeated only *)
(* by the policy of the node, after an error it lets through.              *)
(***************************************************************************)

CutOff == {"transient", "stalledRequest"}

\* A fallback is called only after a transient error, and never for a role whose
\* model was asked for.
LinkInv == link > 0 => "transient" \in causes /\ ~RoleOverridden(request)

\* Nothing is shown before a piece of the running call has arrived.
PieceInv == stage \in {"resolve", "call"} => shown = 0

\* What was shown, and is not the running call's, has been cut off.
ShownInv == visible /\ shown = 0 => attempt > 1 /\ repeated \cap CutOff # {}

\* The inductive invariant.
CallInv ==
    /\ CallTypeOK
    /\ LinkInv /\ PieceInv /\ ShownInv
    /\ RepeatNeedsCutOff

\* The two readings of the priorities agree: a role that is not overridden takes its
\* model from the tier.
LEMMA NotOverridden ==
  ASSUME NEW r, RequestOK(r), ~RoleOverridden(r)
  PROVE  Source(r) = "tier"
<1>1. r.pins \ {"legacyEnv"} = {} /\ ~(r.role = "base" /\ "legacyEnv" \in r.pins)
  BY DEF RoleOverridden
<1>2. "literal" \notin r.pins /\ "org" \notin r.pins /\ "orgRole" \notin r.pins /\ "roleEnv" \notin r.pins
  BY <1>1
<1>3. r.pins \cap {"org", "orgRole"} = {}
  BY <1>2
<1> QED
  BY <1>1, <1>2, <1>3 DEF Source

\* An overridden role has no fallback behind its client.
LEMMA NoFallback ==
  ASSUME NEW r, RoleOverridden(r)
  PROVE  Fallbacks(r) = 0
  BY DEF Fallbacks

LEMMA FallbacksInChain ==
  ASSUME NEW r
  PROVE  Fallbacks(r) \in 0..Chain
  BY BoundsAreNatural DEF Fallbacks

\* Nothing is called, and nothing shown, before the first step.
LEMMA InitCalls == CallInit => CallInv
<1> SUFFICES ASSUME CallInit PROVE CallInv
  OBVIOUS
<1>1. CallTypeOK
  <2>1. 0 \in 0..Chain /\ 0 \in 0..IdleRetries /\ 1 \in 1..NodeAttempts /\ 0 \in 0..MaxPieces
    BY BoundsAreNatural
  <2> QED
    BY <2>1 DEF CallInit, CallTypeOK
<1>2. LinkInv /\ PieceInv /\ ShownInv /\ RepeatNeedsCutOff
  BY DEF CallInit, LinkInv, PieceInv, ShownInv, RepeatNeedsCutOff
<1> QED
  BY <1>1, <1>2 DEF CallInv

\* Another call, by the policy after an error that it lets through or before anything
\* was shown, keeps the invariant, if the numbers stay in range.
LEMMA AgainKeeps ==
  ASSUME CallInv, NEW e \in Failures, CallAgain(e),
         link' \in 0..Chain, unpinned' \in BOOLEAN, idles' \in 0..IdleRetries, attempt' \in 1..NodeAttempts,
         (e \in CutOff /\ attempt' > 1) \/ (shown = 0 /\ attempt' = attempt),
         link' > 0 => ("transient" \in causes \/ e = "transient") /\ ~RoleOverridden(request)
  PROVE  CallInv'
<1> USE DEF CallInv
<1>1. CallTypeOK'
  BY BoundsAreNatural DEF CallAgain, CallTypeOK
<1>2. LinkInv'
  BY DEF CallAgain, LinkInv, RoleOverridden
<1>3. PieceInv'
  BY DEF CallAgain, PieceInv
<1>4. visible => attempt' > 1 /\ repeated' \cap CutOff # {}
  <2>1. SUFFICES ASSUME visible PROVE attempt' > 1 /\ repeated' \cap CutOff # {}
    OBVIOUS
  <2>2. repeated' = repeated \cup {e}
    BY <2>1 DEF CallAgain
  <2>3. CASE e \in CutOff /\ attempt' > 1
    BY <2>2, <2>3
  <2>4. CASE shown = 0 /\ attempt' = attempt
    BY <2>1, <2>2, <2>4 DEF ShownInv
  <2> QED
    BY <2>3, <2>4
<1>5. ShownInv'
  BY <1>4 DEF CallAgain, ShownInv
<1>6. RepeatNeedsCutOff'
  <2>1. CASE visible
    BY <2>1, <1>4 DEF RepeatNeedsCutOff, CutOff
  <2>2. CASE ~visible
    BY <2>2 DEF CallAgain, RepeatNeedsCutOff
  <2> QED
    BY <2>1, <2>2
<1> QED
  BY <1>1, <1>2, <1>3, <1>5, <1>6

\* Every step of a turn keeps the invariant.
LEMMA NextCalls == CallInv /\ [CallNext]_callVars => CallInv'
<1> SUFFICES ASSUME CallInv, [CallNext]_callVars PROVE CallInv'
  OBVIOUS
<1> USE DEF CallInv
<1>1. CASE Resolve
  BY <1>1, BoundsAreNatural
     DEF Resolve, CallTypeOK, LinkInv, RoleOverridden, PieceInv, ShownInv, RepeatNeedsCutOff
<1>2. CASE Piece
  BY <1>2, BoundsAreNatural
     DEF Piece, CallTypeOK, LinkInv, RoleOverridden, PieceInv, ShownInv, RepeatNeedsCutOff
<1>3. CASE Complete
  BY <1>3, BoundsAreNatural
     DEF Complete, CallTypeOK, LinkInv, RoleOverridden, PieceInv, ShownInv, RepeatNeedsCutOff
<1>4. CASE Unpin
  <2>1. "pin404" \in Failures /\ shown = 0 /\ link = 0
    BY <1>4 DEF Unpin, MayRaise, PieceInv, Failures
  <2> QED
    BY <1>4, <2>1, AgainKeeps DEF Unpin, CallTypeOK
<1>5. CASE IdleRetry
  <2>1. "idle" \in Failures /\ shown = 0 /\ idles + 1 \in 0..IdleRetries
    BY <1>5, BoundsAreNatural DEF IdleRetry, IdleRetryable, Failures, CallTypeOK
  <2> QED
    BY <1>5, <2>1, AgainKeeps DEF IdleRetry, CallTypeOK, LinkInv
<1>6. ASSUME NEW e \in Failures, Failover(e) PROVE CallInv'
  <2>1. e = "transient" /\ shown = 0 /\ link < Fallbacks(request)
    BY <1>6 DEF Failover, FailsOver
  <2>2. ~RoleOverridden(request)
    BY <2>1, NoFallback DEF CallTypeOK
  <2>3. link + 1 \in 0..Chain
    BY <2>1, FallbacksInChain, BoundsAreNatural DEF CallTypeOK
  <2>4. CallAgain(e) /\ link' = link + 1 /\ unpinned' = FALSE /\ idles' = 0 /\ attempt' = attempt
    BY <1>6 DEF Failover
  <2>5. idles' \in 0..IdleRetries /\ attempt' \in 1..NodeAttempts
    BY <2>4, BoundsAreNatural DEF CallTypeOK
  <2> QED
    BY <2>1, <2>2, <2>3, <2>4, <2>5, AgainKeeps
<1>7. ASSUME NEW e \in Failures, NodeRetry(e) PROVE CallInv'
  <2>1. e \in CutOff /\ attempt + 1 \in 1..NodeAttempts
    BY <1>7, BoundsAreNatural DEF NodeRetry, Recoverable, CutOff, CallTypeOK
  <2>2. CallAgain(e) /\ link' = 0 /\ unpinned' = FALSE /\ idles' = 0 /\ attempt' = attempt + 1
    BY <1>7 DEF NodeRetry
  <2>3. link' \in 0..Chain /\ idles' \in 0..IdleRetries /\ ~(link' > 0) /\ attempt' > 1
    BY <2>2, BoundsAreNatural DEF CallTypeOK
  <2> QED
    BY <2>1, <2>2, <2>3, AgainKeeps
<1>8. ASSUME NEW e \in Failures, Fail(e) PROVE CallInv'
  BY <1>8, BoundsAreNatural
     DEF Fail, Failures, CallTypeOK, LinkInv, RoleOverridden, PieceInv, ShownInv, RepeatNeedsCutOff
<1>9. CASE UNCHANGED callVars
  BY <1>9 DEF callVars, CallTypeOK, LinkInv, RoleOverridden, PieceInv, ShownInv, RepeatNeedsCutOff
<1> QED
  BY <1>1, <1>2, <1>3, <1>4, <1>5, <1>6, <1>7, <1>8, <1>9 DEF CallNext

\* The inductive invariant of a turn (CallInv): types, the chain behind the client,
\* and what has been shown of an answer.
THEOREM CallInvCorrect == CallSpec => []CallInv
<1> QED
  BY InitCalls, NextCalls, PTL DEF CallSpec

\* PinIsHard: a model that was asked for explicitly is never exchanged for a
\* fallback (model.py:425-496).
THEOREM PinsHold == CallSpec => []PinIsHard
<1>1. CallInv => PinIsHard
  BY NotOverridden, RequestsOK DEF CallInv, CallTypeOK, LinkInv, PinIsHard
<1> QED
  BY <1>1, CallInvCorrect, PTL

\* ToolsLostOnlyByFailover: the model that ends a turn has lost the tools only
\* if the primary failed over (model.py:617-644).
THEOREM ToolsLostCorrect == CallSpec => []ToolsLostOnlyByFailover
<1>1. CallInv => ToolsLostOnlyByFailover
  <2> SUFFICES ASSUME CallInv, ~CarriesForm(request, link)
               PROVE  "transient" \in causes /\ Source(request) = "tier"
    BY DEF ToolsLostOnlyByFailover
  <2>1. link > 0
    BY BoundsAreNatural DEF CarriesForm, CallInv, CallTypeOK
  <2> QED
    BY <2>1, NotOverridden, RequestsOK DEF CallInv, CallTypeOK, LinkInv
<1> QED
  BY <1>1, CallInvCorrect, PTL

\* RepeatNeedsCutOff: however the four layers nest, output the caller has seen is
\* repeated only by the policy of the node, after an error that it lets through; for a
\* silence that the watchdog or the chunk timeout reports it never is
\* (reasoning.py:213-218, retry.py:45-107).
THEOREM RepeatsExcused == CallSpec => []RepeatNeedsCutOff
<1>1. CallInv => RepeatNeedsCutOff
  BY DEF CallInv
<1> QED
  BY <1>1, CallInvCorrect, PTL

-----------------------------------------------------------------------------
(***************************************************************************)
(* AgentLoop, for any agents, any tool calls and any bounds: what the      *)
(* layers above a tool change about its call, which models are sent        *)
(* pictures, and when a question is looked up again.                       *)
(***************************************************************************)

-----------------------------------------------------------------------------
(***************************************************************************)
(* What comes up from a tool.                                              *)
(***************************************************************************)

\* What a message can be; a companion may also be none.
Kinds == {"text", "question", "upload", "image", "shot", "note", "brief", "none"}

\* The parts of an answer.
IsAnswer(r) ==
    /\ r = [carrier |-> r.carrier, text |-> r.text, form |-> r.form, status |-> r.status,
            state |-> r.state, companion |-> r.companion]
    /\ r.companion \in Kinds

\* An answer that says of the call what is true, as far as tools say it at all.
Honest(truth, r) ==
    /\ IsAnswer(r)
    /\ truth \in {"ok", "exit", "notRun", "error", "gaveUp"}
    /\ truth \in {"error", "gaveUp"} => r.status = "error" /\ r.carrier = "message" /\ r.form = "plain"
    /\ truth \notin {"error", "gaveUp"} => r.status # "error"

\* An answer as it is made.
LEMMA AnswerParts ==
  ASSUME NEW text, NEW form, NEW status
  PROVE  /\ IsAnswer(Answer(text, form, status))
         /\ Answer(text, form, status).form = form /\ Answer(text, form, status).status = status
         /\ Answer(text, form, status).carrier = "message"
  BY DEF Answer, IsAnswer, Kinds

\* A subagent's report.
LEMMA ReportParts ==
  ASSUME NEW text
  PROVE  LET r == [Answer(text, "plain", "ok") EXCEPT !.carrier = "command", !.state = {"files"}]
         IN  IsAnswer(r) /\ r.status = "ok"
<1> DEFINE r == [Answer(text, "plain", "ok") EXCEPT !.carrier = "command", !.state = {"files"}]
           a == Answer(text, "plain", "ok")
           b == [a EXCEPT !.carrier = "command"]
<1>1. a = [carrier |-> "message", text |-> text, form |-> "plain", status |-> "ok",
           state |-> {}, companion |-> "none"]
  BY DEF Answer
<1>2. b = [carrier |-> "command", text |-> text, form |-> "plain", status |-> "ok",
           state |-> {}, companion |-> "none"]
  BY <1>1
<1>3. r = [b EXCEPT !.state = {"files"}]
  OBVIOUS
<1>4. r = [carrier |-> "command", text |-> text, form |-> "plain", status |-> "ok",
           state |-> {"files"}, companion |-> "none"]
  <2> HIDE DEF b
  <2> QED
    BY <1>2, <1>3
<1>5. IsAnswer(r) /\ r.status = "ok"
  <2> HIDE DEF r
  <2>1. r.companion = "none" /\ r.status = "ok"
    BY <1>4
  <2>2. r.companion \in Kinds
    BY <2>1 DEF Kinds
  <2>3. r = [carrier |-> r.carrier, text |-> r.text, form |-> r.form, status |-> r.status,
             state |-> r.state, companion |-> r.companion]
    BY <1>4
  <2> QED
    BY <2>1, <2>2, <2>3 DEF IsAnswer
<1> QED
  BY <1>5

\* Whatever a tool answers is honest.
LEMMA AnswersHonest ==
  ASSUME NEW tool, NEW a \in Answers(tool)
  PROVE  Honest(a.truth, a.r)
<1>1. CASE tool = "browser_click"
  <2>1. PICK s \in {"short", "long"} : a = [truth |-> "ok", r |-> Answer(s, "page", "ok")]
    BY <1>1 DEF Answers, Context
  <2> QED
    BY <2>1, AnswerParts DEF Honest
<1>2. CASE tool = "read_file"
  <2>1. \/ a = [truth |-> "ok", r |-> Answer("none", "picture", "ok")]
        \/ a = [truth |-> "error", r |-> Answer("short", "plain", "error")]
    BY <1>2 DEF Answers, Context
  <2> QED
    BY <2>1, AnswerParts DEF Honest
<1>3. CASE tool = "eval"
  <2>1. \/ a = [truth |-> "exit", r |-> Answer("short", "evalError", "ok")]
        \/ \E s \in {"short", "long"} : a = [truth |-> "ok", r |-> Answer(s, "plain", "ok")]
    BY <1>3 DEF Answers, Context
  <2> QED
    BY <2>1, AnswerParts DEF Honest
<1>4. CASE tool = "task"
  <2>1. PICK s \in {"short", "long"} :
          a = [truth |-> "ok", r |-> [Answer(s, "plain", "ok") EXCEPT !.carrier = "command", !.state = {"files"}]]
    BY <1>4 DEF Answers, Context
  <2>2. a.truth = "ok" /\ a.r = [Answer(s, "plain", "ok") EXCEPT !.carrier = "command", !.state = {"files"}]
    BY <2>1
  <2> QED
    BY <2>2, ReportParts DEF Honest
<1>5. CASE tool \in {"python", "report"}
  <2>1. PICK t \in {"ok", "exit"}, s \in {"short", "long"} : a = [truth |-> t, r |-> Answer(s, "plain", "ok")]
    BY <1>5 DEF Answers, Context
  <2> QED
    BY <2>1, AnswerParts DEF Honest
<1>6. CASE tool \in Context
  <2>1. a \in ExecuteAnswers \cup FetchAnswers
    BY <1>6 DEF Answers, Context
  <2>2. \/ \E t \in {"ok", "exit"}, s \in {"short", "long"} : a = [truth |-> t, r |-> Answer(s, "plain", "ok")]
        \/ a = [truth |-> "exit", r |-> Answer("short", "plain", "ok")]
    BY <2>1 DEF ExecuteAnswers, FetchAnswers
  <2> QED
    BY <2>2, AnswerParts DEF Honest
<1>7. CASE tool \notin {"browser_click", "read_file", "eval", "task", "python", "report"} \cup Context
  <2>1. PICK t \in {"ok", "error"}, s \in {"short", "long"} : a = [truth |-> t, r |-> Answer(s, "plain", t)]
    BY <1>7 DEF Answers, Context
  <2> QED
    BY <2>1, AnswerParts DEF Honest
<1> QED
  BY <1>1, <1>2, <1>3, <1>4, <1>5, <1>6, <1>7

\* A layer that puts a message beside an answer, or takes it into a command.
LEMMA BesideHonest ==
  ASSUME NEW truth, NEW r, Honest(truth, r), r.form # "plain", NEW c \in Kinds
  PROVE  Honest(truth, [r EXCEPT !.carrier = "command", !.companion = c])
<1>1. r = [carrier |-> r.carrier, text |-> r.text, form |-> r.form, status |-> r.status,
           state |-> r.state, companion |-> r.companion]
  BY DEF Honest, IsAnswer
<1> DEFINE b == [r EXCEPT !.carrier = "command"]
           up == [b EXCEPT !.companion = c]
<1>2. b = [carrier |-> "command", text |-> r.text, form |-> r.form, status |-> r.status,
           state |-> r.state, companion |-> r.companion]
  BY <1>1
<1>3. up = [carrier |-> "command", text |-> r.text, form |-> r.form, status |-> r.status,
            state |-> r.state, companion |-> c]
  <2> HIDE DEF b
  <2> QED
    BY <1>2
<1>4. Honest(truth, up)
  <2> HIDE DEF up
  <2> QED
    BY <1>3 DEF Honest, IsAnswer
<1> QED
  BY <1>4

\* A description in the place of a picture.
LEMMA InWordsHonest ==
  ASSUME NEW truth, NEW r, Honest(truth, r)
  PROVE  Honest(truth, InWords(r))
<1>1. r = [carrier |-> r.carrier, text |-> r.text, form |-> r.form, status |-> r.status,
           state |-> r.state, companion |-> r.companion]
  BY DEF Honest, IsAnswer
<1> DEFINE b == [r EXCEPT !.form = "plain"]
           up == [b EXCEPT !.text = "short"]
<1>2. b = [carrier |-> r.carrier, text |-> r.text, form |-> "plain", status |-> r.status,
           state |-> r.state, companion |-> r.companion]
  BY <1>1
<1>3. up = [carrier |-> r.carrier, text |-> "short", form |-> "plain", status |-> r.status,
            state |-> r.state, companion |-> r.companion]
  <2> HIDE DEF b
  <2> QED
    BY <1>2
<1>4. Honest(truth, up)
  <2> HIDE DEF up
  <2> QED
    BY <1>3 DEF Honest, IsAnswer
<1> QED
  BY <1>4 DEF InWords

\* The three layers next to the tool keep an answer honest.
LEMMA LayersHonest ==
  ASSUME NEW truth, NEW r, Honest(truth, r), NEW c \in Companions
  PROVE  Honest(truth, Described(Enriched(Hinted(r), c)))
<1>1. c \in Kinds
  BY DEF Companions, Kinds
<1>2. Honest(truth, Hinted(r))
  <2>1. "note" \in Kinds
    BY DEF Kinds
  <2> QED
    BY <2>1, BesideHonest DEF Hinted
<1>3. ASSUME NEW s, Honest(truth, s) PROVE Honest(truth, Enriched(s, c))
  BY <1>1, <1>3, BesideHonest DEF Enriched
<1>4. ASSUME NEW s, Honest(truth, s) PROVE Honest(truth, Described(s))
  BY <1>4, InWordsHonest DEF Described
<1> QED
  BY <1>2, <1>3, <1>4

\* The context layer leaves an answer as it is, or puts its text aside.
LEMMA OffloadedParts ==
  ASSUME NEW r, IsAnswer(r)
  PROVE  /\ IsAnswer(Offloaded(r))
         /\ Offloaded(r) = r \/ (Offloaded(r).form = "stub" /\ Offloaded(r).status = "ok")
<1>1. r = [carrier |-> r.carrier, text |-> r.text, form |-> r.form, status |-> r.status,
           state |-> r.state, companion |-> r.companion]
      /\ r.companion \in Kinds
  BY DEF IsAnswer
<1> DEFINE b == [r EXCEPT !.text = "short"]
           c == [b EXCEPT !.status = "ok"]
           d == [c EXCEPT !.form = "stub"]
           e == [d EXCEPT !.state = {}]
<1>2. b = [carrier |-> r.carrier, text |-> "short", form |-> r.form, status |-> r.status,
           state |-> r.state, companion |-> r.companion]
  BY <1>1
<1>3. c = [carrier |-> r.carrier, text |-> "short", form |-> r.form, status |-> "ok",
           state |-> r.state, companion |-> r.companion]
  <2> HIDE DEF b
  <2> QED
    BY <1>2
<1>4. d = [carrier |-> r.carrier, text |-> "short", form |-> "stub", status |-> "ok",
           state |-> r.state, companion |-> r.companion]
  <2> HIDE DEF c
  <2> QED
    BY <1>3
<1>5. e = [carrier |-> r.carrier, text |-> "short", form |-> "stub", status |-> "ok",
           state |-> {}, companion |-> r.companion]
  <2> HIDE DEF d
  <2> QED
    BY <1>4
<1>6. IsAnswer(e) /\ e.form = "stub" /\ e.status = "ok"
  <2> HIDE DEF e
  <2> QED
    BY <1>1, <1>5 DEF IsAnswer
<1>7. [Stub(r) EXCEPT !.state = {}] = e
  BY DEF Stub
<1> HIDE DEF e
<1> QED
  BY <1>6, <1>7 DEF Offloaded

-----------------------------------------------------------------------------
(***************************************************************************)
(* The conversation.                                                       *)
(***************************************************************************)

Briefed(ms) == \E k \in DOMAIN ms : ms[k] = "brief"

\* The conversation, and that the brief of a round nobody forgot is in it.
LoopInv ==
    /\ messages \in Seq(Kinds) /\ rounds \in Nat
    /\ rounds > 0 /\ ~forgotten => Briefed(messages)
    /\ OnlyOffloadingDistorts
    /\ BlindGetsNoPicture
    /\ RoundsOnlyIfForgotten

\* A conversation of no message, and of one.
LEMMA OneMessage ==
  ASSUME NEW kind \in Kinds
  PROVE  << >> \in Seq(Kinds) /\ <<kind>> \in Seq(Kinds) /\ <<kind>>[1] = kind /\ 1 \in DOMAIN <<kind>>
  OBVIOUS

\* What is appended takes no brief away.
LEMMA GrowKeeps ==
  ASSUME NEW s \in Seq(Kinds), NEW t \in Seq(Kinds)
  PROVE  s \o t \in Seq(Kinds) /\ (Briefed(s) \/ Briefed(t) => Briefed(s \o t))
<1>1. s \o t \in Seq(Kinds) /\ Len(s \o t) = Len(s) + Len(t)
  OBVIOUS
<1>2. ASSUME NEW k \in DOMAIN s, s[k] = "brief" PROVE Briefed(s \o t)
  <2>1. k \in DOMAIN (s \o t) /\ (s \o t)[k] = "brief"
    BY <1>1, <1>2
  <2> QED
    BY <2>1 DEF Briefed
<1>3. ASSUME NEW k \in DOMAIN t, t[k] = "brief" PROVE Briefed(s \o t)
  <2>1. Len(s) + k \in DOMAIN (s \o t) /\ (s \o t)[Len(s) + k] = "brief"
    BY <1>1, <1>3
  <2> QED
    BY <2>1 DEF Briefed
<1> QED
  BY <1>1, <1>2, <1>3 DEF Briefed

\* What the model is shown has the length of the conversation and its briefs, and no
\* picture for a driver that is taken for blind.
LEMMA ShownParts ==
  ASSUME NEW ms
  PROVE  /\ DOMAIN Shown(ms) = DOMAIN ms
         /\ \A k \in DOMAIN ms : ms[k] = "brief" => Shown(ms)[k] = "brief"
         /\ Has("read_file_vision") /\ ~agent.sighted => \A k \in DOMAIN ms : Shown(ms)[k] \notin Pictures
<1> DEFINE clean == IF Has("read_file_vision") /\ ~agent.sighted THEN Sanitized(ms) ELSE ms
<1>1. /\ DOMAIN clean = DOMAIN ms
      /\ \A k \in DOMAIN ms : ms[k] = "brief" => clean[k] = "brief"
      /\ Has("read_file_vision") /\ ~agent.sighted => \A k \in DOMAIN ms : clean[k] \notin Pictures
  BY DEF Sanitized, Pictures
<1> HIDE DEF clean
<1>2. /\ DOMAIN Pruned(clean) = DOMAIN clean
      /\ \A k \in DOMAIN clean : Pruned(clean)[k] \in {clean[k], "note"}
                                 /\ (clean[k] = "brief" => Pruned(clean)[k] = "brief")
  BY DEF Pruned
<1>3. Shown(ms) = IF Has("browser_vision") THEN Pruned(clean) ELSE clean
  BY DEF Shown, clean
<1> QED
  BY <1>1, <1>2, <1>3 DEF Pictures

\* Nothing has happened at first.
LEMMA InitLoop == LoopInit => LoopInv
  BY DEF LoopInit, LoopInv, Briefed, OnlyOffloadingDistorts, BlindGetsNoPicture, RoundsOnlyIfForgotten

\* An honest answer leaves the layers: what the audit says, and what is kept.
LEMMA SurfaceStep ==
  ASSUME LoopInv, NEW truth, NEW r, Honest(truth, r), Surface(truth, r),
         UNCHANGED <<agent, asked, tries, sent, rounds, forgotten, ncalls, ntexts>>
  PROVE  LoopInv'
<1> DEFINE up == Offloaded(r)
           result == IF up.form = "picture" THEN <<"image">> ELSE <<>>
           beside == IF up.companion = "none" THEN <<>> ELSE <<up.companion>>
<1>1. IsAnswer(up) /\ (up = r \/ (up.form = "stub" /\ up.status = "ok"))
  BY OffloadedParts DEF Honest
<1>2. /\ messages' = messages \o result \o beside
      /\ ended' = [truth |-> truth, audited |-> Audited(truth, up),
                   form |-> up.form, brought |-> r.state, kept |-> up.state]
  BY DEF Surface
<1> HIDE DEF up
<1>3. result \in Seq(Kinds) /\ beside \in Seq(Kinds)
  <2>1. "image" \in Kinds /\ up.companion \in Kinds
    BY <1>1 DEF IsAnswer, Kinds
  <2> QED
    BY <2>1, OneMessage
<1> HIDE DEF result, beside
<1>4. messages' \in Seq(Kinds) /\ (Briefed(messages) => Briefed(messages'))
  BY <1>2, <1>3, GrowKeeps DEF LoopInv
<1>5. OnlyOffloadingDistorts'
  <2>1. ended'.truth = truth /\ ended'.audited = Audited(truth, up)
        /\ ended'.form = up.form /\ ended'.brought = r.state /\ ended'.kept = up.state
    BY <1>2
  <2>2. Audited(truth, up) = "error" => truth \in {"error", "gaveUp"}
    BY <1>1 DEF Audited, Outcome, Honest
  <2>3. Audited(truth, up) = "ok" => truth \in {"ok", "exit", "notRun"} \/ (truth \in {"error", "gaveUp"} /\ up.form = "stub")
    BY <1>1 DEF Audited, Outcome, Honest
  <2>4. up.state # r.state => up.form = "stub"
    BY <1>1
  <2> QED
    BY <2>1, <2>2, <2>3, <2>4 DEF OnlyOffloadingDistorts
<1>6. BlindGetsNoPicture' /\ RoundsOnlyIfForgotten'
  BY DEF LoopInv, BlindGetsNoPicture, RoundsOnlyIfForgotten, Has
<1> QED
  BY <1>4, <1>5, <1>6 DEF LoopInv

\* A model call: a driver the middlewares take for blind is shown no picture, and a
\* second round is made only if the brief of the first is missing.
LEMMA ModelStep ==
  ASSUME LoopInv, ModelCall
  PROVE  LoopInv'
<1>1. UNCHANGED <<agent, ended>> /\ WebRound
  BY DEF ModelCall
<1>2. OnlyOffloadingDistorts'
  BY <1>1 DEF LoopInv, OnlyOffloadingDistorts
<1>3. BlindGetsNoPicture'
  <2> DEFINE seen == {k \in DOMAIN messages : Shown(messages)[k] \in Pictures}
  <2>1. PICK failover \in BOOLEAN, sees \in BOOLEAN :
          /\ sees # agent.sighted => failover \/ agent.other
          /\ sent' = [pictures |-> Cardinality(seen), sees |-> sees, failover |-> failover]
    BY DEF ModelCall
  <2>2. Has("read_file_vision") /\ ~agent.sighted => seen = {}
    BY ShownParts
  <2>3. Cardinality({}) = 0
    BY FS_EmptySet
  <2> HIDE DEF seen
  <2>4. sent'.pictures = Cardinality(seen) /\ sent'.sees = sees /\ sent'.failover = failover
    BY <2>1
  <2>5. CASE sees # agent.sighted
    BY <2>1, <2>4, <2>5, <1>1 DEF BlindGetsNoPicture
  <2>6. CASE sees = agent.sighted
    <3>1. Has("read_file_vision") /\ ~sees => sent'.pictures = 0
      BY <2>2, <2>3, <2>4, <2>6
    <3> QED
      BY <3>1, <2>4, <1>1 DEF BlindGetsNoPicture, Has
  <2> QED
    BY <2>5, <2>6
<1>4. /\ messages' \in Seq(Kinds) /\ rounds' \in Nat
      /\ rounds' > 0 /\ ~forgotten' => Briefed(messages')
      /\ RoundsOnlyIfForgotten'
  <2>1. CASE UNCHANGED <<messages, rounds, forgotten>>
    BY <2>1 DEF LoopInv, RoundsOnlyIfForgotten
  <2>2. ASSUME NEW query \in Queries, NEW outcome \in RoundOutcomes, NEW copied \in BOOLEAN,
               AlreadyInjected(Shown(messages)) => query = "other",
               rounds' = rounds + 1,
               forgotten' = (forgotten \/ copied \/ outcome = "failed" \/ query = "other"),
               messages' = IF copied \/ outcome = "failed" THEN messages ELSE <<"brief">> \o messages
        PROVE  /\ messages' \in Seq(Kinds) /\ rounds' \in Nat
               /\ rounds' > 0 /\ ~forgotten' => Briefed(messages')
               /\ RoundsOnlyIfForgotten'
    <3>1. <<"brief">> \in Seq(Kinds) /\ Briefed(<<"brief">>)
      <4>1. "brief" \in Kinds
        BY DEF Kinds
      <4> QED
        BY <4>1, OneMessage DEF Briefed
    <3>2. <<"brief">> \o messages \in Seq(Kinds) /\ Briefed(<<"brief">> \o messages)
      BY <3>1, GrowKeeps DEF LoopInv
    <3>3. Briefed(messages) => AlreadyInjected(Shown(messages))
      BY ShownParts DEF Briefed, AlreadyInjected
    <3>4. ~forgotten' => ~forgotten /\ ~copied /\ outcome # "failed" /\ query # "other"
      BY <2>2
    <3>5. ~forgotten' => rounds = 0
      BY <3>3, <3>4, <2>2 DEF LoopInv
    <3> QED
      BY <2>2, <3>2, <3>4, <3>5 DEF LoopInv, RoundsOnlyIfForgotten
  <2> QED
    BY <1>1, <2>1, <2>2 DEF WebRound
<1> QED
  BY <1>2, <1>3, <1>4 DEF LoopInv

\* Every step keeps the invariant.
LEMMA NextLoop == LoopInv /\ [LoopNext]_loopVars => LoopInv'
<1> SUFFICES ASSUME LoopInv, [LoopNext]_loopVars PROVE LoopInv'
  OBVIOUS
<1>1. ASSUME UNCHANGED <<agent, messages, ended, sent, rounds, forgotten>> PROVE LoopInv'
  BY <1>1 DEF LoopInv, Briefed, OnlyOffloadingDistorts, BlindGetsNoPicture, RoundsOnlyIfForgotten, Has
<1>2. CASE UserWrites
  <2>1. PICK kind \in {"text", "question", "upload"} : messages' = Append(messages, kind)
    BY <1>2 DEF UserWrites
  <2>2. messages' = messages \o <<kind>> /\ <<kind>> \in Seq(Kinds)
    <3>1. kind \in Kinds
      BY DEF Kinds
    <3>2. ASSUME NEW S, NEW s \in Seq(S), NEW e \in S PROVE Append(s, e) = s \o <<e>>
      BY <3>2
    <3>3. messages \in Seq(Kinds)
      BY DEF LoopInv
    <3> HIDE DEF Kinds
    <3> QED
      BY <2>1, <3>1, <3>2, <3>3, OneMessage
  <2>3. messages' \in Seq(Kinds) /\ (Briefed(messages) => Briefed(messages'))
    BY <2>2, GrowKeeps DEF LoopInv
  <2> QED
    BY <1>2, <2>3 DEF UserWrites, LoopInv, OnlyOffloadingDistorts, BlindGetsNoPicture, RoundsOnlyIfForgotten, Has
<1>3. CASE Route
  <2>1. Honest("notRun", Answer("short", "plain", "ok"))
    BY AnswerParts DEF Honest
  <2> QED
    BY <1>3, <2>1, SurfaceStep DEF Route
<1>4. CASE ToolAnswers
  <2>1. PICK a \in Answers(asked.tool), c \in Companions : Surface(a.truth, Described(Enriched(Hinted(a.r), c)))
    BY <1>4 DEF ToolAnswers
  <2>2. Honest(a.truth, Described(Enriched(Hinted(a.r), c)))
    BY AnswersHonest, LayersHonest
  <2> QED
    BY <1>4, <2>1, <2>2, SurfaceStep DEF ToolAnswers
<1>5. CASE GiveUp
  <2>1. PICK s \in {"short", "long"} : Surface("gaveUp", Answer(s, "plain", "error"))
    BY <1>5 DEF GiveUp
  <2>2. Honest("gaveUp", Answer(s, "plain", "error"))
    BY AnswerParts DEF Honest
  <2> QED
    BY <1>5, <2>1, <2>2, SurfaceStep DEF GiveUp
<1>6. CASE Raise
  <2>1. ended'.truth = "raised" /\ ended'.audited \in {"none", "error"} /\ ended'.brought = ended'.kept
    BY <1>6 DEF Raise, Audited, Outcome
  <2>2. OnlyOffloadingDistorts'
    BY <2>1 DEF OnlyOffloadingDistorts
  <2> QED
    BY <1>6, <2>2 DEF Raise, LoopInv, BlindGetsNoPicture, RoundsOnlyIfForgotten, Has
<1>7. CASE Pass \/ Again \/ UNCHANGED loopVars
  BY <1>1, <1>7 DEF Pass, Again, loopVars
<1> QED
  BY <1>2, <1>3, <1>4, <1>5, <1>6, <1>7, ModelStep DEF LoopNext

\* The inductive invariant of the loop.
THEOREM LoopInvCorrect == LoopSpec => []LoopInv
<1> QED
  BY InitLoop, NextLoop, PTL DEF LoopSpec

\* OnlyOffloadingDistorts: an error becomes an "ok" of the audit, and what a tool
\* brought for the state is lost, only where text is put aside (middleware.py:187-225).
THEOREM OffloadingDistorts == LoopSpec => []OnlyOffloadingDistorts
<1>1. LoopInv => OnlyOffloadingDistorts
  BY DEF LoopInv
<1> QED
  BY <1>1, LoopInvCorrect, PTL

\* BlindGetsNoPicture: a model that cannot see is sent a picture only if it is not the
\* one the middlewares were told of (stack.py:422-461, read_file_vision.py).
THEOREM BlindSpared == LoopSpec => []BlindGetsNoPicture
<1>1. LoopInv => BlindGetsNoPicture
  BY DEF LoopInv
<1> QED
  BY <1>1, LoopInvCorrect, PTL

\* RoundsOnlyIfForgotten: a question is looked up again only if the brief could not be
\* kept (web_router.py:264-297).
THEOREM RoundsExcused == LoopSpec => []RoundsOnlyIfForgotten
<1>1. LoopInv => RoundsOnlyIfForgotten
  BY DEF LoopInv
<1> QED
  BY <1>1, LoopInvCorrect, PTL
=============================================================================
