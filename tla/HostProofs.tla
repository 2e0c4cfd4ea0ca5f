----------------------------- MODULE HostProofs -----------------------------
(***************************************************************************)
(* TLAPS proofs about the processes that host the agents: the MCP server   *)
(* (McpHost), the API server (OrgRuntime) and the thread store they share  *)
(* (ThreadRows).                                                           *)
(***************************************************************************)
EXTENDS McpHost, OrgRuntime, ThreadRows, Integers, TLAPS

-----------------------------------------------------------------------------
(***************************************************************************)
(* McpHost, for any orgs, threads, messages and numbers of calls: a        *)
(* message that runs twice was sent again after an answer got lost, and a  *)
(* session that exists is found unless the table changed during the        *)
(* search.                                                                 *)
(***************************************************************************)

HostOrgs == Known \cup {Stranger}
Asking == {"scan", "post", "wait"}
Creating == {"create", "deploy"}
HostCall ==
    [pc : {"idle", "unknown", "raised", "load"} \cup Creating \cup Asking,
     org : HostOrgs \cup {Nobody}, thread : Threads \cup {Nobody}, msg : Messages \cup {Nobody},
     pos : Nat, size : Nat, open : BOOLEAN, missed : BOOLEAN, run : Nat]

\* What the step of a call says about its record.
HostCallOK(x) ==
    /\ x.pc \in Creating => x.org \in Known /\ x.thread \in Threads
    /\ x.pc = "load" => x.org \in HostOrgs /\ x.thread \in Threads
    /\ x.pc \in Asking => x.msg \in Messages /\ x.thread \in Threads
    /\ x.pc \in {"post", "wait"} => x.org \in HostOrgs

HostTypeOK ==
    /\ pool \in Seq(HostOrgs)
    /\ threadOrg \in [Threads -> HostOrgs \cup {Nobody}]
    /\ owner \in [Threads -> Known \cup {Nobody}]
    /\ runs \in [Messages -> Seq({"running", "success", "error"})]
    /\ call \in [Calls -> HostCall]
    /\ \A c \in Calls : HostCallOK(call[c])
    /\ answer \in [Messages -> {"none", "asked", "error", "failed", "done"}]
    /\ cut \subseteq Messages

\* A message has one call at a time, whose run is the message's last.
AskedInv ==
    \A c \in Calls : call[c].pc \in Asking =>
        /\ answer[call[c].msg] = "asked"
        /\ \A d \in Calls : call[d].pc \in Asking /\ call[d].msg = call[c].msg => d = c
        /\ call[c].pc = "wait" => call[c].run = Len(runs[call[c].msg]) /\ call[c].run > 0

\* The runs of a message of which nothing was lost: all failed but the last one, and that too,
\* unless it is waited for or was answered.
RunsInv ==
    \A m \in Messages \ cut : \A i \in DOMAIN runs[m] :
        \/ runs[m][i] = "error"
        \/ /\ i = Len(runs[m])
           /\ answer[m] = "done" \/ \E c \in Calls : call[c].pc = "wait" /\ call[c].msg = m

\* A thread that is being created has no owner yet, and one call creates it.
CreatingInv ==
    \A c \in Calls : call[c].pc \in Creating =>
        /\ owner[call[c].thread] = Nobody
        /\ \A d \in Calls : call[d].pc \in Creating /\ call[d].thread = call[c].thread => d = c

\* The connection of the thread's org, if there was one, is still ahead.
ScanInv ==
    \A c \in Calls :
        /\ call[c].pc = "scan" =>
              /\ call[c].pos \in 1..call[c].size /\ call[c].size <= Len(pool)
              /\ call[c].open /\ ~call[c].missed =>
                    \E i \in call[c].pos..call[c].size : pool[i] = owner[call[c].thread]
        /\ call[c].pc = "unknown" => ~call[c].open \/ call[c].missed
        /\ call[c].pc = "raised" => Len(pool) > call[c].size

HostInv == HostTypeOK /\ AskedInv /\ RunsInv /\ CreatingInv /\ ScanInv

-----------------------------------------------------------------------------
LEMMA InitHost == HostInit => HostInv
<1> SUFFICES ASSUME HostInit PROVE HostInv
  OBVIOUS
<1> USE DEF HostInit, Idle
<1>1. HostTypeOK
  BY DEF HostTypeOK, HostCall, HostCallOK, Creating, Asking
<1>2. AskedInv /\ CreatingInv /\ ScanInv
  BY DEF AskedInv, CreatingInv, ScanInv, Creating, Asking
<1>3. RunsInv
  BY DEF RunsInv
<1> QED
  BY <1>1, <1>2, <1>3 DEF HostInv

\* The pool after a session was opened: what it held, in the same order.
LEMMA PooledGrows ==
  ASSUME pool \in Seq(HostOrgs), NEW o \in HostOrgs
  PROVE  /\ Pooled(o) \in Seq(HostOrgs) /\ Len(pool) <= Len(Pooled(o))
         /\ \A i \in 1..Len(pool) : Pooled(o)[i] = pool[i]
  BY DEF Pooled

\* A free call begins something that asks nothing about a message.
LEMMA BeginKeeps ==
  ASSUME HostInv, NEW c \in Calls, NEW t \in Threads, NEW o \in HostOrgs, NEW pc \in {"load"} \cup Creating,
         Free(c), pool' = Pooled(o),
         call' = [call EXCEPT ![c] = [Idle EXCEPT !.pc = pc, !.org = o, !.thread = t]],
         pc \in Creating => /\ o \in Known /\ owner[t] = Nobody
                            /\ \A d \in Calls : call[d].pc \in Creating => call[d].thread # t,
         UNCHANGED <<threadOrg, browser, owner, runs, answer, cut, restarts>>
  PROVE  HostInv'
<1> DEFINE x == [Idle EXCEPT !.pc = pc, !.org = o, !.thread = t]
<1>1. /\ x \in HostCall /\ x.pc = pc /\ x.org = o /\ x.thread = t
  BY DEF Idle, HostCall
<1>2. /\ call'[c] = x /\ \A d \in Calls \ {c} : call'[d] = call[d]
      /\ call' = [call EXCEPT ![c] = x]
  BY DEF HostInv, HostTypeOK
<1> HIDE DEF x
<1>3. call[c].pc \notin Asking
  BY DEF Free, Asking
<1>4. HostTypeOK'
  <2>1. (pool \in Seq(HostOrgs))'
    BY PooledGrows DEF HostInv, HostTypeOK
  <2>2. (call \in [Calls -> HostCall])'
    BY <1>1, <1>2 DEF HostInv, HostTypeOK
  <2>3. (\A d \in Calls : HostCallOK(call[d]))'
    BY <1>1, <1>2 DEF HostInv, HostTypeOK, HostCallOK, Creating, Asking
  <2> QED
    BY <2>1, <2>2, <2>3 DEF HostInv, HostTypeOK
<1>5. AskedInv'
  BY <1>1, <1>2 DEF HostInv, AskedInv, Creating, Asking
<1>6. RunsInv'
  BY <1>2, <1>3 DEF HostInv, RunsInv, Asking
<1>7. CreatingInv'
  BY <1>1, <1>2 DEF HostInv, CreatingInv, Creating
<1>8. ScanInv'
  <2> SUFFICES ASSUME NEW d \in Calls, d # c PROVE ScanInv!(d)'
    BY <1>1, <1>2 DEF ScanInv, Creating
  <2>1. /\ Len(pool) \in Nat /\ Len(pool') \in Nat /\ Len(pool) <= Len(pool')
        /\ \A i \in 1..Len(pool) : pool'[i] = pool[i]
    <3>1. pool \in Seq(HostOrgs)
      BY DEF HostInv, HostTypeOK
    <3>2. /\ pool' \in Seq(HostOrgs) /\ Len(pool) <= Len(pool')
          /\ \A i \in 1..Len(pool) : pool'[i] = pool[i]
      BY <3>1, PooledGrows
    <3> QED
      BY <3>1, <3>2
  <2>2. call'[d] = call[d] /\ call[d].size \in Nat /\ call[d].pos \in Nat
    BY <1>2 DEF HostInv, HostTypeOK, HostCall
  <2> QED
    BY <2>1, <2>2 DEF HostInv, ScanInv
<1> QED
  BY <1>4, <1>5, <1>6, <1>7, <1>8 DEF HostInv

LEMMA OpenSteps ==
  ASSUME HostInv, NEW c \in Calls, NEW t \in Threads, NEW o \in HostOrgs,
         NewSession(c, t, o) \/ DeployBrowser(c, t) \/ LoadSession(c, t, o)
  PROVE  HostInv'
<1>1. CASE NewSession(c, t, o)
  BY <1>1, BeginKeeps DEF NewSession, Open, Creating
<1>2. CASE DeployBrowser(c, t)
  <2>1. BrowserOrg \in Known /\ BrowserOrg \in HostOrgs
    BY HostConstants DEF HostOrgs
  <2> QED
    BY <1>2, <2>1, BeginKeeps DEF DeployBrowser, Open, Creating
<1>3. CASE LoadSession(c, t, o)
  BY <1>3, BeginKeeps DEF LoadSession, Creating
<1> QED
  BY <1>1, <1>2, <1>3

\* A call that asks nothing about a message ends.
LEMMA QuietEnd ==
  ASSUME HostInv, NEW c \in Calls, call[c].pc \in {"load"} \cup Creating,
         call' = [call EXCEPT ![c] = Idle],
         UNCHANGED <<pool, runs, answer, cut, restarts>>,
         (threadOrg \in [Threads -> HostOrgs \cup {Nobody}])', (owner \in [Threads -> Known \cup {Nobody}])',
         \A t \in Threads : owner'[t] # owner[t] => call[c].pc \in Creating /\ t = call[c].thread /\ owner[t] = Nobody
  PROVE  HostInv'
<1>1. Idle \in HostCall /\ Idle.pc = "idle"
  BY DEF Idle, HostCall
<1>2. call'[c] = Idle /\ \A d \in Calls \ {c} : call'[d] = call[d]
  BY DEF HostInv, HostTypeOK
<1>3. HostTypeOK'
  <2>1. (call \in [Calls -> HostCall])'
    BY <1>1 DEF HostInv, HostTypeOK
  <2>2. (\A d \in Calls : HostCallOK(call[d]))'
    BY <1>1, <1>2 DEF HostInv, HostTypeOK, HostCallOK, Creating, Asking
  <2> QED
    BY <2>1, <2>2 DEF HostInv, HostTypeOK
<1>4. AskedInv'
  BY <1>1, <1>2 DEF HostInv, AskedInv, Asking
<1>5. RunsInv'
  BY <1>2 DEF HostInv, RunsInv, Creating
<1>6. CreatingInv'
  <2> SUFFICES ASSUME NEW d \in Calls, d # c, call[d].pc \in Creating PROVE CreatingInv!(d)'
    BY <1>1, <1>2 DEF CreatingInv, Creating
  <2>1. call[d].thread \in Threads
    BY DEF HostInv, HostTypeOK, HostCallOK
  <2> QED
    BY <1>1, <1>2, <2>1 DEF HostInv, CreatingInv, Creating
<1>7. ScanInv'
  <2> SUFFICES ASSUME NEW d \in Calls, d # c PROVE ScanInv!(d)'
    BY <1>1, <1>2 DEF ScanInv
  <2>1. CASE call[d].pc # "scan"
    BY <1>2, <2>1 DEF HostInv, ScanInv
  <2>2. CASE call[d].pc = "scan"
    <3>1. call[d].thread \in Threads /\ call[d].pos \in Nat /\ call[d].size \in Nat
      BY <2>2 DEF HostInv, HostTypeOK, HostCallOK, HostCall, Asking
    <3>2. \A i \in call[d].pos..call[d].size : pool[i] # Nobody
      BY <2>2, <3>1, HostConstants DEF HostInv, HostTypeOK, ScanInv, HostOrgs
    <3>3. \A i \in call[d].pos..call[d].size :
             pool[i] = owner[call[d].thread] => pool[i] = owner'[call[d].thread]
      BY <3>1, <3>2
    <3> QED
      BY <1>2, <2>2, <3>3 DEF HostInv, ScanInv
  <2> QED
    BY <2>1, <2>2
<1> QED
  BY <1>3, <1>4, <1>5, <1>6, <1>7 DEF HostInv

LEMMA CreatedStep ==
  ASSUME HostInv, NEW c \in Calls, NEW made \in BOOLEAN, NEW heard \in BOOLEAN, Created(c, made, heard)
  PROVE  HostInv'
<1>1. /\ call[c].pc \in Creating /\ call[c].org \in Known /\ call[c].thread \in Threads
      /\ owner[call[c].thread] = Nobody
  BY DEF Created, HostInv, HostTypeOK, HostCallOK, CreatingInv, Creating
<1>2. /\ (threadOrg \in [Threads -> HostOrgs \cup {Nobody}])'
      /\ (owner \in [Threads -> Known \cup {Nobody}])'
  BY <1>1 DEF Created, HostInv, HostTypeOK, HostOrgs
<1>3. \A t \in Threads : owner'[t] # owner[t] => t = call[c].thread
  BY <1>1 DEF Created, HostInv, HostTypeOK
<1> QED
  BY <1>1, <1>2, <1>3, QuietEnd DEF Created

LEMMA LoadedStep ==
  ASSUME HostInv, NEW c \in Calls, NEW heard \in BOOLEAN, Loaded(c, heard)
  PROVE  HostInv'
<1>1. call[c].pc = "load" /\ call[c].org \in HostOrgs /\ call[c].thread \in Threads
  BY DEF Loaded, HostInv, HostTypeOK, HostCallOK
<1>2. (threadOrg \in [Threads -> HostOrgs \cup {Nobody}])' /\ (owner \in [Threads -> Known \cup {Nobody}])'
  BY <1>1 DEF Loaded, HostInv, HostTypeOK
<1> QED
  BY <1>1, <1>2, QuietEnd DEF Loaded

\* What a call says in its message's place when it is over, or not yet.
LEMMA PromptStep ==
  ASSUME HostInv, NEW c \in Calls, NEW m \in Messages, Prompt(c, m)
  PROVE  HostInv'
<1> DEFINE t == To[m]
           open == owner[t] \in ToSet(pool)
           pc == IF Mapped(t) THEN "post" ELSE IF pool = <<>> THEN "unknown" ELSE "scan"
           to == IF pc = "post" THEN threadOrg[t] ELSE Nobody
           start == [Idle EXCEPT !.thread = t, !.msg = m, !.size = Len(pool), !.pos = 1, !.open = open]
           x == [start EXCEPT !.pc = pc, !.org = to]
<1>1. /\ pc \in {"post", "unknown", "scan"}
      /\ pc = "post" => threadOrg[t] \in HostOrgs
      /\ pc = "unknown" <=> ~Mapped(t) /\ pool = <<>>
      /\ pc = "scan" => pool # <<>>
      /\ t \in Threads /\ pool \in Seq(HostOrgs) /\ Len(pool) \in Nat
  BY HostConstants DEF HostInv, HostTypeOK, Mapped
<1>2. /\ x.pc = pc /\ x.thread = t /\ x.msg = m /\ x.size = Len(pool) /\ x.pos = 1 /\ x.open = open
      /\ pc = "post" => x.org \in HostOrgs
      /\ x \in HostCall
  <2>1. open \in BOOLEAN
    OBVIOUS
  <2>2. to \in HostOrgs \cup {Nobody} /\ (pc = "post" => to \in HostOrgs)
    BY <1>1
  <2> HIDE DEF pc, t, open, to
  <2>3. /\ start.thread = t /\ start.msg = m /\ start.size = Len(pool) /\ start.pos = 1 /\ start.open = open
        /\ start \in HostCall
    BY <1>1, <2>1 DEF Idle, HostCall
  <2> HIDE DEF start
  <2> QED
    BY <1>1, <2>2, <2>3 DEF HostCall, Asking, Creating
<1>3. /\ call' = [call EXCEPT ![c] = x]
      /\ answer' = [answer EXCEPT ![m] = IF pc = "unknown" THEN "error" ELSE "asked"]
  BY DEF Prompt
<1> HIDE DEF pc, start, x, t, open, to
<1>4. call'[c] = x /\ \A d \in Calls \ {c} : call'[d] = call[d]
  BY <1>3 DEF HostInv, HostTypeOK
<1>5. call[c].pc \notin Asking \cup Creating
  BY DEF Prompt, Free, Asking, Creating
<1>6. /\ answer[m] \in {"none", "error", "failed"}
      /\ UNCHANGED <<pool, threadOrg, owner, runs, cut>>
      /\ answer'[m] = IF pc = "unknown" THEN "error" ELSE "asked"
      /\ \A n \in Messages \ {m} : answer'[n] = answer[n]
  BY <1>3 DEF Prompt, MayAsk, HostInv, HostTypeOK
<1>7. \A d \in Calls : call[d].pc \in Asking => call[d].msg # m
  BY <1>6 DEF HostInv, AskedInv
<1>8. HostTypeOK'
  <2>1. (call \in [Calls -> HostCall])'
    BY <1>2, <1>3 DEF HostInv, HostTypeOK
  <2>2. (\A d \in Calls : HostCallOK(call[d]))'
    BY <1>1, <1>2, <1>4 DEF HostInv, HostTypeOK, HostCallOK, Creating, Asking
  <2> QED
    BY <1>3, <1>6, <2>1, <2>2 DEF HostInv, HostTypeOK
<1>9. AskedInv'
  <2> SUFFICES ASSUME NEW d \in Calls, call'[d].pc \in Asking PROVE AskedInv!(d)'
    BY DEF AskedInv
  <2>1. CASE d = c
    <3>1. pc # "unknown" /\ pc # "wait"
      BY <1>1, <1>2, <1>4, <2>1 DEF Asking
    <3> QED
      BY <1>2, <1>4, <1>6, <1>7, <2>1, <3>1
  <2>2. CASE d # c
    <3>1. call'[d] = call[d] /\ call[d].msg # m /\ call[d].msg \in Messages
      BY <1>4, <1>7, <2>2 DEF HostInv, HostTypeOK, HostCallOK
    <3> QED
      BY <1>2, <1>4, <1>6, <2>2, <3>1 DEF HostInv, AskedInv
  <2> QED
    BY <2>1, <2>2
<1>10. RunsInv'
  BY <1>4, <1>5, <1>6 DEF HostInv, RunsInv, Asking
<1>11. CreatingInv'
  BY <1>1, <1>2, <1>4, <1>6 DEF HostInv, CreatingInv, Creating
<1>12. ScanInv'
  <2> SUFFICES ASSUME NEW d \in Calls, d = c PROVE ScanInv!(d)'
    BY <1>4, <1>6 DEF HostInv, ScanInv
  <2>1. CASE pc = "scan"
    <3>1. pool # <<>> /\ Len(pool) > 0
      BY <1>1, <2>1
    <3>2. x.open => \E i \in 1..Len(pool) : pool[i] = owner[t]
      <4>1. owner[t] \in ToSet(pool) => \E i \in 1..Len(pool) : pool[i] = owner[t]
        BY <1>1 DEF ToSet
      <4> QED
        BY <1>2, <4>1 DEF open
    <3> QED
      BY <1>1, <1>2, <1>4, <1>6, <2>1, <3>1, <3>2
  <2>2. CASE pc # "scan"
    <3>1. pc = "unknown" => ~x.open
      <4>1. pool = <<>> => ToSet(pool) = {}
        BY DEF ToSet
      <4> QED
        BY <1>1, <1>2, <4>1 DEF open
    <3> QED
      BY <1>1, <1>2, <1>4, <2>2, <3>1
  <2> QED
    BY <2>1, <2>2
<1> QED
  BY <1>8, <1>9, <1>10, <1>11, <1>12 DEF HostInv

\* A call about a message ends; what the API server did meanwhile is in runs'.
LEMMA AskingEnds ==
  ASSUME HostInv, NEW c \in Calls, call[c].pc \in Asking, NEW x \in HostCall, NEW said \in {"error", "failed", "done"},
         x.pc \in {"idle", "unknown", "raised"},
         x.pc = "unknown" => ~x.open \/ x.missed,
         x.pc = "raised" => Len(pool) > x.size,
         call' = [call EXCEPT ![c] = x],
         answer' = [answer EXCEPT ![call[c].msg] = said],
         UNCHANGED <<pool, owner>>,
         (threadOrg \in [Threads -> HostOrgs \cup {Nobody}])',
         (runs \in [Messages -> Seq({"running", "success", "error"})])',
         \A n \in Messages \ {call[c].msg} : runs'[n] = runs[n],
         cut' \in SUBSET Messages, cut \subseteq cut',
         call[c].msg \notin cut' =>
            \A i \in DOMAIN runs'[call[c].msg] :
                runs'[call[c].msg][i] = "error" \/ (said = "done" /\ i = Len(runs'[call[c].msg]))
  PROVE  HostInv'
<1> DEFINE m == call[c].msg
<1>1. m \in Messages /\ answer[m] = "asked" /\ answer'[m] = said
  BY DEF HostInv, HostTypeOK, HostCallOK, AskedInv
<1>2. /\ call'[c] = x /\ \A d \in Calls \ {c} : call'[d] = call[d]
      /\ \A n \in Messages \ {m} : answer'[n] = answer[n]
  BY <1>1 DEF HostInv, HostTypeOK
<1>3. \A d \in Calls \ {c} : call[d].pc \in Asking => call[d].msg \in Messages \ {m}
  BY DEF HostInv, HostTypeOK, HostCallOK, AskedInv
<1> HIDE DEF m
<1>4. HostTypeOK'
  <2>1. (call \in [Calls -> HostCall])' /\ (answer \in [Messages -> {"none", "asked", "error", "failed", "done"}])'
    BY <1>1 DEF HostInv, HostTypeOK
  <2>2. (\A d \in Calls : HostCallOK(call[d]))'
    BY <1>2 DEF HostInv, HostTypeOK, HostCallOK, Creating, Asking
  <2> QED
    BY <2>1, <2>2 DEF HostInv, HostTypeOK
<1>5. AskedInv'
  <2> SUFFICES ASSUME NEW d \in Calls, call'[d].pc \in Asking PROVE AskedInv!(d)'
    BY DEF AskedInv
  <2>1. d # c /\ call'[d] = call[d] /\ call[d].msg \in Messages \ {m}
    BY <1>2, <1>3 DEF Asking
  <2> QED
    BY <1>2, <2>1 DEF HostInv, AskedInv, Asking, m
<1>6. RunsInv'
  <2> SUFFICES ASSUME NEW n \in Messages, n \notin cut', NEW i \in DOMAIN runs'[n] PROVE RunsInv!(n)!(i)'
    BY DEF RunsInv
  <2>1. CASE n = m
    BY <1>1, <2>1 DEF m
  <2>2. CASE n # m
    <3>1. n \notin cut /\ runs'[n] = runs[n] /\ answer'[n] = answer[n]
      BY <1>2, <2>2 DEF m
    <3>2. ASSUME NEW d \in Calls, call[d].pc = "wait", call[d].msg = n
          PROVE  call'[d].pc = "wait" /\ call'[d].msg = n
      BY <1>2, <2>2, <3>2 DEF m
    <3> QED
      BY <3>1, <3>2 DEF HostInv, RunsInv
  <2> QED
    BY <2>1, <2>2
<1>7. CreatingInv'
  BY <1>2 DEF HostInv, CreatingInv, Creating
<1>8. ScanInv'
  BY <1>2 DEF HostInv, ScanInv
<1> QED
  BY <1>4, <1>5, <1>6, <1>7, <1>8 DEF HostInv

\* A call about a message goes on without an answer.
LEMMA AskingGoesOn ==
  ASSUME HostInv, NEW c \in Calls, call[c].pc \in {"scan", "post"}, NEW x \in HostCall,
         x.pc \in Asking, x.msg = call[c].msg, x.thread = call[c].thread,
         x.pc \in {"post", "wait"} => x.org \in HostOrgs,
         x.pc = "scan" => /\ x.pos \in 1..x.size /\ x.size <= Len(pool)
                          /\ x.open /\ ~x.missed => \E i \in x.pos..x.size : pool[i] = owner[x.thread],
         x.pc = "wait" => x.run = Len(runs'[x.msg]) /\ x.run > 0,
         call' = [call EXCEPT ![c] = x],
         UNCHANGED <<pool, owner, answer, cut>>,
         (threadOrg \in [Threads -> HostOrgs \cup {Nobody}])',
         (runs \in [Messages -> Seq({"running", "success", "error"})])',
         \A n \in Messages \ {call[c].msg} : runs'[n] = runs[n],
         call[c].msg \notin cut => \A i \in DOMAIN runs'[call[c].msg] :
            runs'[call[c].msg][i] = "error" \/ (x.pc = "wait" /\ i = Len(runs'[call[c].msg]))
  PROVE  HostInv'
<1> DEFINE m == call[c].msg
<1>1. m \in Messages /\ call[c].thread \in Threads /\ answer[m] = "asked"
  BY DEF HostInv, HostTypeOK, HostCallOK, AskedInv, Asking
<1>2. call'[c] = x /\ \A d \in Calls \ {c} : call'[d] = call[d]
  BY DEF HostInv, HostTypeOK
<1>3. \A d \in Calls \ {c} : call[d].pc \in Asking => call[d].msg \in Messages \ {m}
  BY DEF HostInv, HostTypeOK, HostCallOK, AskedInv, Asking
<1> HIDE DEF m
<1>4. HostTypeOK'
  <2>1. (call \in [Calls -> HostCall])'
    BY DEF HostInv, HostTypeOK
  <2>2. (\A d \in Calls : HostCallOK(call[d]))'
    BY <1>1, <1>2 DEF HostInv, HostTypeOK, HostCallOK, Creating, Asking, m
  <2> QED
    BY <2>1, <2>2 DEF HostInv, HostTypeOK
<1>5. AskedInv'
  <2> SUFFICES ASSUME NEW d \in Calls, call'[d].pc \in Asking PROVE AskedInv!(d)'
    BY DEF AskedInv
  <2>1. CASE d = c
    <3>1. \A e \in Calls : call'[e].pc \in Asking /\ call'[e].msg = m => e = c
      BY <1>2, <1>3
    <3> QED
      BY <1>1, <1>2, <2>1, <3>1 DEF m
  <2>2. CASE d # c
    BY <1>2, <1>3, <2>2 DEF HostInv, AskedInv, Asking, m
  <2> QED
    BY <2>1, <2>2
<1>6. RunsInv'
  <2> SUFFICES ASSUME NEW n \in Messages, n \notin cut, NEW i \in DOMAIN runs'[n] PROVE RunsInv!(n)!(i)'
    BY DEF RunsInv
  <2>1. CASE n = m
    BY <1>1, <1>2, <2>1 DEF m
  <2>2. CASE n # m
    <3>1. runs'[n] = runs[n]
      BY <2>2 DEF m
    <3>2. ASSUME NEW d \in Calls, call[d].pc = "wait", call[d].msg = n
          PROVE  call'[d].pc = "wait" /\ call'[d].msg = n
      BY <1>2, <2>2, <3>2 DEF m
    <3> QED
      BY <3>1, <3>2 DEF HostInv, RunsInv
  <2> QED
    BY <2>1, <2>2
<1>7. CreatingInv'
  BY <1>2 DEF HostInv, CreatingInv, Creating, Asking
<1>8. ScanInv'
  BY <1>2 DEF HostInv, ScanInv, Asking
<1> QED
  BY <1>4, <1>5, <1>6, <1>7, <1>8 DEF HostInv

\* Nothing was lost of a message whose call does not wait for a run yet.
LEMMA NoRunYet ==
  ASSUME HostInv, NEW c \in Calls, call[c].pc \in {"scan", "post"}
  PROVE  call[c].msg \notin cut => \A i \in DOMAIN runs[call[c].msg] : runs[call[c].msg][i] = "error"
<1>1. /\ call[c].msg \in Messages /\ answer[call[c].msg] = "asked"
      /\ \A d \in Calls : call[d].pc = "wait" => call[d].msg # call[c].msg
  BY DEF HostInv, HostTypeOK, HostCallOK, AskedInv, Asking
<1> QED
  BY <1>1 DEF HostInv, RunsInv

LEMMA ScanHitStep ==
  ASSUME HostInv, NEW c \in Calls, ScanHit(c)
  PROVE  HostInv'
<1> DEFINE x == [call[c] EXCEPT !.pc = "post", !.org = Asked(c)]
<1>1. /\ call[c].pc = "scan" /\ call[c] \in HostCall /\ call[c].thread \in Threads
      /\ call[c].pos \in 1..Len(pool) /\ pool \in Seq(HostOrgs)
  BY DEF ScanHit, HostInv, HostTypeOK, HostCallOK, HostCall, ScanInv, Asking
<1>2. Asked(c) \in HostOrgs
  BY <1>1 DEF Asked
<1>3. call' = [call EXCEPT ![c] = x]
  BY DEF ScanHit, HostInv, HostTypeOK
<1>4. x \in HostCall /\ x.pc = "post" /\ x.org = Asked(c) /\ x.msg = call[c].msg /\ x.thread = call[c].thread
  BY <1>1, <1>2 DEF HostCall, Asking
<1>5. (threadOrg \in [Threads -> HostOrgs \cup {Nobody}])'
  BY <1>1, <1>2 DEF ScanHit, HostInv, HostTypeOK
<1>6. UNCHANGED <<pool, owner, answer, cut, runs>>
  BY DEF ScanHit
<1>7. (runs \in [Messages -> Seq({"running", "success", "error"})])'
  BY <1>6 DEF HostInv, HostTypeOK
<1> HIDE DEF x
<1>8. x.pc \in Asking /\ x.pc # "scan" /\ x.pc # "wait" /\ x.org \in HostOrgs /\ call[c].pc \in {"scan", "post"}
  BY <1>1, <1>2, <1>4 DEF Asking
<1>9. /\ \A n \in Messages \ {call[c].msg} : runs'[n] = runs[n]
      /\ call[c].msg \notin cut => \A i \in DOMAIN runs'[call[c].msg] :
            runs'[call[c].msg][i] = "error" \/ (x.pc = "wait" /\ i = Len(runs'[call[c].msg]))
  BY <1>6, <1>8, NoRunYet
<1> QED
  BY <1>3, <1>4, <1>5, <1>6, <1>7, <1>8, <1>9, AskingGoesOn

LEMMA ScanMissStep ==
  ASSUME HostInv, NEW c \in Calls, NEW heard \in BOOLEAN, ScanMiss(c, heard)
  PROVE  HostInv'
<1> DEFINE grown == Len(pool) # call[c].size
           missed == call[c].missed \/ ~heard
           pc == IF grown THEN "raised" ELSE "unknown"
           over == [call[c] EXCEPT !.pc = pc, !.missed = missed]
           further == call[c].pos + 1
           on == [call[c] EXCEPT !.pos = further, !.missed = missed]
<1>1. /\ call[c].pc = "scan" /\ call[c].pc \in Asking /\ call[c].pc \in {"scan", "post"} /\ call[c] \in HostCall
      /\ call[c].pos \in 1..call[c].size /\ call[c].size \in Nat /\ call[c].size <= Len(pool)
      /\ pool \in Seq(HostOrgs) /\ Len(pool) \in Nat /\ call[c].msg \in Messages
      /\ cut \in SUBSET Messages
  BY DEF ScanMiss, HostInv, HostTypeOK, HostCallOK, HostCall, ScanInv, Asking
<1>2. /\ UNCHANGED <<pool, threadOrg, owner, runs, cut>>
      /\ (threadOrg \in [Threads -> HostOrgs \cup {Nobody}])'
      /\ (runs \in [Messages -> Seq({"running", "success", "error"})])'
      /\ \A n \in Messages \ {call[c].msg} : runs'[n] = runs[n]
      /\ cut' \in SUBSET Messages /\ cut \subseteq cut'
      /\ call[c].msg \notin cut => \A i \in DOMAIN runs'[call[c].msg] : runs'[call[c].msg][i] = "error"
  <2>1. UNCHANGED <<pool, threadOrg, owner, runs, cut>>
    BY DEF ScanMiss
  <2> QED
    BY <1>1, <2>1, NoRunYet DEF HostInv, HostTypeOK
<1>3. ASSUME call[c].open, ~missed
      PROVE  \E i \in (call[c].pos + 1)..call[c].size : pool[i] = owner[call[c].thread]
  <2>1. heard /\ ~call[c].missed
    BY <1>3
  <2>2. PICK i \in call[c].pos..call[c].size : pool[i] = owner[call[c].thread]
    BY <1>1, <1>3, <2>1 DEF HostInv, ScanInv
  <2>3. pool[call[c].pos] # owner[call[c].thread]
    BY <2>1 DEF ScanMiss, Hit, Asked
  <2> QED
    BY <1>1, <2>2, <2>3
<1>4. missed \in BOOLEAN
  BY <1>1 DEF HostCall
<1>5. CASE grown \/ call[c].pos = call[c].size
  <2>1. call' = [call EXCEPT ![c] = over] /\ answer' = [answer EXCEPT ![call[c].msg] = "error"]
    BY <1>5 DEF ScanMiss, HostInv, HostTypeOK
  <2>2. pc \in {"raised", "unknown"} /\ (pc = "raised" => Len(pool) > call[c].size)
        /\ (pc = "unknown" => call[c].pos = call[c].size)
    BY <1>1, <1>5
  <2> HIDE DEF pc, missed
  <2>3. over \in HostCall /\ over.pc = pc /\ over.size = call[c].size /\ over.open = call[c].open /\ over.missed = missed
    BY <1>1, <1>4, <2>2 DEF HostCall
  <2> HIDE DEF over
  <2>4. over.pc = "unknown" => ~over.open \/ over.missed
    BY <1>1, <1>3, <2>2, <2>3
  <2>5. /\ over.pc \in {"idle", "unknown", "raised"}
        /\ over.pc = "raised" => Len(pool) > over.size
    BY <2>2, <2>3
  <2>6. call[c].msg \notin cut' =>
            \A i \in DOMAIN runs'[call[c].msg] :
                runs'[call[c].msg][i] = "error" \/ ("error" = "done" /\ i = Len(runs'[call[c].msg]))
    BY <1>2
  <2> QED
    BY <1>1, <1>2, <2>1, <2>3, <2>4, <2>5, <2>6, AskingEnds
<1>6. CASE ~grown /\ call[c].pos # call[c].size
  <2>1. call' = [call EXCEPT ![c] = on] /\ UNCHANGED answer
    BY <1>6 DEF ScanMiss, HostInv, HostTypeOK
  <2> HIDE DEF missed
  <2>2. on \in HostCall /\ on.pc = "scan" /\ on.pos = call[c].pos + 1 /\ on.size = call[c].size
        /\ on.open = call[c].open /\ on.missed = missed /\ on.msg = call[c].msg /\ on.thread = call[c].thread
    <3>1. further \in Nat
      BY <1>1
    <3> HIDE DEF further
    <3>2. on \in HostCall /\ on.pc = call[c].pc /\ on.pos = further /\ on.size = call[c].size
          /\ on.open = call[c].open /\ on.missed = missed /\ on.msg = call[c].msg /\ on.thread = call[c].thread
      BY <1>1, <1>4, <3>1 DEF HostCall
    <3> HIDE DEF on
    <3> QED
      BY <1>1, <3>2 DEF further
  <2> HIDE DEF on
  <2>3. /\ on.pos \in 1..on.size /\ on.size <= Len(pool)
        /\ on.open /\ ~on.missed => \E i \in on.pos..on.size : pool[i] = owner[on.thread]
    <3>1. on.pos \in 1..on.size /\ on.size <= Len(pool)
      BY <1>1, <1>6, <2>2
    <3>2. on.open /\ ~on.missed => \E i \in on.pos..on.size : pool[i] = owner[on.thread]
      BY <1>3, <2>2
    <3> QED
      BY <3>1, <3>2
  <2>4. on.pc \in Asking /\ on.pc # "post" /\ on.pc # "wait"
    BY <2>2 DEF Asking
  <2>5. call[c].msg \notin cut => \A i \in DOMAIN runs'[call[c].msg] :
            runs'[call[c].msg][i] = "error" \/ (on.pc = "wait" /\ i = Len(runs'[call[c].msg]))
    BY <1>2
  <2> QED
    BY <1>1, <1>2, <2>1, <2>2, <2>3, <2>4, <2>5, AskingGoesOn
<1> QED
  BY <1>5, <1>6

\* A run was started for a message.
LEMMA RunStarted ==
  ASSUME HostInv, NEW m \in Messages, runs' = [runs EXCEPT ![m] = Append(@, "running")]
  PROVE  /\ (runs \in [Messages -> Seq({"running", "success", "error"})])'
         /\ Len(runs'[m]) = Len(runs[m]) + 1 /\ Len(runs[m]) \in Nat
         /\ \A n \in Messages \ {m} : runs'[n] = runs[n]
         /\ \A i \in DOMAIN runs'[m] : i = Len(runs'[m]) \/ (i \in DOMAIN runs[m] /\ runs'[m][i] = runs[m][i])
<1>1. runs \in [Messages -> Seq({"running", "success", "error"})] /\ runs[m] \in Seq({"running", "success", "error"})
  BY DEF HostInv, HostTypeOK
<1>2. runs'[m] = Append(runs[m], "running")
  BY <1>1
<1>3. Append(runs[m], "running") \in Seq({"running", "success", "error"})
  BY <1>1
<1> QED
  BY <1>1, <1>2, <1>3

LEMMA PostStep ==
  ASSUME HostInv, NEW c \in Calls, Post(c)
  PROVE  HostInv'
<1> DEFINE m == call[c].msg
           last == Len(runs[m]) + 1
           x == [call[c] EXCEPT !.pc = "wait", !.run = last]
<1>1. /\ call[c].pc = "post" /\ call[c].pc \in {"scan", "post"} /\ call[c] \in HostCall /\ m \in Messages
      /\ call[c].org \in HostOrgs
      /\ UNCHANGED <<pool, threadOrg, owner, answer, cut>>
      /\ runs' = [runs EXCEPT ![m] = Append(@, "running")]
  BY DEF Post, HostInv, HostTypeOK, HostCallOK, Asking
<1>2. call' = [call EXCEPT ![c] = x]
  BY DEF Post, HostInv, HostTypeOK
<1>3. /\ (runs \in [Messages -> Seq({"running", "success", "error"})])'
      /\ Len(runs'[m]) = Len(runs[m]) + 1 /\ Len(runs[m]) \in Nat
      /\ \A n \in Messages \ {m} : runs'[n] = runs[n]
      /\ \A i \in DOMAIN runs'[m] : i = Len(runs'[m]) \/ (i \in DOMAIN runs[m] /\ runs'[m][i] = runs[m][i])
  <2> HIDE DEF m
  <2> QED
    BY <1>1, RunStarted
<1>4. /\ x \in HostCall /\ x.pc = "wait" /\ x.run = Len(runs[m]) + 1 /\ x.msg = call[c].msg
      /\ x.thread = call[c].thread /\ x.org = call[c].org
  <2>1. last \in Nat
    BY <1>3
  <2> HIDE DEF last
  <2>2. /\ x \in HostCall /\ x.pc = "wait" /\ x.run = last /\ x.msg = call[c].msg
        /\ x.thread = call[c].thread /\ x.org = call[c].org
    BY <1>1, <2>1 DEF HostCall, Asking
  <2> HIDE DEF x
  <2> QED
    BY <2>2 DEF last
<1> HIDE DEF x
<1>5. call[c].msg \notin cut => \A i \in DOMAIN runs'[call[c].msg] :
            runs'[call[c].msg][i] = "error" \/ (x.pc = "wait" /\ i = Len(runs'[call[c].msg]))
  BY <1>1, <1>3, <1>4, NoRunYet
<1>6. x.run = Len(runs'[x.msg]) /\ x.run > 0 /\ x.pc \in Asking /\ x.pc # "scan" /\ x.org \in HostOrgs
  BY <1>1, <1>3, <1>4 DEF Asking
<1>7. (threadOrg \in [Threads -> HostOrgs \cup {Nobody}])'
  BY <1>1 DEF HostInv, HostTypeOK
<1> QED
  BY <1>1, <1>2, <1>3, <1>4, <1>5, <1>6, <1>7, AskingGoesOn

LEMMA PostFailsStep ==
  ASSUME HostInv, NEW c \in Calls, NEW started \in BOOLEAN, PostFails(c, started)
  PROVE  HostInv'
<1> DEFINE m == call[c].msg
<1>1. /\ call[c].pc \in {"scan", "post"} /\ call[c].pc \in Asking /\ m \in Messages
      /\ UNCHANGED <<pool, threadOrg, owner>>
      /\ call' = [call EXCEPT ![c] = Idle] /\ answer' = [answer EXCEPT ![m] = "error"]
      /\ Idle \in HostCall /\ Idle.pc = "idle"
      /\ (threadOrg \in [Threads -> HostOrgs \cup {Nobody}])'
  BY DEF PostFails, Ends, HostInv, HostTypeOK, HostCallOK, HostCall, Asking, Idle
<1>2. cut' \in SUBSET Messages /\ cut \subseteq cut'
  BY <1>1 DEF PostFails, HostInv, HostTypeOK
<1>3. /\ (runs \in [Messages -> Seq({"running", "success", "error"})])'
      /\ \A n \in Messages \ {m} : runs'[n] = runs[n]
  <2>1. CASE started
    <3> HIDE DEF m
    <3> QED
      BY <1>1, <2>1, RunStarted DEF PostFails, m
  <2>2. CASE ~started
    BY <2>2 DEF PostFails, HostInv, HostTypeOK
  <2> QED
    BY <2>1, <2>2
<1>4. m \notin cut' => \A i \in DOMAIN runs'[m] :
          runs'[m][i] = "error" \/ ("error" = "done" /\ i = Len(runs'[m]))
  <2> SUFFICES ASSUME m \notin cut' PROVE UNCHANGED runs /\ m \notin cut
    BY <1>1, NoRunYet
  <2> QED
    BY <1>2 DEF PostFails
<1> QED
  BY <1>1, <1>2, <1>3, <1>4, AskingEnds

\* A call that waits for a run ends with what it heard, or without.
LEMMA WaitingEnds ==
  ASSUME HostInv, NEW c \in Calls, Waited(c) \/ WaitFails(c)
  PROVE  HostInv'
<1> DEFINE m == call[c].msg
<1>1. /\ call[c].pc = "wait" /\ call[c].pc \in Asking /\ m \in Messages /\ call[c].org \in HostOrgs
      /\ call[c].thread \in Threads
      /\ call' = [call EXCEPT ![c] = Idle] /\ UNCHANGED <<pool, owner, runs>>
      /\ Idle \in HostCall /\ Idle.pc = "idle"
      /\ call[c].run = Len(runs[m]) /\ answer[m] = "asked"
      /\ \A n \in Messages \ {m} : runs'[n] = runs[n]
  BY DEF Waited, WaitFails, Ends, HostInv, HostTypeOK, HostCallOK, HostCall, AskedInv, Asking, Idle
<1>2. cut' \in SUBSET Messages /\ cut \subseteq cut'
  BY <1>1 DEF Waited, WaitFails, HostInv, HostTypeOK
<1>3. (threadOrg \in [Threads -> HostOrgs \cup {Nobody}])' /\ (runs \in [Messages -> Seq({"running", "success", "error"})])'
  BY <1>1 DEF Waited, WaitFails, HostInv, HostTypeOK
<1>4. CASE WaitFails(c)
  <2>1. m \in cut' /\ answer' = [answer EXCEPT ![m] = "error"]
    BY <1>4 DEF WaitFails, Ends
  <2> QED
    BY <1>1, <1>2, <1>3, <2>1, AskingEnds
<1>5. CASE Waited(c)
  <2> DEFINE said == IF runs[m][call[c].run] = "success" THEN "done" ELSE "failed"
  <2>1. /\ answer' = [answer EXCEPT ![m] = said] /\ runs[m][Len(runs[m])] # "running" /\ cut' = cut
    BY <1>1, <1>5 DEF Waited, Ends
  <2>2. /\ runs[m] \in Seq({"running", "success", "error"}) /\ call[c].run > 0
        /\ runs[m][Len(runs[m])] \in {"success", "error"}
    BY <1>1, <2>1 DEF HostInv, HostTypeOK, AskedInv
  <2>3. said \in {"failed", "done"} /\ (said = "failed" => runs[m][Len(runs[m])] = "error")
    BY <1>1, <2>2
  <2> HIDE DEF said
  <2>4. m \notin cut' => \A i \in DOMAIN runs'[m] :
            runs'[m][i] = "error" \/ (said = "done" /\ i = Len(runs'[m]))
    BY <1>1, <2>1, <2>3 DEF HostInv, RunsInv
  <2> QED
    BY <1>1, <1>2, <1>3, <2>1, <2>3, <2>4, AskingEnds
<1> QED
  BY <1>4, <1>5

LEMMA RunEndsStep ==
  ASSUME HostInv, NEW m \in Messages, NEW i \in 1..MaxRuns, NEW status \in {"success", "error"}, RunEnds(m, i, status)
  PROVE  HostInv'
<1>1. /\ i \in DOMAIN runs[m] /\ runs[m][i] = "running"
      /\ UNCHANGED <<pool, threadOrg, owner, call, answer, cut>>
  BY DEF RunEnds
<1>2. /\ (runs \in [Messages -> Seq({"running", "success", "error"})])'
      /\ \A n \in Messages : DOMAIN runs'[n] = DOMAIN runs[n] /\ Len(runs'[n]) = Len(runs[n])
      /\ \A n \in Messages : \A j \in DOMAIN runs[n] : runs[n][j] = "error" => runs'[n][j] = "error"
  <2>1. runs \in [Messages -> Seq({"running", "success", "error"})] /\ runs[m] \in Seq({"running", "success", "error"})
    BY DEF HostInv, HostTypeOK
  <2>2. runs' = [runs EXCEPT ![m] = [runs[m] EXCEPT ![i] = status]]
    BY <2>1 DEF RunEnds
  <2>3. /\ [runs[m] EXCEPT ![i] = status] \in Seq({"running", "success", "error"})
        /\ Len([runs[m] EXCEPT ![i] = status]) = Len(runs[m])
        /\ DOMAIN [runs[m] EXCEPT ![i] = status] = DOMAIN runs[m]
    BY <1>1, <2>1
  <2> QED
    BY <1>1, <2>1, <2>2, <2>3
<1>3. HostTypeOK' /\ AskedInv' /\ CreatingInv' /\ ScanInv'
  <2>1. HostTypeOK'
    BY <1>1, <1>2 DEF HostInv, HostTypeOK
  <2>2. AskedInv'
    <3>1. \A c \in Calls : call[c].pc \in Asking => call[c].msg \in Messages
      BY DEF HostInv, HostTypeOK, HostCallOK
    <3> QED
      BY <1>1, <1>2, <3>1 DEF HostInv, AskedInv, Asking
  <2>3. CreatingInv' /\ ScanInv'
    BY <1>1 DEF HostInv, CreatingInv, ScanInv
  <2> QED
    BY <2>1, <2>2, <2>3
<1>4. RunsInv'
  BY <1>1, <1>2 DEF HostInv, RunsInv
<1> QED
  BY <1>3, <1>4 DEF HostInv

LEMMA RestartStep ==
  ASSUME HostInv, Restart
  PROVE  HostInv'
<1>1. /\ Idle \in HostCall /\ Idle.pc = "idle"
      /\ \A c \in Calls : call'[c] = Idle
      /\ call' = [c \in Calls |-> Idle]
  BY DEF Restart, Idle, HostCall
<1>2. \A c \in Calls : call[c].pc = "wait" => call[c].msg \in Messages /\ call[c].msg \in cut'
  BY DEF Restart, HostInv, HostTypeOK, HostCallOK, Asking
<1>3. cut' \subseteq Messages /\ cut \subseteq cut'
  BY <1>2 DEF Restart, HostInv, HostTypeOK
<1>4. HostTypeOK'
  <2>1. (pool \in Seq(HostOrgs))' /\ (threadOrg \in [Threads -> HostOrgs \cup {Nobody}])'
        /\ (owner \in [Threads -> Known \cup {Nobody}])' /\ (runs \in [Messages -> Seq({"running", "success", "error"})])'
    BY DEF Restart, HostInv, HostTypeOK
  <2>2. (call \in [Calls -> HostCall])' /\ (\A c \in Calls : HostCallOK(call[c]))'
    BY <1>1 DEF HostCallOK, Creating, Asking
  <2>3. (answer \in [Messages -> {"none", "asked", "error", "failed", "done"}])'
    BY DEF Restart, HostInv, HostTypeOK
  <2> QED
    BY <1>3, <2>1, <2>2, <2>3 DEF HostTypeOK
<1>5. AskedInv' /\ CreatingInv' /\ ScanInv'
  BY <1>1 DEF AskedInv, CreatingInv, ScanInv, Asking, Creating
<1>6. RunsInv'
  <2> SUFFICES ASSUME NEW m \in Messages, m \notin cut', NEW i \in DOMAIN runs[m] PROVE RunsInv!(m)!(i)'
    BY DEF RunsInv, Restart
  <2>1. m \notin cut /\ runs'[m] = runs[m] /\ (answer[m] = "done" => answer'[m] = "done")
    BY <1>3 DEF Restart
  <2>2. \A c \in Calls : call[c].pc = "wait" => call[c].msg # m
    BY <1>2
  <2> QED
    BY <2>1, <2>2 DEF HostInv, RunsInv
<1> QED
  BY <1>4, <1>5, <1>6 DEF HostInv

\* Every step of the MCP server and of the API server behind it keeps the invariant.
LEMMA NextHost == HostInv /\ [HostNext]_hostVars => HostInv'
<1> SUFFICES ASSUME HostInv, [HostNext]_hostVars PROVE HostInv'
  OBVIOUS
<1>1. CASE UNCHANGED hostVars
  BY <1>1 DEF hostVars, HostInv, HostTypeOK, AskedInv, RunsInv, CreatingInv, ScanInv
<1>2. ASSUME NEW c \in Calls, NEW t \in Threads, NEW o \in Known, NewSession(c, t, o)
      PROVE  HostInv'
  BY <1>2, OpenSteps DEF HostOrgs
<1>3. ASSUME NEW c \in Calls, NEW t \in Threads, DeployBrowser(c, t)
      PROVE  HostInv'
  BY <1>3, HostConstants, OpenSteps DEF HostOrgs
<1>4. ASSUME NEW c \in Calls, NEW t \in Threads, NEW o \in Known \cup {Stranger}, LoadSession(c, t, o)
      PROVE  HostInv'
  BY <1>4, OpenSteps DEF HostOrgs
<1> QED
  BY <1>1, <1>2, <1>3, <1>4, CreatedStep, LoadedStep, PromptStep, ScanHitStep, ScanMissStep, PostStep, PostFailsStep,
     WaitingEnds, RunEndsStep, RestartStep DEF HostNext

\* The inductive invariant of the MCP server, for any orgs, threads, messages and calls:
\* types, one call per message, what the runs of a message say, and how far a search is.
THEOREM HostInvCorrect == HostSpec => []HostInv
<1> QED
  BY InitHost, NextHost, PTL DEF HostSpec

\* RunsTwiceOnlyIfLost: a message has a second run only if all earlier ones failed, or a
\* call about it ended in an error while its run went on (mcp_server.py:140-170, 326-356).
THEOREM SecondRunsExcused == HostSpec => []RunsTwiceOnlyIfLost
<1>1. HostInv => RunsTwiceOnlyIfLost
  BY DEF HostInv, HostTypeOK, RunsInv, RunsTwiceOnlyIfLost
<1> QED
  BY <1>1, HostInvCorrect, PTL

\* SessionKnown: the search over the pool finds the session of an org that has a
\* connection, unless a question failed or the pool grew under it (mcp_server.py:287-301).
THEOREM SessionsFound == HostSpec => []SessionKnown
<1>1. HostInv => SessionKnown
  BY DEF HostInv, ScanInv, SessionKnown
<1> QED
  BY <1>1, HostInvCorrect, PTL

-----------------------------------------------------------------------------
(***************************************************************************)
(* OrgRuntime, for any orgs, jobs, slots and numbers of requests: the      *)
(* singletons of the API server's process are made once unless their first *)
(* uses overlap.                                                           *)
(***************************************************************************)

\* The parts of a slot, whatever its results are.
IsSlot(x) == x = [kind |-> x.kind, org |-> x.org, step |-> x.step, results |-> x.results]

RuntimeTypeOK ==
    /\ mcpOpened \in [RunOrgs -> Nat]
    /\ sandbox \in Nat /\ sandboxes \in Nat
    /\ slot = [s \in Slots |-> slot[s]]
    /\ \A s \in Slots : IsSlot(slot[s])

Opening(s, o) == slot[s].step = "open" /\ slot[s].org = o
Making(s) == slot[s].step = "make"

\* Whoever opens an org's servers without overlap is alone with it, and the first;
\* what was opened is in the cache.
OpenInv ==
    \A o \in RunOrgs :
        /\ mcpOpened[o] > 0 => o \in mcpCache
        /\ o \notin overlapped =>
              /\ mcpOpened[o] <= 1
              /\ \A s \in Slots : Opening(s, o) => mcpOpened[o] = 0
              /\ \A s, r \in Slots : Opening(s, o) /\ Opening(r, o) => s = r

\* The same of the sandbox.
MakeInv ==
    /\ sandboxes > 0 => sandbox # 0
    /\ "sandbox" \notin overlapped =>
          /\ sandboxes <= 1
          /\ \A s \in Slots : Making(s) => sandboxes = 0
          /\ \A s, r \in Slots : Making(s) /\ Making(r) => s = r

\* The inductive invariant.
RuntimeInv == RuntimeTypeOK /\ OpenInv /\ MakeInv

\* A vacant slot is a slot, and neither opens nor makes anything.
LEMMA VacantSlot == IsSlot(Vacant) /\ Vacant.step = "vacant"
  BY DEF Vacant, IsSlot

\* A slot stays one when parts of it are replaced.
LEMMA SlotExcept ==
  ASSUME NEW x, IsSlot(x), NEW v, NEW w
  PROVE  /\ IsSlot([x EXCEPT !.step = v]) /\ [x EXCEPT !.step = v].step = v
         /\ IsSlot([x EXCEPT !.results = w, !.step = v]) /\ [x EXCEPT !.results = w, !.step = v].step = v
<1>1. x = [kind |-> x.kind, org |-> x.org, step |-> x.step, results |-> x.results]
  BY DEF IsSlot
<1>2. [x EXCEPT !.step = v] = [kind |-> x.kind, org |-> x.org, step |-> v, results |-> x.results]
  BY <1>1
<1> DEFINE y == [x EXCEPT !.results = w]
<1>3. y = [kind |-> x.kind, org |-> x.org, step |-> x.step, results |-> w]
  BY <1>1
<1>4. [y EXCEPT !.step = v] = [kind |-> x.kind, org |-> x.org, step |-> v, results |-> w]
  <2> HIDE DEF y
  <2> QED
    BY <1>3
<1>5. [x EXCEPT !.results = w, !.step = v] = [y EXCEPT !.step = v]
  OBVIOUS
<1> QED
  BY <1>2, <1>4, <1>5 DEF IsSlot

\* Nothing has been opened or made, and no slot is at work.
LEMMA InitRuntime == RuntimeInit => RuntimeInv
<1> SUFFICES ASSUME RuntimeInit PROVE RuntimeInv
  OBVIOUS
<1>1. RuntimeTypeOK
  BY VacantSlot DEF RuntimeInit, RuntimeTypeOK
<1>2. OpenInv
  <2>1. \A s \in Slots, o \in RunOrgs : ~Opening(s, o)
    BY VacantSlot DEF RuntimeInit, Opening
  <2>2. ASSUME NEW o \in RunOrgs
        PROVE  ~(mcpOpened[o] > 0) /\ mcpOpened[o] <= 1
    <3>1. mcpOpened[o] = 0
      BY DEF RuntimeInit
    <3> QED
      BY <3>1
  <2> QED
    BY <2>1, <2>2 DEF OpenInv
<1>3. MakeInv
  BY VacantSlot DEF RuntimeInit, MakeInv, Making
<1> QED
  BY <1>1, <1>2, <1>3 DEF RuntimeInv

\* A step of slot s after which it neither opens nor makes anything, and that leaves
\* the singletons alone.
LEMMA QuietStep ==
  ASSUME RuntimeInv, NEW s \in Slots, NEW new, IsSlot(new),
         slot' = [slot EXCEPT ![s] = new], new.step \notin {"open", "make"},
         UNCHANGED <<mcpCache, mcpOpened, sandbox, sandboxes, overlapped>>
  PROVE  RuntimeInv'
<1> USE DEF RuntimeInv
<1>1. RuntimeTypeOK'
  BY DEF RuntimeTypeOK
<1>2. \A r \in Slots : r # s => slot'[r] = slot[r]
  BY DEF RuntimeTypeOK
<1>3. slot'[s] = new
  BY DEF RuntimeTypeOK
<1>4. OpenInv'
  BY <1>2, <1>3 DEF OpenInv, Opening
<1>5. MakeInv'
  BY <1>2, <1>3 DEF MakeInv, Making
<1> QED
  BY <1>1, <1>4, <1>5

\* A run is asked for: it opens the servers only if nothing has been opened, and alone
\* unless an overlap is recorded.
LEMMA AskRunStep ==
  ASSUME RuntimeInv, NEW s \in Slots, NEW o \in RunOrgs, AskRun(s, o)
  PROVE  RuntimeInv'
<1> USE DEF RuntimeInv
<1> DEFINE step == IF o \in mcpCache THEN "sandbox" ELSE "open"
<1>1. PICK new : IsSlot(new) /\ slot' = [slot EXCEPT ![s] = new] /\ new.step = step /\ new.org = o
  <2> DEFINE new == [kind |-> "run", org |-> o, results |-> <<>>, step |-> step]
  <2>1. IsSlot(new) /\ new.step = step /\ new.org = o
    BY DEF IsSlot
  <2>2. slot' = [slot EXCEPT ![s] = new]
    BY DEF AskRun
  <2> HIDE DEF new
  <2> QED
    BY <2>1, <2>2
<1>2. RuntimeTypeOK'
  BY <1>1 DEF AskRun, RuntimeTypeOK
<1>3. slot'[s] = new /\ \A r \in Slots : r # s => slot'[r] = slot[r]
  BY <1>1 DEF RuntimeTypeOK
<1>4. slot[s].step = "vacant"
  BY VacantSlot DEF AskRun
<1>5. MakeInv'
  <2>1. \A r \in Slots : Making(r)' <=> Making(r)
    BY <1>1, <1>3, <1>4 DEF Making
  <2> QED
    BY <2>1 DEF AskRun, MakeInv
<1>6. OpenInv'
  <2>1. ASSUME NEW p \in RunOrgs, p # o
        PROVE  \A r \in Slots : Opening(r, p)' <=> Opening(r, p)
    BY <2>1, <1>1, <1>3, <1>4 DEF Opening
  <2>2. CASE o \in mcpCache
    <3>1. \A r \in Slots, p \in RunOrgs : Opening(r, p)' <=> Opening(r, p)
      BY <2>2, <1>1, <1>3, <1>4 DEF Opening
    <3> QED
      BY <2>2, <3>1 DEF AskRun, OpenInv
  <2>3. CASE o \notin mcpCache
    <3>1. mcpOpened[o] = 0
      BY <2>3 DEF OpenInv, RuntimeTypeOK
    <3>2. o \notin overlapped' => \A r \in Slots : r # s => ~Opening(r, o)'
      BY <2>3, <1>3 DEF AskRun, Opening
    <3> QED
      BY <2>1, <2>3, <3>1, <3>2 DEF AskRun, OpenInv
  <2> QED
    BY <2>2, <2>3
<1> QED
  BY <1>2, <1>5, <1>6

\* The servers are open: they were not before, unless an overlap is recorded.
LEMMA OpenedStep ==
  ASSUME RuntimeInv, NEW s \in Slots, Opened(s, TRUE)
  PROVE  RuntimeInv'
<1> USE DEF RuntimeInv
<1> DEFINE o == slot[s].org
<1>1. IsSlot(slot[s]) /\ slot[s].step = "open"
  BY DEF Opened, RuntimeTypeOK
<1>2. /\ slot' = [slot EXCEPT ![s].step = "sandbox"]
      /\ mcpCache' = mcpCache \cup {o} /\ mcpOpened' = [mcpOpened EXCEPT ![o] = @ + 1]
      /\ UNCHANGED <<sandbox, sandboxes, overlapped>>
  BY DEF Opened, Takes
<1>3. slot'[s] = [slot[s] EXCEPT !.step = "sandbox"] /\ \A r \in Slots : r # s => slot'[r] = slot[r]
  BY <1>2 DEF RuntimeTypeOK
<1>4. IsSlot(slot'[s]) /\ slot'[s].step = "sandbox"
  BY <1>1, <1>3 DEF IsSlot
<1>5. RuntimeTypeOK'
  <2>1. mcpOpened' \in [RunOrgs -> Nat]
    <3>1. CASE o \in RunOrgs
      BY <1>2, <3>1 DEF RuntimeTypeOK
    <3>2. CASE o \notin RunOrgs
      BY <1>2, <3>2 DEF RuntimeTypeOK
    <3> QED
      BY <3>1, <3>2
  <2>2. \A r \in Slots : IsSlot(slot'[r])
    BY <1>3, <1>4 DEF RuntimeTypeOK
  <2> QED
    BY <1>2, <2>1, <2>2 DEF RuntimeTypeOK
<1>6. MakeInv'
  <2>1. \A r \in Slots : Making(r)' <=> Making(r)
    BY <1>1, <1>3, <1>4 DEF Making
  <2> QED
    BY <2>1, <1>2 DEF MakeInv
<1>7. \A r \in Slots, p \in RunOrgs : Opening(r, p)' <=> Opening(r, p) /\ r # s
  BY <1>3, <1>4 DEF Opening
<1>8. \A p \in RunOrgs : mcpOpened'[p] = IF p = o THEN mcpOpened[p] + 1 ELSE mcpOpened[p]
  BY <1>2 DEF RuntimeTypeOK
<1>9. \A p \in RunOrgs : p = o => Opening(s, p)
  BY <1>1 DEF Opening
<1>10. OpenInv'
  <2> SUFFICES ASSUME NEW p \in RunOrgs
               PROVE  /\ mcpOpened'[p] > 0 => p \in mcpCache'
                      /\ p \notin overlapped' =>
                            /\ mcpOpened'[p] <= 1
                            /\ \A r \in Slots : Opening(r, p)' => mcpOpened'[p] = 0
                            /\ \A r, q \in Slots : Opening(r, p)' /\ Opening(q, p)' => r = q
    BY DEF OpenInv
  <2>1. CASE p = o
    BY <2>1, <1>2, <1>7, <1>8, <1>9 DEF OpenInv
  <2>2. CASE p # o
    BY <2>2, <1>2, <1>7, <1>8 DEF OpenInv
  <2> QED
    BY <2>1, <2>2
<1> QED
  BY <1>5, <1>6, <1>10

\* A request looks for the sandbox: it makes one only if there is none, and alone
\* unless an overlap is recorded.
LEMMA LookStep ==
  ASSUME RuntimeInv, NEW s \in Slots, SandboxLook(s)
  PROVE  RuntimeInv'
<1> USE DEF RuntimeInv
<1>1. IsSlot(slot[s]) /\ slot[s].step = "sandbox"
  BY DEF SandboxLook, RuntimeTypeOK
<1>2. PICK step \in {"prepare", "jobs", "make"} :
        slot' = [slot EXCEPT ![s].step = step] /\ (step = "make" <=> sandbox = 0)
  BY DEF SandboxLook, Takes, Onward
<1>3. slot'[s] = [slot[s] EXCEPT !.step = step] /\ \A r \in Slots : r # s => slot'[r] = slot[r]
  BY <1>2 DEF RuntimeTypeOK
<1>4. IsSlot(slot'[s]) /\ slot'[s].step = step
  BY <1>1, <1>3 DEF IsSlot
<1>5. RuntimeTypeOK'
  BY <1>2, <1>3, <1>4 DEF SandboxLook, RuntimeTypeOK
<1>6. OpenInv'
  <2>1. \A r \in Slots, o \in RunOrgs : Opening(r, o)' <=> Opening(r, o)
    BY <1>1, <1>3, <1>4 DEF Opening
  <2> QED
    BY <2>1 DEF SandboxLook, OpenInv
<1>7. MakeInv'
  <2>1. CASE sandbox # 0
    <3>1. \A r \in Slots : Making(r)' <=> Making(r)
      BY <2>1, <1>1, <1>2, <1>3, <1>4 DEF Making
    <3> QED
      BY <2>1, <3>1 DEF SandboxLook, MakeInv
  <2>2. CASE sandbox = 0
    <3>1. sandboxes = 0
      BY <2>2 DEF MakeInv, RuntimeTypeOK
    <3>2. "sandbox" \notin overlapped' => \A r \in Slots : r # s => ~Making(r)'
      BY <2>2, <1>3 DEF SandboxLook, Making
    <3> QED
      BY <2>2, <3>1, <3>2 DEF SandboxLook, MakeInv
  <2> QED
    BY <2>1, <2>2
<1> QED
  BY <1>5, <1>6, <1>7

\* A sandbox is made: there was none before, unless an overlap is recorded.
LEMMA MadeStep ==
  ASSUME RuntimeInv, NEW s \in Slots, SandboxMade(s, TRUE)
  PROVE  RuntimeInv'
<1> USE DEF RuntimeInv
<1>1. IsSlot(slot[s]) /\ Making(s)
  BY DEF SandboxMade, RuntimeTypeOK, Making
<1>2. PICK step \in {"prepare", "jobs"} : slot' = [slot EXCEPT ![s].step = step]
  BY DEF SandboxMade, Takes, Onward
<1>3. slot'[s] = [slot[s] EXCEPT !.step = step] /\ \A r \in Slots : r # s => slot'[r] = slot[r]
  BY <1>2 DEF RuntimeTypeOK
<1>4. IsSlot(slot'[s]) /\ slot'[s].step = step
  BY <1>1, <1>3 DEF IsSlot
<1>5. sandboxes' = sandboxes + 1 /\ sandbox' = sandboxes + 1
      /\ UNCHANGED <<mcpCache, mcpOpened, overlapped>>
  BY DEF SandboxMade
<1>6. RuntimeTypeOK'
  BY <1>3, <1>4, <1>5, <1>2 DEF RuntimeTypeOK
<1>7. OpenInv'
  <2>1. \A r \in Slots, o \in RunOrgs : Opening(r, o)' <=> Opening(r, o)
    BY <1>1, <1>3, <1>4 DEF Opening, Making
  <2> QED
    BY <2>1, <1>5 DEF OpenInv
<1>8. \A r \in Slots : Making(r)' <=> Making(r) /\ r # s
  BY <1>3, <1>4 DEF Making
<1>9. MakeInv'
  BY <1>1, <1>5, <1>8 DEF MakeInv, RuntimeTypeOK
<1> QED
  BY <1>6, <1>7, <1>9

\* Every step keeps the invariant.
LEMMA NextRuntime == RuntimeInv /\ [RuntimeNext]_runtimeVars => RuntimeInv'
<1> SUFFICES ASSUME RuntimeInv, [RuntimeNext]_runtimeVars PROVE RuntimeInv'
  OBVIOUS
<1> USE DEF RuntimeInv
<1>1. \A s \in Slots : IsSlot(slot[s])
  BY DEF RuntimeTypeOK
<1>2. ASSUME NEW s \in Slots, NEW o \in RunOrgs, AskJobs(s, o) PROVE RuntimeInv'
  <2> DEFINE new == [kind |-> "jobs", org |-> o, step |-> "sandbox", results |-> <<>>]
  <2>1. IsSlot(new) /\ new.step = "sandbox"
    BY DEF IsSlot
  <2>2. slot' = [slot EXCEPT ![s] = new] /\ UNCHANGED <<mcpCache, mcpOpened, sandbox, sandboxes, overlapped>>
    BY <1>2 DEF AskJobs
  <2> HIDE DEF new
  <2> QED
    BY <2>1, <2>2, QuietStep
<1>3. ASSUME NEW s \in Slots, NEW to \in {"prepare", "jobs", "agent"}, Takes(s, to),
             UNCHANGED <<mcpCache, mcpOpened, sandbox, sandboxes, overlapped>>
      PROVE  RuntimeInv'
  <2> DEFINE new == [slot[s] EXCEPT !.step = to]
  <2>1. IsSlot(new) /\ new.step = to
    BY <1>1, SlotExcept
  <2>2. slot' = [slot EXCEPT ![s] = new]
    BY <1>3 DEF Takes
  <2> HIDE DEF new
  <2> QED
    BY <1>3, <2>1, <2>2, QuietStep
<1>4. ASSUME NEW s \in Slots, Ended(s),
             UNCHANGED <<mcpCache, mcpOpened, sandbox, sandboxes, overlapped>>
      PROVE  RuntimeInv'
  BY <1>4, VacantSlot, QuietStep DEF Ended
<1>5. ASSUME NEW s \in Slots, NEW status \in {"ok", "failed", "timeout", "skipped"}, RunJob(s, status)
      PROVE  RuntimeInv'
  <2>1. PICK to \in {"jobs", "agent"} :
          slot' = [slot EXCEPT ![s].results = Append(@, status), ![s].step = to]
    BY <1>5 DEF RunJob
  <2> DEFINE new == [slot[s] EXCEPT !.results = Append(@, status), !.step = to]
  <2>2. IsSlot(new) /\ new.step = to
    BY <1>1, SlotExcept
  <2>3. slot' = [slot EXCEPT ![s] = new]
    BY <2>1 DEF RuntimeTypeOK
  <2> QED
    BY <1>5, <2>2, <2>3, QuietStep DEF RunJob
<1>6. ASSUME NEW s \in Slots, NEW ok \in BOOLEAN, Opened(s, ok) \/ SandboxMade(s, ok) \/ Prepare(s, ok)
      PROVE  RuntimeInv'
  <2>1. CASE Opened(s, ok)
    BY <2>1, <1>4, OpenedStep DEF Opened
  <2>2. CASE SandboxMade(s, ok)
    BY <2>2, <1>4, MadeStep DEF SandboxMade
  <2>3. CASE Prepare(s, ok)
    BY <2>3, <1>3 DEF Prepare
  <2> QED
    BY <1>6, <2>1, <2>2, <2>3
<1>7. ASSUME NEW s \in Slots, Serve(s) PROVE RuntimeInv'
  BY <1>4, <1>7 DEF Serve
<1>8. CASE UNCHANGED runtimeVars
  BY <1>8 DEF runtimeVars, RuntimeTypeOK, OpenInv, Opening, MakeInv, Making
<1> QED
  BY <1>2, <1>5, <1>6, <1>7, <1>8, AskRunStep, LookStep DEF RuntimeNext

\* The inductive invariant of the process: types, and who opens and makes what.
THEOREM RuntimeInvCorrect == RuntimeSpec => []RuntimeInv
<1> QED
  BY InitRuntime, NextRuntime, PTL DEF RuntimeSpec

\* OncePerProcess: an org's servers, and the sandbox, are made once unless their
\* first uses overlapped (upstream.py:94-112, exec.py:113-124).
THEOREM OnceCorrect == RuntimeSpec => []OncePerProcess
<1>1. RuntimeInv => OncePerProcess
  BY DEF RuntimeInv, RuntimeTypeOK, OpenInv, MakeInv, OncePerProcess
<1> QED
  BY <1>1, RuntimeInvCorrect, PTL

-----------------------------------------------------------------------------
(***************************************************************************)
(* ThreadRows, for any threads, one-shot runs and numbers of crashes: rows *)
(* of the checkpointer are left without the row of their thread only by a  *)
(* run or a crash in the middle of the deletion.                           *)
(***************************************************************************)

Row == {"pux_threads", "checkpoints", "writes"}

RowsTypeOK ==
    /\ stored \in [ThreadIds -> SUBSET Row]
    /\ undone \subseteq ThreadIds \X Row
    /\ removing \in [ThreadIds -> (0 - 1)..3]
    /\ direct \in [Directs -> [thread : ThreadIds \cup {"none"}, step : {"new", "open", "run", "over"}]]

\* What is not committed belongs to a deletion at work.
UndoneInv == \A t \in ThreadIds, b \in Row : <<t, b>> \in undone => removing[t] >= 0

\* A deletion at work is alone with its thread, and has emptied the tables it has come
\* to; otherwise the row of the thread is there with the others, and as long as
\* somebody runs the thread.
KeptInv(t) ==
    t \notin written /\ t \notin cutOff =>
        /\ removing[t] >= 0 => ~Running(t) /\ \A i \in 1..3 : i <= removing[t] => Tables[i] \notin Seen(t)
        /\ removing[t] < 0 /\ stored[t] # {} => "pux_threads" \in stored[t]
        /\ t \in turn => "pux_threads" \in stored[t]
        /\ \A d \in Directs : direct[d].thread = t /\ direct[d].step = "run" => "pux_threads" \in stored[t]

\* The inductive invariant.
RowsInv == RowsTypeOK /\ UndoneInv /\ \A t \in ThreadIds : KeptInv(t)

\* There is nothing at first.
LEMMA InitRows == RowsInit => RowsInv
<1> SUFFICES ASSUME RowsInit PROVE RowsInv
  OBVIOUS
<1>1. RowsTypeOK
  BY DEF RowsInit, RowsTypeOK
<1>2. UndoneInv
  BY DEF RowsInit, UndoneInv
<1>3. ASSUME NEW t \in ThreadIds PROVE KeptInv(t)
  <2>1. stored[t] = {} /\ removing[t] = 0 - 1 /\ t \notin turn /\ \A d \in Directs : direct[d].step = "new"
    BY DEF RowsInit
  <2> QED
    BY <2>1 DEF KeptInv
<1> QED
  BY <1>1, <1>2, <1>3 DEF RowsInv

\* What no deletion is at work on, the shared connection sees as it is stored.
LEMMA SeenIsStored ==
  ASSUME RowsInv, NEW t \in ThreadIds, removing[t] < 0
  PROVE  Seen(t) = stored[t]
<1>1. stored[t] \subseteq Row /\ removing[t] \in Int
  BY DEF RowsInv, RowsTypeOK
<1>2. \A b \in Row : <<t, b>> \notin undone
  BY <1>1 DEF RowsInv, UndoneInv
<1> QED
  BY <1>1, <1>2 DEF Seen

\* After a commit everything is stored as it was seen, with the new rows.
LEMMA AfterCommit ==
  ASSUME RowsInv, NEW t \in ThreadIds, NEW rows \in SUBSET Row, Commit(t, rows)
  PROVE  /\ stored' \in [ThreadIds -> SUBSET Row] /\ undone' = {}
         /\ \A u \in ThreadIds : stored'[u] = Seen(u) \cup (IF u = t THEN rows ELSE {}) /\ Seen(u)' = stored'[u]
<1>1. \A u \in ThreadIds : Seen(u) \subseteq Row
  BY DEF RowsInv, RowsTypeOK, Seen
<1>2. undone' = {} /\ stored' \in [ThreadIds -> SUBSET Row]
  BY <1>1 DEF Commit
<1>3. \A u \in ThreadIds : stored'[u] = Seen(u) \cup (IF u = t THEN rows ELSE {})
  BY DEF Commit
<1>4. ASSUME NEW u \in ThreadIds PROVE Seen(u)' = stored'[u]
  BY <1>2 DEF Seen
<1> QED
  BY <1>2, <1>3, <1>4

\* A commit disturbs no thread to which it adds no row.
LEMMA CommitKeeps ==
  ASSUME RowsInv, NEW t \in ThreadIds, NEW rows \in SUBSET Row, Commit(t, rows),
         NEW u \in ThreadIds, u # t \/ rows = {},
         removing'[u] = removing[u], turn' \subseteq turn \/ (u # t /\ turn' \subseteq turn \cup {t}),
         direct' = direct, written \subseteq written', cutOff \subseteq cutOff'
  PROVE  KeptInv(u)'
<1> SUFFICES ASSUME u \notin written', u \notin cutOff' PROVE KeptInv(u)'
  BY DEF KeptInv
<1>1. KeptInv(u) /\ u \notin written /\ u \notin cutOff
  BY DEF RowsInv
<1>2. stored'[u] = Seen(u) /\ Seen(u)' = Seen(u)
  <2>1. stored'[u] = Seen(u) \cup (IF u = t THEN rows ELSE {}) /\ Seen(u)' = stored'[u]
    BY AfterCommit
  <2>2. (IF u = t THEN rows ELSE {}) = {}
    OBVIOUS
  <2> QED
    BY <2>1, <2>2
<1>3. u \in turn' => u \in turn
  OBVIOUS
<1>4. CASE removing[u] >= 0
  <2>1. ~Running(u) /\ \A i \in 1..3 : i <= removing[u] => Tables[i] \notin Seen(u)
    BY <1>1, <1>4 DEF KeptInv
  <2>2. ~Running(u)'
    BY <2>1, <1>3 DEF Running
  <2>3. \A d \in Directs : ~(direct[d].thread = u /\ direct[d].step = "run")
    BY <2>1 DEF Running
  <2>4. u \notin turn'
    BY <2>2 DEF Running
  <2>5. ~(removing[u] < 0)
    BY <1>4 DEF RowsInv, RowsTypeOK
  <2> QED
    BY <2>1, <2>2, <2>3, <2>4, <2>5, <1>2 DEF KeptInv
<1>5. CASE removing[u] < 0
  <2>1. Seen(u) = stored[u]
    BY <1>5, SeenIsStored
  <2>2. ~(removing[u] >= 0)
    BY <1>5 DEF RowsInv, RowsTypeOK
  <2> QED
    BY <2>1, <2>2, <1>1, <1>2, <1>3, <1>5 DEF KeptInv
<1> QED
  BY <1>4, <1>5 DEF RowsInv, RowsTypeOK

\* The types, after a commit that leaves the deletions alone.
LEMMA CommitTypes ==
  ASSUME RowsInv, NEW t \in ThreadIds, NEW rows \in SUBSET Row, Commit(t, rows), direct' = direct,
         removing' \in [ThreadIds -> (0 - 1)..3]
  PROVE  RowsTypeOK' /\ UndoneInv'
<1>1. RowsTypeOK'
  BY AfterCommit DEF RowsInv, RowsTypeOK
<1>2. UndoneInv'
  BY AfterCommit DEF UndoneInv
<1> QED
  BY <1>1, <1>2

\* A new session: its row is inserted.
LEMMA RegisterStep ==
  ASSUME RowsInv, NEW t \in ThreadIds, Register(t)
  PROVE  RowsInv'
<1>1. Commit(t, {"pux_threads"}) /\ {"pux_threads"} \in SUBSET Row
  BY DEF Register, Row
<1>2. ASSUME NEW u \in ThreadIds, u # t PROVE KeptInv(u)'
  BY <1>1, <1>2, CommitKeeps DEF Register
<1>3. KeptInv(t)'
  <2>1. "pux_threads" \in stored'[t]
    BY <1>1, AfterCommit
  <2>2. ~(removing[t] >= 0)
    BY DEF Register, RowsInv, RowsTypeOK
  <2> QED
    BY <2>1, <2>2 DEF Register, KeptInv
<1>4. RowsTypeOK' /\ UndoneInv'
  BY <1>1, CommitTypes DEF Register, RowsInv, RowsTypeOK
<1> QED
  BY <1>2, <1>3, <1>4 DEF RowsInv

\* A turn begins with its row, or the thread is excused from then on; a title that
\* is merged is committed with everything else.
LEMMA BeginTurnStep ==
  ASSUME RowsInv, NEW t \in ThreadIds, BeginTurn(t)
  PROVE  RowsInv'
<1>1. removing' = removing /\ direct' = direct /\ cutOff' = cutOff /\ turn' = turn \cup {t}
  BY DEF BeginTurn
<1>2. CASE Commit(t, {})
  <2>1. ASSUME NEW u \in ThreadIds, u # t PROVE KeptInv(u)'
    BY <1>1, <1>2, <2>1, CommitKeeps DEF BeginTurn
  <2>2. KeptInv(t)'
    <3>1. CASE removing[t] >= 0 \/ "pux_threads" \notin Seen(t)
      BY <3>1 DEF BeginTurn, KeptInv
    <3>2. CASE ~(removing[t] >= 0 \/ "pux_threads" \notin Seen(t))
      <4>1. "pux_threads" \in stored'[t]
        BY <1>2, <3>2, AfterCommit
      <4> QED
        BY <1>1, <3>2, <4>1 DEF KeptInv
    <3> QED
      BY <3>1, <3>2
  <2>3. RowsTypeOK' /\ UndoneInv'
    BY <1>1, <1>2, CommitTypes DEF RowsInv, RowsTypeOK
  <2> QED
    BY <2>1, <2>2, <2>3 DEF RowsInv
<1>3. CASE UNCHANGED <<stored, undone>>
  <2>1. RowsTypeOK' /\ UndoneInv'
    BY <1>1, <1>3 DEF RowsInv, RowsTypeOK, UndoneInv
  <2>2. ASSUME NEW u \in ThreadIds PROVE KeptInv(u)'
    <3> SUFFICES ASSUME u \notin written', u \notin cutOff' PROVE KeptInv(u)'
      BY DEF KeptInv
    <3>1. KeptInv(u) /\ u \notin written /\ u \notin cutOff /\ Seen(u)' = Seen(u)
      BY <1>1, <1>3 DEF BeginTurn, RowsInv, Seen
    <3>2. u = t => ~(removing[t] >= 0) /\ "pux_threads" \in stored[t]
      BY DEF BeginTurn, Seen
    <3>3. u # t => (Running(u)' <=> Running(u)) /\ (u \in turn' <=> u \in turn)
      BY <1>1 DEF Running
    <3> QED
      BY <1>1, <1>3, <3>1, <3>2, <3>3 DEF KeptInv
  <2> QED
    BY <2>1, <2>2 DEF RowsInv
<1> QED
  BY <1>2, <1>3 DEF BeginTurn

\* A step of a turn is saved: the row is there too, if no deletion is at work.
LEMMA SaveStepStep ==
  ASSUME RowsInv, NEW t \in ThreadIds, SaveStep(t)
  PROVE  RowsInv'
<1>1. Commit(t, Checkpointed) /\ Checkpointed \in SUBSET Row
  BY DEF SaveStep, Checkpointed, Row
<1>2. ASSUME NEW u \in ThreadIds, u # t PROVE KeptInv(u)'
  BY <1>1, <1>2, CommitKeeps DEF SaveStep
<1>3. KeptInv(t)'
  <2> SUFFICES ASSUME t \notin written', t \notin cutOff' PROVE KeptInv(t)'
    BY DEF KeptInv
  <2>1. KeptInv(t) /\ t \notin written /\ t \notin cutOff /\ t \in turn
    BY DEF RowsInv, SaveStep
  <2>2. ~(removing[t] >= 0) /\ "pux_threads" \in stored[t]
    BY <2>1 DEF KeptInv, Running
  <2>3. removing[t] < 0
    BY <2>2 DEF RowsInv, RowsTypeOK
  <2>4. "pux_threads" \in stored'[t]
    BY <1>1, <2>2, <2>3, AfterCommit, SeenIsStored
  <2> QED
    BY <2>2, <2>4 DEF SaveStep, KeptInv
<1>4. RowsTypeOK' /\ UndoneInv'
  BY <1>1, CommitTypes DEF SaveStep, RowsInv, RowsTypeOK
<1> QED
  BY <1>2, <1>3, <1>4 DEF RowsInv

\* A deletion ends: it has emptied all the tables, unless somebody ran the thread.
LEMMA EndDeleteStep ==
  ASSUME RowsInv, NEW t \in ThreadIds, EndDelete(t)
  PROVE  RowsInv'
<1>1. Commit(t, {}) /\ removing' = [removing EXCEPT ![t] = 0 - 1] /\ removing[t] = 3
  BY DEF EndDelete
<1>2. removing' \in [ThreadIds -> (0 - 1)..3] /\ removing'[t] = 0 - 1
      /\ \A u \in ThreadIds : u # t => removing'[u] = removing[u]
  BY <1>1 DEF RowsInv, RowsTypeOK
<1>3. ASSUME NEW u \in ThreadIds, u # t PROVE KeptInv(u)'
  BY <1>1, <1>2, <1>3, CommitKeeps DEF EndDelete
<1>4. KeptInv(t)'
  <2> SUFFICES ASSUME t \notin written', t \notin cutOff' PROVE KeptInv(t)'
    BY DEF KeptInv
  <2>1. ~Running(t) /\ \A i \in 1..3 : i <= removing[t] => Tables[i] \notin Seen(t)
    BY <1>1 DEF EndDelete, RowsInv, KeptInv
  <2>2. Tables[1] \notin Seen(t) /\ Tables[2] \notin Seen(t) /\ Tables[3] \notin Seen(t)
    BY <1>1, <2>1
  <2>3. Seen(t) \subseteq Row
    BY DEF Seen, RowsInv, RowsTypeOK
  <2>4. Seen(t) = {}
    BY <2>2, <2>3 DEF Tables, Row
  <2>5. stored'[t] = {}
    BY <1>1, <2>4, AfterCommit
  <2>6. t \notin turn' /\ \A d \in Directs : ~(direct'[d].thread = t /\ direct'[d].step = "run")
    BY <2>1 DEF EndDelete, Running
  <2>7. ~(removing'[t] >= 0)
    BY <1>2
  <2> QED
    BY <2>5, <2>6, <2>7 DEF KeptInv
<1>5. RowsTypeOK' /\ UndoneInv'
  BY <1>1, <1>2, CommitTypes DEF EndDelete
<1> QED
  BY <1>3, <1>4, <1>5 DEF RowsInv

\* A deletion begins, alone with its thread or not.
LEMMA BeginDeleteStep ==
  ASSUME RowsInv, NEW t \in ThreadIds, BeginDelete(t)
  PROVE  RowsInv'
<1>1. removing' \in [ThreadIds -> (0 - 1)..3] /\ removing'[t] = 0
      /\ \A u \in ThreadIds : u # t => removing'[u] = removing[u]
  BY DEF BeginDelete, RowsInv, RowsTypeOK
<1>2. RowsTypeOK'
  BY <1>1 DEF BeginDelete, RowsInv, RowsTypeOK
<1>3. UndoneInv'
  BY <1>1 DEF BeginDelete, RowsInv, UndoneInv
<1>4. ASSUME NEW u \in ThreadIds PROVE KeptInv(u)'
  <2>1. Seen(u)' = Seen(u) /\ Running(u)' = Running(u)
    BY DEF BeginDelete, Seen, Running
  <2>2. CASE u = t
    <3> SUFFICES ASSUME t \notin written', t \notin cutOff' PROVE KeptInv(t)'
      BY <2>2 DEF KeptInv
    <3>1. ~Running(t)' /\ t \notin turn' /\ \A d \in Directs : ~(direct'[d].thread = t /\ direct'[d].step = "run")
      BY DEF BeginDelete, Running
    <3>2. \A i \in 1..3 : ~(i <= removing'[t])
      BY <1>1
    <3>3. ~(removing'[t] < 0)
      BY <1>1
    <3> QED
      BY <3>1, <3>2, <3>3 DEF KeptInv
  <2>3. CASE u # t
    BY <2>1, <2>3, <1>1 DEF BeginDelete, RowsInv, KeptInv
  <2> QED
    BY <2>2, <2>3
<1> QED
  BY <1>2, <1>3, <1>4 DEF RowsInv

\* One more table is empty, as the shared connection sees it.
LEMMA DeleteFromStep ==
  ASSUME RowsInv, NEW t \in ThreadIds, DeleteFrom(t)
  PROVE  RowsInv'
<1> DEFINE k == removing[t]
<1>1. k \in 0..2 /\ Tables[k + 1] \in Row
  BY DEF DeleteFrom, Tables, Row
<1>2. removing' \in [ThreadIds -> (0 - 1)..3] /\ removing'[t] = k + 1
      /\ \A u \in ThreadIds : u # t => removing'[u] = removing[u]
  BY <1>1 DEF DeleteFrom, RowsInv, RowsTypeOK
<1>3. undone' = undone \cup {<<t, Tables[k + 1]>>} /\ UNCHANGED <<stored, turn, direct, written, cutOff>>
  BY DEF DeleteFrom
<1>4. RowsTypeOK'
  BY <1>1, <1>2, <1>3 DEF RowsInv, RowsTypeOK
<1>5. UndoneInv'
  <2> SUFFICES ASSUME NEW u \in ThreadIds, NEW b \in Row, <<u, b>> \in undone' PROVE removing'[u] >= 0
    BY DEF UndoneInv
  <2>1. CASE u = t
    BY <2>1, <1>1, <1>2
  <2>2. CASE u # t
    BY <2>2, <1>2, <1>3 DEF RowsInv, UndoneInv
  <2> QED
    BY <2>1, <2>2
<1>6. ASSUME NEW u \in ThreadIds, u # t PROVE KeptInv(u)'
  <2>1. Seen(u)' = Seen(u) /\ Running(u)' = Running(u)
    BY <1>3, <1>6 DEF Seen, Running
  <2> QED
    BY <2>1, <1>2, <1>3, <1>6 DEF RowsInv, KeptInv
<1>7. KeptInv(t)'
  <2> SUFFICES ASSUME t \notin written', t \notin cutOff' PROVE KeptInv(t)'
    BY DEF KeptInv
  <2>1. ~Running(t) /\ \A i \in 1..3 : i <= k => Tables[i] \notin Seen(t)
    BY <1>1, <1>3 DEF RowsInv, KeptInv
  <2>2. Seen(t)' \subseteq Seen(t) /\ Tables[k + 1] \notin Seen(t)'
    BY <1>3 DEF Seen
  <2>3. \A i \in 1..3 : i <= k + 1 => Tables[i] \notin Seen(t)'
    <3> SUFFICES ASSUME NEW i \in 1..3, i <= k + 1 PROVE Tables[i] \notin Seen(t)'
      OBVIOUS
    <3>1. CASE i = k + 1
      BY <3>1, <2>2
    <3>2. CASE i # k + 1
      BY <3>2, <1>1, <2>1, <2>2
    <3> QED
      BY <3>1, <3>2
  <2>4. ~Running(t)' /\ t \notin turn' /\ \A d \in Directs : ~(direct'[d].thread = t /\ direct'[d].step = "run")
    BY <2>1, <1>3 DEF Running
  <2>5. ~(removing'[t] < 0)
    BY <1>1, <1>2
  <2> QED
    BY <1>2, <2>3, <2>4, <2>5 DEF KeptInv
<1> QED
  BY <1>4, <1>5, <1>6, <1>7 DEF RowsInv

\* The server dies: what its deletions had in hand is marked as cut off.
LEMMA RebootStep ==
  ASSUME RowsInv, Reboot
  PROVE  RowsInv'
<1>1. RowsTypeOK'
  BY DEF Reboot, RowsInv, RowsTypeOK
<1>2. UndoneInv'
  BY DEF Reboot, UndoneInv
<1>3. ASSUME NEW u \in ThreadIds PROVE KeptInv(u)'
  <2> SUFFICES ASSUME u \notin written', u \notin cutOff' PROVE KeptInv(u)'
    BY DEF KeptInv
  <2>1. u \notin written /\ u \notin cutOff /\ ~(removing[u] >= 0)
    BY DEF Reboot
  <2>2. removing[u] < 0
    BY <2>1 DEF RowsInv, RowsTypeOK
  <2>3. removing'[u] = 0 - 1 /\ stored'[u] = stored[u] /\ turn' = {} /\ direct' = direct
    BY DEF Reboot
  <2>4. ~(removing'[u] >= 0)
    BY <2>3
  <2> QED
    BY <2>1, <2>2, <2>3, <2>4 DEF RowsInv, KeptInv
<1> QED
  BY <1>1, <1>2, <1>3 DEF RowsInv

\* A turn ends.
LEMMA EndTurnStep ==
  ASSUME RowsInv, NEW t \in ThreadIds, EndTurn(t)
  PROVE  RowsInv'
<1>1. RowsTypeOK' /\ UndoneInv'
  BY DEF EndTurn, RowsInv, RowsTypeOK, UndoneInv
<1>2. ASSUME NEW u \in ThreadIds PROVE KeptInv(u)'
  <2>1. Seen(u)' = Seen(u) /\ (Running(u)' => Running(u)) /\ turn' \subseteq turn
    BY DEF EndTurn, Seen, Running
  <2> QED
    BY <2>1 DEF EndTurn, RowsInv, KeptInv
<1> QED
  BY <1>1, <1>2 DEF RowsInv

\* What a one-shot run does to its own entry.
LEMMA DirectTypes ==
  ASSUME RowsInv, NEW d \in Directs, NEW e \in [thread : ThreadIds \cup {"none"}, step : {"new", "open", "run", "over"}],
         direct' = [direct EXCEPT ![d] = e]
  PROVE  /\ direct' \in [Directs -> [thread : ThreadIds \cup {"none"}, step : {"new", "open", "run", "over"}]]
         /\ direct'[d] = e /\ \A f \in Directs : f # d => direct'[f] = direct[f]
  BY DEF RowsInv, RowsTypeOK

\* A one-shot run begins: a deletion at work is marked.
LEMMA StartDirectStep ==
  ASSUME RowsInv, NEW d \in Directs, NEW t \in ThreadIds, StartDirect(d, t)
  PROVE  RowsInv'
<1>1. /\ direct' \in [Directs -> [thread : ThreadIds \cup {"none"}, step : {"new", "open", "run", "over"}]]
      /\ direct'[d] = [thread |-> t, step |-> "open"] /\ \A f \in Directs : f # d => direct'[f] = direct[f]
  BY DirectTypes DEF StartDirect
<1>2. RowsTypeOK' /\ UndoneInv'
  BY <1>1 DEF StartDirect, RowsInv, RowsTypeOK, UndoneInv
<1>3. ASSUME NEW u \in ThreadIds PROVE KeptInv(u)'
  <2> SUFFICES ASSUME u \notin written', u \notin cutOff' PROVE KeptInv(u)'
    BY DEF KeptInv
  <2>1. KeptInv(u) /\ u \notin written /\ u \notin cutOff /\ (u = t => ~(removing[u] >= 0))
    BY DEF StartDirect, RowsInv
  <2>2. \A f \in Directs : direct'[f].thread = u /\ direct'[f].step = "run"
                              => direct[f].thread = u /\ direct[f].step = "run"
    BY <1>1
  <2>3. u # t => (Running(u)' => Running(u))
    BY <1>1 DEF StartDirect, Running
  <2>4. Seen(u)' = Seen(u)
    BY DEF StartDirect, Seen
  <2> QED
    BY <2>1, <2>2, <2>3, <2>4 DEF StartDirect, KeptInv
<1> QED
  BY <1>2, <1>3 DEF RowsInv

\* A one-shot run inserts the row of its thread.
LEMMA DirectRegistersStep ==
  ASSUME RowsInv, NEW d \in Directs, DirectRegisters(d)
  PROVE  RowsInv'
<1> DEFINE t == direct[d].thread
<1>1. direct[d] \in [thread : ThreadIds \cup {"none"}, step : {"new", "open", "run", "over"}]
  BY DEF RowsInv, RowsTypeOK
<1>2. /\ direct' \in [Directs -> [thread : ThreadIds \cup {"none"}, step : {"new", "open", "run", "over"}]]
      /\ direct'[d] = [direct[d] EXCEPT !.step = "run"] /\ \A f \in Directs : f # d => direct'[f] = direct[f]
  BY DEF DirectRegisters, RowsInv, RowsTypeOK
<1>3. direct'[d].thread = t /\ direct'[d].step = "run" /\ direct[d].step = "open"
  BY <1>1, <1>2 DEF DirectRegisters
<1>4. stored' = [stored EXCEPT ![t] = @ \cup {"pux_threads"}]
      /\ UNCHANGED <<undone, removing, turn, written, cutOff>> /\ undone = {}
  BY DEF DirectRegisters
<1>5. stored' \in [ThreadIds -> SUBSET Row]
      /\ \A u \in ThreadIds : stored'[u] = IF u = t THEN stored[u] \cup {"pux_threads"} ELSE stored[u]
  BY <1>4 DEF RowsInv, RowsTypeOK, Row
<1>6. RowsTypeOK' /\ UndoneInv'
  BY <1>2, <1>4, <1>5 DEF RowsInv, RowsTypeOK, UndoneInv
<1>7. ASSUME NEW u \in ThreadIds PROVE KeptInv(u)'
  <2> SUFFICES ASSUME u \notin written', u \notin cutOff' PROVE KeptInv(u)'
    BY DEF KeptInv
  <2>1. KeptInv(u)
    BY DEF RowsInv
  <2>2. Running(u)' <=> Running(u)
    BY <1>2, <1>3, <1>4 DEF Running
  <2>3. CASE u = t
    <3>1. "pux_threads" \in stored'[u]
      BY <2>3, <1>5
    <3>2. Running(u)
      BY <2>3, <1>3 DEF Running
    <3>3. ~(removing[u] >= 0)
      BY <2>1, <3>2, <1>4 DEF KeptInv
    <3> QED
      BY <3>1, <3>3, <1>4 DEF KeptInv
  <2>4. CASE u # t
    <3>1. stored'[u] = stored[u] /\ Seen(u)' = Seen(u)
      BY <2>4, <1>4, <1>5 DEF Seen
    <3>2. \A f \in Directs : direct'[f].thread = u => direct'[f] = direct[f]
      BY <2>4, <1>2, <1>3
    <3> QED
      BY <2>1, <2>2, <3>1, <3>2, <1>4 DEF KeptInv
  <2> QED
    BY <2>3, <2>4
<1> QED
  BY <1>6, <1>7 DEF RowsInv

\* A one-shot run saves a step: the row is there, if no deletion has been at work.
LEMMA DirectSavesStep ==
  ASSUME RowsInv, NEW d \in Directs, DirectSaves(d)
  PROVE  RowsInv'
<1> DEFINE t == direct[d].thread
<1>1. stored' = [stored EXCEPT ![t] = @ \cup Checkpointed] /\ direct[d].step = "run"
      /\ UNCHANGED <<undone, removing, turn, direct, written, cutOff>>
  BY DEF DirectSaves
<1>2. stored' \in [ThreadIds -> SUBSET Row]
      /\ \A u \in ThreadIds : stored'[u] = IF u = t THEN stored[u] \cup Checkpointed ELSE stored[u]
  BY <1>1 DEF RowsInv, RowsTypeOK, Row, Checkpointed
<1>3. RowsTypeOK' /\ UndoneInv'
  BY <1>1, <1>2 DEF RowsInv, RowsTypeOK, UndoneInv
<1>4. ASSUME NEW u \in ThreadIds PROVE KeptInv(u)'
  <2> SUFFICES ASSUME u \notin written', u \notin cutOff' PROVE KeptInv(u)'
    BY DEF KeptInv
  <2>1. KeptInv(u) /\ (Running(u)' <=> Running(u))
    BY <1>1 DEF RowsInv, Running
  <2>2. CASE u = t
    <3>1. Running(u)
      BY <2>2, <1>1 DEF Running
    <3>2. ~(removing[u] >= 0) /\ "pux_threads" \in stored'[u]
      BY <2>1, <2>2, <3>1, <1>1, <1>2 DEF KeptInv
    <3> QED
      BY <3>2, <1>1 DEF KeptInv
  <2>3. CASE u # t
    <3>1. stored'[u] = stored[u] /\ Seen(u)' = Seen(u)
      BY <2>3, <1>1, <1>2 DEF Seen
    <3> QED
      BY <2>1, <3>1, <1>1 DEF KeptInv
  <2> QED
    BY <2>2, <2>3
<1> QED
  BY <1>3, <1>4 DEF RowsInv

\* A one-shot run ends.
LEMMA DirectEndsStep ==
  ASSUME RowsInv, NEW d \in Directs, DirectEnds(d)
  PROVE  RowsInv'
<1>1. direct[d] \in [thread : ThreadIds \cup {"none"}, step : {"new", "open", "run", "over"}]
  BY DEF RowsInv, RowsTypeOK
<1>2. /\ direct' \in [Directs -> [thread : ThreadIds \cup {"none"}, step : {"new", "open", "run", "over"}]]
      /\ direct'[d] = [direct[d] EXCEPT !.step = "over"] /\ \A f \in Directs : f # d => direct'[f] = direct[f]
  BY DEF DirectEnds, RowsInv, RowsTypeOK
<1>3. direct'[d].step = "over"
  BY <1>1, <1>2
<1>4. RowsTypeOK' /\ UndoneInv'
  BY <1>2 DEF DirectEnds, RowsInv, RowsTypeOK, UndoneInv
<1>5. ASSUME NEW u \in ThreadIds PROVE KeptInv(u)'
  <2>1. (Running(u)' => Running(u)) /\ Seen(u)' = Seen(u)
    BY <1>2, <1>3 DEF DirectEnds, Running, Seen
  <2>2. \A f \in Directs : direct'[f].step = "run" => direct'[f] = direct[f]
    BY <1>2, <1>3
  <2> QED
    BY <2>1, <2>2 DEF DirectEnds, RowsInv, KeptInv
<1> QED
  BY <1>4, <1>5 DEF RowsInv

\* Every step keeps the invariant.
LEMMA NextRows == RowsInv /\ [RowsNext]_rowVars => RowsInv'
<1> SUFFICES ASSUME RowsInv, [RowsNext]_rowVars PROVE RowsInv'
  OBVIOUS
<1>1. CASE UNCHANGED rowVars
  BY <1>1 DEF rowVars, RowsInv, RowsTypeOK, UndoneInv, KeptInv, Running, Seen
<1> QED
  BY <1>1, RegisterStep, BeginTurnStep, SaveStepStep, EndTurnStep, BeginDeleteStep, DeleteFromStep,
     EndDeleteStep, RebootStep, StartDirectStep, DirectRegistersStep, DirectSavesStep, DirectEndsStep
     DEF RowsNext

\* The inductive invariant of the thread database: types, whose DELETEs are not
\* committed, and which threads have their row.
THEOREM RowsInvCorrect == RowsSpec => []RowsInv
<1> QED
  BY InitRows, NextRows, PTL DEF RowsSpec

\* DeletedIsGone: rows without the row of their thread are left only by a run that
\* went on through the deletion, by a prompt of a thread that is gone, or by a crash
\* (threads.py:116-132, acp.py:612-706).
THEOREM DeletionsWhole == RowsSpec => []DeletedIsGone
<1>1. RowsInv => DeletedIsGone
  BY DEF RowsInv, RowsTypeOK, KeptInv, DeletedIsGone
<1> QED
  BY <1>1, RowsInvCorrect, PTL
=============================================================================
