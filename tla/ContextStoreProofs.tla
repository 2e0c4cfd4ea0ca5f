------------------------- MODULE ContextStoreProofs -------------------------
(***************************************************************************)
(* TLAPS proofs about ContextStore, for any number of connections,         *)
(* threads, handles and any limits: what the model was handed is stored,   *)
(* and the search index is in step with the blobs.                         *)
(***************************************************************************)
EXTENDS ContextStore, Integers, FiniteSetTheorems, TLAPS

\* The parts of a record of contents, whatever the events in it are.
IsContents(c) == c = [events |-> c.events, blobs |-> c.blobs, fts |-> c.fts, resume |-> c.resume]

\* What the proofs need of the type of job; left may be any integer.
JobShape == [phase : Phases, thread : Scopes, key : Keys, evict : BOOLEAN, big : BOOLEAN,
             left : Int, stash : SUBSET Handles]

\* Nobody prepares anything without the lock.
DraftInv == writer = None => draft = db

\* Handles about to be announced are in the transaction of their worker, and
\* a worker without a job announces nothing.
StashInv ==
    \A w \in Workers :
        job[w].stash # {} => /\ job[w].phase # "idle"
                             /\ writer = w
                             /\ job[w].stash \subseteq HandlesOf(draft.blobs)

\* What makes HandedIsStored and IndexInSync inductive: an open transaction
\* keeps what was handed over, so its commit keeps it too.
StoreInv ==
    /\ IsContents(db) /\ IsContents(draft)
    /\ job \in [Workers -> JobShape]
    /\ DraftInv /\ StashInv /\ IndexInSync
    /\ HandedIsStored
    /\ handed \subseteq HandlesOf(draft.blobs)

\* NoJob is a job.
LEMMA NoJobShape == NoJob \in JobShape /\ NoJob.stash = {} /\ NoJob.phase = "idle"
  BY SomeKey DEF NoJob, JobShape, Phases, Scopes

\* The empty store satisfies the invariant.
LEMMA InitStore == Init => StoreInv
  BY NoJobShape DEF Init, StoreInv, IsContents, Empty, DraftInv, StashInv, IndexInSync,
                    HandedIsStored, HandlesOf

\* What a worker reads is a well-formed store, and holds what was handed over.
LEMMA SeenInv ==
  ASSUME StoreInv, NEW w \in Workers
  PROVE  /\ IsContents(Seen(w))
         /\ Seen(w).fts = Seen(w).blobs
         /\ handed \subseteq HandlesOf(Seen(w).blobs)
  BY DEF StoreInv, Seen, IndexInSync, HandedIsStored

\* While somebody writes, nobody else has handles to announce.
LEMMA OnlyWriterHasStash ==
  ASSUME StoreInv, NEW w \in Workers, CanWrite(w), NEW v \in Workers, v # w
  PROVE  job[v].stash = {}
  BY NamesAreFresh DEF StoreInv, StashInv, CanWrite

\* A step that writes nothing and hands nothing over, and after which the jobs
\* announce no more than before.
LEMMA QuietStep ==
  ASSUME StoreInv, NEW w \in Workers, NEW j \in JobShape,
         j.stash \in {{}, job[w].stash},
         j.stash # {} => j.phase # "idle",
         job' = [job EXCEPT ![w] = j],
         UNCHANGED <<db, writer, draft, handed>>
  PROVE  StoreInv'
<1>1. job' \in [Workers -> JobShape]
  BY DEF StoreInv
<1>2. StashInv'
  BY DEF StoreInv, StashInv
<1> QED
  BY <1>1, <1>2 DEF StoreInv, DraftInv, IndexInSync, HandedIsStored, IsContents

\* A write that leaves its transaction open.  It may add one blob, which the
\* job may announce.
LEMMA WriteStep ==
  ASSUME StoreInv, NEW w \in Workers, NEW j \in JobShape, NEW c,
         IsContents(c), c.fts = c.blobs, Seen(w).blobs \subseteq c.blobs,
         j.stash \subseteq job[w].stash \cup HandlesOf(c.blobs),
         j.stash # {} => j.phase # "idle",
         job' = [job EXCEPT ![w] = j],
         Write(w, c),
         UNCHANGED handed
  PROVE  StoreInv'
<1>1. job' \in [Workers -> JobShape]
  BY DEF StoreInv
<1>2. HandlesOf(Seen(w).blobs) \subseteq HandlesOf(c.blobs)
  BY DEF HandlesOf
<1>3. handed' \subseteq HandlesOf(draft'.blobs)
  BY <1>2, SeenInv DEF Write
<1>4. StashInv'
  <2> SUFFICES ASSUME NEW v \in Workers, job'[v].stash # {}
               PROVE  /\ job'[v].phase # "idle"
                      /\ writer' = v
                      /\ job'[v].stash \subseteq HandlesOf(draft'.blobs)
    BY DEF StashInv
  <2>1. v = w
    BY OnlyWriterHasStash DEF Write, StoreInv
  <2>2. job[w].stash \subseteq HandlesOf(Seen(w).blobs)
    BY DEF StoreInv, StashInv, Seen
  <2> QED
    BY <1>2, <2>1, <2>2 DEF Write, StoreInv
<1> QED
  BY <1>1, <1>3, <1>4, NamesAreFresh
     DEF StoreInv, DraftInv, IndexInSync, HandedIsStored, IsContents, Write

\* A write that commits: what is handed over from now on is in it, and nobody
\* is left with anything to announce.
LEMMA CommitStep ==
  ASSUME StoreInv, NEW w \in Workers, NEW j \in JobShape, NEW c,
         IsContents(c), c.fts = c.blobs,
         j.stash = {},
         job' = [job EXCEPT ![w] = j],
         WriteAndCommit(w, c),
         handed' \subseteq HandlesOf(c.blobs)
  PROVE  StoreInv'
<1>1. job' \in [Workers -> JobShape]
  BY DEF StoreInv
<1>2. StashInv'
  BY OnlyWriterHasStash DEF StashInv, StoreInv, WriteAndCommit
<1> QED
  BY <1>1, <1>2, NamesAreFresh
     DEF StoreInv, DraftInv, IndexInSync, HandedIsStored, IsContents, WriteAndCommit

\* The hook of a tool call keeps the invariant.
LEMMA HookStepStore ==
  ASSUME StoreInv, NEW w \in Workers, HookStep(w)
  PROVE  StoreInv'
<1>0. /\ job \in [Workers -> JobShape] /\ job[w] \in JobShape
      /\ job[w].stash # {} => job[w].phase # "idle"
      /\ NoJob \in JobShape /\ NoJob.stash = {}
  BY NoJobShape DEF StoreInv, StashInv
<1>1. ASSUME NEW thread \in Scopes, NEW key \in Keys, NEW big \in BOOLEAN,
             CaptureCall(w, thread, key, big)
      PROVE  StoreInv'
  <2> DEFINE j == [NoJob EXCEPT !.phase = IF thread = NoThread THEN "insert" ELSE "dedup",
                                !.thread = thread, !.key = key, !.big = big]
  <2>1. j \in JobShape /\ j.stash = {}
    BY <1>0 DEF JobShape, Phases
  <2>2. job' = [job EXCEPT ![w] = j] /\ UNCHANGED <<db, writer, draft, handed>>
    BY <1>1 DEF CaptureCall, Start
  <2> QED
    BY <2>1, <2>2, QuietStep
<1>2. CASE Dedup(w)
  <2>1. PICK phase \in {"offload", "flush", "count"} : job' = [job EXCEPT ![w].phase = phase]
    BY <1>2 DEF Dedup, Goto, AfterCapture
  <2> DEFINE j == [job[w] EXCEPT !.phase = phase]
  <2>2. j \in JobShape /\ j.stash = job[w].stash /\ j.phase # "idle"
    BY <1>0 DEF JobShape, Phases
  <2>3. job' = [job EXCEPT ![w] = j] /\ UNCHANGED <<db, writer, draft, handed>>
    BY <1>2, <2>1 DEF Dedup
  <2> QED
    BY <2>2, <2>3, QuietStep
<1>3. CASE Count(w)
  <2> DEFINE full == Len(Seen(w).events[job[w].thread]) >= MaxEvents
             j == [job[w] EXCEPT !.phase = "insert", !.evict = full]
  <2>1. full \in BOOLEAN
    OBVIOUS
  <2>2. job' = [job EXCEPT ![w] = j] /\ UNCHANGED <<db, writer, draft, handed>>
    BY <1>3 DEF Count
  <2> HIDE DEF full
  <2>3. j \in JobShape /\ j.stash = job[w].stash /\ j.phase # "idle"
    BY <1>0, <2>1 DEF JobShape, Phases
  <2> HIDE DEF j
  <2> QED
    BY <2>2, <2>3, QuietStep
<1>4. CASE Insert(w)
  <2>1. PICK events : Write(w, [Seen(w) EXCEPT !.events = events])
    BY <1>4 DEF Insert
  <2> DEFINE c == [Seen(w) EXCEPT !.events = events]
             j == [job[w] EXCEPT !.phase = AfterCapture(w)]
  <2>2. IsContents(c) /\ c.fts = c.blobs /\ Seen(w).blobs \subseteq c.blobs
    BY SeenInv DEF IsContents
  <2>3. j \in JobShape /\ j.stash = job[w].stash /\ j.phase # "idle"
    BY <1>0 DEF JobShape, Phases, AfterCapture
  <2>4. job' = [job EXCEPT ![w] = j] /\ UNCHANGED handed
    BY <1>0, <1>4 DEF Insert, Goto
  <2> HIDE DEF c, j
  <2>5. Write(w, c)
    BY <2>1 DEF c
  <2> QED
    BY <2>2, <2>3, <2>4, <2>5, WriteStep
<1>5. CASE Flush(w)
  <2>1. /\ job' = [job EXCEPT ![w] = NoJob]
        /\ handed' = handed \cup job[w].stash
    BY <1>5 DEF Flush
  <2>2. CASE writer = w
    <3>1. WriteAndCommit(w, draft) /\ handed' \subseteq HandlesOf(draft.blobs)
      BY <1>0, <1>5, <2>1, <2>2 DEF Flush, StoreInv, StashInv
    <3> QED
      BY <1>0, <2>1, <3>1, CommitStep DEF StoreInv, IndexInSync
  <2>3. CASE writer # w
    <3>1. job[w].stash = {} /\ UNCHANGED <<db, writer, draft, handed>>
      BY <1>5, <2>1, <2>3 DEF Flush, StoreInv, StashInv
    <3> QED
      BY <1>0, <2>1, <3>1, QuietStep
  <2> QED
    BY <2>2, <2>3
<1>6. CASE Locked(w)
  BY <1>0, <1>6, QuietStep DEF Locked
<1>7. ASSUME NEW h \in Handles, Offload(w, h)
      PROVE  StoreInv'
  <2> DEFINE blob == [handle |-> h, thread |-> job[w].thread]
             c == [Seen(w) EXCEPT !.blobs = @ \cup {blob}, !.fts = @ \cup {blob}]
             j == [job[w] EXCEPT !.phase = "flush", !.stash = @ \cup {h}]
  <2>0. IsContents(c) /\ c.fts = c.blobs /\ c.blobs = Seen(w).blobs \cup {blob}
    <3>1. PICK s : s = Seen(w)
      OBVIOUS
    <3>2. IsContents(s) /\ s.fts = s.blobs
      BY <3>1, SeenInv
    <3>3. c = [s EXCEPT !.blobs = @ \cup {blob}, !.fts = @ \cup {blob}]
      BY <3>1, Zenon
    <3> HIDE DEF c, blob
    <3>4. PICK e, bs, r : s = [events |-> e, blobs |-> bs, fts |-> bs, resume |-> r]
      BY <3>2 DEF IsContents
    <3>5. c = [events |-> e, blobs |-> bs \cup {blob}, fts |-> bs \cup {blob}, resume |-> r]
      BY <3>3, <3>4
    <3> QED
      BY <3>1, <3>4, <3>5 DEF IsContents
  <2> HIDE DEF c
  <2>1. Seen(w).blobs \subseteq c.blobs /\ blob \in c.blobs /\ blob.handle = h
    BY <2>0
  <2>2. h \in HandlesOf(c.blobs)
    BY <2>1 DEF HandlesOf
  <2>3. j \in JobShape /\ j.stash = job[w].stash \cup {h} /\ j.phase # "idle"
    BY <1>0 DEF JobShape, Phases
  <2>4. job' = [job EXCEPT ![w] = j] /\ Write(w, c) /\ UNCHANGED handed
    BY <1>0, <1>7 DEF Offload, StashBlob, c
  <2> HIDE DEF j, blob
  <2> QED
    BY <2>0, <2>1, <2>2, <2>3, <2>4, WriteStep
<1> QED
  BY <1>1, <1>2, <1>3, <1>4, <1>5, <1>6, <1>7 DEF HookStep

\* A tool that writes keeps the invariant.
LEMMA ToolStepStore ==
  ASSUME StoreInv, NEW w \in Workers, ToolStep(w)
  PROVE  StoreInv'
<1>0. /\ job \in [Workers -> JobShape] /\ job[w] \in JobShape
      /\ job[w].stash # {} => job[w].phase # "idle"
      /\ NoJob \in JobShape /\ NoJob.stash = {}
      /\ AfterCommand(w) \in Phases \ {"idle"}
      /\ 1..MaxBatch \subseteq Int
  BY NoJobShape, LimitsAreNat DEF StoreInv, StashInv, AfterCommand, Phases
<1>1. CASE IndexText(w)
  <2> DEFINE j == [NoJob EXCEPT !.phase = "offload"]
  <2>1. j \in JobShape /\ j.stash = {}
    BY <1>0 DEF JobShape, Phases
  <2>2. job' = [job EXCEPT ![w] = j] /\ UNCHANGED <<db, writer, draft, handed>>
    BY <1>1 DEF IndexText, Start
  <2> QED
    BY <2>1, <2>2, QuietStep
<1>2. ASSUME NEW n \in 1..MaxBatch, StartBatch(w, n)
      PROVE  StoreInv'
  <2> DEFINE j == [NoJob EXCEPT !.phase = "batch", !.left = n]
  <2>1. j \in JobShape /\ j.stash = {}
    BY <1>0 DEF JobShape, Phases
  <2>2. job' = [job EXCEPT ![w] = j] /\ UNCHANGED <<db, writer, draft, handed>>
    BY <1>2 DEF StartBatch, Start
  <2> QED
    BY <2>1, <2>2, QuietStep
<1>3. ASSUME NEW h \in Handles, BatchCommand(w, h)
      PROVE  StoreInv'
  <2> DEFINE blob == [handle |-> h, thread |-> job[w].thread]
             left == job[w].left - 1
             c == [Seen(w) EXCEPT !.blobs = @ \cup {blob}, !.fts = @ \cup {blob}]
             j == [job[w] EXCEPT !.phase = AfterCommand(w), !.left = left,
                                 !.stash = @ \cup {h}]
  <2>l. left \in Int
    BY <1>0 DEF JobShape
  <2> HIDE DEF left
  <2>0. IsContents(c) /\ c.fts = c.blobs /\ c.blobs = Seen(w).blobs \cup {blob}
    <3>1. PICK s : s = Seen(w)
      OBVIOUS
    <3>2. IsContents(s) /\ s.fts = s.blobs
      BY <3>1, SeenInv
    <3>3. c = [s EXCEPT !.blobs = @ \cup {blob}, !.fts = @ \cup {blob}]
      BY <3>1, Zenon
    <3> HIDE DEF c, blob
    <3>4. PICK e, bs, r : s = [events |-> e, blobs |-> bs, fts |-> bs, resume |-> r]
      BY <3>2 DEF IsContents
    <3>5. c = [events |-> e, blobs |-> bs \cup {blob}, fts |-> bs \cup {blob}, resume |-> r]
      BY <3>3, <3>4
    <3> QED
      BY <3>1, <3>4, <3>5 DEF IsContents
  <2> HIDE DEF c
  <2>1. Seen(w).blobs \subseteq c.blobs /\ blob \in c.blobs /\ blob.handle = h
    BY <2>0
  <2>2. h \in HandlesOf(c.blobs)
    BY <2>1 DEF HandlesOf
  <2>3. j \in JobShape /\ j.stash = job[w].stash \cup {h} /\ j.phase # "idle"
    BY <1>0, <2>l DEF JobShape
  <2>4. job' = [job EXCEPT ![w] = j] /\ Write(w, c) /\ UNCHANGED handed
    BY <1>0, <1>3 DEF BatchCommand, StashBlob, c, left
  <2> HIDE DEF j, blob
  <2> QED
    BY <2>0, <2>1, <2>2, <2>3, <2>4, WriteStep
<1>4. CASE BatchTimeout(w)
  <2> DEFINE left == job[w].left - 1
             j == [job[w] EXCEPT !.phase = AfterCommand(w), !.left = left]
  <2>l. left \in Int
    BY <1>0 DEF JobShape
  <2> HIDE DEF left
  <2>1. j \in JobShape /\ j.stash = job[w].stash /\ j.phase # "idle"
    BY <1>0, <2>l DEF JobShape
  <2>2. job' = [job EXCEPT ![w] = j] /\ UNCHANGED <<db, writer, draft, handed>>
    BY <1>0, <1>4 DEF BatchTimeout, left
  <2> HIDE DEF j
  <2> QED
    BY <2>1, <2>2, QuietStep
<1>5. CASE BatchRaises(w)
  BY <1>0, <1>5, QuietStep DEF BatchRaises
<1>6. ASSUME NEW thread \in Scopes, Purge(w, thread)
      PROVE  StoreInv'
  <2>1. PICK events :
            WriteAndCommit(w, [Seen(w) EXCEPT !.events = events,
                                              !.blobs = @ \ Purged(@, thread),
                                              !.fts = @ \ Purged(@, thread)])
    BY <1>6 DEF Purge
  <2> DEFINE gone == Purged(Seen(w).blobs, thread)
             c == [Seen(w) EXCEPT !.events = events,
                                  !.blobs = @ \ Purged(@, thread),
                                  !.fts = @ \ Purged(@, thread)]
  <2>2. IsContents(c) /\ c.fts = c.blobs /\ c.blobs = Seen(w).blobs \ gone
    <3>1. PICK s : s = Seen(w)
      OBVIOUS
    <3>2. IsContents(s) /\ s.fts = s.blobs
      BY <3>1, SeenInv
    <3>3. c = [s EXCEPT !.events = events, !.blobs = @ \ Purged(@, thread),
                        !.fts = @ \ Purged(@, thread)]
      BY <3>1, Zenon
    <3> HIDE DEF c
    <3>4. PICK e, bs, r : s = [events |-> e, blobs |-> bs, fts |-> bs, resume |-> r]
      BY <3>2 DEF IsContents
    <3> DEFINE out == Purged(bs, thread)
    <3>5. c = [events |-> events, blobs |-> bs \ out, fts |-> bs \ out, resume |-> r]
      BY <3>3, <3>4
    <3> QED
      BY <3>1, <3>4, <3>5 DEF IsContents
  <2>3. handed' \subseteq HandlesOf(c.blobs)
    <3>1. handed' = handed \ HandlesOf(gone)
      BY <1>6 DEF Purge
    <3>2. handed \subseteq HandlesOf(Seen(w).blobs)
      BY SeenInv
    <3> HIDE DEF c, gone
    <3> QED
      BY <2>2, <3>1, <3>2 DEF HandlesOf
  <2>4. job[w].stash = {} /\ job' = [job EXCEPT ![w] = job[w]]
    BY <1>0, <1>6 DEF Purge
  <2> HIDE DEF c
  <2>5. WriteAndCommit(w, c)
    BY <2>1 DEF c
  <2> QED
    BY <1>0, <2>2, <2>3, <2>4, <2>5, CommitStep
<1> QED
  BY <1>1, <1>2, <1>3, <1>4, <1>5, <1>6 DEF ToolStep

\* The session guide keeps the invariant.
LEMMA GuideStepStore ==
  ASSUME StoreInv, NEW w \in Workers, GuideStep(w)
  PROVE  StoreInv'
<1>1. PICK thread \in Threads : \/ \E other \in Threads : ClaimSnapshot(w, thread, other)
                                \/ ClaimNothing(w, thread)
                                \/ StoreSnapshot(w, thread)
  BY DEF GuideStep
<1>2. /\ job \in [Workers -> JobShape] /\ job[w] \in JobShape
      /\ job[w].stash # {} => job[w].phase # "idle"
      /\ job = [job EXCEPT ![w] = job[w]]
  BY DEF StoreInv, StashInv
<1>3. ASSUME NEW resume
      PROVE  LET c == [Seen(w) EXCEPT !.resume = resume]
             IN  IsContents(c) /\ c.fts = c.blobs /\ c.blobs = Seen(w).blobs
  BY SeenInv DEF IsContents
<1>4. ASSUME NEW other \in Threads, ClaimSnapshot(w, thread, other)
      PROVE  StoreInv'
  <2>1. PICK resume : Write(w, [Seen(w) EXCEPT !.resume = resume])
    BY <1>4 DEF ClaimSnapshot
  <2>2. UNCHANGED <<job, handed>>
    BY <1>4 DEF ClaimSnapshot
  <2> QED
    BY <1>2, <1>3, <2>1, <2>2, WriteStep
<1>5. CASE ClaimNothing(w, thread)
  BY <1>2, <1>5, SeenInv, WriteStep DEF ClaimNothing
<1>6. CASE StoreSnapshot(w, thread)
  <2>1. PICK resume : WriteAndCommit(w, [Seen(w) EXCEPT !.resume = resume])
    BY <1>6 DEF StoreSnapshot
  <2>2. UNCHANGED <<job, handed>> /\ job[w].stash = {}
    BY <1>2, <1>6 DEF StoreSnapshot
  <2> QED
    BY <1>2, <1>3, <2>1, <2>2, SeenInv, CommitStep
<1> QED
  BY <1>1, <1>4, <1>5, <1>6

\* A death keeps the invariant: the transaction it rolls back announced nothing.
LEMMA DieStore ==
  ASSUME StoreInv, NEW w \in Workers, Die(w)
  PROVE  StoreInv'
<1>1. NoJob \in JobShape /\ NoJob.stash = {} /\ job' = [job EXCEPT ![w] = NoJob]
  BY NoJobShape DEF Die
<1>2. CASE writer = w
  <2>1. StashInv'
    BY <1>1, <1>2 DEF StoreInv, StashInv, Die
  <2> QED
    BY <1>1, <1>2, <2>1
       DEF StoreInv, Die, DraftInv, IndexInSync, HandedIsStored, IsContents
<1>3. CASE writer # w
  BY <1>1, <1>3, QuietStep DEF Die
<1> QED
  BY <1>2, <1>3

\* The strengthened invariant holds always.
THEOREM StoreCorrect == Spec => []StoreInv
<1>1. StoreInv /\ [Next]_vars => StoreInv'
  <2> SUFFICES ASSUME StoreInv, [Next]_vars PROVE StoreInv'
    OBVIOUS
  <2>1. CASE UNCHANGED vars
    BY <2>1 DEF vars, StoreInv, IsContents, DraftInv, StashInv, IndexInSync, HandedIsStored
  <2>2. CASE Next
    BY <2>2, HookStepStore, ToolStepStore, GuideStepStore, DieStore DEF Next
  <2> QED
    BY <2>1, <2>2
<1> QED
  BY <1>1, InitStore, PTL DEF Spec

\* middleware.py:100-102: whatever connections, tools, purges and deaths
\* interleave, a handle the model was given can be recalled until it is purged.
THEOREM HandlesStored == Spec => []HandedIsStored
<1>1. StoreInv => HandedIsStored
  BY DEF StoreInv
<1> QED
  BY <1>1, StoreCorrect, PTL

\* store.py:819-824: blobs and blobs_fts, which no trigger connects, agree in
\* every committed and every prepared state.
THEOREM IndexCorrect == Spec => []IndexInSync
<1>1. StoreInv => IndexInSync
  BY DEF StoreInv
<1> QED
  BY <1>1, StoreCorrect, PTL

-----------------------------------------------------------------------------
(***************************************************************************)
(* What a step does to the events, the snapshots and the jobs, by kind.    *)
(***************************************************************************)

\* The types of the events, the snapshots and the counters.
ClaimTypeOK ==
    /\ draft.events \in [Scopes -> Seq(Keys)] /\ db.events \in [Scopes -> Seq(Keys)]
    /\ draft.resume \in [Threads -> {"none", "unconsumed", "consumed"}]
    /\ db.resume \in [Threads -> {"none", "unconsumed", "consumed"}]
    /\ injected \in [Threads -> Nat] /\ deaths \in Nat

Ending == {"offload", "flush"}

\* w goes on to j, and writes nothing.  A worker that may hold an event in its
\* transaction ends its hook before it does anything else.
Reads(w, j) ==
    /\ job' = [job EXCEPT ![w] = j]
    /\ j.phase = "insert" => j.thread = NoThread
    /\ (writer = w /\ job[w].phase \in Ending) => j.phase \in Ending
    /\ UNCHANGED <<db, writer, draft, injected, deaths>>

\* w goes on to j, and leaves a write open that adds no event.
Opens(w, j) ==
    /\ job' = [job EXCEPT ![w] = j]
    /\ j.phase # "insert"
    /\ job[w].phase \in Ending => j.phase \in Ending
    /\ CanWrite(w) /\ writer' = w /\ db' = db
    /\ draft'.events = draft.events
    /\ deaths' = deaths

\* w goes on to j, and commits; some threads may have lost their events.
Commits(w, j) ==
    /\ job' = [job EXCEPT ![w] = j]
    /\ j.phase # "insert"
    /\ CanWrite(w) /\ writer' = None /\ db' = draft'
    /\ draft'.events \in [Scopes -> Seq(Keys)]
    /\ \A s \in Scopes : draft'.events[s] \in {<<>>, draft.events[s]}
    /\ deaths' = deaths

SameClaims == draft'.resume = draft.resume /\ injected' = injected

\* A worker that may write reads what it prepares.
LEMMA WriterSeesDraft ==
  ASSUME StoreInv, NEW w \in Workers, CanWrite(w)
  PROVE  Seen(w) = draft
  BY DEF StoreInv, DraftInv, CanWrite, Seen

\* A record of contents with other blobs, snapshots or events.
LEMMA ContentsParts ==
  ASSUME NEW c, IsContents(c), NEW b, NEW f, NEW r, NEW e
  PROVE  /\ [c EXCEPT !.blobs = b, !.fts = f].events = c.events
         /\ [c EXCEPT !.blobs = b, !.fts = f].resume = c.resume
         /\ [c EXCEPT !.events = e, !.blobs = b, !.fts = f].events = e
         /\ [c EXCEPT !.events = e, !.blobs = b, !.fts = f].resume = c.resume
         /\ [c EXCEPT !.resume = r].events = c.events
         /\ [c EXCEPT !.resume = r].resume = r
         /\ [c EXCEPT !.events = e].events = e
         /\ [c EXCEPT !.events = e].resume = c.resume
  BY DEF IsContents

\* Whatever a worker does, by kind.
LEMMA StepKind ==
  ASSUME StoreInv, ClaimTypeOK, NEW w \in Workers, HookStep(w) \/ ToolStep(w)
  PROVE  \/ Count(w) \/ Insert(w)
         \/ \E j : Reads(w, j)
         \/ \E j : Opens(w, j) /\ SameClaims
         \/ \E j : Commits(w, j) /\ SameClaims
<1>0. /\ job \in [Workers -> JobShape] /\ job[w] \in JobShape
      /\ NoJob \in JobShape /\ NoJob.phase = "idle" /\ NoJob.thread = NoThread
      /\ job = [job EXCEPT ![w] = job[w]]
      /\ IsContents(draft) /\ IsContents(Seen(w))
  BY NoJobShape, SeenInv DEF StoreInv, NoJob
<1>1. ASSUME NEW thread \in Scopes, NEW key \in Keys, NEW big \in BOOLEAN,
             CaptureCall(w, thread, key, big)
      PROVE  \E j : Reads(w, j)
  <2> DEFINE j == [NoJob EXCEPT !.phase = IF thread = NoThread THEN "insert" ELSE "dedup",
                                !.thread = thread, !.key = key, !.big = big]
  <2>1. j.phase = "insert" => j.thread = NoThread
    BY <1>0 DEF JobShape
  <2>2. job' = [job EXCEPT ![w] = j] /\ UNCHANGED <<db, writer, draft, injected, deaths>>
    BY <1>1 DEF CaptureCall, Start
  <2>3. job[w].phase \notin Ending
    BY <1>1 DEF CaptureCall, Start, Ending
  <2> HIDE DEF j
  <2> QED
    BY <2>1, <2>2, <2>3 DEF Reads
<1>2. CASE Dedup(w)
  <2>1. PICK phase \in {"offload", "flush", "count"} : job' = [job EXCEPT ![w].phase = phase]
    BY <1>2 DEF Dedup, Goto, AfterCapture
  <2> DEFINE j == [job[w] EXCEPT !.phase = phase]
  <2>2. j.phase = phase
    BY <1>0 DEF JobShape
  <2>3. job' = [job EXCEPT ![w] = j] /\ job[w].phase = "dedup"
        /\ UNCHANGED <<db, writer, draft, injected, deaths>>
    BY <1>2, <2>1 DEF Dedup
  <2> HIDE DEF j
  <2> QED
    BY <2>2, <2>3 DEF Reads, Ending
<1>3. ASSUME Flush(w)
      PROVE  \E j : Reads(w, j) \/ (Commits(w, j) /\ SameClaims)
  <2>1. CASE writer = w
    <3>1. WriteAndCommit(w, draft) /\ UNCHANGED <<injected, deaths>>
      BY <1>3, <2>1 DEF Flush
    <3>2. job' = [job EXCEPT ![w] = NoJob]
      BY <1>3 DEF Flush
    <3> QED
      BY <1>0, <3>1, <3>2 DEF Commits, SameClaims, WriteAndCommit, ClaimTypeOK
  <2>2. CASE writer # w
    BY <1>0, <1>3, <2>2 DEF Reads, Flush
  <2> QED
    BY <2>1, <2>2
<1>4. CASE Locked(w)
  BY <1>0, <1>4 DEF Locked, Reads, CanWrite
<1>5. ASSUME NEW h \in Handles, NEW phase, Write(w, [Seen(w) EXCEPT
                 !.blobs = @ \cup {[handle |-> h, thread |-> job[w].thread]},
                 !.fts = @ \cup {[handle |-> h, thread |-> job[w].thread]}])
      PROVE  draft'.events = draft.events /\ draft'.resume = draft.resume
  BY <1>0, <1>5, ContentsParts, WriterSeesDraft DEF Write
<1>6. ASSUME NEW h \in Handles, Offload(w, h)
      PROVE  \E j : Opens(w, j) /\ SameClaims
  <2> DEFINE j == [job[w] EXCEPT !.phase = "flush", !.stash = @ \cup {h}]
  <2>1. j.phase = "flush"
    BY <1>0 DEF JobShape
  <2>2. job' = [job EXCEPT ![w] = j] /\ UNCHANGED <<injected, deaths>>
    BY <1>0, <1>6 DEF Offload, StashBlob
  <2>3. CanWrite(w) /\ writer' = w /\ db' = db
    BY <1>6 DEF Offload, StashBlob, Write
  <2>4. draft'.events = draft.events /\ draft'.resume = draft.resume
    BY <1>5, <1>6 DEF Offload, StashBlob
  <2> HIDE DEF j
  <2> QED
    BY <2>1, <2>2, <2>3, <2>4 DEF Opens, SameClaims, Ending
<1>7. CASE IndexText(w)
  <2> DEFINE j == [NoJob EXCEPT !.phase = "offload"]
  <2>1. j.phase = "offload"
    BY <1>0 DEF JobShape
  <2>2. job' = [job EXCEPT ![w] = j] /\ UNCHANGED <<db, writer, draft, injected, deaths>>
    BY <1>7 DEF IndexText, Start
  <2> HIDE DEF j
  <2> QED
    BY <2>1, <2>2 DEF Reads, Ending
<1>8. ASSUME NEW n \in 1..MaxBatch, StartBatch(w, n)
      PROVE  \E j : Reads(w, j)
  <2> DEFINE j == [NoJob EXCEPT !.phase = "batch", !.left = n]
  <2>1. j.phase = "batch"
    BY <1>0 DEF JobShape
  <2>2. job' = [job EXCEPT ![w] = j] /\ job[w].phase = "idle"
        /\ UNCHANGED <<db, writer, draft, injected, deaths>>
    BY <1>8 DEF StartBatch, Start
  <2> HIDE DEF j
  <2> QED
    BY <2>1, <2>2 DEF Reads, Ending
<1>9. ASSUME NEW h \in Handles, BatchCommand(w, h)
      PROVE  \E j : Opens(w, j) /\ SameClaims
  <2> DEFINE left == job[w].left - 1
             j == [job[w] EXCEPT !.phase = AfterCommand(w), !.left = left, !.stash = @ \cup {h}]
  <2> HIDE DEF left
  <2>1. j.phase \in {"flush", "batch"}
    BY <1>0 DEF JobShape, AfterCommand
  <2>2. job' = [job EXCEPT ![w] = j] /\ job[w].phase = "batch" /\ UNCHANGED <<injected, deaths>>
    BY <1>0, <1>9 DEF BatchCommand, StashBlob, left
  <2>3. CanWrite(w) /\ writer' = w /\ db' = db
    BY <1>9 DEF BatchCommand, StashBlob, Write
  <2>4. draft'.events = draft.events /\ draft'.resume = draft.resume
    BY <1>5, <1>9 DEF BatchCommand, StashBlob
  <2> HIDE DEF j
  <2> QED
    BY <2>1, <2>2, <2>3, <2>4 DEF Opens, SameClaims, Ending
<1>10. CASE BatchTimeout(w)
  <2> DEFINE left == job[w].left - 1
             j == [job[w] EXCEPT !.phase = AfterCommand(w), !.left = left]
  <2> HIDE DEF left
  <2>1. j.phase \in {"flush", "batch"}
    BY <1>0 DEF JobShape, AfterCommand
  <2>2. job' = [job EXCEPT ![w] = j] /\ job[w].phase = "batch"
        /\ UNCHANGED <<db, writer, draft, injected, deaths>>
    BY <1>0, <1>10 DEF BatchTimeout, left
  <2> HIDE DEF j
  <2> QED
    BY <2>1, <2>2 DEF Reads, Ending
<1>11. CASE BatchRaises(w)
  BY <1>0, <1>11 DEF BatchRaises, Reads, Ending
<1>12. ASSUME NEW thread \in Scopes, Purge(w, thread)
       PROVE  \E j : Commits(w, j) /\ SameClaims
  <2> DEFINE e == [s \in Scopes |-> IF thread \in {NoThread, s} THEN <<>> ELSE Seen(w).events[s]]
  <2>1. WriteAndCommit(w, [Seen(w) EXCEPT !.events = e,
                                          !.blobs = @ \ Purged(@, thread),
                                          !.fts = @ \ Purged(@, thread)])
    BY <1>12 DEF Purge
  <2>2. e \in [Scopes -> Seq(Keys)] /\ \A s \in Scopes : e[s] \in {<<>>, Seen(w).events[s]}
    BY DEF ClaimTypeOK, Seen
  <2>3. CanWrite(w) /\ Seen(w) = draft
    BY <2>1, WriterSeesDraft DEF WriteAndCommit
  <2> HIDE DEF e
  <2>4. draft'.events = e /\ draft'.resume = draft.resume
    BY <1>0, <2>1, <2>3, ContentsParts DEF WriteAndCommit
  <2>5. Commits(w, job[w])
    BY <1>0, <1>12, <2>1, <2>2, <2>3, <2>4 DEF Commits, Purge, WriteAndCommit
  <2> QED
    BY <1>12, <2>4, <2>5 DEF SameClaims, Purge
<1> QED
  BY <1>1, <1>2, <1>3, <1>4, <1>6, <1>7, <1>8, <1>9, <1>10, <1>11, <1>12
     DEF HookStep, ToolStep

-----------------------------------------------------------------------------
(***************************************************************************)
(* Snapshots: each is injected once, but for the deaths.                   *)
(***************************************************************************)

\* What makes ClaimedOnce inductive: a snapshot that can be claimed has not
\* been injected more often than claims were rolled back.
ClaimInv ==
    /\ ClaimTypeOK
    /\ \A t \in Threads : /\ injected[t] <= 1 + deaths
                          /\ draft.resume[t] = "unconsumed" => injected[t] <= deaths

\* A store without rows satisfies it.
LEMMA InitClaim == Init => ClaimInv
<1> SUFFICES ASSUME Init PROVE ClaimInv
  OBVIOUS
<1>1. <<>> \in Seq(Keys)
  OBVIOUS
<1>2. Empty.events = [s \in Scopes |-> <<>>] /\ Empty.resume = [t \in Threads |-> "none"]
  BY DEF Empty
<1> QED
  BY <1>1, <1>2 DEF Init, ClaimInv, ClaimTypeOK

\* The events a capture leaves are a sequence of keys, of the length it says.
LEMMA InsertedEvents ==
  ASSUME NEW keys \in Seq(Keys), NEW key \in Keys, NEW evict \in BOOLEAN
  PROVE  LET after == Append(IF evict THEN EvictOne(keys) ELSE keys, key)
         IN  /\ after \in Seq(Keys)
             /\ Len(after) = IF evict /\ keys # <<>> THEN Len(keys) ELSE Len(keys) + 1
<1>1. ASSUME NEW k, keys # <<>>
      PROVE  Remove(keys, k) \in Seq(Keys) /\ Len(Remove(keys, k)) = Len(keys) - 1
  <2> DEFINE n == Len(keys) - 1
             r == [i \in 1..n |-> IF i < k THEN keys[i] ELSE keys[i + 1]]
  <2>1. n \in Nat /\ \A i \in 1..n : keys[i] \in Keys /\ keys[i + 1] \in Keys
    BY <1>1
  <2>2. r \in [1..n -> Keys]
    BY <2>1
  <2>3. Remove(keys, k) = r
    BY DEF Remove
  <2> HIDE DEF n, r
  <2>4. r \in Seq(Keys) /\ Len(r) = n
    BY <2>1, <2>2
  <2> QED
    BY <2>3, <2>4 DEF n
<1>2. EvictOne(keys) \in Seq(Keys)
      /\ Len(EvictOne(keys)) = IF keys = <<>> THEN 0 ELSE Len(keys) - 1
  <2>1. CASE keys = <<>>
    BY <2>1 DEF EvictOne
  <2>2. CASE keys # <<>>
    BY <1>1, <2>2 DEF EvictOne
  <2> QED
    BY <2>1, <2>2
<1>3. \A s \in Seq(Keys) : Append(s, key) \in Seq(Keys) /\ Len(Append(s, key)) = Len(s) + 1
  OBVIOUS
<1>4. Len(keys) \in Nat /\ (keys = <<>> <=> Len(keys) = 0)
  OBVIOUS
<1>5. CASE evict
  BY <1>2, <1>3, <1>4, <1>5
<1>6. CASE ~ evict
  BY <1>3, <1>6
<1> QED
  BY <1>5, <1>6

\* What a capture writes: the events of its thread, and nothing else.
LEMMA InsertEffect ==
  ASSUME StoreInv, ClaimTypeOK, NEW w \in Workers, Insert(w)
  PROVE  /\ CanWrite(w) /\ writer' = w /\ db' = db
         /\ SameClaims /\ deaths' = deaths
         /\ job[w].phase = "insert" /\ job[w].thread \in Scopes /\ job[w].evict \in BOOLEAN
         /\ \E j : job' = [job EXCEPT ![w] = j] /\ j.phase \in Ending
         /\ draft'.events \in [Scopes -> Seq(Keys)]
         /\ \A s \in Scopes :
               LET mine == s = job[w].thread
                   full == job[w].evict /\ draft.events[s] # <<>>
               IN  Len(draft'.events[s]) =
                      IF mine /\ ~ full THEN Len(draft.events[s]) + 1 ELSE Len(draft.events[s])
<1>1. /\ job \in [Workers -> JobShape] /\ job[w] \in JobShape
      /\ job[w].phase = "insert" /\ job[w].thread \in Scopes
      /\ job[w].evict \in BOOLEAN /\ job[w].key \in Keys
      /\ IsContents(draft)
  BY DEF StoreInv, JobShape, Insert
<1> DEFINE th == job[w].thread
           mine == Append(IF job[w].evict THEN EvictOne(Seen(w).events[th])
                          ELSE Seen(w).events[th], job[w].key)
           e == [Seen(w).events EXCEPT ![th] = mine]
           j == [job[w] EXCEPT !.phase = AfterCapture(w)]
<1>2. Write(w, [Seen(w) EXCEPT !.events = e])
  BY <1>1 DEF Insert
<1>3. CanWrite(w) /\ Seen(w) = draft
  BY <1>2, WriterSeesDraft DEF Write
<1>4. draft.events[th] \in Seq(Keys)
  BY <1>1 DEF ClaimTypeOK
<1>5. /\ mine \in Seq(Keys)
      /\ Len(mine) = IF job[w].evict /\ draft.events[th] # <<>> THEN Len(draft.events[th])
                     ELSE Len(draft.events[th]) + 1
  BY <1>1, <1>3, <1>4, InsertedEvents
<1> HIDE DEF mine
<1>6. e = [draft.events EXCEPT ![th] = mine]
  BY <1>3
<1>7. draft'.events = e /\ draft'.resume = draft.resume
  <2> HIDE DEF e
  <2> QED
    BY <1>1, <1>2, <1>3, ContentsParts DEF Write
<1>8. /\ e \in [Scopes -> Seq(Keys)]
      /\ \A s \in Scopes : e[s] = IF s = th THEN mine ELSE draft.events[s]
  BY <1>1, <1>5, <1>6 DEF ClaimTypeOK
<1> HIDE DEF e
<1>9. j.phase \in Ending /\ job' = [job EXCEPT ![w] = j]
  BY <1>1 DEF JobShape, AfterCapture, Ending, Insert, Goto
<1>10. \A s \in Scopes :
               LET own == s = job[w].thread
                   full == job[w].evict /\ draft.events[s] # <<>>
               IN  Len(draft'.events[s]) =
                      IF own /\ ~ full THEN Len(draft.events[s]) + 1 ELSE Len(draft.events[s])
  BY <1>5, <1>7, <1>8
<1>11. SameClaims /\ deaths' = deaths /\ writer' = w /\ db' = db
  BY <1>2, <1>7 DEF Insert, SameClaims, Write
<1> HIDE DEF j, th
<1> QED
  BY <1>1, <1>3, <1>7, <1>8, <1>9, <1>10, <1>11

\* The session guide keeps the events.
LEMMA GuideKind ==
  ASSUME StoreInv, ClaimTypeOK, NEW w \in Workers, GuideStep(w)
  PROVE  Opens(w, job[w]) \/ Commits(w, job[w])
<1>1. PICK thread \in Threads : \/ \E other \in Threads : ClaimSnapshot(w, thread, other)
                                \/ ClaimNothing(w, thread)
                                \/ StoreSnapshot(w, thread)
  BY DEF GuideStep
<1>2. job = [job EXCEPT ![w] = job[w]] /\ IsContents(draft)
  BY DEF StoreInv
<1>3. CASE \E other \in Threads : ClaimSnapshot(w, thread, other)
  <2>1. PICK r : Write(w, [Seen(w) EXCEPT !.resume = r])
    BY <1>3 DEF ClaimSnapshot
  <2>2. draft'.events = draft.events /\ CanWrite(w) /\ writer' = w /\ db' = db
    BY <1>2, <2>1, ContentsParts, WriterSeesDraft DEF Write
  <2>3. UNCHANGED <<job, deaths>> /\ job[w].phase = "idle"
    BY <1>3 DEF ClaimSnapshot
  <2> QED
    BY <1>2, <2>2, <2>3 DEF Opens, Ending
<1>4. CASE ClaimNothing(w, thread)
  BY <1>2, <1>4, WriterSeesDraft DEF ClaimNothing, Write, Opens, Ending
<1>5. CASE StoreSnapshot(w, thread)
  <2>1. PICK r : WriteAndCommit(w, [Seen(w) EXCEPT !.resume = r])
    BY <1>5 DEF StoreSnapshot
  <2>2. draft'.events = draft.events /\ CanWrite(w) /\ writer' = None /\ db' = draft'
    BY <1>2, <2>1, ContentsParts, WriterSeesDraft DEF WriteAndCommit
  <2>3. UNCHANGED <<job, deaths>> /\ job[w].phase = "idle"
    BY <1>5 DEF StoreSnapshot
  <2> QED
    BY <1>2, <2>2, <2>3 DEF Commits, ClaimTypeOK
<1> QED
  BY <1>1, <1>3, <1>4, <1>5

\* A claim marks what it injects, and a new snapshot has not been injected.
LEMMA GuideClaims ==
  ASSUME StoreInv, ClaimInv, NEW w \in Workers, GuideStep(w)
  PROVE  ClaimInv'
<1>1. PICK thread \in Threads : \/ \E other \in Threads : ClaimSnapshot(w, thread, other)
                                \/ ClaimNothing(w, thread)
                                \/ StoreSnapshot(w, thread)
  BY DEF GuideStep
<1>2. IsContents(draft) /\ ClaimTypeOK
  BY DEF StoreInv, ClaimInv
<1>3. /\ draft'.events \in [Scopes -> Seq(Keys)] /\ deaths' = deaths
      /\ db' = db \/ db' = draft'
  BY <1>2, GuideKind DEF Opens, Commits, ClaimTypeOK
<1>4. ASSUME NEW other \in Threads, ClaimSnapshot(w, thread, other)
      PROVE  ClaimInv'
  <2> DEFINE r == [draft.resume EXCEPT ![other] = "consumed"]
  <2>1. Seen(w) = draft
    BY <1>4, WriterSeesDraft DEF ClaimSnapshot, Write
  <2>2. Write(w, [draft EXCEPT !.resume = r])
    BY <1>4, <2>1 DEF ClaimSnapshot
  <2> HIDE DEF r
  <2>3. draft'.resume = r /\ db' = db
    BY <1>2, <2>2, ContentsParts DEF Write
  <2>4. draft.resume[other] = "unconsumed" /\ injected' = [injected EXCEPT ![other] = @ + 1]
    BY <1>4, <2>1 DEF ClaimSnapshot
  <2>5. ClaimTypeOK'
    BY <1>2, <1>3, <2>3, <2>4 DEF ClaimTypeOK, r
  <2>6. ASSUME NEW t \in Threads
        PROVE  injected'[t] <= 1 + deaths' /\ (draft'.resume[t] = "unconsumed" => injected'[t] <= deaths')
    <3>1. /\ injected \in [Threads -> Nat] /\ deaths \in Nat
          /\ draft.resume \in [Threads -> {"none", "unconsumed", "consumed"}]
          /\ injected[t] <= 1 + deaths
          /\ draft.resume[t] = "unconsumed" => injected[t] <= deaths
      BY <1>2 DEF ClaimTypeOK, ClaimInv
    <3>2. CASE t = other
      BY <1>3, <2>3, <2>4, <3>1, <3>2 DEF r
    <3>3. CASE t # other
      BY <1>3, <2>3, <2>4, <3>1, <3>3 DEF r
    <3> QED
      BY <3>2, <3>3
  <2> QED
    BY <2>5, <2>6 DEF ClaimInv
<1>5. CASE ClaimNothing(w, thread)
  <2>1. draft' = draft /\ db' = db /\ injected' = injected
    BY <1>5, WriterSeesDraft DEF ClaimNothing, Write
  <2> QED
    BY <1>3, <2>1 DEF ClaimInv, ClaimTypeOK
<1>6. CASE StoreSnapshot(w, thread)
  <2> DEFINE r == [draft.resume EXCEPT ![thread] = "unconsumed"]
  <2>1. Seen(w) = draft
    BY <1>6, WriterSeesDraft DEF StoreSnapshot, WriteAndCommit
  <2>2. WriteAndCommit(w, [draft EXCEPT !.resume = r])
    BY <1>6, <2>1 DEF StoreSnapshot
  <2> HIDE DEF r
  <2>3. draft'.resume = r /\ db' = draft'
    BY <1>2, <2>2, ContentsParts DEF WriteAndCommit
  <2>4. injected' = [injected EXCEPT ![thread] = 0]
    BY <1>6 DEF StoreSnapshot
  <2>5. ClaimTypeOK'
    BY <1>2, <1>3, <2>3, <2>4 DEF ClaimTypeOK, r
  <2>6. ASSUME NEW t \in Threads
        PROVE  injected'[t] <= 1 + deaths' /\ (draft'.resume[t] = "unconsumed" => injected'[t] <= deaths')
    <3>1. /\ injected \in [Threads -> Nat] /\ deaths \in Nat
          /\ draft.resume \in [Threads -> {"none", "unconsumed", "consumed"}]
          /\ injected[t] <= 1 + deaths
          /\ draft.resume[t] = "unconsumed" => injected[t] <= deaths
      BY <1>2 DEF ClaimTypeOK, ClaimInv
    <3>2. CASE t = thread
      BY <1>3, <2>3, <2>4, <3>1, <3>2 DEF r
    <3>3. CASE t # thread
      BY <1>3, <2>3, <2>4, <3>1, <3>3 DEF r
    <3> QED
      BY <3>2, <3>3
  <2> QED
    BY <2>5, <2>6 DEF ClaimInv
<1> QED
  BY <1>1, <1>4, <1>5, <1>6

\* Whatever a worker does keeps the invariant of the claims.
LEMMA ClaimStep ==
  ASSUME StoreInv, ClaimInv, NEW w \in Workers,
         HookStep(w) \/ ToolStep(w) \/ GuideStep(w) \/ Die(w)
  PROVE  ClaimInv'
<1>1. ClaimTypeOK
  BY DEF ClaimInv
<1>2. ASSUME SameClaims, deaths' = deaths, draft'.events \in [Scopes -> Seq(Keys)],
             db' = db \/ db' = draft'
      PROVE  ClaimInv'
  BY <1>2 DEF SameClaims, ClaimInv, ClaimTypeOK
<1>3. CASE Count(w) \/ \E j : Reads(w, j)
  <2>1. UNCHANGED <<db, draft, injected, deaths>>
    BY <1>3 DEF Count, Reads
  <2> QED
    BY <2>1 DEF ClaimInv, ClaimTypeOK
<1>4. CASE Insert(w)
  BY <1>1, <1>2, <1>4, InsertEffect
<1>5. CASE \E j : (Opens(w, j) \/ Commits(w, j)) /\ SameClaims
  BY <1>1, <1>2, <1>5 DEF Opens, Commits, ClaimTypeOK
<1>6. CASE Die(w)
  <2>1. /\ draft' = draft \/ draft' = db
        /\ UNCHANGED <<db, injected>> /\ deaths' = deaths + 1
    BY <1>6 DEF Die
  <2> QED
    BY <2>1 DEF ClaimInv, ClaimTypeOK
<1> QED
  BY <1>1, <1>3, <1>4, <1>5, <1>6, GuideClaims, StepKind

\* The invariant of the claims holds always.
THEOREM ClaimsCorrect == Spec => []ClaimInv
<1>1. StoreInv /\ ClaimInv /\ [Next]_vars => ClaimInv'
  <2> SUFFICES ASSUME StoreInv, ClaimInv, [Next]_vars PROVE ClaimInv'
    OBVIOUS
  <2>1. CASE UNCHANGED vars
    BY <2>1 DEF vars, ClaimInv, ClaimTypeOK
  <2>2. CASE Next
    BY <2>2, ClaimStep DEF Next
  <2> QED
    BY <2>1, <2>2
<1> QED
  BY <1>1, InitClaim, StoreCorrect, PTL DEF Spec

\* store.py:722-739: however many sessions start at once, a stored snapshot is
\* injected into one of them, and once more for each process that died with
\* its claim uncommitted.
THEOREM SnapshotsClaimedOnce == Spec => []ClaimedOnce
<1>1. ClaimInv => ClaimedOnce
  BY DEF ClaimInv, ClaimedOnce
<1> QED
  BY <1>1, ClaimsCorrect, PTL

-----------------------------------------------------------------------------
(***************************************************************************)
(* Events: a thread overshoots its limit by fewer than the workers.        *)
(***************************************************************************)

\* The workers that will append to t whatever its length is by then.
Pending(t) == {w \in Workers : /\ job[w].phase = "insert"
                               /\ job[w].thread = t
                               /\ ~ job[w].evict}

\* What makes OvershootIsBounded inductive: a thread over its limit has been
\* counted by fewer workers than those that appended since, and a transaction
\* holds at most the one event of a hook that is about to commit it.
OvershootInv ==
    /\ \A t \in Threads : Len(draft.events[t]) + Cardinality(Pending(t))
                             <= MaxEvents + Cardinality(Workers) - 1
    /\ \A t \in Threads : /\ Len(db.events[t]) <= Len(draft.events[t])
                          /\ Len(draft.events[t]) <= Len(db.events[t]) + 1
    /\ \/ \E w \in Workers : writer = w /\ job[w].phase \in Ending
       \/ \A t \in Threads : Len(draft.events[t]) = Len(db.events[t])

\* Some of the workers are no more than all of them; fewer, when one or two
\* are left out.
LEMMA PendingCount ==
  ASSUME NEW t
  PROVE  /\ IsFiniteSet(Pending(t))
         /\ Cardinality(Pending(t)) \in Nat /\ Cardinality(Workers) \in Nat
         /\ Cardinality(Pending(t)) <= Cardinality(Workers)
         /\ \A w \in Workers \ Pending(t) : Cardinality(Pending(t)) <= Cardinality(Workers) - 1
<1>1. IsFiniteSet(Workers) /\ Pending(t) \in SUBSET Workers
  BY WorkersAreFinite DEF Pending
<1>2. /\ IsFiniteSet(Pending(t)) /\ Cardinality(Pending(t)) <= Cardinality(Workers)
      /\ Cardinality(Workers) = Cardinality(Pending(t)) => Workers = Pending(t)
  BY <1>1, FS_Subset
<1>3. Cardinality(Pending(t)) \in Nat /\ Cardinality(Workers) \in Nat
  BY <1>1, <1>2, FS_CardinalityType
<1> QED
  BY <1>2, <1>3

\* The limit on events is a positive number.
LEMMA EventLimit == MaxEvents \in Nat /\ MaxEvents >= 1
  BY LimitsAreNat

\* The lengths of events are numbers.
LEMMA Lengths ==
  ASSUME ClaimTypeOK, NEW t \in Threads
  PROVE  Len(draft.events[t]) \in Nat /\ Len(db.events[t]) \in Nat
  BY DEF ClaimTypeOK, Scopes

\* A step after which nobody new is pending leaves no more pending workers.
LEMMA FewerPending ==
  ASSUME NEW w \in Workers, NEW j, job \in [Workers -> JobShape],
         job' = [job EXCEPT ![w] = j],
         NEW t \in Threads, ~ (j.phase = "insert" /\ j.thread = t)
  PROVE  /\ Pending(t)' = Pending(t) \ {w}
         /\ Cardinality(Pending(t)') \in Nat
         /\ Cardinality(Pending(t)') <= Cardinality(Pending(t))
         /\ Cardinality(Pending(t)') = IF w \in Pending(t) THEN Cardinality(Pending(t)) - 1
                                       ELSE Cardinality(Pending(t))
<1>1. Pending(t)' = Pending(t) \ {w}
  BY DEF Pending
<1>2. /\ IsFiniteSet(Pending(t) \ {w})
      /\ Cardinality(Pending(t) \ {w}) = IF w \in Pending(t) THEN Cardinality(Pending(t)) - 1
                                         ELSE Cardinality(Pending(t))
  BY PendingCount, FS_RemoveElement
<1>3. Cardinality(Pending(t) \ {w}) \in Nat
  BY <1>2, FS_CardinalityType
<1> QED
  BY <1>1, <1>2, <1>3, PendingCount

\* A read leaves the events alone.
LEMMA ReadsStep ==
  ASSUME StoreInv, ClaimTypeOK, OvershootInv, NEW w \in Workers, NEW j, Reads(w, j)
  PROVE  OvershootInv'
<1>1. job \in [Workers -> JobShape] /\ job' = [job EXCEPT ![w] = j]
  BY DEF StoreInv, Reads
<1>2. ASSUME NEW t \in Threads
      PROVE  Len(draft'.events[t]) + Cardinality(Pending(t)')
                <= MaxEvents + Cardinality(Workers) - 1
  <2>1. ~ (j.phase = "insert" /\ j.thread = t)
    BY NamesAreFresh DEF Reads
  <2>2. Cardinality(Pending(t)') \in Nat /\ Cardinality(Pending(t)') <= Cardinality(Pending(t))
    BY <1>1, <2>1, FewerPending, PendingCount
  <2> QED
    BY <2>2, Lengths, PendingCount, EventLimit DEF OvershootInv, Reads
<1>3. ASSUME NEW v \in Workers, writer = v, job[v].phase \in Ending
      PROVE  writer' = v /\ job'[v].phase \in Ending
  BY <1>1, <1>3 DEF Reads
<1> QED
  BY <1>2, <1>3 DEF OvershootInv, Reads

\* A write left open adds no event, and whoever held one goes on to commit it.
LEMMA OpensStep ==
  ASSUME StoreInv, ClaimTypeOK, OvershootInv, NEW w \in Workers, NEW j, Opens(w, j)
  PROVE  OvershootInv'
<1>1. job \in [Workers -> JobShape] /\ job' = [job EXCEPT ![w] = j]
  BY DEF StoreInv, Opens
<1>2. ASSUME NEW t \in Threads
      PROVE  Len(draft'.events[t]) + Cardinality(Pending(t)')
                <= MaxEvents + Cardinality(Workers) - 1
  <2>1. ~ (j.phase = "insert" /\ j.thread = t)
    BY DEF Opens
  <2>2. Cardinality(Pending(t)') \in Nat /\ Cardinality(Pending(t)') <= Cardinality(Pending(t))
    BY <1>1, <2>1, FewerPending, PendingCount
  <2> QED
    BY <2>2, Lengths, PendingCount, EventLimit DEF OvershootInv, Opens
<1>3. \/ \E v \in Workers : writer' = v /\ job'[v].phase \in Ending
      \/ \A t \in Threads : Len(draft'.events[t]) = Len(db'.events[t])
  BY <1>1, NamesAreFresh DEF OvershootInv, Opens, CanWrite
<1> QED
  BY <1>2, <1>3 DEF OvershootInv, Opens

\* A commit keeps the events of a thread, or drops them all.
LEMMA CommitsStep ==
  ASSUME StoreInv, ClaimTypeOK, OvershootInv, NEW w \in Workers, NEW j, Commits(w, j)
  PROVE  OvershootInv'
<1>1. job \in [Workers -> JobShape] /\ job' = [job EXCEPT ![w] = j]
  BY DEF StoreInv, Commits
<1>2. ASSUME NEW t \in Threads
      PROVE  /\ Len(draft'.events[t]) \in Nat
             /\ Len(draft'.events[t]) <= Len(draft.events[t])
  <2>1. t \in Scopes
    BY DEF Scopes
  <2>2. draft'.events[t] = <<>> \/ draft'.events[t] = draft.events[t]
    BY <2>1 DEF Commits
  <2> QED
    BY <2>2, Lengths
<1>3. ASSUME NEW t \in Threads
      PROVE  Len(draft'.events[t]) + Cardinality(Pending(t)')
                <= MaxEvents + Cardinality(Workers) - 1
  <2>1. ~ (j.phase = "insert" /\ j.thread = t)
    BY DEF Commits
  <2>2. Cardinality(Pending(t)') \in Nat /\ Cardinality(Pending(t)') <= Cardinality(Pending(t))
    BY <1>1, <2>1, FewerPending, PendingCount
  <2>3. Len(draft.events[t]) + Cardinality(Pending(t)) <= MaxEvents + Cardinality(Workers) - 1
    BY DEF OvershootInv
  <2> QED
    BY <2>3, <1>2, <2>2, Lengths, PendingCount, EventLimit
<1>4. db' = draft'
  BY DEF Commits
<1> QED
  BY <1>2, <1>3, <1>4 DEF OvershootInv

\* Count: of the workers that see room, the one that writes does not count,
\* so that there is room for each of the others.
LEMMA CountStep ==
  ASSUME StoreInv, ClaimTypeOK, OvershootInv, NEW w \in Workers, Count(w)
  PROVE  OvershootInv'
<1> DEFINE th == job[w].thread
           evict == Len(Seen(w).events[th]) >= MaxEvents
           j == [job[w] EXCEPT !.phase = "insert", !.evict = evict]
<1>1. job \in [Workers -> JobShape] /\ job[w].phase = "count" /\ UNCHANGED <<db, writer, draft>>
  BY DEF StoreInv, Count
<1>2. evict \in BOOLEAN
  OBVIOUS
<1>3. job' = [job EXCEPT ![w] = j]
  BY <1>1 DEF Count
<1> HIDE DEF evict
<1>4. j.phase = "insert" /\ j.thread = th /\ j.evict = evict
  BY <1>1, <1>2 DEF JobShape
<1> HIDE DEF j
<1>5. ASSUME NEW t \in Threads
      PROVE  Len(draft'.events[t]) + Cardinality(Pending(t)')
                <= MaxEvents + Cardinality(Workers) - 1
  <2>1. w \notin Pending(t)
    BY <1>1 DEF Pending
  <2>2. CASE t # th \/ evict
    <3>1. Pending(t)' = Pending(t)
      BY <1>1, <1>3, <1>4, <2>1, <2>2 DEF Pending
    <3> QED
      BY <1>1, <3>1 DEF OvershootInv
  <2>3. CASE t = th /\ ~ evict
    <3>1. Pending(t)' = Pending(t) \cup {w}
      BY <1>1, <1>3, <1>4, <2>1, <2>3 DEF Pending
    <3>2. /\ Cardinality(Pending(t)') = Cardinality(Pending(t)) + 1
          /\ IsFiniteSet(Pending(t)')
      BY <2>1, <3>1, PendingCount, FS_AddElement
    <3>3. Len(Seen(w).events[t]) < MaxEvents
      <4>1. Len(Seen(w).events[t]) \in Nat
        BY Lengths DEF Seen
      <4> QED
        BY <2>3, <4>1, EventLimit DEF evict
    <3>4. Cardinality(Pending(t)) <= Cardinality(Workers) - 1
      BY <2>1, PendingCount
    <3>5. CASE Len(draft.events[t]) < MaxEvents
      BY <1>1, <3>2, <3>4, <3>5, PendingCount, Lengths, EventLimit
    <3>6. CASE ~ (Len(draft.events[t]) < MaxEvents)
      <4>1. Seen(w) = db /\ writer # w
        BY <3>3, <3>6 DEF Seen
      <4>2. Len(draft.events[t]) # Len(db.events[t])
        BY <3>3, <3>6, <4>1
      <4>3. PICK v \in Workers : writer = v /\ job[v].phase \in Ending
        BY <4>2 DEF OvershootInv
      <4>4. v # w /\ v \notin Pending(t)
        BY <4>1, <4>3 DEF Pending, Ending
      <4>5. v \in Workers \ Pending(t)'
        BY <3>1, <4>4
      <4>6. Cardinality(Pending(t)') <= Cardinality(Workers) - 1
        <5>1. Pending(t)' \in SUBSET Workers
          BY <3>1 DEF Pending
        <5>2. /\ Cardinality(Pending(t)') <= Cardinality(Workers)
              /\ Cardinality(Workers) # Cardinality(Pending(t)')
          BY <4>5, <5>1, WorkersAreFinite, FS_Subset
        <5> QED
          BY <3>2, <5>2, PendingCount
      <4>7. Len(draft.events[t]) <= MaxEvents
        BY <3>3, <4>1, Lengths, EventLimit DEF OvershootInv
      <4> QED
        BY <1>1, <3>2, <4>6, <4>7, PendingCount, Lengths, EventLimit
    <3> QED
      BY <3>5, <3>6
  <2> QED
    BY <2>2, <2>3
<1>6. ASSUME NEW v \in Workers, writer = v, job[v].phase \in Ending
      PROVE  writer' = v /\ job'[v].phase \in Ending
  BY <1>1, <1>3, <1>6 DEF Ending
<1> QED
  BY <1>1, <1>5, <1>6 DEF OvershootInv

\* Insert: whoever appends without evicting is no longer pending.
LEMMA InsertStep ==
  ASSUME StoreInv, ClaimTypeOK, OvershootInv, NEW w \in Workers, Insert(w)
  PROVE  OvershootInv'
<1>1. PICK j : job' = [job EXCEPT ![w] = j] /\ j.phase \in Ending
  BY InsertEffect
<1>2. /\ job \in [Workers -> JobShape] /\ CanWrite(w) /\ writer' = w /\ db' = db
      /\ job[w].phase = "insert" /\ job[w].evict \in BOOLEAN
  BY InsertEffect DEF StoreInv
<1>3. \A t \in Threads : Len(draft.events[t]) = Len(db.events[t])
  BY <1>2, NamesAreFresh DEF OvershootInv, CanWrite, Ending
<1>4. ASSUME NEW t \in Threads
      PROVE  Len(draft'.events[t]) =
                IF t = job[w].thread /\ ~ (job[w].evict /\ draft.events[t] # <<>>)
                THEN Len(draft.events[t]) + 1 ELSE Len(draft.events[t])
  BY InsertEffect DEF Scopes
<1>5. ASSUME NEW t \in Threads
      PROVE  Len(draft'.events[t]) + Cardinality(Pending(t)')
                <= MaxEvents + Cardinality(Workers) - 1
  <2>1. /\ Cardinality(Pending(t)') \in Nat
        /\ Cardinality(Pending(t)') = IF w \in Pending(t) THEN Cardinality(Pending(t)) - 1
                                      ELSE Cardinality(Pending(t))
    BY <1>1, <1>2, FewerPending DEF Ending
  <2>2. CASE w \in Pending(t)
    <3>1. Len(draft'.events[t]) = Len(draft.events[t]) + 1
      BY <1>4, <2>2 DEF Pending
    <3> QED
      BY <2>1, <2>2, <3>1, Lengths, PendingCount, EventLimit DEF OvershootInv
  <2>3. CASE w \notin Pending(t)
    <3>1. CASE t = job[w].thread /\ job[w].evict /\ draft.events[t] = <<>>
      <4>1. Len(draft'.events[t]) = 1
        <5>1. Len(draft.events[t]) = 0
          BY <3>1
        <5> QED
          <6>1. Len(draft'.events[t]) = Len(draft.events[t]) + 1
            BY <1>4, <3>1
          <6> QED
            BY <5>1, <6>1
      <4>2. Cardinality(Pending(t)) <= Cardinality(Workers) - 1
        BY <2>3, PendingCount
      <4> QED
        BY <2>1, <2>3, <4>1, <4>2, PendingCount, EventLimit
    <3>2. CASE ~ (t = job[w].thread /\ job[w].evict /\ draft.events[t] = <<>>)
      <4>1. Len(draft'.events[t]) = Len(draft.events[t])
        BY <1>2, <1>4, <2>3, <3>2 DEF Pending
      <4> QED
        BY <2>1, <2>3, <4>1 DEF OvershootInv
    <3> QED
      BY <3>1, <3>2
  <2> QED
    BY <2>2, <2>3
<1>6. \E v \in Workers : writer' = v /\ job'[v].phase \in Ending
  BY <1>1, <1>2
<1>7. \A t \in Threads : /\ Len(db'.events[t]) <= Len(draft'.events[t])
                         /\ Len(draft'.events[t]) <= Len(db'.events[t]) + 1
  BY <1>2, <1>3, <1>4, Lengths
<1> QED
  BY <1>5, <1>6, <1>7 DEF OvershootInv

\* A death rolls back what its transaction held.
LEMMA DieOvershoot ==
  ASSUME StoreInv, ClaimTypeOK, OvershootInv, NEW w \in Workers, Die(w)
  PROVE  OvershootInv'
<1>1. job \in [Workers -> JobShape] /\ job' = [job EXCEPT ![w] = NoJob] /\ NoJob.phase = "idle"
  BY NoJobShape DEF StoreInv, Die
<1>2. /\ db' = db
      /\ \/ writer = w /\ draft' = db
         \/ writer # w /\ writer' = writer /\ draft' = draft
  BY DEF Die
<1>3. ASSUME NEW t \in Threads
      PROVE  /\ Len(draft'.events[t]) \in Nat
             /\ Len(draft'.events[t]) <= Len(draft.events[t])
  BY <1>2, Lengths DEF OvershootInv
<1>4. ASSUME NEW t \in Threads
      PROVE  Len(draft'.events[t]) + Cardinality(Pending(t)')
                <= MaxEvents + Cardinality(Workers) - 1
  <2>1. Cardinality(Pending(t)') \in Nat /\ Cardinality(Pending(t)') <= Cardinality(Pending(t))
    BY <1>1, FewerPending, PendingCount
  <2>2. Len(draft.events[t]) + Cardinality(Pending(t)) <= MaxEvents + Cardinality(Workers) - 1
    BY DEF OvershootInv
  <2> QED
    BY <2>2, <1>3, <2>1, Lengths, PendingCount, EventLimit
<1>5. CASE writer = w
  <2>1. draft' = db'
    BY <1>2, <1>5
  <2> QED
    BY <1>3, <1>4, <2>1 DEF OvershootInv
<1>6. CASE writer # w
  <2>1. writer' = writer /\ draft' = draft /\ db' = db
    BY <1>2, <1>6
  <2>2. \A v \in Workers : writer = v => job'[v].phase = job[v].phase
    BY <1>1, <1>6
  <2> QED
    BY <1>4, <2>1, <2>2 DEF OvershootInv
<1> QED
  BY <1>5, <1>6

\* Nothing is over its limit in an empty store.
LEMMA InitOvershoot == Init => OvershootInv
<1> SUFFICES ASSUME Init PROVE OvershootInv
  OBVIOUS
<1>1. \A t \in Threads : Pending(t) = {}
  BY NoJobShape DEF Init, Pending
<1>2. \A t \in Threads : draft.events[t] = <<>> /\ db.events[t] = <<>>
  BY DEF Init, Empty, Scopes
<1>3. Cardinality({}) = 0 /\ Cardinality(Workers) \in Nat
  BY FS_EmptySet, FS_CardinalityType, WorkersAreFinite
<1>4. \A t \in Threads : Len(draft.events[t]) = 0 /\ Len(db.events[t]) = 0
  BY <1>2
<1>5. ASSUME NEW t \in Threads
      PROVE  Len(draft.events[t]) + Cardinality(Pending(t))
                <= MaxEvents + Cardinality(Workers) - 1
  <2>1. Len(draft.events[t]) = 0 /\ Cardinality(Pending(t)) = 0
    BY <1>1, <1>3, <1>4
  <2> QED
    BY <1>3, <2>1, EventLimit
<1> QED
  BY <1>4, <1>5 DEF OvershootInv

\* The bound on the overshoot holds always.
THEOREM OvershootCorrect == Spec => []OvershootInv
<1>1. StoreInv /\ ClaimInv /\ OvershootInv /\ [Next]_vars => OvershootInv'
  <2> SUFFICES ASSUME StoreInv, ClaimTypeOK, OvershootInv, [Next]_vars PROVE OvershootInv'
    BY DEF ClaimInv
  <2>1. CASE UNCHANGED vars
    BY <2>1 DEF vars, OvershootInv, Pending
  <2>2. ASSUME NEW w \in Workers, HookStep(w) \/ ToolStep(w)
        PROVE  OvershootInv'
    BY <2>2, StepKind, CountStep, InsertStep, ReadsStep, OpensStep, CommitsStep
  <2>3. ASSUME NEW w \in Workers, GuideStep(w)
        PROVE  OvershootInv'
    BY <2>3, GuideKind, OpensStep, CommitsStep
  <2> QED
    BY <2>1, <2>2, <2>3, DieOvershoot DEF Next
<1> QED
  BY <1>1, InitOvershoot, StoreCorrect, ClaimsCorrect, PTL DEF Spec

\* store.py:374-387: the count is read before the lock is taken, so a thread
\* can pass MAX_EVENTS_PER_SESSION, but by fewer events than there are workers,
\* for any number of workers and however long they go on.
THEOREM EventsBounded == Spec => []OvershootIsBounded
<1>1. ClaimInv /\ OvershootInv => OvershootIsBounded
  <2> SUFFICES ASSUME ClaimTypeOK, OvershootInv, NEW t \in Threads
               PROVE  Len(draft.events[t]) < MaxEvents + Cardinality(Workers)
    BY DEF ClaimInv, OvershootIsBounded
  <2> QED
    BY Lengths, PendingCount, EventLimit DEF OvershootInv
<1> QED
  BY <1>1, ClaimsCorrect, OvershootCorrect, PTL
=============================================================================
