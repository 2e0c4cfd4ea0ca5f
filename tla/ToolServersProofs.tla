-------------------------- MODULE ToolServersProofs --------------------------
(***************************************************************************)
(* TLAPS proofs about ToolServers, for any number of starts, servers and   *)
(* pieces and for both kinds of file system: when the cache of binaries    *)
(* may hold a partial one that passes for complete.                        *)
(***************************************************************************)
EXTENDS ToolServers, TLAPS

\* Nothing is installed at first.
LEMMA InitCache == Init => CacheInv
<1> SUFFICES ASSUME Init PROVE CacheInv
  OBVIOUS
<1>1. TypeOK
  BY ChunksArePositive DEF Init, TypeOK, Binary, NoBinary
<1>2. ThreadInv
  BY DEF Init, ThreadInv
<1>3. LastCopyInv
  BY DEF Init, LastCopyInv, Copying
<1>4. SoleCopyInv
  BY DEF Init, SoleCopyInv, Copying, NoBinary
<1> QED
  BY <1>1, <1>2, <1>3, <1>4 DEF CacheInv

\* The server a start is at is one of its specs.
LEMMA CurrentIsServer ==
  ASSUME TypeOK, NEW c \in Starts, ~LastDone(c)
  PROVE  Current(c) \in Servers
  BY SpecsAreServers DEF TypeOK, LastDone, Current

\* A step that leaves the files alone, and the threads that copy, where they
\* are.
LEMMA QuietStep ==
  ASSUME CacheInv, TypeOK', ThreadInv',
         \A c \in Starts : thread'[c] = "copy" <=> thread[c] = "copy",
         \A c \in Starts : thread[c] = "copy" => Current(c)' = Current(c),
         UNCHANGED <<written, file, overlapped, aborted, sameFs>>
  PROVE  CacheInv'
<1>1. \A g : Copying(g)' = Copying(g)
  BY DEF Copying
<1>2. LastCopyInv'
  BY <1>1 DEF CacheInv, LastCopyInv, Copying
<1>3. SoleCopyInv'
  BY <1>1 DEF CacheInv, SoleCopyInv, Copying
<1> QED
  BY <1>2, <1>3 DEF CacheInv

\* The coroutine neither moves a start whose thread copies nor touches a file.
LEMMA CoroutineStep ==
  ASSUME CacheInv, NEW c \in Starts, Coroutine(c)
  PROVE  CacheInv'
<1> USE DEF CacheInv
<1>1. ASSUME Open(c) PROVE CacheInv'
  <2>1. TypeOK' /\ ThreadInv'
    BY <1>1 DEF Open, TypeOK, ThreadInv, LastDone, Current
  <2> QED
    BY <2>1, <1>1, QuietStep DEF Open, Current
<1>2. ASSUME Unresolved(c) PROVE CacheInv'
  <2>1. TypeOK' /\ ThreadInv'
    BY <1>2 DEF Unresolved, Return, TypeOK, ThreadInv, LastDone, Current
  <2> QED
    BY <2>1, <1>2, QuietStep DEF Unresolved, Current
<1>3. ASSUME Bootstrap(c) PROVE CacheInv'
  <2>1. TypeOK' /\ ThreadInv'
    BY <1>3 DEF Bootstrap, TypeOK, ThreadInv, LastDone, Current
  <2> QED
    BY <2>1, <1>3, QuietStep DEF Bootstrap, Current, TypeOK
<1>4. ASSUME NEW s \in SUBSET Servers, NextSpec(c, s), thread[c] # "copy"
      PROVE  CacheInv'
  <2>1. TypeOK'
    BY <1>4 DEF NextSpec, TypeOK
  <2>2. ThreadInv'
    BY <1>4 DEF NextSpec, TypeOK, ThreadInv, LastDone, Current
  <2> QED
    BY <2>1, <2>2, <1>4, QuietStep DEF NextSpec, Current, TypeOK
<1>5. ASSUME Connect(c) PROVE CacheInv'
  <2>1. Current(c) \in Servers /\ thread[c] # "copy"
    BY <1>5, CurrentIsServer DEF Connect, ThreadInv
  <2> QED
    BY <2>1, <1>4, <1>5 DEF Connect
<1>6. ASSUME Skip(c) PROVE CacheInv'
  BY <1>4, <1>6 DEF Skip
<1>7. ASSUME OpenFails(c) PROVE CacheInv'
  <2>1. TypeOK' /\ ThreadInv'
    BY <1>7 DEF OpenFails, Return, TypeOK, ThreadInv, LastDone, Current
  <2> QED
    BY <2>1, <1>7, QuietStep DEF OpenFails, Current
<1>8. ASSUME StartProbing(c) PROVE CacheInv'
  <2>1. TypeOK'
    BY <1>8 DEF StartProbing, TypeOK
  <2>2. ThreadInv'
    BY <1>8 DEF StartProbing, TypeOK, ThreadInv, LastDone, Current
  <2> QED
    BY <2>1, <2>2, <1>8, QuietStep DEF StartProbing, Current, TypeOK, ThreadInv
<1>9. ASSUME ProbeListed(c) PROVE CacheInv'
  <2>1. TypeOK'
    BY <1>9, CurrentIsServer DEF ProbeListed, TypeOK
  <2>2. ThreadInv'
    BY <1>9 DEF ProbeListed, TypeOK, ThreadInv, LastDone, Current
  <2> QED
    BY <2>1, <2>2, <1>9, QuietStep DEF ProbeListed, Current, TypeOK, ThreadInv
<1>10. ASSUME ProbeFailed(c) PROVE CacheInv'
  <2>1. TypeOK'
    BY <1>10 DEF ProbeFailed, TypeOK
  <2>2. ThreadInv'
    BY <1>10 DEF ProbeFailed, TypeOK, ThreadInv, LastDone, Current
  <2> QED
    BY <2>1, <2>2, <1>10, QuietStep DEF ProbeFailed, Current, TypeOK, ThreadInv
<1>11. ASSUME Listed(c) PROVE CacheInv'
  <2>1. TypeOK' /\ ThreadInv'
    BY <1>11 DEF Listed, Return, TypeOK, ThreadInv, LastDone, Current
  <2> QED
    BY <2>1, <1>11, QuietStep DEF Listed, Current
<1>12. ASSUME Timeout(c) PROVE CacheInv'
  <2>1. TypeOK' /\ ThreadInv'
    BY <1>12 DEF Timeout, Return, TypeOK, ThreadInv, LastDone, Current
  <2> QED
    BY <2>1, <1>12, QuietStep DEF Timeout, Current
<1> QED
  BY <1>1, <1>2, <1>3, <1>5, <1>6, <1>7, <1>8, <1>9, <1>10, <1>11, <1>12 DEF Coroutine

\* What a thread at work, or a death, leaves of the types.
LEMMA ThreadAt ==
  ASSUME CacheInv, NEW c \in Starts, thread[c] # "none"
  PROVE  Current(c) \in Bootstrapped /\ file[Current(c)] \in Binary
  BY DEF CacheInv, ThreadInv, TypeOK

\* A thread goes on to another phase, none of them a copy.
LEMMA PhaseStep ==
  ASSUME CacheInv, NEW c \in Starts, thread[c] \notin {"none", "copy"},
         NEW phase \in {"fetch", "install", "found", "missing", "raised"},
         Goto(c, phase),
         UNCHANGED <<pc, at, connected, tools, outcome, written, file, overlapped, aborted, sameFs>>
  PROVE  CacheInv'
<1>1. TypeOK' /\ ThreadInv'
  BY DEF CacheInv, Goto, TypeOK, ThreadInv, LastDone, Current
<1> QED
  BY <1>1, QuietStep DEF CacheInv, Goto, TypeOK, Current

\* The types and places of the threads after a step of the thread of c that
\* installs: what it may change is typed.
LEMMA InstallTypes ==
  ASSUME CacheInv, NEW c \in Starts, thread[c] # "none",
         NEW phase \in {"copy", "found", "raised"}, Goto(c, phase), phase = "copy" => ~sameFs,
         NEW b \in Binary, file' = [file EXCEPT ![Current(c)] = b],
         NEW n \in 0..Chunks, written' = [written EXCEPT ![c] = n],
         overlapped' \subseteq Bootstrapped, aborted' \subseteq Bootstrapped,
         UNCHANGED <<pc, at, connected, tools, outcome, sameFs>>
  PROVE  /\ TypeOK' /\ ThreadInv'
         /\ \A d \in Starts : Current(d)' = Current(d)
         /\ \A g : Copying(g)' = IF phase = "copy" /\ g = Current(c)
                                 THEN Copying(g) \cup {c} ELSE Copying(g) \ {c}
<1>1. TypeOK'
  BY DEF CacheInv, TypeOK, Goto
<1>2. ThreadInv'
  BY DEF CacheInv, TypeOK, ThreadInv, Goto, LastDone, Current
<1>3. \A d \in Starts : Current(d)' = Current(d)
  BY DEF Current
<1>4. \A g : Copying(g)' = IF phase = "copy" /\ g = Current(c)
                           THEN Copying(g) \cup {c} ELSE Copying(g) \ {c}
  BY <1>3 DEF Copying, Goto, CacheInv, TypeOK
<1> QED
  BY <1>1, <1>2, <1>3, <1>4

\* What the invariant says of the binary of one server.
LastCopyOf(g) ==
    \/ file[g].pieces = Whole
    \/ \E c \in Copying(g) : 1..written[c] \subseteq file[g].pieces
    \/ Copying(g) = {} /\ file[g] = NoBinary

SoleCopyOf(g) ==
    /\ file[g].exec => file[g].pieces = Whole /\ Copying(g) = {}
    /\ \A c \in Copying(g) : /\ 1..written[c] \subseteq file[g].pieces
                             /\ Copying(g) = {c}

\* A step of the thread of c leaves the binaries of other servers, and their
\* copies, as they were.
LEMMA OtherBinaries ==
  ASSUME CacheInv, NEW c \in Starts, thread[c] # "none",
         NEW b \in Binary, file' = [file EXCEPT ![Current(c)] = b],
         NEW n \in 0..Chunks, written' = [written EXCEPT ![c] = n],
         \A g : Copying(g)' \in {Copying(g), Copying(g) \cup {c}, Copying(g) \ {c}},
         \A g : g # Current(c) => Copying(g)' = Copying(g) \ {c},
         NEW g \in Bootstrapped, g # Current(c)
  PROVE  (LastCopyOf(g) => LastCopyOf(g)') /\ (SoleCopyOf(g) => SoleCopyOf(g)')
<1>1. c \notin Copying(g) /\ Copying(g)' = Copying(g)
  BY DEF Copying
<1>2. file'[g] = file[g]
  BY DEF CacheInv, TypeOK
<1>3. \A d \in Copying(g) : written'[d] = written[d]
  BY <1>1 DEF CacheInv, TypeOK, Copying
<1> QED
  BY <1>1, <1>2, <1>3 DEF LastCopyOf, SoleCopyOf

\* It is enough to look at the binary that the thread of c installs.
LEMMA InstallStep ==
  ASSUME CacheInv, NEW c \in Starts, thread[c] # "none",
         NEW phase \in {"copy", "found", "raised"}, Goto(c, phase), phase = "copy" => ~sameFs,
         NEW b \in Binary, file' = [file EXCEPT ![Current(c)] = b],
         NEW n \in 0..Chunks, written' = [written EXCEPT ![c] = n],
         overlapped' \in {overlapped, overlapped \cup {Current(c)}},
         aborted' \in {aborted, aborted \cup {Current(c)}},
         UNCHANGED <<pc, at, connected, tools, outcome, sameFs>>,
         Current(c) \in aborted' \/ LastCopyOf(Current(c))',
         Current(c) \in overlapped' \/ SoleCopyOf(Current(c))'
  PROVE  CacheInv'
<1> DEFINE g0 == Current(c)
<1>1. g0 \in Bootstrapped
  BY ThreadAt
<1>2. overlapped' \subseteq Bootstrapped /\ aborted' \subseteq Bootstrapped
  BY <1>1 DEF CacheInv, TypeOK
<1>3. /\ TypeOK' /\ ThreadInv'
      /\ \A d \in Starts : Current(d)' = Current(d)
      /\ \A g : Copying(g)' = IF phase = "copy" /\ g = Current(c)
                              THEN Copying(g) \cup {c} ELSE Copying(g) \ {c}
  BY <1>2, InstallTypes
<1>4. \A g \in Bootstrapped \ {g0} :
        (LastCopyOf(g) => LastCopyOf(g)') /\ (SoleCopyOf(g) => SoleCopyOf(g)')
  BY <1>3, OtherBinaries
<1>5. LastCopyInv'
  <2>1. \A g \in Bootstrapped \ aborted : LastCopyOf(g)
    BY DEF CacheInv, LastCopyInv, LastCopyOf
  <2>2. \A g \in Bootstrapped \ aborted' : LastCopyOf(g)'
    <3> TAKE g \in Bootstrapped \ aborted'
    <3>1. CASE g = g0
      BY <3>1, <1>3 DEF LastCopyOf
    <3>2. CASE g # g0
      BY <3>2, <2>1, <1>4
    <3> QED
      BY <3>1, <3>2
  <2> QED
    BY <2>2 DEF LastCopyInv, LastCopyOf
<1>6. SoleCopyInv'
  <2>1. \A g \in Bootstrapped \ overlapped : SoleCopyOf(g)
    BY DEF CacheInv, SoleCopyInv, SoleCopyOf
  <2>2. \A g \in Bootstrapped \ overlapped' : SoleCopyOf(g)'
    <3> TAKE g \in Bootstrapped \ overlapped'
    <3>1. CASE g = g0
      BY <3>1, <1>3 DEF SoleCopyOf
    <3>2. CASE g # g0
      BY <3>2, <2>1, <1>4
    <3> QED
      BY <3>1, <3>2
  <2> QED
    BY <2>2 DEF SoleCopyInv, SoleCopyOf
<1> QED
  BY <1>3, <1>5, <1>6 DEF CacheInv

\* What CacheInv says of the binary of g.
LEMMA OfBinary ==
  ASSUME CacheInv, NEW g \in Bootstrapped
  PROVE  /\ g \in aborted \/ LastCopyOf(g)
         /\ g \in overlapped \/ SoleCopyOf(g)
  BY DEF CacheInv, LastCopyInv, SoleCopyInv, LastCopyOf, SoleCopyOf

\* A rename puts a complete binary at the path, where nobody copies.
LEMMA RenameStep ==
  ASSUME CacheInv, NEW c \in Starts, Rename(c)
  PROVE  CacheInv'
<1> DEFINE g0 == Current(c)
           b == [pieces |-> Whole, exec |-> TRUE]
<1>1. g0 \in Bootstrapped /\ thread[c] = "install"
  BY ThreadAt DEF Rename
<1>2. b \in Binary /\ written[c] \in 0..Chunks /\ written' = [written EXCEPT ![c] = written[c]]
  BY DEF Binary, Whole, Rename, CacheInv, TypeOK
<1>3. file'[g0] = b /\ g0' = g0
  BY <1>1 DEF Rename, CacheInv, TypeOK, Current
<1>4. Copying(g0)' = {}
  BY DEF Rename, Goto, Copying, CacheInv, TypeOK, ThreadInv
<1>5. LastCopyOf(g0)'
  BY <1>3 DEF LastCopyOf, Whole
<1>6. SoleCopyOf(g0)'
  BY <1>3, <1>4 DEF SoleCopyOf, Whole
<1> QED
  BY <1>1, <1>2, <1>5, <1>6, InstallStep DEF Rename

\* Opening the target starts the copy that will complete it, and overlaps if
\* the target is executable or being copied.
LEMMA OpenCopyStep ==
  ASSUME CacheInv, NEW c \in Starts, OpenCopy(c)
  PROVE  CacheInv'
<1> DEFINE g0 == Current(c)
           b == [file[g0] EXCEPT !.pieces = {}]
<1>1. g0 \in Bootstrapped /\ file[g0] \in Binary /\ thread[c] = "install"
  BY ThreadAt DEF OpenCopy, Truncate
<1>2. b \in Binary /\ b.pieces = {} /\ b.exec = file[g0].exec
  BY <1>1 DEF Binary
<1>3. file' = [file EXCEPT ![g0] = b] /\ file'[g0] = b /\ g0' = g0
  BY <1>1 DEF OpenCopy, Truncate, CacheInv, TypeOK, Current
<1>4. c \in Copying(g0)' /\ written'[c] = 0 /\ Copying(g0)' = Copying(g0) \cup {c}
  BY <1>3 DEF OpenCopy, Truncate, Goto, Copying, CacheInv, TypeOK, Current
<1>5. 1..written'[c] = {}
  BY <1>4
<1>6. LastCopyOf(g0)'
  BY <1>4, <1>5 DEF LastCopyOf
<1>7. g0 \in overlapped' \/ SoleCopyOf(g0)'
  <2>1. SUFFICES ASSUME g0 \notin overlapped' PROVE SoleCopyOf(g0)'
    OBVIOUS
  <2>2. ~file[g0].exec /\ Copying(g0) = {}
    BY <2>1 DEF OpenCopy, Truncate
  <2> QED
    BY <2>2, <1>2, <1>3, <1>4, <1>5 DEF SoleCopyOf
<1>8. overlapped' \in {overlapped, overlapped \cup {g0}} /\ 0 \in 0..Chunks
  BY ChunksArePositive DEF OpenCopy, Truncate
<1>9. Goto(c, "copy") /\ ~sameFs /\ written' = [written EXCEPT ![c] = 0]
  BY DEF OpenCopy, Truncate
<1>10. UNCHANGED <<pc, at, connected, tools, outcome, aborted, sameFs>>
  BY DEF OpenCopy, Truncate
<1> QED
  BY <1>1, <1>2, <1>3, <1>6, <1>7, <1>8, <1>9, <1>10, InstallStep

\* A piece is added; what was copied of the binary so far is still there.
LEMMA CopyPieceStep ==
  ASSUME CacheInv, NEW c \in Starts, CopyPiece(c)
  PROVE  CacheInv'
<1> DEFINE g0 == Current(c)
           n == written[c] + 1
           b == [file[g0] EXCEPT !.pieces = @ \cup {n}]
<1>1. g0 \in Bootstrapped /\ file[g0] \in Binary /\ thread[c] = "copy" /\ c \in Copying(g0)
  BY ThreadAt DEF CopyPiece, Copying
<1>2. n \in 1..Chunks /\ n \in 0..Chunks
  BY ChunksArePositive DEF CopyPiece, CacheInv, TypeOK
<1>3. b \in Binary /\ b.pieces = file[g0].pieces \cup {n} /\ b.exec = file[g0].exec
  BY <1>1, <1>2 DEF Binary
<1>4. file' = [file EXCEPT ![g0] = b] /\ file'[g0] = b /\ g0' = g0
  BY <1>1 DEF CopyPiece, CacheInv, TypeOK, Current
<1>5. Copying(g0)' = Copying(g0)
  BY <1>4 DEF CopyPiece, Copying, Current
<1>6. \A d \in Copying(g0) : 1..written[d] \subseteq file[g0].pieces
                             => 1..written'[d] \subseteq file'[g0].pieces
  <2> TAKE d \in Copying(g0)
  <2> HAVE 1..written[d] \subseteq file[g0].pieces
  <2>1. CASE d = c
    <3>1. 1..written'[d] = 1..n
      BY <2>1 DEF CopyPiece, CacheInv, TypeOK
    <3>2. 1..n = (1..written[c]) \cup {n}
      BY <1>2 DEF CacheInv, TypeOK
    <3> QED
      BY <2>1, <3>1, <3>2, <1>3, <1>4
  <2>2. CASE d # c
    BY <2>2, <1>3, <1>4 DEF CopyPiece, CacheInv, TypeOK
  <2> QED
    BY <2>1, <2>2
<1>7. g0 \in aborted' \/ LastCopyOf(g0)'
  <2>1. file[g0].pieces = Whole => file'[g0].pieces = Whole
    BY <1>2, <1>3, <1>4 DEF Whole
  <2>2. aborted' = aborted /\ Copying(g0) # {}
    BY <1>1 DEF CopyPiece
  <2>3. g0 \in aborted \/ file[g0].pieces = Whole
                      \/ \E d \in Copying(g0) : 1..written[d] \subseteq file[g0].pieces
    BY <2>2, <1>1, OfBinary DEF LastCopyOf
  <2>4. CASE file[g0].pieces = Whole
    BY <2>1, <2>4, <1>4 DEF LastCopyOf, Whole
  <2>5. ASSUME NEW d \in Copying(g0), 1..written[d] \subseteq file[g0].pieces
        PROVE  LastCopyOf(g0)'
    <3>1. d \in Copying(g0)' /\ 1..written'[d] \subseteq file'[g0].pieces
      BY <2>5, <1>5, <1>6
    <3> QED
      BY <3>1, <1>4 DEF LastCopyOf
  <2> QED
    BY <2>2, <2>3, <2>4, <2>5
<1>8. g0 \in overlapped' \/ SoleCopyOf(g0)'
  BY <1>1, <1>3, <1>4, <1>5, <1>6, OfBinary DEF SoleCopyOf, CopyPiece
<1>9. thread' = [thread EXCEPT ![c] = "copy"] /\ ~sameFs
  BY <1>1 DEF CopyPiece, CacheInv, TypeOK, ThreadInv
<1> QED
  BY <1>1, <1>2, <1>3, <1>4, <1>7, <1>8, <1>9, InstallStep DEF CopyPiece, Goto

\* The copy that becomes executable is complete, unless another truncated it
\* and is under way.
LEMMA CopyModeStep ==
  ASSUME CacheInv, NEW c \in Starts, CopyMode(c)
  PROVE  CacheInv'
<1> DEFINE g0 == Current(c)
           b == [file[g0] EXCEPT !.exec = TRUE]
<1>1. g0 \in Bootstrapped /\ file[g0] \in Binary /\ thread[c] = "copy" /\ c \in Copying(g0)
  BY ThreadAt DEF CopyMode, Copying
<1>2. b \in Binary /\ b.pieces = file[g0].pieces /\ b.exec
  BY <1>1 DEF Binary
<1>3. file' = [file EXCEPT ![g0] = b] /\ file'[g0] = b /\ g0' = g0
  BY <1>1 DEF CopyMode, CacheInv, TypeOK, Current
<1>4. Copying(g0)' = Copying(g0) \ {c}
  BY <1>3 DEF CopyMode, Goto, Copying, Current, CacheInv, TypeOK
<1>5. 1..written[c] \subseteq file[g0].pieces => file[g0].pieces = Whole
  BY <1>1 DEF CopyMode, Whole, Binary
<1>6. g0 \in aborted' \/ LastCopyOf(g0)'
  BY <1>1, <1>2, <1>3, <1>4, <1>5, OfBinary DEF LastCopyOf, CopyMode, Whole
<1>7. g0 \in overlapped' \/ SoleCopyOf(g0)'
  BY <1>1, <1>2, <1>3, <1>4, <1>5, OfBinary DEF SoleCopyOf, CopyMode, Whole
<1>8. written[c] \in 0..Chunks /\ written' = [written EXCEPT ![c] = written[c]]
  BY DEF CopyMode, CacheInv, TypeOK
<1> QED
  BY <1>1, <1>2, <1>3, <1>6, <1>7, <1>8, InstallStep DEF CopyMode

\* A thread that stops copying, by an error or with its process: its binary is
\* abandoned, and every other one is as it was.
LEMMA StopStep ==
  ASSUME CacheInv, NEW c \in Starts,
         TypeOK', ThreadInv',
         \A d \in Starts : Current(d)' = Current(d),
         thread'[c] # "copy", \A d \in Starts \ {c} : thread'[d] = thread[d],
         aborted' = Abandoned(c),
         UNCHANGED <<written, file, overlapped, sameFs>>
  PROVE  CacheInv'
<1>1. \A g : Copying(g)' = Copying(g) \ {c}
  BY DEF Copying
<1>2. \A g \in Bootstrapped : g \notin aborted' => Copying(g)' = Copying(g)
  BY <1>1 DEF Abandoned, Copying
<1>3. aborted \subseteq aborted'
  BY DEF Abandoned
<1>4. LastCopyInv'
  <2> SUFFICES ASSUME NEW g \in Bootstrapped, g \notin aborted'
               PROVE  LastCopyOf(g)'
    BY DEF LastCopyInv, LastCopyOf
  <2> QED
    BY <1>2, <1>3, OfBinary DEF LastCopyOf, Whole
<1>5. SoleCopyInv'
  <2> SUFFICES ASSUME NEW g \in Bootstrapped, g \notin overlapped'
               PROVE  SoleCopyOf(g)'
    BY DEF SoleCopyInv, SoleCopyOf
  <2> QED
    BY <1>1, OfBinary DEF SoleCopyOf, Whole
<1> QED
  BY <1>4, <1>5 DEF CacheInv

\* No step of a thread breaks the invariant.
LEMMA ThreadStep ==
  ASSUME CacheInv, NEW c \in Starts, Thread(c)
  PROVE  CacheInv'
<1>1. CASE CacheHit(c)
  BY <1>1, PhaseStep DEF CacheHit
<1>2. CASE CacheMiss(c)
  BY <1>2, PhaseStep DEF CacheMiss
<1>3. CASE Fetch(c)
  BY <1>3, PhaseStep DEF Fetch
<1>4. CASE FileError(c)
  <2>1. TypeOK' /\ ThreadInv'
    BY <1>4, ThreadAt DEF FileError, Goto, Abandoned, CacheInv, TypeOK, ThreadInv,
                          LastDone, Current
  <2> QED
    BY <2>1, <1>4, StopStep DEF FileError, Goto, Current, CacheInv, TypeOK
<1> QED
  BY <1>1, <1>2, <1>3, <1>4, RenameStep, OpenCopyStep, CopyPieceStep, CopyModeStep DEF Thread

\* Neither does a death.
LEMMA DieStep ==
  ASSUME CacheInv, NEW c \in Starts, Die(c)
  PROVE  CacheInv'
<1>1. TypeOK' /\ ThreadInv'
  BY ThreadAt DEF Die, Goto, Abandoned, CacheInv, TypeOK, ThreadInv, LastDone, Current
<1> QED
  BY <1>1, StopStep DEF Die, Goto, Current, CacheInv, TypeOK

\* The invariant of the cache holds throughout: for any starts in any number
\* of processes, each of which may die at any point (mcp_bootstrap.py:192-258).
THEOREM CacheCorrect == Spec => []CacheInv
<1>1. CacheInv /\ [Next]_vars => CacheInv'
  <2> SUFFICES ASSUME CacheInv, [Next]_vars PROVE CacheInv'
    OBVIOUS
  <2>1. CASE Next
    BY <2>1, CoroutineStep, ThreadStep, DieStep DEF Next
  <2>2. CASE UNCHANGED vars
    BY <2>2 DEF vars, CacheInv, TypeOK, ThreadInv, LastCopyInv, SoleCopyInv, LastDone,
                Current, Copying
  <2> QED
    BY <2>1, <2>2
<1> QED
  BY <1>1, InitCache, PTL DEF Spec

\* One installation that is cut short never leaves what passes for a complete
\* binary (mcp_bootstrap.py:215).
THEOREM OverlapCorrect == Spec => []PoisonNeedsOverlap
<1>1. CacheInv => PoisonNeedsOverlap
  BY DEF CacheInv, SoleCopyInv, PoisonNeedsOverlap, Poisoned
<1> QED
  BY <1>1, CacheCorrect, PTL

\* A partial binary that passes for complete is being completed, or a copy of
\* it was abandoned (mcp_bootstrap.py:253-256).
THEOREM AbortCorrect == Spec => []PoisonPassesOrAborted
<1>1. CacheInv => PoisonPassesOrAborted
  BY DEF CacheInv, LastCopyInv, PoisonPassesOrAborted, Poisoned, NoBinary
<1> QED
  BY <1>1, CacheCorrect, PTL

\* Where the scratch directory can be renamed into the cache, nothing is ever
\* truncated.
LEMMA NeverOverlaps == Spec => [](sameFs => overlapped = {})
<1> DEFINE Sole == sameFs => overlapped = {}
<1>1. Init => Sole
  BY DEF Init
<1>2. Sole /\ [Next]_vars => Sole'
  <2> SUFFICES ASSUME Sole, [Next]_vars PROVE Sole'
    OBVIOUS
  <2>1. ASSUME NEW c \in Starts, Coroutine(c) PROVE Sole'
    BY <2>1 DEF Coroutine, Open, Unresolved, Bootstrap, Connect, Skip, NextSpec, OpenFails,
                StartProbing, ProbeListed, ProbeFailed, Listed, Timeout
  <2>2. ASSUME NEW c \in Starts, Thread(c) PROVE Sole'
    BY <2>2 DEF Thread, CacheHit, CacheMiss, Fetch, Rename, OpenCopy, Truncate, CopyPiece,
                CopyMode, FileError
  <2>3. ASSUME NEW c \in Starts, Die(c) PROVE Sole'
    BY <2>3 DEF Die
  <2>4. CASE UNCHANGED vars
    BY <2>4 DEF vars
  <2> QED
    BY <2>1, <2>2, <2>3, <2>4 DEF Next
<1> QED
  BY <1>1, <1>2, PTL DEF Spec

\* There, what passes for a complete binary is one (mcp_bootstrap.py:199-200, 255).
THEOREM RenameCorrect == Spec => []RenamedIsWhole
<1>1. PoisonNeedsOverlap /\ (sameFs => overlapped = {}) => RenamedIsWhole
  BY DEF PoisonNeedsOverlap, CacheHoldsNoPartial, RenamedIsWhole
<1> QED
  BY <1>1, NeverOverlaps, OverlapCorrect, PTL
=============================================================================
