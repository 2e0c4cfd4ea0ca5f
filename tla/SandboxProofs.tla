--------------------------- MODULE SandboxProofs ----------------------------
(***************************************************************************)
(* TLAPS proofs about what agents share in the sandbox: the functions they *)
(* write for themselves (DynamicFunctions) and the browsers that are       *)
(* started for them (BrowserServers).                                      *)
(***************************************************************************)
EXTENDS DynamicFunctions, BrowserServers, TLAPS

-----------------------------------------------------------------------------
(***************************************************************************)
(* DynamicFunctions, for any names, any number of tasks and of             *)
(* publications: a function is lost only to an operation that overlapped   *)
(* it or that was asked for, and a promoted one is what runs.              *)
(***************************************************************************)

Sources == Nat \cup {Absent}
Copies == [names : SUBSET Names, at : Nat]
DynSteps == {"rest", "looked", "save", "fill", "exec", "ran", "copy", "unlink"}
DynTask ==
    [op : Ops \cup {"none"}, name : Names \cup {Absent}, step : DynSteps, id : Nat, root : Roots,
     lib : Copies, sandbox : Copies, published : Sources, ran : Sources]

\* Where an operation can be, and what it has looked at by then.
DynTaskOK(x) ==
    /\ (x.step = "rest" /\ x.published = Absent) \/ (x.op \in Ops /\ x.name \in Names /\ x.id > 0)
    /\ x.op = "make" => x.step \in {"looked", "save", "fill"}
    /\ x.op = "edit" => x.step = "looked" \/ (x.step \in {"save", "fill"} /\ x.name \in x.lib.names)
    /\ x.op = "archive" => x.step \in {"looked", "unlink", "save", "fill"}
    /\ x.op = "promote" =>
          \/ x.step = "looked"
          \/ x.step \in {"copy", "unlink", "save", "fill"} /\ x.name \notin x.sandbox.names
    /\ x.op = "call" => x.step \in {"looked", "exec", "ran", "save", "fill"}
    /\ x.root = "sandbox" => x.op = "call" \/ (x.op = "promote" /\ x.step \in {"save", "fill"})

DynTypeOK ==
    /\ index \in [Roots -> SUBSET Names] /\ saves \in [Roots -> Nat]
    /\ module \in [Roots -> [Names -> Sources]]
    /\ task \in [Actors -> DynTask] /\ \A a \in Actors : DynTaskOK(task[a])
    /\ begun \in Nat
    /\ promoted \in [Names -> Sources] /\ remade \in SUBSET Names /\ clobbered \in SUBSET Roots

\* An operation that is going to save a root whose modules it may have changed.
Pending(a, r) ==
    \/ task[a].step = "save" /\ task[a].root = r
    \/ /\ r = "sandbox" /\ task[a].op = "promote"
       /\ task[a].step = "unlink" \/ (task[a].step \in {"save", "fill"} /\ task[a].root = "lib")
Filling(a, r) == task[a].step = "fill" /\ task[a].root = r
Stale(a, r) == task[a][r].at # saves[r] \/ Writing(r)
Doomed(r) == \E a \in Actors : Pending(a, r) /\ Stale(a, r)

\* Copies that are not stale show the index.
Fresh(x, r) ==
    /\ x[r].at <= saves[r]
    /\ r \notin clobbered /\ x[r].at = saves[r] /\ ~Writing(r) => x[r].names = index[r]
CopyInv == \A r \in Roots : Fresh(Rest, r) /\ \A a \in Actors : Fresh(task[a], r)

\* An odd number of saves is one writer at work.
FillInv ==
    \A r \in Roots \ clobbered :
        /\ Writing(r) <=> \E a \in Actors : Filling(a, r)
        /\ \A a, b \in Actors : Filling(a, r) /\ Filling(b, r) => a = b

\* What the module says of the name at work when its operation saves alone.
Settles(a, r) ==
    /\ task[a].op \in {"make", "edit"} \/ (task[a].op = "promote" /\ r = "sandbox") =>
          module[r][task[a].name] # Absent
    /\ task[a].op \in {"archive", "promote"} /\ r = "lib" => module[r][task[a].name] = Absent
Alone(a, r) == Pending(a, r) /\ \A b \in Actors : Pending(b, r) => b = a

\* An index is right but for the names at work, and its writer puts that right.
Agrees(r) ==
    /\ ~Writing(r) =>
          /\ \A n \in Names :
                \/ n \in index[r] <=> module[r][n] # Absent
                \/ \E a \in Actors : Pending(a, r) /\ task[a].name = n /\ task[a].op # "call"
          /\ \A a \in Actors : Alone(a, r) => Settles(a, r)
    /\ \A a \in Actors : Filling(a, r) => Changed(a) = {n \in Names : module[r][n] # Absent}

\* That is so of every root where nobody works from a stale copy.
AgreeInv == \A r \in Roots \ clobbered : Doomed(r) \/ Agrees(r)

\* A promoted function stays listed, and its module as it was promoted.
Stays(n) ==
    clobbered = {} /\ promoted[n] # Absent =>
        /\ ~Writing("sandbox") => n \in index["sandbox"]
        /\ \A a \in Actors : Filling(a, "sandbox") =>
               n \in task[a].sandbox.names /\ ~(task[a].op = "promote" /\ task[a].name = n)
        /\ ~BeingPromoted(n) => module["sandbox"][n] = promoted[n]

\* It has left the agent's own root, and comes back only by being made again.
Left(n) == promoted[n] # Absent \/ \E b \in Actors : task[b].op = "promote" /\ task[b].name = n /\ task[b].root = "sandbox"

LibInv(n) ==
    clobbered = {} /\ Left(n) =>
        /\ n \in index["lib"] => n \in remade
        /\ \A a \in Actors : Filling(a, "lib") /\ n \in Changed(a) => n \in remade
        /\ \A a \in Actors : Pending(a, "lib") /\ task[a].op = "make" /\ task[a].name = n /\ ~Stale(a, "lib") => n \in remade

\* A call of it that began with its promotion known runs it, where it was promoted to.
CallInv(a) ==
    clobbered = {} /\ task[a].published # Absent =>
        /\ promoted[task[a].name] = task[a].published
        /\ \/ task[a].name \in remade \/ BeingPromoted(task[a].name)
           \/ /\ task[a].op = "call" /\ task[a].step = "looked" => ~Listed(a, "lib")
              /\ task[a].op = "call" /\ task[a].step \in {"exec", "ran"} => task[a].root = "sandbox"
              /\ task[a].step = "ran" => task[a].ran = task[a].published

PromoteInv == (\A n \in Names : Stays(n) /\ LibInv(n)) /\ \A a \in Actors : CallInv(a)

DynInv == DynTypeOK /\ CopyInv /\ FillInv /\ AgreeInv /\ PromoteInv

-----------------------------------------------------------------------------
LEMMA Parity ==
  ASSUME NEW s \in Nat
  PROVE  (s + 1) % 2 = 1 <=> s % 2 # 1
  OBVIOUS

\* A copy that is written in a record, and one that is not.
LEMMA TaskCopies ==
  ASSUME NEW x \in DynTask, NEW r \in Roots
  PROVE  x[r] \in Copies /\ x[r].at \in Nat /\ x[r].names \in SUBSET Names
  BY DEF DynTask, Roots, Copies

LEMMA RestIsTask == Rest \in DynTask /\ DynTaskOK(Rest) /\ Rest.step = "rest" /\ Rest.op = "none" /\ Rest.root = "lib"
                    /\ Rest.published = Absent /\ \A r \in Roots : Rest[r] = NoCopy
  BY DEF Rest, DynTask, DynTaskOK, NoCopy, Copies, Sources, Ops, Roots, DynSteps

LEMMA InitDyn == DynInit => DynInv
<1> SUFFICES ASSUME DynInit PROVE DynInv
  OBVIOUS
<1>1. \A a \in Actors : task[a] = Rest
  BY DEF DynInit
<1>2. DynTypeOK
  BY <1>1, RestIsTask DEF DynInit, DynTypeOK, Sources, Roots
<1>3. CopyInv
  BY <1>1, RestIsTask DEF DynInit, CopyInv, Fresh, NoCopy, Roots
<1>4. \A r \in Roots : ~Writing(r) /\ \A a \in Actors : ~Filling(a, r) /\ ~Pending(a, r)
  BY <1>1, RestIsTask DEF DynInit, Writing, Filling, Pending, Roots
<1>5. FillInv
  BY <1>4 DEF FillInv
<1>6. AgreeInv
  BY <1>4 DEF AgreeInv, Agrees, Alone, DynInit, Roots
<1>7. PromoteInv
  <2>1. \A n \in Names : promoted[n] = Absent /\ ~Left(n)
    BY <1>1, RestIsTask DEF DynInit, Left
  <2> QED
    BY <1>1, <2>1, RestIsTask DEF PromoteInv, Stays, LibInv, CallInv
<1> QED
  BY <1>2, <1>3, <1>5, <1>6, <1>7 DEF DynInv

\* What is at work on a root, and how far, says whether its index agrees with its modules.
LEMMA RootKept ==
  ASSUME NEW r \in Roots, index'[r] = index[r], saves'[r] = saves[r], module'[r] = module[r],
         \A b \in Actors :
            /\ Pending(b, r)' <=> Pending(b, r)
            /\ Filling(b, r)' <=> Filling(b, r)
            /\ Pending(b, r) \/ Filling(b, r) =>
                  task'[b].op = task[b].op /\ task'[b].name = task[b].name /\ task'[b][r] = task[b][r],
         Doomed(r) \/ Agrees(r)
  PROVE  (Doomed(r) \/ Agrees(r))'
<1>1. Writing(r)' <=> Writing(r)
  BY DEF Writing
<1>2. \A b \in Actors : Pending(b, r) => (Stale(b, r)' <=> Stale(b, r))
  BY <1>1 DEF Stale
<1>3. CASE Doomed(r)
  BY <1>2, <1>3 DEF Doomed
<1>4. CASE Agrees(r)
  <2>1. ASSUME ~Writing(r)', NEW n \in Names
        PROVE  \/ n \in index'[r] <=> module'[r][n] # Absent
               \/ \E a \in Actors : Pending(a, r)' /\ task'[a].name = n /\ task'[a].op # "call"
    BY <1>1, <1>4, <2>1 DEF Agrees
  <2>2. ASSUME ~Writing(r)', NEW a \in Actors, Alone(a, r)'
        PROVE  Settles(a, r)'
    <3>1. Alone(a, r) /\ Pending(a, r)
      BY <2>2 DEF Alone
    <3>2. Settles(a, r)
      BY <1>1, <1>4, <2>2, <3>1 DEF Agrees
    <3> QED
      BY <3>1, <3>2 DEF Settles
  <2>3. ASSUME NEW a \in Actors, Filling(a, r)'
        PROVE  Changed(a)' = {n \in Names : module'[r][n] # Absent}
    <3>1. Filling(a, r) /\ Changed(a) = {n \in Names : module[r][n] # Absent}
      BY <1>4, <2>3 DEF Agrees
    <3>2. Changed(a)' = Changed(a)
      BY <2>3, <3>1 DEF Changed, Filling
    <3> QED
      BY <3>1, <3>2
  <2> QED
    BY <2>1, <2>2, <2>3 DEF Agrees
<1> QED
  BY <1>3, <1>4

\* Other roots and other operations do not matter to what is done for a name.
LEMMA WorkKept ==
  ASSUME NEW a \in Actors, NEW x, task \in [Actors -> DynTask], task' = [task EXCEPT ![a] = x]
  PROVE  /\ task'[a] = x /\ \A b \in Actors \ {a} : task'[b] = task[b]
         /\ \A b \in Actors \ {a}, r \in Roots :
               (Pending(b, r)' <=> Pending(b, r)) /\ (Filling(b, r)' <=> Filling(b, r))
<1>1. task'[a] = x /\ \A b \in Actors \ {a} : task'[b] = task[b]
  OBVIOUS
<1> QED
  BY <1>1 DEF Pending, Filling

\* An operation that changes no root looks around, begins or ends.
LEMMA LookKeeps ==
  ASSUME DynInv, NEW a \in Actors, NEW x \in DynTask, DynTaskOK(x),
         task' = [task EXCEPT ![a] = x], UNCHANGED <<index, saves, module, promoted, remade, clobbered>>,
         begun' \in Nat,
         task[a].step \in {"rest", "looked", "exec", "ran", "copy"}, x.step # "fill",
         x.step = "save" => x.op = "call" \/ (x.op = "archive" /\ module["lib"][x.name] = Absent),
         x.op = "promote" => x.step \in {"looked", "copy"},
         \A r \in Roots : Fresh(x, r),
         CallInv(a)'
  PROVE  DynInv'
<1>1. /\ task'[a] = x /\ \A b \in Actors \ {a} : task'[b] = task[b]
      /\ \A b \in Actors \ {a}, r \in Roots :
            (Pending(b, r)' <=> Pending(b, r)) /\ (Filling(b, r)' <=> Filling(b, r))
  BY WorkKept DEF DynInv, DynTypeOK
<1>2. \A r \in Roots : ~Pending(a, r) /\ ~Filling(a, r) /\ ~Filling(a, r)'
  BY <1>1 DEF Pending, Filling
<1>3. \A r \in Roots : Pending(a, r)' => x.step = "save" /\ x.root = r
  BY <1>1 DEF Pending
<1>4. DynTypeOK'
  <2>1. (task \in [Actors -> DynTask])' /\ (\A b \in Actors : DynTaskOK(task[b]))'
    BY <1>1 DEF DynInv, DynTypeOK
  <2> QED
    BY <2>1 DEF DynInv, DynTypeOK
<1>5. CopyInv'
  <2>1. \A r \in Roots : Fresh(Rest, r)' /\ \A b \in Actors \ {a} : Fresh(task[b], r)'
    BY <1>1 DEF DynInv, CopyInv, Fresh, Writing
  <2>2. \A r \in Roots : Fresh(task[a], r)'
    BY <1>1 DEF Fresh, Writing
  <2> QED
    BY <2>1, <2>2 DEF CopyInv
<1>6. FillInv'
  BY <1>1, <1>2 DEF DynInv, FillInv, Writing
<1>7. AgreeInv'
  <2> SUFFICES ASSUME NEW r \in Roots, r \notin clobbered PROVE (Doomed(r) \/ Agrees(r))'
    BY DEF AgreeInv
  <2>1. CASE ~Pending(a, r)'
    BY <1>1, <1>2, <2>1, RootKept DEF DynInv, AgreeInv
  <2>2. CASE Pending(a, r)'
    <3>1. x.step = "save" /\ x.root = r /\ (x.op = "call" \/ (x.op = "archive" /\ r = "lib" /\ module["lib"][x.name] = Absent))
      BY <1>3, <2>2 DEF DynTaskOK, Roots
    <3>2. CASE Doomed(r)
      <4>1. PICK b \in Actors : Pending(b, r) /\ Stale(b, r)
        BY <3>2 DEF Doomed
      <4>2. b # a /\ Pending(b, r)' /\ Stale(b, r)'
        BY <1>1, <1>2, <4>1 DEF Stale, Writing
      <4> QED
        BY <4>2 DEF Doomed
    <3>3. CASE Agrees(r)
      <4>1. ASSUME ~Writing(r)', NEW n \in Names
            PROVE  \/ n \in index'[r] <=> module'[r][n] # Absent
                   \/ \E b \in Actors : Pending(b, r)' /\ task'[b].name = n /\ task'[b].op # "call"
        BY <1>1, <1>2, <3>3, <4>1 DEF Agrees, Writing
      <4>2. ASSUME NEW b \in Actors, Alone(b, r)' PROVE Settles(b, r)'
        BY <1>1, <2>2, <3>1, <4>2 DEF Settles, Alone
      <4>3. ASSUME NEW b \in Actors, Filling(b, r)' PROVE Changed(b)' = {n \in Names : module'[r][n] # Absent}
        <5>1. b # a /\ Filling(b, r)
          BY <1>1, <1>2, <4>3
        <5>2. Changed(b)' = Changed(b)
          BY <1>1, <5>1 DEF Changed
        <5> QED
          BY <3>3, <5>1, <5>2 DEF Agrees
      <4> QED
        BY <4>1, <4>2, <4>3 DEF Agrees
    <3> QED
      BY <3>2, <3>3 DEF DynInv, AgreeInv
  <2> QED
    BY <2>1, <2>2
<1>8. PromoteInv'
  <2>1. \A n \in Names : BeingPromoted(n)' <=> BeingPromoted(n)
    BY <1>1 DEF BeingPromoted
  <2>2. \A n \in Names : Left(n)' => Left(n)
    BY <1>1 DEF Left, DynTaskOK
  <2>3. \A n \in Names : Stays(n)'
    BY <1>1, <1>2, <2>1 DEF DynInv, PromoteInv, Stays, Writing, Roots
  <2>4. \A n \in Names : LibInv(n)'
    <3> SUFFICES ASSUME NEW n \in Names, clobbered = {}, Left(n) PROVE LibInv(n)'
      BY <2>2 DEF LibInv
    <3>1. \A b \in Actors : Filling(b, "lib")' => Filling(b, "lib") /\ Changed(b)' = Changed(b)
      BY <1>1, <1>2 DEF Changed, Roots
    <3>2. \A b \in Actors : Pending(b, "lib")' /\ task'[b].op = "make" =>
             Pending(b, "lib") /\ task'[b] = task[b] /\ (Stale(b, "lib")' <=> Stale(b, "lib"))
      BY <1>1, <1>3 DEF Stale, Writing, Roots
    <3> QED
      BY <3>1, <3>2 DEF DynInv, PromoteInv, LibInv
  <2>5. \A b \in Actors \ {a} : CallInv(b)'
    <3> SUFFICES ASSUME NEW b \in Actors, b # a PROVE CallInv(b)'
      OBVIOUS
    <3>1. task'[b] = task[b] /\ (Listed(b, "lib")' <=> Listed(b, "lib"))
      BY <1>1 DEF Listed
    <3>2. CallInv(b)
      BY DEF DynInv, PromoteInv
    <3>3. BeingPromoted(task[b].name)' <=> BeingPromoted(task[b].name)
      BY <1>1 DEF BeingPromoted
    <3> QED
      BY <3>1, <3>2, <3>3 DEF CallInv
  <2> QED
    BY <2>3, <2>4, <2>5 DEF PromoteInv
<1> QED
  BY <1>4, <1>5, <1>6, <1>7, <1>8 DEF DynInv

\* A copy that is read now.
LEMMA CopyNow ==
  ASSUME DynInv, NEW r \in Roots
  PROVE  Copy(r) \in Copies /\ Copy(r).at = saves[r] /\ Copy(r).names = index[r]
  BY DEF DynInv, DynTypeOK, Copy, Copies

\* An operation at rest has nothing to answer for.
LEMMA RestKeeps ==
  ASSUME DynInv, NEW a \in Actors, Done(a), UNCHANGED <<index, saves, module, promoted, remade, clobbered>>,
         begun' = begun, task[a].step \in {"rest", "looked", "exec", "ran", "copy"}
  PROVE  DynInv'
<1>1. task' = [task EXCEPT ![a] = Rest] /\ task'[a] = Rest
  BY DEF Done, DynInv, DynTypeOK
<1>2. CallInv(a)' /\ \A r \in Roots : Fresh(Rest, r)
  BY <1>1, RestIsTask DEF CallInv, DynInv, CopyInv
<1>3. begun' \in Nat
  BY DEF DynInv, DynTypeOK
<1> QED
  BY <1>1, <1>2, <1>3, RestIsTask, LookKeeps

LEMMA BeginStep ==
  ASSUME DynInv, NEW a \in Actors, NEW op \in Ops, NEW n \in Names, Begin(a, op, n)
  PROVE  DynInv'
<1> DEFINE id == begun + 1
           x == [Rest EXCEPT !.op = op, !.name = n, !.id = id, !.lib = Copy("lib"),
                             !.step = "looked", !.published = promoted[n]]
<1>1. Copy("lib") \in Copies /\ promoted[n] \in Sources /\ id \in Nat /\ id > 0 /\ "lib" \in Roots
  BY CopyNow DEF DynInv, DynTypeOK, Roots
<1>2. task' = [task EXCEPT ![a] = x] /\ task[a] = Rest /\ begun' = id
  BY DEF Begin
<1> HIDE DEF id
<1>3. /\ x \in DynTask /\ x.op = op /\ x.name = n /\ x.id = id /\ x.lib = Copy("lib") /\ x.step = "looked"
      /\ x.published = promoted[n] /\ x.sandbox = NoCopy /\ x.root = "lib"
      /\ x["lib"] = Copy("lib") /\ x["sandbox"] = NoCopy
  BY <1>1 DEF Rest, DynTask, NoCopy, Copies, Sources, Roots, DynSteps
<1> HIDE DEF x
<1>4. DynTaskOK(x)
  BY <1>1, <1>3 DEF DynTaskOK, Ops
<1>5. \A r \in Roots : Fresh(x, r)
  <2>1. Fresh(x, "lib")
    BY <1>1, <1>3, CopyNow DEF Fresh, DynInv, DynTypeOK
  <2>2. Fresh(x, "sandbox")
    <3>1. Fresh(Rest, "sandbox") /\ Rest["sandbox"] = NoCopy
      BY RestIsTask DEF DynInv, CopyInv, Roots
    <3> QED
      BY <1>3, <3>1 DEF Fresh
  <2> QED
    BY <2>1, <2>2 DEF Roots
<1>6. UNCHANGED <<index, saves, module, promoted, remade, clobbered>>
  BY DEF Begin
<1>7. CallInv(a)'
  <2>1. task'[a] = x
    BY <1>2 DEF DynInv, DynTypeOK
  <2> SUFFICES ASSUME clobbered = {}, promoted[n] # Absent, n \notin remade PROVE n \notin Copy("lib").names
    BY <1>3, <1>6, <2>1 DEF CallInv, Listed
  <2>2. n \notin index["lib"]
    BY DEF DynInv, PromoteInv, LibInv, Left
  <2> QED
    BY <1>1, <2>2, CopyNow
<1> QED
  BY <1>1, <1>2, <1>3, <1>4, <1>5, <1>6, <1>7, RestIsTask, LookKeeps

LEMMA RefuseStep ==
  ASSUME DynInv, NEW a \in Actors, Refuse(a)
  PROVE  DynInv'
  BY RestKeeps DEF Refuse

\* What is known of the operation at work.
LEMMA TaskFacts ==
  ASSUME DynInv, NEW a \in Actors
  PROVE  /\ task[a] \in DynTask /\ DynTaskOK(task[a]) /\ task \in [Actors -> DynTask]
         /\ task[a].step # "rest" => task[a].op \in Ops /\ task[a].name \in Names /\ task[a].id > 0
         /\ begun \in Nat /\ CallInv(a) /\ \A r \in Roots : Fresh(task[a], r)
  BY DEF DynInv, DynTypeOK, DynTaskOK, PromoteInv, CopyInv

\* A promotion at work is not ended by another operation.
LEMMA PromotionGoesOn ==
  ASSUME task \in [Actors -> DynTask], NEW a \in Actors, NEW x, task' = [task EXCEPT ![a] = x],
         task[a].op # "promote" \/ (x.op = "promote" /\ x.name = task[a].name /\ x.step \in {"unlink", "save", "fill"})
  PROVE  \A n \in Names : BeingPromoted(n) => BeingPromoted(n)'
<1> SUFFICES ASSUME NEW n \in Names, BeingPromoted(n) PROVE BeingPromoted(n)'
  OBVIOUS
<1>1. PICK b \in Actors : task[b].op = "promote" /\ task[b].name = n /\ task[b].step \in {"unlink", "save", "fill"}
  BY DEF BeingPromoted
<1>2. task'[b].op = "promote" /\ task'[b].name = n /\ task'[b].step \in {"unlink", "save", "fill"}
  <2>1. CASE b = a
    BY <1>1, <2>1
  <2>2. CASE b # a
    BY <1>1, <2>2
  <2> QED
    BY <2>1, <2>2
<1> QED
  BY <1>2 DEF BeingPromoted

LEMMA ResolveRootStep ==
  ASSUME DynInv, NEW a \in Actors, ResolveRoot(a)
  PROVE  DynInv'
<1>1. /\ task[a].op = "call" /\ task[a].step = "looked"
      /\ UNCHANGED <<index, saves, module, promoted, remade, clobbered>> /\ begun' = begun
  BY DEF ResolveRoot, At
<1>2. CASE Done(a)
  BY <1>1, <1>2, RestKeeps
<1>3. ASSUME NEW r \in Roots, task' = [task EXCEPT ![a].root = r, ![a].step = "exec"], r = "lib" => Listed(a, "lib")
      PROVE  DynInv'
  <2> DEFINE x == [task[a] EXCEPT !.root = r, !.step = "exec"]
  <2>1. task' = [task EXCEPT ![a] = x]
    BY <1>3, TaskFacts
  <2>2. /\ x \in DynTask /\ x.root = r /\ x.step = "exec" /\ x.op = "call" /\ x.name = task[a].name /\ x.id = task[a].id
        /\ x.published = task[a].published /\ \A q \in Roots : x[q] = task[a][q]
    BY <1>1, TaskFacts DEF DynTask, Roots, DynSteps
  <2> HIDE DEF x
  <2>3. DynTaskOK(x) /\ \A q \in Roots : Fresh(x, q)
    BY <1>1, <2>2, TaskFacts DEF DynTaskOK, Fresh
  <2>4. CallInv(a)'
    <3>1. task'[a] = x
      BY <2>1, TaskFacts
    <3>2. BeingPromoted(task[a].name) => BeingPromoted(task[a].name)'
      <4>1. task \in [Actors -> DynTask] /\ task[a].op # "promote" /\ task[a].name \in Names
        BY <1>1, TaskFacts
      <4>2. \A n \in Names : BeingPromoted(n) => BeingPromoted(n)'
        BY <2>1, <4>1, PromotionGoesOn
      <4> QED
        BY <2>2, <3>1, <4>1, <4>2 DEF BeingPromoted
    <3> QED
      BY <1>1, <1>3, <2>2, <3>1, <3>2, TaskFacts DEF CallInv, Roots
  <2> QED
    BY <1>1, <2>1, <2>2, <2>3, <2>4, TaskFacts, LookKeeps
<1> QED
  BY <1>2, <1>3 DEF ResolveRoot, Roots

LEMMA ExecStep ==
  ASSUME DynInv, NEW a \in Actors, Exec(a)
  PROVE  DynInv'
<1> DEFINE got == module[task[a].root][task[a].name]
           x == [task[a] EXCEPT !.ran = got, !.step = "ran"]
<1>1. /\ task[a].op = "call" /\ task[a].step = "exec" /\ task[a].name \in Names /\ task[a].root \in Roots
      /\ UNCHANGED <<index, saves, module, promoted, remade, clobbered>> /\ begun' = begun
      /\ got \in Sources
  BY TaskFacts DEF Exec, At, DynTask, DynInv, DynTypeOK
<1>2. task' = [task EXCEPT ![a] = x]
  BY TaskFacts DEF Exec
<1>3. /\ x \in DynTask /\ x.root = task[a].root /\ x.step = "ran" /\ x.op = "call" /\ x.name = task[a].name
      /\ x.id = task[a].id /\ x.ran = got
      /\ x.published = task[a].published /\ \A q \in Roots : x[q] = task[a][q]
  <2> HIDE DEF got
  <2> QED
    BY <1>1, TaskFacts DEF DynTask, Roots, DynSteps
<1> HIDE DEF x
<1>4. DynTaskOK(x) /\ \A q \in Roots : Fresh(x, q)
  BY <1>1, <1>3, TaskFacts DEF DynTaskOK, Fresh
<1>5. CallInv(a)'
  <2>1. task'[a] = x
    BY <1>2, TaskFacts
  <2>2. BeingPromoted(task[a].name) => BeingPromoted(task[a].name)'
    <3>1. task \in [Actors -> DynTask] /\ task[a].op # "promote"
      BY <1>1, TaskFacts
    <3>2. \A n \in Names : BeingPromoted(n) => BeingPromoted(n)'
      BY <1>2, <3>1, PromotionGoesOn
    <3> QED
      BY <1>1, <1>3, <2>1, <3>2 DEF BeingPromoted
  <2> SUFFICES ASSUME clobbered = {}, task[a].published # Absent, task[a].name \notin remade,
                      ~BeingPromoted(task[a].name)
               PROVE  task[a].root = "sandbox" /\ got = task[a].published
    BY <1>1, <1>3, <2>1, <2>2, TaskFacts DEF CallInv
  <2>3. promoted[task[a].name] = task[a].published /\ task[a].root = "sandbox"
    BY <1>1, TaskFacts DEF CallInv
  <2>4. module["sandbox"][task[a].name] = promoted[task[a].name]
    BY <1>1, <2>3 DEF DynInv, PromoteInv, Stays
  <2> QED
    BY <2>3, <2>4
<1> QED
  BY <1>1, <1>2, <1>3, <1>4, <1>5, TaskFacts, LookKeeps

\* An operation that is no call of a function and goes on without changing a root.
LEMMA OtherGoesOn ==
  ASSUME DynInv, NEW a \in Actors, NEW x \in DynTask, task' = [task EXCEPT ![a] = x],
         UNCHANGED <<promoted, remade, clobbered>>,
         x.published = task[a].published, x.name = task[a].name, task[a].name \in Names,
         x.op # "call" \/ x.step \notin {"looked", "exec", "ran"}, x.step # "ran",
         task[a].op # "promote" \/ task[a].step \notin {"unlink", "save", "fill"}
  PROVE  CallInv(a)'
<1>1. task'[a] = x
  BY TaskFacts
<1> QED
  BY <1>1, TaskFacts DEF CallInv

LEMMA BumpStep ==
  ASSUME DynInv, NEW a \in Actors, Bump(a)
  PROVE  DynInv'
<1>1. /\ task[a].op = "call" /\ task[a].step = "ran" /\ task[a].root \in Roots /\ task[a].name \in Names
      /\ UNCHANGED <<index, saves, module, promoted, remade, clobbered>> /\ begun' = begun
  BY TaskFacts DEF Bump, At, DynTask
<1>2. CASE Done(a)
  BY <1>1, <1>2, RestKeeps
<1>3. CASE ~Done(a)
  <2> DEFINE r == task[a].root
             c == Copy(r)
             x == [task[a] EXCEPT ![r] = c, !.step = "save"]
  <2>1. task' = [task EXCEPT ![a] = x]
    BY <1>3, TaskFacts DEF Bump
  <2>2. c \in Copies /\ c.at = saves[r] /\ c.names = index[r]
    BY <1>1, CopyNow
  <2> HIDE DEF r, c
  <2>3. r \in Roots
    BY <1>1 DEF r
  <2>4. /\ x \in DynTask /\ x.step = "save" /\ x.op = "call" /\ x.name = task[a].name /\ x.id = task[a].id
        /\ x.published = task[a].published /\ x[r] = c /\ \A q \in Roots \ {r} : x[q] = task[a][q]
    BY <1>1, <2>2, <2>3, TaskFacts DEF DynTask, Roots, DynSteps
  <2> HIDE DEF x
  <2>5. DynTaskOK(x)
    BY <1>1, <2>4, TaskFacts DEF DynTaskOK
  <2>6. \A q \in Roots : Fresh(x, q)
    <3>1. Fresh(x, r)
      BY <2>2, <2>3, <2>4 DEF Fresh, DynInv, DynTypeOK
    <3>2. \A q \in Roots \ {r} : Fresh(x, q)
      BY <2>4, TaskFacts DEF Fresh
    <3> QED
      BY <3>1, <3>2
  <2>7. CallInv(a)'
    BY <1>1, <2>1, <2>4, OtherGoesOn
  <2> QED
    BY <1>1, <2>1, <2>4, <2>5, <2>6, <2>7, TaskFacts, LookKeeps
<1> QED
  BY <1>2, <1>3

LEMMA PromoteLookStep ==
  ASSUME DynInv, NEW a \in Actors, PromoteLook(a)
  PROVE  DynInv'
<1>1. /\ task[a].op = "promote" /\ task[a].step = "looked" /\ task[a].name \in Names
      /\ UNCHANGED <<index, saves, module, promoted, remade, clobbered>> /\ begun' = begun
  BY TaskFacts DEF PromoteLook, At
<1>2. CASE Done(a)
  BY <1>1, <1>2, RestKeeps
<1>3. CASE ~Done(a)
  <2> DEFINE c == Copy("sandbox")
             x == [task[a] EXCEPT !.sandbox = c, !.step = "copy"]
  <2>1. task' = [task EXCEPT ![a] = x] /\ task[a].name \notin index["sandbox"]
    BY <1>3, TaskFacts DEF PromoteLook
  <2>2. c \in Copies /\ c.at = saves["sandbox"] /\ c.names = index["sandbox"]
    BY <1>1, CopyNow DEF Roots
  <2> HIDE DEF c
  <2>3. /\ x \in DynTask /\ x.step = "copy" /\ x.op = "promote" /\ x.name = task[a].name /\ x.id = task[a].id
        /\ x.published = task[a].published /\ x.sandbox = c /\ x["sandbox"] = c /\ x["lib"] = task[a]["lib"]
        /\ x.root = task[a].root
    BY <1>1, <2>2, TaskFacts DEF DynTask, DynSteps
  <2> HIDE DEF x
  <2>4. DynTaskOK(x)
    BY <1>1, <2>1, <2>2, <2>3, TaskFacts DEF DynTaskOK
  <2>5. \A q \in Roots : Fresh(x, q)
    <3>1. Fresh(x, "sandbox")
      BY <2>2, <2>3 DEF Fresh, DynInv, DynTypeOK, Roots
    <3>2. Fresh(x, "lib")
      BY <2>3, TaskFacts DEF Fresh, Roots
    <3> QED
      BY <3>1, <3>2 DEF Roots
  <2>6. CallInv(a)'
    BY <1>1, <2>1, <2>3, OtherGoesOn
  <2> QED
    BY <1>1, <2>1, <2>3, <2>4, <2>5, <2>6, TaskFacts, LookKeeps
<1> QED
  BY <1>2, <1>3

LEMMA ArchiveCopyStep ==
  ASSUME DynInv, NEW a \in Actors, ArchiveCopy(a)
  PROVE  DynInv'
<1>1. /\ task[a].op = "archive" /\ task[a].step = "looked" /\ task[a].name \in Names
      /\ UNCHANGED <<index, saves, module, promoted, remade, clobbered>> /\ begun' = begun
  BY TaskFacts DEF ArchiveCopy, At
<1>2. task \in [Actors -> DynTask] /\ begun' \in Nat
  BY <1>1, TaskFacts
<1>3. ASSUME NEW step \in {"save", "unlink"}, Goes(a, step),
             step = "save" => module["lib"][task[a].name] = Absent
      PROVE  DynInv'
  <2> DEFINE x == [task[a] EXCEPT !.step = step]
  <2>1. task' = [task EXCEPT ![a] = x]
    BY <1>2, <1>3 DEF Goes
  <2>2. /\ x \in DynTask /\ x.step = step /\ x.op = "archive" /\ x.name = task[a].name /\ x.id = task[a].id
        /\ x.published = task[a].published /\ x.root = task[a].root /\ \A q \in Roots : x[q] = task[a][q]
    BY <1>1, TaskFacts DEF DynTask, Roots, DynSteps
  <2> HIDE DEF x
  <2>3. DynTaskOK(x) /\ \A q \in Roots : Fresh(x, q)
    BY <1>1, <2>2, TaskFacts DEF DynTaskOK, Fresh
  <2>4. CallInv(a)'
    BY <1>1, <2>1, <2>2, OtherGoesOn
  <2>5. /\ task[a].step \in {"rest", "looked", "exec", "ran", "copy"} /\ x.step # "fill"
        /\ x.step = "save" => (x.op = "call" \/ (x.op = "archive" /\ module["lib"][x.name] = Absent))
        /\ x.op = "promote" => x.step \in {"looked", "copy"}
    BY <1>1, <1>3, <2>2
  <2> QED
    BY <1>1, <1>2, <2>1, <2>2, <2>3, <2>4, <2>5, LookKeeps
<1> QED
  BY <1>3 DEF ArchiveCopy

\* A source that an operation writes, copies or removes is one it saves the index for.
LEMMA SourceKeeps ==
  ASSUME DynInv, NEW a \in Actors, NEW x \in DynTask, DynTaskOK(x), task' = [task EXCEPT ![a] = x],
         NEW r \in Roots, NEW n \in Names, NEW src \in Sources, module' = [module EXCEPT ![r][n] = src],
         UNCHANGED <<index, saves, begun, promoted, clobbered>>,
         remade' \in SUBSET Names, remade \subseteq remade',
         task[a].step \in {"looked", "copy", "unlink"}, task[a].op # "call",
         x.step \in {"unlink", "save"}, x.op = task[a].op, x.name = task[a].name, n = task[a].name,
         x.root = task[a].root, x.published = task[a].published,
         \A q \in Roots : x[q] = task[a][q],
         x.op = "make" => n \in remade',
         r = "sandbox" => x.op = "promote" /\ x.step = "unlink",
         Pending(a, r)', \A q \in Roots \ {r} : Pending(a, q)' <=> Pending(a, q),
         (x.op \in {"make", "edit"} \/ (x.op = "promote" /\ r = "sandbox")) => src # Absent,
         (x.op \in {"archive", "promote"} /\ r = "lib") => src = Absent
  PROVE  DynInv'
<1>1. /\ task'[a] = x /\ \A b \in Actors \ {a} : task'[b] = task[b]
      /\ \A b \in Actors \ {a}, q \in Roots :
            (Pending(b, q)' <=> Pending(b, q)) /\ (Filling(b, q)' <=> Filling(b, q))
  BY TaskFacts, WorkKept
<1>2. \A q \in Roots : ~Filling(a, q) /\ ~Filling(a, q)'
  BY <1>1 DEF Filling
<1>3. /\ module'[r][n] = src /\ \A m \in Names \ {n} : module'[r][m] = module[r][m]
      /\ \A q \in Roots \ {r} : module'[q] = module[q]
      /\ module' \in [Roots -> [Names -> Sources]]
  BY DEF DynInv, DynTypeOK
<1>4. \A q \in Roots : Writing(q)' <=> Writing(q)
  BY DEF Writing
<1>5. DynTypeOK'
  <2>1. (task \in [Actors -> DynTask])' /\ (\A b \in Actors : DynTaskOK(task[b]))'
    BY <1>1 DEF DynInv, DynTypeOK
  <2> QED
    BY <1>3, <2>1 DEF DynInv, DynTypeOK
<1>6. CopyInv'
  <2>1. \A q \in Roots : Fresh(Rest, q)' /\ \A b \in Actors \ {a} : Fresh(task[b], q)'
    BY <1>1 DEF DynInv, CopyInv, Fresh, Writing
  <2>2. \A q \in Roots : Fresh(task[a], q)'
    BY <1>1, <1>4, TaskFacts DEF Fresh
  <2> QED
    BY <2>1, <2>2 DEF CopyInv
<1>7. FillInv'
  BY <1>1, <1>2, <1>4 DEF DynInv, FillInv
<1>8. AgreeInv'
  <2> SUFFICES ASSUME NEW q \in Roots, q \notin clobbered PROVE (Doomed(q) \/ Agrees(q))'
    BY DEF AgreeInv
  <2>0. Doomed(q) \/ Agrees(q)
    BY DEF DynInv, AgreeInv
  <2>1. CASE q # r
    <3>1. \A b \in Actors :
            /\ Pending(b, q)' <=> Pending(b, q)
            /\ Filling(b, q)' <=> Filling(b, q)
            /\ (Pending(b, q) \/ Filling(b, q)) =>
                  task'[b].op = task[b].op /\ task'[b].name = task[b].name /\ task'[b][q] = task[b][q]
      BY <1>1, <1>2, <2>1
    <3> QED
      BY <1>3, <2>0, <2>1, <3>1, RootKept
  <2>2. CASE q = r
    <3> SUFFICES ASSUME ~Doomed(r)' PROVE Agrees(r)'
      BY <2>2
    <3>1. ~Writing(r) /\ ~Writing(r)'
      BY <1>4 DEF Doomed, Stale
    <3>2. \A b \in Actors : Pending(b, r) => (Pending(b, r)' /\ (Stale(b, r) <=> Stale(b, r)'))
      BY <1>1, <1>4 DEF Stale
    <3>3. Agrees(r)
      BY <2>0, <2>2, <3>2 DEF Doomed
    <3>4. \A b \in Actors : ~Filling(b, r)'
      BY <1>1, <1>2, <2>2, <3>1 DEF DynInv, FillInv
    <3>5. ASSUME NEW m \in Names
          PROVE  \/ m \in index'[r] <=> module'[r][m] # Absent
                 \/ \E b \in Actors : Pending(b, r)' /\ task'[b].name = m /\ task'[b].op # "call"
      <4>1. CASE m = n
        BY <1>1, <4>1
      <4>2. CASE m # n
        BY <1>1, <1>3, <3>1, <3>2, <3>3, <4>2 DEF Agrees
      <4> QED
        BY <4>1, <4>2
    <3>6. \A b \in Actors : Alone(b, r)' => Settles(b, r)'
      BY <1>1, <1>3 DEF Alone, Settles
    <3> QED
      BY <3>4, <3>5, <3>6 DEF Agrees
  <2> QED
    BY <2>1, <2>2
<1>9. PromoteInv'
  <2>1. \A m \in Names : BeingPromoted(m) => BeingPromoted(m)'
    BY TaskFacts, PromotionGoesOn
  <2>2. \A m \in Names : Left(m)' => Left(m)
    BY <1>1 DEF Left
  <2>3. ASSUME NEW m \in Names PROVE Stays(m)'
    <3>1. ~BeingPromoted(m)' => module'["sandbox"][m] = module["sandbox"][m]
      <4>1. CASE r = "lib"
        BY <1>3, <4>1 DEF Roots
      <4>2. CASE r = "sandbox" /\ m # n
        BY <1>3, <4>2
      <4>3. CASE r = "sandbox" /\ m = n
        BY <1>1, <4>3 DEF BeingPromoted
      <4> QED
        BY <4>1, <4>2, <4>3 DEF Roots
    <3>2. Stays(m)
      BY DEF DynInv, PromoteInv
    <3>3. "sandbox" \in Roots
      BY DEF Roots
    <3> QED
      BY <1>1, <1>2, <1>4, <2>1, <3>1, <3>2, <3>3 DEF Stays
  <2>4. ASSUME NEW m \in Names PROVE LibInv(m)'
    <3> SUFFICES ASSUME clobbered = {}, Left(m) PROVE LibInv(m)'
      BY <2>2 DEF LibInv
    <3>1. "lib" \in Roots
      BY DEF Roots
    <3>2. \A b \in Actors : Filling(b, "lib")' => Filling(b, "lib") /\ Changed(b)' = Changed(b)
      BY <1>1, <1>2, <3>1 DEF Changed
    <3>3. ASSUME NEW b \in Actors, Pending(b, "lib")', task'[b].op = "make", task'[b].name = m, ~Stale(b, "lib")'
          PROVE  m \in remade'
      <4>1. CASE b = a
        BY <1>1, <3>3, <4>1
      <4>2. CASE b # a
        BY <1>1, <1>4, <3>1, <3>3, <4>2 DEF Stale, DynInv, PromoteInv, LibInv
      <4> QED
        BY <4>1, <4>2
    <3> QED
      BY <3>1, <3>2, <3>3 DEF DynInv, PromoteInv, LibInv
  <2>5. ASSUME NEW b \in Actors PROVE CallInv(b)'
    <3>1. CASE b = a
      BY <1>1, <3>1, TaskFacts DEF CallInv
    <3>2. CASE b # a
      <4>1. task'[b] = task[b] /\ (Listed(b, "lib")' <=> Listed(b, "lib"))
        BY <1>1, <3>2 DEF Listed
      <4>2. CallInv(b)
        BY DEF DynInv, PromoteInv
      <4>3. BeingPromoted(task[b].name) => BeingPromoted(task[b].name)'
        <5>1. CASE task[b].name \in Names
          BY <2>1, <4>1, <5>1 DEF BeingPromoted
        <5>2. CASE task[b].name \notin Names
          BY <5>2, TaskFacts DEF BeingPromoted, DynTaskOK
        <5> QED
          BY <5>1, <5>2
      <4> QED
        BY <4>1, <4>2, <4>3 DEF CallInv
    <3> QED
      BY <3>1, <3>2
  <2> QED
    BY <2>3, <2>4, <2>5 DEF PromoteInv
<1> QED
  BY <1>5, <1>6, <1>7, <1>8, <1>9 DEF DynInv

LEMMA WriteStep ==
  ASSUME DynInv, NEW a \in Actors, Write(a)
  PROVE  DynInv'
<1> DEFINE n == task[a].name
           src == task[a].id
           x == [task[a] EXCEPT !.step = "save"]
<1>1. /\ task[a].op \in {"make", "edit"} /\ task[a].step = "looked" /\ n \in Names /\ src \in Sources /\ src # Absent
      /\ UNCHANGED <<index, saves, begun, promoted, clobbered>> /\ "lib" \in Roots
  BY TaskFacts, DynamicBounds DEF Write, At, Sources, DynTask, Roots
<1>2. module' = [module EXCEPT !["lib"][n] = src]
  BY DEF Write
<1>3. task' = [task EXCEPT ![a] = x]
  BY TaskFacts DEF Write, Goes
<1>4. /\ x \in DynTask /\ x.step = "save" /\ x.op = task[a].op /\ x.name = n /\ x.id = task[a].id
      /\ x.published = task[a].published /\ x.root = task[a].root /\ \A q \in Roots : x[q] = task[a][q]
      /\ x.lib = task[a].lib
  BY <1>1, TaskFacts DEF DynTask, Roots, DynSteps
<1>5. remade' \in SUBSET Names /\ remade \subseteq remade' /\ (x.op = "make" => n \in remade')
  BY <1>1, <1>4 DEF Write, DynInv, DynTypeOK
<1>6. x.op = "edit" => n \in task[a].lib.names
  BY <1>4 DEF Write, Listed
<1> HIDE DEF x, src, n
<1>7. DynTaskOK(x) /\ task[a].root = "lib"
  BY <1>1, <1>4, <1>6, TaskFacts DEF DynTaskOK, DynTask, Roots
<1>8. Pending(a, "lib")' /\ \A q \in Roots \ {"lib"} : ~Pending(a, q)' /\ ~Pending(a, q)
  BY <1>1, <1>3, <1>4, <1>7, TaskFacts DEF Pending
<1>9. n = task[a].name
  BY DEF n
<1> QED
  BY <1>1, <1>2, <1>3, <1>4, <1>5, <1>7, <1>8, <1>9, SourceKeeps

LEMMA PromoteCopyStep ==
  ASSUME DynInv, NEW a \in Actors, PromoteCopy(a)
  PROVE  DynInv'
<1> DEFINE n == task[a].name
           src == module["lib"][n]
           x == [task[a] EXCEPT !.step = "unlink"]
<1>1. /\ task[a].op = "promote" /\ task[a].step = "copy" /\ n \in Names /\ src \in Sources
      /\ UNCHANGED <<index, saves, begun, promoted, remade, clobbered>> /\ "sandbox" \in Roots
  BY TaskFacts DEF PromoteCopy, At, Roots, DynInv, DynTypeOK
<1>2. CASE Done(a) /\ UNCHANGED module
  BY <1>1, <1>2, RestKeeps
<1>3. CASE ~(Done(a) /\ UNCHANGED module)
  <2>1. module' = [module EXCEPT !["sandbox"][n] = src] /\ Goes(a, "unlink") /\ src # Absent
    BY <1>3 DEF PromoteCopy
  <2>2. task' = [task EXCEPT ![a] = x]
    BY <2>1, TaskFacts DEF Goes
  <2>3. /\ x \in DynTask /\ x.step = "unlink" /\ x.op = "promote" /\ x.name = n /\ x.id = task[a].id
        /\ x.published = task[a].published /\ x.root = task[a].root /\ \A q \in Roots : x[q] = task[a][q]
        /\ x.sandbox = task[a].sandbox
    BY <1>1, TaskFacts DEF DynTask, Roots, DynSteps
  <2>4. n = task[a].name /\ remade' \in SUBSET Names /\ remade \subseteq remade'
    BY <1>1 DEF DynInv, DynTypeOK
  <2> HIDE DEF x, src, n
  <2>5. DynTaskOK(x)
    BY <1>1, <2>3, <2>4, TaskFacts DEF DynTaskOK
  <2>6. Pending(a, "sandbox")' /\ \A q \in Roots \ {"sandbox"} : ~Pending(a, q)' /\ ~Pending(a, q)
    BY <1>1, <2>2, <2>3, TaskFacts DEF Pending
  <2> QED
    BY <1>1, <2>1, <2>2, <2>3, <2>4, <2>5, <2>6, SourceKeeps
<1> QED
  BY <1>2, <1>3

\* unlink found the module.
LEMMA UnlinkFoundStep ==
  ASSUME DynInv, NEW a \in Actors, Unlink(a), module["lib"][task[a].name] # Absent
  PROVE  DynInv'
<1> DEFINE n == task[a].name
           x == [task[a] EXCEPT !.step = "save"]
<1>1. /\ task[a].step = "unlink" /\ n \in Names /\ Absent \in Sources
      /\ UNCHANGED <<index, saves, begun, promoted, remade, clobbered>> /\ "lib" \in Roots
      /\ module' = [module EXCEPT !["lib"][n] = Absent] /\ Goes(a, "save")
  BY TaskFacts DEF Unlink, Roots, Sources
<1>2. task' = [task EXCEPT ![a] = x]
  BY <1>1, TaskFacts DEF Goes
<1>3. /\ x \in DynTask /\ x.step = "save" /\ x.op = task[a].op /\ x.name = n /\ x.id = task[a].id
      /\ x.published = task[a].published /\ x.root = task[a].root /\ \A q \in Roots : x[q] = task[a][q]
      /\ x.sandbox = task[a].sandbox
  BY <1>1, TaskFacts DEF DynTask, Roots, DynSteps
<1>4. n = task[a].name /\ remade' \in SUBSET Names /\ remade \subseteq remade'
  BY <1>1 DEF DynInv, DynTypeOK
<1> HIDE DEF x, n
<1>5. DynTaskOK(x) /\ task[a].op \in {"promote", "archive"} /\ task[a].root = "lib"
  BY <1>1, <1>3, <1>4, TaskFacts DEF DynTaskOK, DynTask, Ops, Roots
<1>6. Pending(a, "lib")' /\ \A q \in Roots \ {"lib"} : Pending(a, q)' <=> Pending(a, q)
  BY <1>1, <1>2, <1>3, <1>5, TaskFacts DEF Pending, Roots
<1> QED
  BY <1>1, <1>2, <1>3, <1>4, <1>5, <1>6, SourceKeeps

\* What an operation that breaks off was at work on is out of the reckoning.
LEMMA BreakStep ==
  ASSUME DynInv, NEW a \in Actors, BreaksOff(a), task[a].step \in {"save", "fill", "copy", "unlink"},
         UNCHANGED <<index, module, begun, promoted, remade>>,
         saves' \in [Roots -> Nat], \A r \in Roots : saves'[r] = saves[r] \/ (r \in clobbered' /\ saves'[r] = saves[r] + 1)
  PROVE  DynInv'
<1>1. task' = [task EXCEPT ![a] = Rest] /\ Rest \in DynTask
  BY RestIsTask DEF BreaksOff, Done
<1>2. /\ task'[a] = Rest /\ \A b \in Actors \ {a} : task'[b] = task[b]
      /\ \A b \in Actors \ {a}, q \in Roots :
            (Pending(b, q)' <=> Pending(b, q)) /\ (Filling(b, q)' <=> Filling(b, q))
  BY <1>1, TaskFacts, WorkKept
<1>3. clobbered \subseteq clobbered' /\ clobbered' \in SUBSET Roots /\ task[a].root \in clobbered'
      /\ (task[a].op = "promote" => clobbered' = Roots)
  BY TaskFacts DEF BreaksOff, DynInv, DynTypeOK, DynTask
<1>4. \A q \in Roots : ~Pending(a, q)' /\ ~Filling(a, q)'
  BY <1>2, RestIsTask DEF Pending, Filling
<1>5. \A q \in Roots \ clobbered' : ~Pending(a, q) /\ ~Filling(a, q) /\ saves'[q] = saves[q]
                                    /\ (Writing(q)' <=> Writing(q)) /\ q \notin clobbered
  BY <1>3 DEF Pending, Filling, Writing
<1>6. DynTypeOK'
  <2>1. (task \in [Actors -> DynTask])' /\ (\A b \in Actors : DynTaskOK(task[b]))'
    BY <1>1, <1>2, RestIsTask DEF DynInv, DynTypeOK
  <2> QED
    BY <1>3, <2>1 DEF DynInv, DynTypeOK
<1>7. CopyInv'
  <2>1. ASSUME NEW y \in DynTask, NEW q \in Roots, Fresh(y, q)
        PROVE  /\ y[q].at <= saves'[q]
               /\ q \notin clobbered' /\ y[q].at = saves'[q] /\ ~Writing(q)' => y[q].names = index'[q]
    <3>1. y[q].at \in Nat /\ saves[q] \in Nat /\ saves'[q] \in Nat /\ saves[q] <= saves'[q] /\ y[q].at <= saves[q]
      BY <2>1, TaskCopies DEF DynInv, DynTypeOK, Fresh
    <3> QED
      BY <1>5, <2>1, <3>1 DEF Fresh
  <2>2. \A b \in Actors, q \in Roots : task[b] \in DynTask /\ Fresh(task[b], q) /\ Fresh(Rest, q)
    BY TaskFacts DEF DynInv, CopyInv
  <2>3. \A q \in Roots : Fresh(Rest, q)'
    BY <1>1, <2>1, <2>2 DEF Fresh
  <2>4. \A b \in Actors \ {a}, q \in Roots : Fresh(task[b], q)'
    BY <1>2, <2>1, <2>2 DEF Fresh
  <2>5. \A q \in Roots : Fresh(task[a], q)'
    BY <1>2, <2>3 DEF Fresh
  <2> QED
    BY <2>3, <2>4, <2>5 DEF CopyInv
<1>8. FillInv'
  BY <1>2, <1>4, <1>5 DEF DynInv, FillInv
<1>9. AgreeInv'
  <2> SUFFICES ASSUME NEW q \in Roots, q \notin clobbered' PROVE (Doomed(q) \/ Agrees(q))'
    BY DEF AgreeInv
  <2>1. Doomed(q) \/ Agrees(q)
    BY <1>5 DEF DynInv, AgreeInv
  <2>2. \A b \in Actors :
          /\ Pending(b, q)' <=> Pending(b, q)
          /\ Filling(b, q)' <=> Filling(b, q)
          /\ (Pending(b, q) \/ Filling(b, q)) =>
                task'[b].op = task[b].op /\ task'[b].name = task[b].name /\ task'[b][q] = task[b][q]
    BY <1>2, <1>4, <1>5
  <2> QED
    BY <1>5, <2>1, <2>2, RootKept
<1>10. PromoteInv'
  BY <1>3 DEF PromoteInv, Stays, LibInv, CallInv
<1> QED
  BY <1>6, <1>7, <1>8, <1>9, <1>10 DEF DynInv

LEMMA UnlinkStep ==
  ASSUME DynInv, NEW a \in Actors, Unlink(a)
  PROVE  DynInv'
<1>1. CASE module["lib"][task[a].name] = Absent
  <2>1. /\ BreaksOff(a) /\ task[a].step = "unlink" /\ UNCHANGED <<index, module, begun, promoted, remade>>
        /\ saves' \in [Roots -> Nat] /\ \A r \in Roots : saves'[r] = saves[r]
    BY <1>1 DEF Unlink, DynInv, DynTypeOK
  <2> QED
    BY <2>1, BreakStep
<1> QED
  BY <1>1, UnlinkFoundStep

LEMMA DieStep ==
  ASSUME DynInv, NEW a \in Actors, Die(a)
  PROVE  DynInv'
<1>1. /\ BreaksOff(a) /\ UNCHANGED <<index, module, begun, promoted, remade>>
      /\ task[a].step \in {"save", "fill", "copy", "unlink"}
  BY TaskFacts DEF Die, DynTask, DynSteps
<1>2. task[a].root \in clobbered'
  BY TaskFacts DEF Die, BreaksOff, DynTask
<1>3. /\ saves' \in [Roots -> Nat]
      /\ \A r \in Roots : saves'[r] = saves[r] \/ (r \in clobbered' /\ saves'[r] = saves[r] + 1)
  BY <1>2 DEF Die, DynInv, DynTypeOK
<1> QED
  BY <1>1, <1>3, BreakStep

\* The writer who works from the newest copy, alone, makes the index right.
LEMMA WriterIsRight ==
  ASSUME DynInv, NEW a \in Actors, NEW r \in Roots, r \notin clobbered, r = task[a].root, task[a].step = "save",
         ~Stale(a, r), Alone(a, r)
  PROVE  Changed(a) = {n \in Names : module[r][n] # Absent}
<1>1. task[a][r].names = index[r] /\ index[r] \in SUBSET Names /\ task[a].name \in Names /\ task[a].op \in Ops
      /\ DynTaskOK(task[a])
  BY TaskFacts DEF Fresh, Stale, DynInv, DynTypeOK
<1>2. ~Doomed(r) /\ ~Writing(r)
  BY DEF Doomed, Alone, Stale
<1>3. /\ Settles(a, r)
      /\ \A n \in Names : (n \in index[r] <=> module[r][n] # Absent) \/ (n = task[a].name /\ task[a].op # "call")
  BY <1>2 DEF DynInv, AgreeInv, Agrees, Alone
<1>4. CASE task[a].op = "call"
  BY <1>1, <1>3, <1>4 DEF Changed
<1>5. CASE task[a].op \in {"make", "edit"}
  BY <1>1, <1>3, <1>5 DEF Changed, Settles
<1>6. CASE task[a].op \in {"promote", "archive"} /\ r = "lib"
  BY <1>1, <1>3, <1>6 DEF Changed, Settles
<1>7. CASE task[a].op \in {"promote", "archive"} /\ r = "sandbox"
  BY <1>1, <1>3, <1>7 DEF Changed, Settles, DynTaskOK
<1> QED
  BY <1>1, <1>4, <1>5, <1>6, <1>7 DEF Ops, Roots

LEMMA EmptyStep ==
  ASSUME DynInv, NEW a \in Actors, Empty(a)
  PROVE  DynInv'
<1>0. PICK r \in Roots : r = task[a].root
  BY TaskFacts DEF DynTask
<1> DEFINE x == [task[a] EXCEPT !.step = "fill"]
<1>1. /\ r = task[a].root /\ task[a].step = "save" /\ task[a] \in DynTask /\ saves \in [Roots -> Nat]
      /\ index' = [index EXCEPT ![r] = {}]
      /\ saves' = [saves EXCEPT ![r] = IF Writing(r) THEN @ ELSE @ + 1]
      /\ clobbered' = IF Stale(a, r) THEN clobbered \cup {r} ELSE clobbered
      /\ UNCHANGED <<module, begun, promoted, remade>> /\ task \in [Actors -> DynTask]
      /\ task[a].name \in Names /\ task[a].op \in Ops /\ DynTaskOK(task[a])
  BY <1>0, TaskFacts DEF Empty, Stale, DynInv, DynTypeOK
<1>2. task' = [task EXCEPT ![a] = x]
  BY TaskFacts DEF Empty, Goes
<1>3. /\ x \in DynTask /\ x.step = "fill" /\ x.op = task[a].op /\ x.name = task[a].name /\ x.id = task[a].id
      /\ x.published = task[a].published /\ x.root = r /\ \A q \in Roots : x[q] = task[a][q]
      /\ x.lib = task[a].lib /\ x.sandbox = task[a].sandbox
  BY <1>1, TaskFacts DEF DynTask, Roots, DynSteps
<1> HIDE DEF x
<1>4. /\ task'[a] = x /\ \A b \in Actors \ {a} : task'[b] = task[b]
      /\ \A b \in Actors \ {a}, q \in Roots :
            (Pending(b, q)' <=> Pending(b, q)) /\ (Filling(b, q)' <=> Filling(b, q))
  BY <1>2, TaskFacts, WorkKept
<1>5. /\ ~Pending(a, r)' /\ Filling(a, r)' /\ Pending(a, r) /\ ~Filling(a, r)
      /\ \A q \in Roots \ {r} : (Pending(a, q)' <=> Pending(a, q)) /\ ~Filling(a, q) /\ ~Filling(a, q)'
  BY <1>1, <1>3, <1>4 DEF Pending, Filling, Roots
<1>6. \A q \in Roots \ {r} : index'[q] = index[q] /\ saves'[q] = saves[q] /\ (Writing(q)' <=> Writing(q))
                             /\ (q \in clobbered' <=> q \in clobbered)
  <2>1. \A q \in Roots \ {r} : index'[q] = index[q] /\ saves'[q] = saves[q] /\ (q \in clobbered' <=> q \in clobbered)
    BY <1>1 DEF DynInv, DynTypeOK
  <2> QED
    BY <2>1 DEF Writing
<1>7. index'[r] = {} /\ saves' \in [Roots -> Nat] /\ saves[r] <= saves'[r] /\ Writing(r)'
      /\ (~Writing(r) => saves'[r] = saves[r] + 1)
  <2>1. saves[r] \in Nat /\ index'[r] = {}
    BY <1>1 DEF DynInv, DynTypeOK
  <2>2. CASE Writing(r)
    <3>1. saves'[r] = saves[r] /\ saves' = saves
      BY <1>1, <2>2
    <3> QED
      BY <1>1, <2>1, <2>2, <3>1 DEF Writing
  <2>3. CASE ~Writing(r)
    <3>1. saves'[r] = saves[r] + 1 /\ saves' \in [Roots -> Nat]
      BY <1>1, <2>1, <2>3
    <3>2. Writing(r)'
      BY <2>1, <2>3, <3>1, Parity DEF Writing
    <3> QED
      BY <2>1, <3>1, <3>2
  <2> QED
    BY <2>2, <2>3
<1>8. r \notin clobbered' => r \notin clobbered /\ ~Stale(a, r) /\ ~Writing(r)
  BY <1>1 DEF Stale
<1>9. DynTypeOK'
  <2>1. DynTaskOK(x)
    BY <1>1, <1>3 DEF DynTaskOK
  <2>2. (task \in [Actors -> DynTask])' /\ (\A b \in Actors : DynTaskOK(task[b]))'
    BY <1>2, <1>3, <1>4, <2>1 DEF DynInv, DynTypeOK
  <2>3. index' \in [Roots -> SUBSET Names] /\ clobbered' \in SUBSET Roots
    BY <1>1 DEF DynInv, DynTypeOK
  <2> QED
    BY <1>1, <1>7, <2>2, <2>3 DEF DynInv, DynTypeOK
<1>10. CopyInv'
  <2>1. ASSUME NEW y \in DynTask, NEW q \in Roots, Fresh(y, q)
        PROVE  /\ y[q].at <= saves'[q]
               /\ q \notin clobbered' /\ y[q].at = saves'[q] /\ ~Writing(q)' => y[q].names = index'[q]
    <3>1. CASE q = r
      <4>1. y[q].at \in Nat /\ saves[q] \in Nat /\ saves'[q] \in Nat /\ saves[q] <= saves'[q] /\ y[q].at <= saves[q]
        BY <1>1, <1>7, <2>1, <3>1, TaskCopies DEF Fresh
      <4> QED
        BY <1>7, <3>1, <4>1
    <3>2. CASE q # r
      BY <1>6, <2>1, <3>2 DEF Fresh
    <3> QED
      BY <3>1, <3>2
  <2>2. \A b \in Actors, q \in Roots : task[b] \in DynTask /\ Fresh(task[b], q) /\ Fresh(Rest, q) /\ Rest \in DynTask
    BY TaskFacts, RestIsTask DEF DynInv, CopyInv
  <2>3. \A q \in Roots : Fresh(Rest, q)'
    BY <2>1, <2>2 DEF Fresh
  <2>4. \A b \in Actors \ {a}, q \in Roots : Fresh(task[b], q)'
    BY <1>4, <2>1, <2>2 DEF Fresh
  <2>5. \A q \in Roots : Fresh(task[a], q)'
    BY <1>3, <1>4, <2>1, <2>2 DEF Fresh
  <2> QED
    BY <2>3, <2>4, <2>5 DEF CopyInv
<1>11. r \notin clobbered' => \A b \in Actors : Filling(b, r)' => b = a
  BY <1>1, <1>4, <1>8 DEF DynInv, FillInv
<1>12. FillInv'
  <2> SUFFICES ASSUME NEW q \in Roots, q \notin clobbered'
               PROVE  /\ Writing(q)' <=> \E b \in Actors : Filling(b, q)'
                      /\ \A b, c \in Actors : Filling(b, q)' /\ Filling(c, q)' => b = c
    BY DEF FillInv
  <2>1. CASE q = r
    BY <1>5, <1>7, <1>11, <2>1
  <2>2. CASE q # r
    BY <1>4, <1>5, <1>6, <2>2 DEF DynInv, FillInv
  <2> QED
    BY <2>1, <2>2
<1>13. Changed(a)' = Changed(a)
  BY <1>1, <1>3, <1>4 DEF Changed
<1>14. AgreeInv'
  <2> SUFFICES ASSUME NEW q \in Roots, q \notin clobbered', ~Doomed(q)' PROVE Agrees(q)'
    BY DEF AgreeInv
  <2>1. CASE q # r
    <3>1. Doomed(q) \/ Agrees(q)
      BY <1>6, <2>1 DEF DynInv, AgreeInv
    <3>2. \A b \in Actors :
            /\ Pending(b, q)' <=> Pending(b, q)
            /\ Filling(b, q)' <=> Filling(b, q)
            /\ (Pending(b, q) \/ Filling(b, q)) =>
                  task'[b].op = task[b].op /\ task'[b].name = task[b].name /\ task'[b][q] = task[b][q]
      BY <1>3, <1>4, <1>5, <2>1
    <3> QED
      BY <1>1, <1>6, <2>1, <3>1, <3>2, RootKept
  <2>2. CASE q = r
    <3>1. \A b \in Actors : ~Pending(b, r)'
      BY <1>7, <2>2 DEF Doomed, Stale
    <3>2. Alone(a, r)
      BY <1>1, <1>4, <1>5, <3>1 DEF Alone
    <3>3. Changed(a) = {n \in Names : module[r][n] # Absent}
      BY <1>1, <1>8, <2>2, <3>2, WriterIsRight
    <3> QED
      BY <1>1, <1>7, <1>11, <1>13, <2>2, <3>3 DEF Agrees
  <2> QED
    BY <2>1, <2>2
<1>15. \A n \in Names : BeingPromoted(n)' <=> BeingPromoted(n)
  BY <1>1, <1>3, <1>4 DEF BeingPromoted
<1>16. PromoteInv'
  <2> SUFFICES ASSUME clobbered' = {} PROVE PromoteInv'
    BY DEF PromoteInv, Stays, LibInv, CallInv
  <2>1. clobbered = {} /\ ~Stale(a, r) /\ ~Writing(r) /\ task[a][r].names = index[r]
    BY <1>1, <1>8, TaskFacts DEF Fresh, Stale
  <2>2. ASSUME NEW n \in Names, promoted[n] # Absent PROVE Stays(n)'
    <3>1. /\ ~Writing("sandbox") => n \in index["sandbox"]
          /\ \A b \in Actors : Filling(b, "sandbox") =>
                 n \in task[b].sandbox.names /\ ~(task[b].op = "promote" /\ task[b].name = n)
          /\ ~BeingPromoted(n) => module["sandbox"][n] = promoted[n]
      BY <2>1, <2>2 DEF DynInv, PromoteInv, Stays
    <3>2. CASE r = "sandbox"
      <4>1. n \in task[a].sandbox.names
        BY <2>1, <3>1, <3>2
      <4>2. ~(task[a].op = "promote" /\ task[a].name = n)
        BY <1>1, <4>1 DEF DynTaskOK
      <4> QED
        BY <1>1, <1>3, <1>4, <1>7, <1>11, <1>15, <3>1, <3>2, <4>1, <4>2 DEF Stays
    <3>3. CASE r = "lib"
      <4>1. "sandbox" \in Roots \ {r}
        BY <3>3 DEF Roots
      <4> QED
        BY <1>1, <1>4, <1>5, <1>6, <1>15, <3>1, <4>1 DEF Stays
    <3> QED
      BY <1>1, <3>2, <3>3 DEF Roots
  <2>3. ASSUME NEW n \in Names, Left(n)' PROVE LibInv(n)'
    <3>1. Left(n)
      BY <1>1, <1>3, <1>4, <2>3 DEF Left
    <3>2. /\ n \in index["lib"] => n \in remade
          /\ \A b \in Actors : Filling(b, "lib") /\ n \in Changed(b) => n \in remade
          /\ \A b \in Actors : Pending(b, "lib") /\ task[b].op = "make" /\ task[b].name = n /\ ~Stale(b, "lib") => n \in remade
      BY <2>1, <3>1 DEF DynInv, PromoteInv, LibInv
    <3>3. CASE r = "lib"
      <4>1. n \in Changed(a) => n \in remade
        <5>1. task[a].op = "edit" => task[a].name \in index["lib"]
          BY <1>1, <2>1, <3>3 DEF DynTaskOK
        <5> QED
          BY <1>1, <1>5, <2>1, <3>2, <3>3, <5>1 DEF Changed, Ops
      <4> QED
        BY <1>1, <1>7, <1>11, <1>13, <3>3, <4>1 DEF LibInv, Stale
    <3>4. CASE r = "sandbox"
      <4>1. "lib" \in Roots \ {r}
        BY <3>4 DEF Roots
      <4>2. \A b \in Actors : Filling(b, "lib")' => Filling(b, "lib") /\ Changed(b)' = Changed(b)
        BY <1>4, <1>5, <4>1 DEF Changed
      <4>3. \A b \in Actors : Pending(b, "lib")' /\ task'[b].op = "make" /\ task'[b].name = n /\ ~Stale(b, "lib")' =>
               Pending(b, "lib") /\ task[b].op = "make" /\ task[b].name = n /\ ~Stale(b, "lib")
        BY <1>3, <1>4, <1>5, <1>6, <4>1 DEF Stale
      <4> QED
        BY <1>1, <1>6, <3>2, <4>1, <4>2, <4>3 DEF LibInv
    <3> QED
      BY <1>1, <3>3, <3>4 DEF Roots
  <2>4. ASSUME NEW b \in Actors PROVE CallInv(b)'
    <3>1. CallInv(b)
      BY TaskFacts
    <3>2. CASE b = a
      <4>1. BeingPromoted(task[a].name)' <=> BeingPromoted(task[a].name)
        BY <1>1, <1>15, <1>3, <1>4 DEF BeingPromoted
      <4> QED
        BY <1>1, <1>3, <1>4, <2>1, <3>1, <3>2, <4>1 DEF CallInv
    <3>3. CASE b # a
      <4>1. task'[b] = task[b] /\ (Listed(b, "lib")' <=> Listed(b, "lib"))
        BY <1>4, <3>3 DEF Listed
      <4>2. BeingPromoted(task[b].name)' <=> BeingPromoted(task[b].name)
        BY <1>1, <1>3, <1>4 DEF BeingPromoted
      <4> QED
        BY <1>1, <2>1, <3>1, <4>1, <4>2 DEF CallInv
    <3> QED
      BY <3>2, <3>3
  <2> QED
    BY <1>1, <2>2, <2>3, <2>4 DEF PromoteInv, Stays, LibInv
<1> QED
  BY <1>9, <1>10, <1>12, <1>14, <1>16 DEF DynInv

LEMMA FillStep ==
  ASSUME DynInv, NEW a \in Actors, Fill(a)
  PROVE  DynInv'
<1>0. PICK r \in Roots : r = task[a].root
  BY TaskFacts DEF DynTask
<1> DEFINE n == task[a].name
           publishes == task[a].op = "promote" /\ r = "sandbox"
           goesOn == task[a].op = "promote" /\ r = "lib"
<1>1. /\ r = task[a].root /\ task[a].step = "fill" /\ task[a] \in DynTask /\ saves \in [Roots -> Nat]
      /\ index' = [index EXCEPT ![r] = Changed(a)]
      /\ saves' = [saves EXCEPT ![r] = IF Writing(r) THEN @ + 1 ELSE @]
      /\ UNCHANGED <<module, begun, clobbered>> /\ task \in [Actors -> DynTask]
      /\ task[a].name \in Names /\ task[a].op \in Ops /\ DynTaskOK(task[a])
      /\ promoted \in [Names -> Sources] /\ index \in [Roots -> SUBSET Names]
      /\ module \in [Roots -> [Names -> Sources]]
  BY <1>0, TaskFacts DEF Fill, DynInv, DynTypeOK
<1>2. /\ publishes => promoted' = [promoted EXCEPT ![task[a].name] = module["sandbox"][task[a].name]]
      /\ ~publishes => promoted' = promoted
      /\ goesOn => remade' = remade \ {task[a].name}
      /\ ~goesOn => remade' = remade
      /\ goesOn => task' = [task EXCEPT ![a].root = "sandbox", ![a].step = "save"]
      /\ ~goesOn => task' = [task EXCEPT ![a] = Rest]
  BY <1>0 DEF Fill, Done
<1>3. PICK x \in DynTask :
        /\ task' = [task EXCEPT ![a] = x] /\ DynTaskOK(x) /\ x.step # "fill" /\ \A q \in Roots : Fresh(x, q)
        /\ goesOn => /\ x.step = "save" /\ x.op = "promote" /\ x.name = task[a].name
                     /\ x.published = task[a].published /\ x.root = "sandbox" /\ \A q \in Roots : x[q] = task[a][q]
        /\ ~goesOn => x = Rest
  <2>1. CASE goesOn
    <3> DEFINE x == [task[a] EXCEPT !.root = "sandbox", !.step = "save"]
    <3>1. task' = [task EXCEPT ![a] = x]
      BY <1>1, <1>2, <2>1
    <3>2. /\ x \in DynTask /\ x.step = "save" /\ x.op = "promote" /\ x.name = task[a].name /\ x.id = task[a].id
          /\ x.published = task[a].published /\ x.root = "sandbox" /\ \A q \in Roots : x[q] = task[a][q]
          /\ x.sandbox = task[a].sandbox
      BY <1>1, <2>1 DEF DynTask, Roots, DynSteps
    <3> HIDE DEF x
    <3>3. DynTaskOK(x) /\ \A q \in Roots : Fresh(x, q)
      BY <1>1, <2>1, <3>2, TaskFacts DEF DynTaskOK, Fresh
    <3> QED
      BY <2>1, <3>1, <3>2, <3>3
  <2>2. CASE ~goesOn
    <3>1. \A q \in Roots : Fresh(Rest, q)
      BY DEF DynInv, CopyInv
    <3> QED
      BY <1>2, <2>2, <3>1, RestIsTask
  <2> QED
    BY <2>1, <2>2
<1>4. /\ task'[a] = x /\ \A b \in Actors \ {a} : task'[b] = task[b]
      /\ \A b \in Actors \ {a}, q \in Roots :
            (Pending(b, q)' <=> Pending(b, q)) /\ (Filling(b, q)' <=> Filling(b, q))
  BY <1>3, TaskFacts, WorkKept
<1>5. /\ \A q \in Roots : ~Filling(a, q)'
      /\ Filling(a, r) /\ ~Pending(a, r) /\ ~Pending(a, r)'
      /\ \A q \in Roots \ {r} : (Pending(a, q)' <=> Pending(a, q)) /\ ~Filling(a, q)
  BY <1>1, <1>3, <1>4, RestIsTask DEF Pending, Filling, Roots
<1>6. \A q \in Roots \ {r} : index'[q] = index[q] /\ saves'[q] = saves[q] /\ (Writing(q)' <=> Writing(q))
  <2>1. \A q \in Roots \ {r} : index'[q] = index[q] /\ saves'[q] = saves[q]
    BY <1>1
  <2> QED
    BY <2>1 DEF Writing
<1>7. index'[r] = Changed(a) /\ saves' \in [Roots -> Nat] /\ saves[r] <= saves'[r] /\ saves[r] \in Nat
      /\ (Writing(r) => (saves'[r] = saves[r] + 1 /\ ~Writing(r)'))
  <2>1. saves[r] \in Nat /\ index'[r] = Changed(a)
    BY <1>1
  <2>2. CASE ~Writing(r)
    <3>1. saves'[r] = saves[r] /\ saves' = saves
      BY <1>1, <2>2
    <3> QED
      BY <1>1, <2>1, <2>2, <3>1
  <2>3. CASE Writing(r)
    <3>1. saves'[r] = saves[r] + 1 /\ saves' \in [Roots -> Nat]
      BY <1>1, <2>1, <2>3
    <3>2. ~Writing(r)'
      BY <2>1, <2>3, <3>1, Parity DEF Writing
    <3> QED
      BY <2>1, <3>1, <3>2
  <2> QED
    BY <2>2, <2>3
<1>8. r \notin clobbered => Writing(r) /\ \A b \in Actors : Filling(b, r) => b = a
  BY <1>5 DEF DynInv, FillInv
<1>9. Changed(a) \in SUBSET Names
  <2>1. task[a][task[a].root].names \in SUBSET Names
    BY <1>0, <1>1, TaskCopies
  <2> QED
    BY <1>1, <2>1 DEF Changed, Ops
<1>10. promoted' \in [Names -> Sources] /\ remade' \in SUBSET Names
  BY <1>1, <1>2 DEF DynInv, DynTypeOK, Roots
<1>11. DynTypeOK'
  <2>1. (task \in [Actors -> DynTask])' /\ (\A b \in Actors : DynTaskOK(task[b]))'
    BY <1>1, <1>3, <1>4 DEF DynInv, DynTypeOK
  <2>2. index' \in [Roots -> SUBSET Names]
    BY <1>1, <1>9
  <2> QED
    BY <1>1, <1>7, <1>10, <2>1, <2>2 DEF DynInv, DynTypeOK
<1>12. CopyInv'
  <2>1. ASSUME NEW y \in DynTask, NEW q \in Roots, Fresh(y, q)
        PROVE  /\ y[q].at <= saves'[q]
               /\ q \notin clobbered' /\ y[q].at = saves'[q] /\ ~Writing(q)' => y[q].names = index'[q]
    <3>1. CASE q = r
      <4>1. y[q].at \in Nat /\ saves[q] \in Nat /\ saves'[q] \in Nat /\ saves[q] <= saves'[q] /\ y[q].at <= saves[q]
        BY <1>1, <1>7, <2>1, <3>1, TaskCopies DEF Fresh
      <4> QED
        BY <1>1, <1>7, <1>8, <3>1, <4>1
    <3>2. CASE q # r
      BY <1>1, <1>6, <2>1, <3>2 DEF Fresh
    <3> QED
      BY <3>1, <3>2
  <2>2. \A b \in Actors, q \in Roots : task[b] \in DynTask /\ Fresh(task[b], q) /\ Fresh(Rest, q) /\ Rest \in DynTask
    BY TaskFacts, RestIsTask DEF DynInv, CopyInv
  <2>3. \A q \in Roots : Fresh(Rest, q)'
    BY <2>1, <2>2 DEF Fresh
  <2>4. \A b \in Actors \ {a}, q \in Roots : Fresh(task[b], q)'
    BY <1>4, <2>1, <2>2 DEF Fresh
  <2>5. \A q \in Roots : Fresh(task[a], q)'
    BY <1>3, <1>4, <2>1 DEF Fresh
  <2> QED
    BY <2>3, <2>4, <2>5 DEF CopyInv
<1>13. r \notin clobbered => \A b \in Actors : ~Filling(b, r)'
  BY <1>4, <1>5, <1>8
<1>14. FillInv'
  <2> SUFFICES ASSUME NEW q \in Roots, q \notin clobbered
               PROVE  /\ Writing(q)' <=> \E b \in Actors : Filling(b, q)'
                      /\ \A b, c \in Actors : Filling(b, q)' /\ Filling(c, q)' => b = c
    BY <1>1 DEF FillInv
  <2>1. CASE q = r
    BY <1>7, <1>8, <1>13, <2>1
  <2>2. CASE q # r
    BY <1>4, <1>5, <1>6, <2>2 DEF DynInv, FillInv
  <2> QED
    BY <2>1, <2>2
\* Whoever else works on this root read it before.
<1>15. r \notin clobbered => \A b \in Actors : Pending(b, r)' => Stale(b, r)'
  <2> SUFFICES ASSUME r \notin clobbered, NEW b \in Actors, Pending(b, r)' PROVE Stale(b, r)'
    OBVIOUS
  <2>1. b # a /\ task'[b] = task[b]
    BY <1>4, <1>5
  <2>2. task[b][r].at \in Nat /\ task[b][r].at <= saves[r]
    BY TaskFacts, TaskCopies DEF Fresh
  <2> QED
    BY <1>7, <1>8, <2>1, <2>2 DEF Stale
<1>16. AgreeInv'
  <2> SUFFICES ASSUME NEW q \in Roots, q \notin clobbered, ~Doomed(q)' PROVE Agrees(q)'
    BY <1>1 DEF AgreeInv
  <2>1. CASE q # r
    <3>1. Doomed(q) \/ Agrees(q)
      BY DEF DynInv, AgreeInv
    <3>2. \A b \in Actors :
            /\ Pending(b, q)' <=> Pending(b, q)
            /\ Filling(b, q)' <=> Filling(b, q)
            /\ (Pending(b, q) \/ Filling(b, q)) =>
                  task'[b].op = task[b].op /\ task'[b].name = task[b].name /\ task'[b][q] = task[b][q]
      <4>1. Pending(a, q) => goesOn
        BY <1>1, <2>1 DEF Pending, Roots
      <4> QED
        BY <1>3, <1>4, <1>5, <2>1, <4>1
    <3> QED
      BY <1>1, <1>6, <2>1, <3>1, <3>2, RootKept
  <2>2. CASE q = r
    <3>1. \A b \in Actors : ~Pending(b, r)'
      BY <1>15, <2>2 DEF Doomed
    <3>2. \A b \in Actors : ~Pending(b, r)
      BY <1>4, <1>5, <3>1
    <3>3. Changed(a) = {m \in Names : module[r][m] # Absent}
      BY <1>5, <2>2, <3>2 DEF DynInv, AgreeInv, Doomed, Agrees
    <3> QED
      BY <1>1, <1>7, <1>13, <2>2, <3>1, <3>3 DEF Agrees, Alone
  <2> QED
    BY <2>1, <2>2
<1>17. \A m \in Names : BeingPromoted(m) => BeingPromoted(m)' \/ (publishes /\ m = n)
  <2> SUFFICES ASSUME NEW m \in Names, BeingPromoted(m), ~(publishes /\ m = n) PROVE BeingPromoted(m)'
    OBVIOUS
  <2>1. PICK b \in Actors : task[b].op = "promote" /\ task[b].name = m /\ task[b].step \in {"unlink", "save", "fill"}
    BY DEF BeingPromoted
  <2>2. CASE b = a
    <3>1. goesOn
      BY <1>1, <2>1, <2>2 DEF Roots
    <3> QED
      BY <1>3, <1>4, <2>1, <2>2, <3>1 DEF BeingPromoted
  <2>3. CASE b # a
    BY <1>4, <2>1, <2>3 DEF BeingPromoted
  <2> QED
    BY <2>2, <2>3
<1>18. PromoteInv'
  <2> SUFFICES ASSUME clobbered = {} PROVE PromoteInv'
    BY <1>1 DEF PromoteInv, Stays, LibInv, CallInv
  <2>1. Writing(r) /\ ~Writing(r)' /\ (\A b \in Actors : Filling(b, r) => b = a) /\ \A b \in Actors : ~Filling(b, r)'
    BY <1>7, <1>8, <1>13
  <2>2. promoted[n] # Absent => ~publishes
    BY <1>1, <1>5 DEF DynInv, PromoteInv, Stays
  <2>3. \A m \in Names : promoted[m] # Absent => promoted'[m] = promoted[m]
    BY <1>1, <1>2, <2>2
  <2>4. ASSUME NEW m \in Names, promoted'[m] # Absent PROVE Stays(m)'
    <3>1. CASE publishes /\ m = n
      <4>1. promoted'[m] = module["sandbox"][m] /\ m \in Changed(a)
        BY <1>0, <1>1, <1>2, <3>1 DEF Changed
      <4> QED
        BY <1>1, <1>7, <2>1, <3>1, <4>1 DEF Stays
    <3>2. CASE ~(publishes /\ m = n)
      <4>1. promoted[m] = promoted'[m]
        BY <1>1, <1>2, <3>2
      <4>2. /\ ~Writing("sandbox") => m \in index["sandbox"]
            /\ \A b \in Actors : Filling(b, "sandbox") =>
                   m \in task[b].sandbox.names /\ ~(task[b].op = "promote" /\ task[b].name = m)
            /\ ~BeingPromoted(m) => module["sandbox"][m] = promoted[m]
        BY <2>4, <4>1 DEF DynInv, PromoteInv, Stays
      <4>3. ~BeingPromoted(m)' => module'["sandbox"][m] = promoted'[m]
        BY <1>1, <1>17, <3>2, <4>1, <4>2
      <4>4. CASE r = "sandbox"
        <5>1. m \in task[a].sandbox.names
          BY <1>5, <4>2, <4>4
        <5>2. m \in Changed(a)
          BY <1>0, <1>1, <4>4, <5>1 DEF Changed, DynTaskOK, Ops
        <5> QED
          BY <1>7, <2>1, <4>3, <4>4, <5>2 DEF Stays
      <4>5. CASE r = "lib"
        <5>1. "sandbox" \in Roots \ {r}
          BY <4>5 DEF Roots
        <5> QED
          BY <1>4, <1>5, <1>6, <4>2, <4>3, <5>1 DEF Stays
      <4> QED
        BY <4>4, <4>5 DEF Roots
    <3> QED
      BY <3>1, <3>2
  <2>5. ASSUME NEW m \in Names, Left(m)' PROVE LibInv(m)'
    <3>1. Left(m) \/ (goesOn /\ m = n)
      <4>1. CASE promoted'[m] # Absent
        <5>1. promoted[m] # Absent \/ (publishes /\ m = n)
          BY <1>1, <1>2, <4>1
        <5> QED
          BY <1>0, <5>1 DEF Left
      <4>2. CASE \E b \in Actors : task'[b].op = "promote" /\ task'[b].name = m /\ task'[b].root = "sandbox"
        <5>1. PICK b \in Actors : task'[b].op = "promote" /\ task'[b].name = m /\ task'[b].root = "sandbox"
          BY <4>2
        <5>2. CASE b = a
          BY <1>3, <1>4, <5>1, <5>2, RestIsTask
        <5>3. CASE b # a
          BY <1>4, <5>1, <5>3 DEF Left
        <5> QED
          BY <5>2, <5>3
      <4> QED
        BY <2>5, <4>1, <4>2 DEF Left
    <3>2. Left(m) =>
            /\ m \in index["lib"] => m \in remade
            /\ \A b \in Actors : Filling(b, "lib") /\ m \in Changed(b) => m \in remade
            /\ \A b \in Actors : Pending(b, "lib") /\ task[b].op = "make" /\ task[b].name = m /\ ~Stale(b, "lib") => m \in remade
      BY DEF DynInv, PromoteInv, LibInv
    <3>3. CASE r = "lib"
      <4>1. m \in Changed(a) => m \in remade'
        <5>1. CASE goesOn /\ m = n
          BY <1>0, <1>1, <5>1 DEF Changed
        <5>2. CASE ~(goesOn /\ m = n)
          BY <1>2, <1>5, <3>1, <3>2, <3>3, <5>2
        <5> QED
          BY <5>1, <5>2
      <4> QED
        BY <1>7, <1>15, <2>1, <3>3, <4>1 DEF LibInv
    <3>4. CASE r = "sandbox"
      <4>1. "lib" \in Roots \ {r} /\ remade' = remade /\ Left(m)
        BY <1>2, <3>1, <3>4 DEF Roots
      <4>2. \A b \in Actors : Filling(b, "lib")' => Filling(b, "lib") /\ Changed(b)' = Changed(b)
        BY <1>4, <1>5, <4>1 DEF Changed
      <4>3. \A b \in Actors : Pending(b, "lib")' /\ task'[b].op = "make" /\ task'[b].name = m /\ ~Stale(b, "lib")' =>
               Pending(b, "lib") /\ task[b].op = "make" /\ task[b].name = m /\ ~Stale(b, "lib")
        <5>1. task'[a].op # "make"
          BY <1>3, <1>4, <3>4, RestIsTask
        <5> QED
          BY <1>4, <1>6, <4>1, <5>1 DEF Stale
      <4> QED
        BY <1>1, <1>6, <3>2, <4>1, <4>2, <4>3 DEF LibInv
    <3> QED
      BY <3>3, <3>4 DEF Roots
  <2>6. ASSUME NEW b \in Actors PROVE CallInv(b)'
    <3>1. CallInv(b)
      BY TaskFacts
    <3>2. CASE b = a /\ ~goesOn
      BY <1>3, <1>4, <3>2, RestIsTask DEF CallInv
    <3>3. CASE b = a /\ goesOn
      <4>1. BeingPromoted(task[a].name)'
        BY <1>3, <1>4, <3>3 DEF BeingPromoted
      <4>2. task'[a].published # Absent => promoted'[task'[a].name] = task'[a].published
        BY <1>1, <1>3, <1>4, <2>1, <2>3, <3>1, <3>3 DEF CallInv
      <4> QED
        BY <1>1, <3>3, <4>1, <4>2 DEF CallInv
    <3>4. CASE b # a
      <4>1. task'[b] = task[b] /\ (Listed(b, "lib")' <=> Listed(b, "lib"))
        BY <1>4, <3>4 DEF Listed
      <4> SUFFICES ASSUME task[b].published # Absent PROVE CallInv(b)'
        BY <4>1 DEF CallInv
      <4>2. promoted[task[b].name] = task[b].published
        BY <3>1 DEF CallInv
      <4>3. CASE task[b].name \in Names
        <5>1. promoted'[task[b].name] = task[b].published
          BY <2>3, <4>2, <4>3
        <5>2. BeingPromoted(task[b].name) => BeingPromoted(task[b].name)'
          <6>1. ~(publishes /\ task[b].name = n)
            BY <2>2, <4>2
          <6> QED
            BY <1>17, <4>1, <4>3, <6>1 DEF BeingPromoted
        <5>3. task[b].name \in remade => task[b].name \in remade' \/ BeingPromoted(task[b].name)'
          <6>1. goesOn => BeingPromoted(n)'
            BY <1>3, <1>4 DEF BeingPromoted
          <6> QED
            BY <1>2, <1>3, <1>4, <4>1, <6>1 DEF BeingPromoted
        <5> QED
          BY <1>1, <3>1, <4>1, <5>1, <5>2, <5>3 DEF CallInv
      <4>4. CASE task[b].name \notin Names
        <5>1. DynTaskOK(task[b])
          BY TaskFacts
        <5> QED
          BY <4>4, <5>1 DEF DynTaskOK
      <4> QED
        BY <4>3, <4>4
    <3> QED
      BY <3>2, <3>3, <3>4
  <2> QED
    BY <2>4, <2>5, <2>6 DEF PromoteInv, Stays, LibInv
<1> QED
  BY <1>11, <1>12, <1>14, <1>16, <1>18 DEF DynInv

LEMMA NextDyn == DynInv /\ [DynNext]_dynVars => DynInv'
<1> SUFFICES ASSUME DynInv, [DynNext]_dynVars PROVE DynInv'
  OBVIOUS
<1>1. CASE UNCHANGED dynVars
  BY <1>1 DEF dynVars, DynInv, DynTypeOK, CopyInv, Fresh, FillInv, Filling, AgreeInv, Doomed, Pending, Stale, Agrees,
              Alone, Settles, Changed, PromoteInv, Stays, LibInv, Left, CallInv, Listed, BeingPromoted, Writing
<1>2. CASE \E a \in Actors : \E op \in Ops, n \in Names : Begin(a, op, n)
  BY <1>2, BeginStep
<1>3. ASSUME NEW a \in Actors,
             \/ Refuse(a) \/ Write(a) \/ Empty(a) \/ Fill(a)
             \/ ResolveRoot(a) \/ Exec(a) \/ Bump(a)
             \/ PromoteLook(a) \/ PromoteCopy(a) \/ ArchiveCopy(a) \/ Unlink(a)
             \/ Die(a)
      PROVE  DynInv'
  BY <1>3, RefuseStep, WriteStep, EmptyStep, FillStep, ResolveRootStep, ExecStep, BumpStep,
     PromoteLookStep, PromoteCopyStep, ArchiveCopyStep, UnlinkStep, DieStep
<1> QED
  BY <1>1, <1>2, <1>3 DEF DynNext

-----------------------------------------------------------------------------
\* The invariant, for any number of operations, names, tool threads, processes and
\* deaths: the steps of dynamic.py's unlocked read, change and write of an index, in
\* every interleaving.
THEOREM DynInvCorrect == DynSpec => []DynInv
  BY InitDyn, NextDyn, PTL DEF DynSpec

\* FunctionLostOnlyByOverlap: a root whose index was never saved from an old copy,
\* and on which nothing broke off, lists exactly the functions whose modules it has,
\* once nobody is at work (dynamic.py:191-196, 315-377).
THEOREM LostOnlyByOverlap == DynSpec => []FunctionLostOnlyByOverlap
<1>1. DynInv => FunctionLostOnlyByOverlap
  <2> SUFFICES ASSUME DynInv, \A a \in Actors : task[a] = Rest, NEW r \in Roots, r \notin clobbered
               PROVE  index[r] = {n \in Names : module[r][n] # Absent}
    BY DEF FunctionLostOnlyByOverlap
  <2>1. \A a \in Actors : ~Pending(a, r) /\ ~Filling(a, r)
    BY RestIsTask DEF Pending, Filling
  <2>2. ~Doomed(r) /\ ~Writing(r)
    BY <2>1 DEF Doomed, DynInv, FillInv
  <2>3. Agrees(r) /\ index[r] \in SUBSET Names
    BY <2>2 DEF DynInv, AgreeInv, DynTypeOK
  <2> QED
    BY <2>1, <2>2, <2>3 DEF Agrees
<1> QED
  BY <1>1, DynInvCorrect, PTL

\* PromotedIsWhatRuns: a call of a promoted function runs the source the operator
\* promoted, unless the agent made the name again, a stale index was saved, or a
\* second promotion copied over it (dynamic.py:216-233, 499-510).
THEOREM PromotedRuns == DynSpec => []PromotedIsWhatRuns
<1>1. DynInv => PromotedIsWhatRuns
  <2> SUFFICES ASSUME DynInv, NEW a \in Actors, task[a].step = "ran", task[a].published # Absent, clobbered = {},
                      task[a].name \notin remade, ~BeingPromoted(task[a].name)
               PROVE  task[a].ran = task[a].published
    BY DEF PromotedIsWhatRuns
  <2> QED
    BY DEF DynInv, PromoteInv, CallInv
<1> QED
  BY <1>1, DynInvCorrect, PTL

-----------------------------------------------------------------------------
(***************************************************************************)
(* BrowserServers, for any processes, workers and ports: a page stays      *)
(* until its browser is killed by something that could not know of it.     *)
(***************************************************************************)

Browsers == [name : Nat, by : Processes]
Trusted == Ports \cup {OwnPort, NoPort}
WorkSteps == {"asleep", "probe", "kill", "launch", "poll", "fall back", "post"}
Threads == [step : WorkSteps, tries : Nat, port : Trusted]

BrowserTypeOK ==
    /\ cached \in [Processes -> Trusted]
    /\ server \in [Ports -> Browsers \cup {NoPort}]
    /\ worker \in [Workers -> Threads]
    /\ \A w \in Workers :
          /\ worker[w].step = "probe" => cached[w[1]] # NoPort
          /\ worker[w].step = "post" => worker[w].port # NoPort
    /\ last \in [Processes -> Browsers \cup {NoPort}]
    /\ listened \in Nat

\* The browser that a call of p which trusts the port of p meets.
Meets(p) == IF PortOf[p] = OwnPort THEN [name |-> 0, by |-> p] ELSE server[PortOf[p]]

\* p is let alone: one of its threads at a time starts a server, and none does once a
\* port is trusted; it trusts no port but its own, which answers, and has met the one
\* browser that it has kept since.
LetAlone(p) ==
    /\ \A v, w \in Workers : v[1] = p /\ w[1] = p /\ Cold(v) /\ Cold(w) => v = w
    /\ \A w \in Workers : w[1] = p =>
          /\ worker[w].step # "fall back"
          /\ worker[w].step \in {"probe", "post"} => cached[p] = PortOf[p]
          /\ worker[w].step = "post" => worker[w].port = PortOf[p]
          /\ Cold(w) => cached[p] = NoPort
    /\ cached[p] \in {NoPort, PortOf[p]}
    /\ cached[p] # NoPort => Alive(PortOf[p])
    /\ last[p] # NoPort => cached[p] = PortOf[p] /\ last[p] = Meets(p) /\ last[p].by = p
    /\ p \notin moved

BrowserInv == BrowserTypeOK /\ moved \subseteq Processes /\ \A p \in Processes \ disturbed : LetAlone(p)

-----------------------------------------------------------------------------
LEMMA InitBrowser == BrowserInit => BrowserInv
<1> SUFFICES ASSUME BrowserInit PROVE BrowserInv
  OBVIOUS
<1>1. \A w \in Workers : worker[w] = Asleep
  BY DEF BrowserInit
<1>2. BrowserTypeOK
  BY <1>1 DEF BrowserInit, BrowserTypeOK, Asleep, WorkSteps, Trusted, Threads
<1>3. \A p \in Processes : LetAlone(p)
  BY <1>1 DEF BrowserInit, LetAlone, Cold, Asleep, Workers
<1> QED
  BY <1>2, <1>3 DEF BrowserInv, BrowserInit

\* What is known of a thread, and of one at work.
LEMMA AThread ==
  ASSUME BrowserInv, NEW w \in Workers
  PROVE  /\ worker[w] \in Threads /\ w[1] \in Processes /\ worker \in [Workers -> Threads]
         /\ PortOf[w[1]] \in Nat /\ PortOf[w[1]] \in Ports
  BY BrowserConstants DEF BrowserInv, BrowserTypeOK, Workers, Ports

LEMMA ThreadFacts ==
  ASSUME BrowserInv, NEW w \in Workers
  PROVE  /\ worker[w] \in Threads /\ w[1] \in Processes /\ worker \in [Workers -> Threads]
         /\ PortOf[w[1]] \in Nat /\ PortOf[w[1]] \in Ports
         /\ w[1] \notin disturbed => LetAlone(w[1])
  BY BrowserConstants DEF BrowserInv, BrowserTypeOK, Workers, Ports

LEMMA TypeStep ==
  ASSUME BrowserTypeOK, NEW w \in Workers, NEW x \in Threads, worker' = [worker EXCEPT ![w] = x],
         cached' \in [Processes -> Trusted], \A p \in Processes : cached[p] # NoPort => cached'[p] # NoPort,
         x.step = "probe" => cached'[w[1]] # NoPort, x.step = "post" => x.port # NoPort,
         server' \in [Ports -> Browsers \cup {NoPort}], last' \in [Processes -> Browsers \cup {NoPort}],
         listened' \in Nat
  PROVE  BrowserTypeOK'
<1>1. worker' \in [Workers -> Threads] /\ worker'[w] = x /\ \A v \in Workers \ {w} : worker'[v] = worker[v]
  BY DEF BrowserTypeOK
<1>2. \A v \in Workers : v[1] \in Processes
  BY DEF Workers
<1> QED
  BY <1>1, <1>2 DEF BrowserTypeOK

\* What one thread does is nothing to the threads of other processes.
LEMMA OthersKept ==
  ASSUME BrowserInv, NEW p \in Processes, p \notin disturbed, cached'[p] = cached[p], last'[p] = last[p],
         p \notin moved', \A w \in Workers : w[1] = p => worker'[w] = worker[w],
         cached[p] # NoPort => Alive(PortOf[p])' /\ (PortOf[p] # OwnPort => server'[PortOf[p]] = server[PortOf[p]])
  PROVE  LetAlone(p)'
<1>1. LetAlone(p)
  BY DEF BrowserInv
<1>2. \A w \in Workers : w[1] = p => (Cold(w)' <=> Cold(w))
  BY DEF Cold
<1>3. PortOf[p] # NoPort
  BY BrowserConstants
<1>4. last[p] # NoPort => cached[p] # NoPort
  BY <1>1, <1>3 DEF LetAlone
<1>5. last[p] # NoPort => Meets(p)' = Meets(p)
  BY <1>4 DEF Meets
<1> QED
  BY <1>1, <1>2, <1>4, <1>5 DEF LetAlone

LEMMA EnterStep ==
  ASSUME BrowserInv, NEW w \in Workers, Enter(w),
         UNCHANGED <<cached, server, listened, own, last, moved>>
  PROVE  BrowserInv'
<1> DEFINE x == [Asleep EXCEPT !.step = IF cached[w[1]] = NoPort THEN "kill" ELSE "probe"]
<1>0. x \in Threads /\ (x.step = "probe" => cached[w[1]] # NoPort) /\ x.step # "post" /\ worker' = [worker EXCEPT ![w] = x]
  BY DEF Enter, Asleep, WorkSteps, Threads, Trusted
<1> HIDE DEF x
<1>1. BrowserTypeOK'
  <2>1. BrowserTypeOK
    BY DEF BrowserInv
  <2> QED
    BY <1>0, <2>1, TypeStep DEF BrowserTypeOK
<1>2. ASSUME NEW p \in Processes, p \notin disturbed' PROVE LetAlone(p)'
  <2>1. p \notin disturbed /\ LetAlone(p)
    BY <1>2 DEF BrowserInv, Enter, Disturbed
  <2>2. CASE p # w[1]
    <3>1. \A v \in Workers : v[1] = p => worker'[v] = worker[v]
      BY <2>2 DEF Enter, BrowserInv, BrowserTypeOK
    <3>2. cached[p] # NoPort => Alive(PortOf[p])'
      BY <2>1 DEF LetAlone, Alive
    <3> QED
      BY <2>1, <3>1, <3>2, OthersKept DEF LetAlone
  <2>3. CASE p = w[1]
    <3>1. cached[p] = NoPort => \A v \in Workers : v # w /\ v[1] = p => ~Cold(v)
      BY <1>2, <2>3 DEF Enter, Disturbed, ColdTogether
    <3>2. /\ worker'[w].step = IF cached[p] = NoPort THEN "kill" ELSE "probe"
          /\ \A v \in Workers \ {w} : worker'[v] = worker[v]
      BY <2>3 DEF Enter, BrowserInv, BrowserTypeOK, Asleep
    <3>3. /\ \A v \in Workers \ {w} : Cold(v)' <=> Cold(v)
          /\ Cold(w)' <=> cached[p] = NoPort
      BY <3>2 DEF Cold
    <3>4. Meets(p)' = Meets(p) /\ (Alive(PortOf[p])' <=> Alive(PortOf[p]))
      BY DEF Meets, Alive
    <3>5. cached[p] # NoPort => \A v \in Workers : v[1] = p => ~Cold(v)
      BY <2>1 DEF LetAlone
    <3>6. \A u, v \in Workers : u[1] = p /\ v[1] = p /\ Cold(u)' /\ Cold(v)' => u = v
      BY <3>1, <3>3, <3>5
    <3> QED
      BY <2>1, <3>2, <3>3, <3>4, <3>6 DEF LetAlone
  <2> QED
    BY <2>2, <2>3
<1> QED
  BY <1>1, <1>2 DEF BrowserInv

LEMMA WarmUpStep == ASSUME BrowserInv, NEW p \in Processes, WarmUp(p) PROVE BrowserInv'
  BY EnterStep DEF WarmUp, Workers

LEMMA ToolCallStep == ASSUME BrowserInv, NEW p \in Processes, ToolCall(p) PROVE BrowserInv'
  BY EnterStep DEF ToolCall, Workers

\* A step of a thread that meets no browser: where it may lead, and what it may remember.
LEMMA ThreadStep ==
  ASSUME BrowserInv, NEW w \in Workers, NEW x \in Threads,
         worker' = [worker EXCEPT ![w] = x], Busy(w),
         UNCHANGED <<server, last, listened, moved>>, cached' \in [Processes -> Trusted],
         cached[w[1]] # NoPort => cached'[w[1]] # NoPort,
         x.step = "probe" => cached'[w[1]] # NoPort, x.step = "post" => x.port # NoPort,
         disturbed \subseteq disturbed', own # "down" => own' # "down",
         \A p \in Processes \ {w[1]} : cached'[p] = cached[p],
         w[1] \notin disturbed' =>
            /\ x.step # "fall back"
            /\ cached'[w[1]] = cached[w[1]] \/ (Cold(w) /\ cached'[w[1]] = PortOf[w[1]] /\ Alive(PortOf[w[1]]))
            /\ x.step \in {"probe", "post"} => cached'[w[1]] = PortOf[w[1]]
            /\ x.step = "post" => x.port = PortOf[w[1]]
            /\ x.step \in {"kill", "launch", "poll"} => Cold(w) /\ cached'[w[1]] = cached[w[1]]
  PROVE  BrowserInv'
<1>0. BrowserTypeOK'
  <2>1. BrowserTypeOK /\ \A p \in Processes : cached[p] # NoPort => cached'[p] # NoPort
    BY DEF BrowserInv
  <2> QED
    BY <2>1, TypeStep DEF BrowserTypeOK
<1> SUFFICES ASSUME NEW p \in Processes, p \notin disturbed' PROVE LetAlone(p)'
  BY <1>0 DEF BrowserInv
<1>1. p \notin disturbed /\ LetAlone(p)
  BY DEF BrowserInv
<1>2. worker'[w] = x /\ \A v \in Workers \ {w} : worker'[v] = worker[v]
  BY DEF BrowserInv, BrowserTypeOK
<1>3. Meets(p)' = Meets(p) /\ (Alive(PortOf[p]) => Alive(PortOf[p])')
  BY DEF Meets, Alive
<1>4. CASE p # w[1]
  <2>1. \A v \in Workers : v[1] = p => worker'[v] = worker[v]
    BY <1>2, <1>4
  <2> QED
    BY <1>1, <1>3, <1>4, <2>1, OthersKept DEF LetAlone
<1>5. CASE p = w[1]
  <2>1. /\ \A v \in Workers \ {w} : Cold(v)' <=> Cold(v)
        /\ Cold(w)' => Cold(w) /\ cached'[p] = cached[p]
    BY <1>2, <1>5 DEF Cold
  <2>2. \A u, v \in Workers : u[1] = p /\ v[1] = p /\ Cold(u)' /\ Cold(v)' => u = v
    BY <1>1, <2>1 DEF LetAlone
  <2>3. cached'[p] # cached[p] => \A v \in Workers \ {w} : v[1] = p => ~Cold(v)
    BY <1>1, <1>5 DEF LetAlone
  <2>4. \A v \in Workers : v[1] = p =>
          /\ worker'[v].step # "fall back"
          /\ worker'[v].step \in {"probe", "post"} => cached'[p] = PortOf[p]
          /\ worker'[v].step = "post" => worker'[v].port = PortOf[p]
          /\ Cold(v)' => cached'[p] = NoPort
    <3> SUFFICES ASSUME NEW v \in Workers, v[1] = p
                 PROVE  /\ worker'[v].step # "fall back"
                        /\ worker'[v].step \in {"probe", "post"} => cached'[p] = PortOf[p]
                        /\ worker'[v].step = "post" => worker'[v].port = PortOf[p]
                        /\ Cold(v)' => cached'[p] = NoPort
      OBVIOUS
    <3>1. CASE v = w
      BY <1>1, <1>2, <1>5, <2>1, <3>1 DEF LetAlone
    <3>2. CASE v # w
      BY <1>1, <1>2, <1>5, <2>1, <2>3, <3>2 DEF LetAlone
    <3> QED
      BY <3>1, <3>2
  <2>5. /\ cached'[p] \in {NoPort, PortOf[p]}
        /\ cached'[p] # NoPort => Alive(PortOf[p])'
        /\ last'[p] # NoPort => cached'[p] = PortOf[p] /\ last'[p] = Meets(p)' /\ last'[p].by = p
    BY <1>1, <1>3, <1>5 DEF LetAlone
  <2> QED
    BY <1>1, <2>2, <2>4, <2>5 DEF LetAlone
<1> QED
  BY <1>4, <1>5

LEMMA ProbeStep == ASSUME BrowserInv, NEW w \in Workers, NEW heard \in BOOLEAN, Probe(w, heard) PROVE BrowserInv'
<1> DEFINE p == w[1]
           q == cached[p]
<1>0. /\ UNCHANGED <<cached, server, own, last, listened, moved>> /\ cached \in [Processes -> Trusted]
      /\ q \in Trusted /\ q # NoPort /\ Busy(w)
  <2>1. cached \in [Processes -> Trusted] /\ q # NoPort
    <3>1. worker[w].step = "probe" /\ BrowserTypeOK
      BY DEF Probe, BrowserInv
    <3>2. cached[w[1]] # NoPort
      BY <3>1 DEF BrowserTypeOK
    <3>3. cached \in [Processes -> Trusted]
      BY <3>1 DEF BrowserTypeOK
    <3> QED
      BY <3>2, <3>3
  <2> QED
    BY <2>1, AThread DEF Probe, Busy
<1>1. CASE Alive(q) /\ heard
  <2> DEFINE x == [worker[w] EXCEPT !.step = "post", !.port = q]
  <2>1. worker' = [worker EXCEPT ![w] = x] /\ disturbed' = disturbed
    BY <1>1, ThreadFacts DEF Probe
  <2>2. x \in Threads /\ x.step = "post" /\ x.port = q
    BY <1>0, AThread DEF WorkSteps, Threads
  <2> HIDE DEF x
  <2>3. p \notin disturbed' => q = PortOf[p]
    BY <1>0, <2>1, ThreadFacts DEF Probe, LetAlone
  <2> QED
    BY <1>0, <2>1, <2>2, <2>3, ThreadStep
<1>2. CASE ~(Alive(q) /\ heard)
  <2> DEFINE x == [worker[w] EXCEPT !.step = "kill"]
  <2>1. worker' = [worker EXCEPT ![w] = x]
    BY <1>2, ThreadFacts DEF Probe, Steps
  <2>2. x \in Threads /\ x.step = "kill"
    BY AThread DEF WorkSteps, Threads
  <2> HIDE DEF x
  <2>3. disturbed \subseteq disturbed' /\ (p \notin disturbed' => ~Alive(q))
    BY <1>2 DEF Probe, Disturbed
  <2>4. p \in disturbed'
    BY <1>0, <2>3, ThreadFacts DEF LetAlone
  <2> QED
    BY <1>0, <2>1, <2>2, <2>3, <2>4, ThreadStep
<1> QED
  BY <1>1, <1>2

LEMMA LaunchStep == ASSUME BrowserInv, NEW w \in Workers, Launch(w) PROVE BrowserInv'
<1> DEFINE x == [worker[w] EXCEPT !.step = "poll"]
<1>0. worker' = [worker EXCEPT ![w] = x]
  BY AThread DEF Launch, Steps
<1>1. x \in Threads /\ x.step = "poll"
  BY AThread DEF WorkSteps, Threads
<1> HIDE DEF x
<1>2. Cold(w)
  BY DEF Launch, Cold
<1>3. cached \in [Processes -> Trusted]
  BY DEF BrowserInv, BrowserTypeOK
<1> QED
  BY <1>0, <1>1, <1>2, <1>3, ThreadStep DEF Launch, Busy

LEMMA AnsweredStep == ASSUME BrowserInv, NEW w \in Workers, Answered(w) PROVE BrowserInv'
<1> DEFINE x == [worker[w] EXCEPT !.step = "post", !.port = PortOf[w[1]]]
<1>0. worker' = [worker EXCEPT ![w] = x]
  BY AThread DEF Answered
<1>1. x \in Threads /\ x.step = "post" /\ x.port = PortOf[w[1]]
  <2>1. PortOf[w[1]] \in Trusted
    BY AThread DEF Trusted
  <2> QED
    BY <2>1, AThread DEF WorkSteps, Threads
<1> HIDE DEF x
<1>2. /\ cached'[w[1]] = PortOf[w[1]] /\ \A p \in Processes \ {w[1]} : cached'[p] = cached[p]
      /\ cached' \in [Processes -> Trusted] /\ PortOf[w[1]] # NoPort
  BY ThreadFacts, BrowserConstants DEF Answered, BrowserInv, BrowserTypeOK, Trusted
<1>3. Cold(w) /\ Alive(PortOf[w[1]])
  BY DEF Answered, Cold
<1> QED
  BY <1>0, <1>1, <1>2, <1>3, ThreadStep DEF Answered, Busy

LEMMA DeadlineStep == ASSUME BrowserInv, NEW w \in Workers, Deadline(w) PROVE BrowserInv'
<1> DEFINE tries == worker[w].tries + 1
           step == IF worker[w].tries + 1 < Attempts THEN "kill" ELSE "fall back"
           x == [worker[w] EXCEPT !.tries = tries, !.step = step]
<1>1. worker' = [worker EXCEPT ![w] = x]
  BY ThreadFacts DEF Deadline
<1>2. worker[w].tries \in Nat /\ tries \in Nat
  BY AThread DEF Threads
<1>3. step \in WorkSteps /\ step \in {"kill", "fall back"}
  BY DEF WorkSteps
<1> HIDE DEF tries, step
<1>4. x \in Threads /\ x.step = step
  BY <1>2, <1>3, AThread DEF Threads
<1> HIDE DEF x
<1>5. w[1] \in disturbed' /\ disturbed \subseteq disturbed' /\ cached \in [Processes -> Trusted]
  BY DEF Deadline, Disturbed, BrowserInv, BrowserTypeOK
<1> QED
  BY <1>1, <1>3, <1>4, <1>5, ThreadStep DEF Deadline, Busy

LEMMA FallBackStep == ASSUME BrowserInv, NEW w \in Workers, NEW starts \in BOOLEAN, FallBack(w, starts) PROVE BrowserInv'
<1>1. w[1] \in disturbed' /\ disturbed' = disturbed /\ worker \in [Workers -> Threads] /\ worker[w] \in Threads
  BY ThreadFacts DEF FallBack, LetAlone
<1>2. OwnPort # NoPort /\ OwnPort \in Trusted /\ NoPort \in Trusted
  BY BrowserConstants DEF OwnPort, Trusted
<1>3. PICK x \in Threads : /\ worker' = [worker EXCEPT ![w] = x] /\ x.step # "probe"
                           /\ x.step = "post" => x.port # NoPort
  <2>1. CASE own' = "ready"
    <3> DEFINE x == [worker[w] EXCEPT !.step = "post", !.port = OwnPort]
    <3>1. worker' = [worker EXCEPT ![w] = x]
      BY <1>1, <2>1 DEF FallBack
    <3>2. x \in Threads /\ x.step = "post" /\ x.port = OwnPort
      <4> HIDE DEF OwnPort
      <4> QED
        BY <1>1, <1>2 DEF Threads, WorkSteps
    <3> QED
      BY <1>2, <3>1, <3>2
  <2>2. CASE own' # "ready"
    <3>1. Asleep \in Threads /\ Asleep.step = "asleep"
      BY <1>2 DEF Asleep, Threads, WorkSteps
    <3> QED
      BY <2>2, <3>1 DEF FallBack
  <2> QED
    BY <2>1, <2>2
<1>4. /\ cached' \in [Processes -> Trusted] /\ \A p \in Processes \ {w[1]} : cached'[p] = cached[p]
      /\ cached[w[1]] # NoPort => cached'[w[1]] # NoPort
  BY <1>2, ThreadFacts DEF FallBack, BrowserInv, BrowserTypeOK
<1>5. own # "down" => own' # "down"
  BY DEF FallBack
<1> QED
  BY <1>1, <1>3, <1>4, <1>5, ThreadStep DEF FallBack, Busy

LEMMA KillStep == ASSUME BrowserInv, NEW w \in Workers, Kill(w) PROVE BrowserInv'
<1> DEFINE x == [worker[w] EXCEPT !.step = "launch"]
<1>0. x \in Threads /\ x.step = "launch"
  BY AThread DEF WorkSteps, Threads
<1>1. /\ worker' = [worker EXCEPT ![w] = x] /\ server' = [server EXCEPT ![PortOf[w[1]]] = NoPort]
      /\ x \in Threads /\ x.step = "launch"
  BY <1>0, AThread DEF Kill, Steps
<1> HIDE DEF x
<1>2. BrowserTypeOK'
  <2>1. BrowserTypeOK /\ server' \in [Ports -> Browsers \cup {NoPort}]
    BY <1>1 DEF BrowserInv, BrowserTypeOK
  <2> QED
    BY <1>1, <2>1, TypeStep DEF Kill, BrowserTypeOK
<1>3. worker'[w] = x /\ \A v \in Workers \ {w} : worker'[v] = worker[v]
  BY <1>1, ThreadFacts
<1>4. ASSUME NEW p \in Processes, p \notin disturbed' PROVE LetAlone(p)'
  <2>1. p \notin disturbed /\ LetAlone(p)
    BY <1>4 DEF BrowserInv, Kill
  <2>2. CASE p # w[1]
    <3>1. ASSUME cached[p] # NoPort
          PROVE  Alive(PortOf[p])' /\ (PortOf[p] # OwnPort => server'[PortOf[p]] = server[PortOf[p]])
      <4>1. Alive(PortOf[p])
        BY <2>1, <3>1 DEF LetAlone
      <4>2. CASE PortOf[p] = OwnPort
        BY <4>1, <4>2 DEF Alive, Kill
      <4>3. CASE PortOf[p] # OwnPort
        <5>1. server[PortOf[p]] # NoPort
          BY <4>1, <4>3 DEF Alive
        <5>2. PortOf[p] # PortOf[w[1]]
          BY <1>4, <2>2, <5>1 DEF Kill
        <5> QED
          BY <1>1, <4>3, <5>1, <5>2, BrowserConstants DEF Alive, BrowserInv, BrowserTypeOK, Ports
      <4> QED
        BY <4>2, <4>3
    <3>2. \A v \in Workers : v[1] = p => worker'[v] = worker[v]
      BY <1>3, <2>2
    <3>3. p \notin moved' /\ cached'[p] = cached[p] /\ last'[p] = last[p]
      BY <2>1 DEF Kill, LetAlone
    <3> QED
      BY <2>1, <3>1, <3>2, <3>3, OthersKept
  <2>3. CASE p = w[1]
    <3>1. Cold(w) /\ cached[p] = NoPort
      BY <2>1, <2>3 DEF LetAlone, Kill, Cold
    <3>2. last[p] = NoPort
      BY <2>1, <3>1, BrowserConstants DEF LetAlone
    <3>3. \A v \in Workers : Cold(v)' <=> Cold(v)
      BY <1>1, <1>3, <3>1 DEF Cold
    <3> QED
      BY <1>1, <1>3, <2>1, <3>1, <3>2, <3>3 DEF LetAlone, Kill
  <2> QED
    BY <2>2, <2>3
<1> QED
  BY <1>2, <1>4 DEF BrowserInv, Kill

LEMMA PostStep == ASSUME BrowserInv, NEW w \in Workers, PostTo(w) PROVE BrowserInv'
<1>0. PICK p \in Processes, q \in Ports \cup {OwnPort} : p = w[1] /\ q = worker[w].port
  BY ThreadFacts DEF PostTo, BrowserInv, BrowserTypeOK, Threads, Trusted
<1> DEFINE met == IF q = OwnPort THEN [name |-> 0, by |-> p] ELSE server[q]
<1>1. worker' = [worker EXCEPT ![w] = Asleep] /\ UNCHANGED <<cached, server, listened, own>> /\ Busy(w)
  BY DEF PostTo, Busy
<1>2. Asleep \in Threads /\ Asleep.step = "asleep"
  BY DEF Asleep, WorkSteps, Threads, Trusted
<1>3. CASE w[2] = "warmup" \/ ~Alive(q)
  <2>1. UNCHANGED <<last, moved, disturbed>> /\ cached \in [Processes -> Trusted]
    BY <1>0, <1>3 DEF PostTo, BrowserInv, BrowserTypeOK
  <2> QED
    BY <1>1, <1>2, <2>1, ThreadStep
<1>4. CASE ~(w[2] = "warmup" \/ ~Alive(q))
  <2>1. /\ last' = [last EXCEPT ![p] = met]
        /\ moved' = IF last[p] \notin {NoPort, met} THEN moved \cup {p} ELSE moved
        /\ disturbed' = IF met.by # p THEN disturbed \cup {p} ELSE disturbed
    BY <1>0, <1>4 DEF PostTo, Disturbed
  <2>2. met \in Browsers
    BY <1>4 DEF Alive, BrowserInv, BrowserTypeOK, Browsers
  <2> HIDE DEF met
  <2>3. last' \in [Processes -> Browsers \cup {NoPort}] /\ last'[p] = met /\ \A r \in Processes \ {p} : last'[r] = last[r]
    BY <2>1, <2>2 DEF BrowserInv, BrowserTypeOK
  <2>4. BrowserTypeOK'
    <3>1. BrowserTypeOK
      BY DEF BrowserInv
    <3> QED
      BY <1>1, <1>2, <2>3, <3>1, TypeStep DEF BrowserTypeOK
  <2>5. moved' \subseteq Processes
    BY <2>1 DEF BrowserInv
  <2>6. worker'[w] = Asleep /\ \A v \in Workers \ {w} : worker'[v] = worker[v]
    BY <1>1, ThreadFacts
  <2>7. ASSUME NEW r \in Processes, r \notin disturbed' PROVE LetAlone(r)'
    <3>1. r \notin disturbed /\ LetAlone(r)
      BY <2>1, <2>7 DEF BrowserInv
    <3>2. CASE r # p
      <4>1. \A v \in Workers : v[1] = r => worker'[v] = worker[v]
        BY <1>0, <2>6, <3>2
      <4>2. cached[r] # NoPort => Alive(PortOf[r])'
        BY <1>1, <3>1 DEF LetAlone, Alive
      <4>3. r \notin moved'
        BY <2>1, <3>1, <3>2 DEF LetAlone
      <4> QED
        BY <1>1, <2>3, <3>1, <3>2, <4>1, <4>2, <4>3, OthersKept
    <3>3. CASE r = p
      <4>1. q = PortOf[p] /\ cached[p] = PortOf[p]
        BY <1>0, <3>1, <3>3 DEF LetAlone, PostTo
      <4>2. met = Meets(p) /\ met.by = p /\ Alive(PortOf[p])
        BY <1>4, <2>1, <2>7, <3>3, <4>1 DEF Meets, met
      <4>3. p \notin moved'
        BY <2>1, <3>1, <3>3, <4>2 DEF LetAlone
      <4>4. \A v \in Workers : worker'[v] = worker[v] \/ worker'[v].step = "asleep"
        BY <1>2, <2>6
      <4>5. \A v \in Workers : Cold(v)' => Cold(v)
        BY <4>4 DEF Cold
      <4>6. Meets(p)' = Meets(p) /\ Alive(PortOf[p])'
        BY <1>1, <4>2 DEF Meets, Alive
      <4> QED
        BY <1>1, <2>3, <3>1, <3>3, <4>1, <4>2, <4>3, <4>4, <4>5, <4>6 DEF LetAlone
    <3> QED
      BY <3>2, <3>3
  <2> QED
    BY <2>4, <2>5, <2>7 DEF BrowserInv
<1> QED
  BY <1>3, <1>4

\* A server that comes or goes by itself.
LEMMA ServerStep ==
  ASSUME BrowserInv, NEW q \in Ports, NEW s \in Browsers \cup {NoPort}, server' = [server EXCEPT ![q] = s],
         UNCHANGED <<cached, own, worker, last, moved>>, listened' \in Nat, disturbed \subseteq disturbed',
         server[q] = NoPort \/ \A p \in Processes : PortOf[p] = q => p \in disturbed'
  PROVE  BrowserInv'
<1>1. BrowserTypeOK'
  BY DEF BrowserInv, BrowserTypeOK
<1>2. ASSUME NEW p \in Processes, p \notin disturbed' PROVE LetAlone(p)'
  <2>1. p \notin disturbed /\ LetAlone(p) /\ PortOf[p] \in Ports
    BY <1>2, BrowserConstants DEF BrowserInv, Ports
  <2>2. ASSUME cached[p] # NoPort
        PROVE  Alive(PortOf[p])' /\ (PortOf[p] # OwnPort => server'[PortOf[p]] = server[PortOf[p]])
    <3>1. Alive(PortOf[p])
      BY <2>1, <2>2 DEF LetAlone
    <3>2. PortOf[p] # OwnPort => PortOf[p] # q
      BY <1>2, <3>1 DEF Alive
    <3> QED
      BY <2>1, <3>1, <3>2 DEF Alive, BrowserInv, BrowserTypeOK
  <2> QED
    BY <2>1, <2>2, OthersKept DEF LetAlone
<1> QED
  BY <1>1, <1>2 DEF BrowserInv

\* Nothing that matters changes.
LEMMA StutterStep == BrowserInv /\ UNCHANGED <<cached, server, listened, own, worker, last, moved, disturbed>> => BrowserInv'
<1> SUFFICES ASSUME BrowserInv, UNCHANGED <<cached, server, listened, own, worker, last, moved, disturbed>> PROVE BrowserInv'
  OBVIOUS
<1>1. BrowserTypeOK'
  BY DEF BrowserInv, BrowserTypeOK
<1>2. ASSUME NEW p \in Processes, p \notin disturbed PROVE LetAlone(p)'
  BY <1>2, OthersKept DEF BrowserInv, LetAlone, Alive
<1> QED
  BY <1>1, <1>2 DEF BrowserInv

LEMMA ListensStep == ASSUME BrowserInv, NEW p \in Processes, Listens(p) PROVE BrowserInv'
<1>0. PICK q \in Ports : q = PortOf[p]
  BY DEF Ports
<1>1. listened \in Nat /\ UNCHANGED <<cached, own, worker, last, moved, disturbed>>
  BY DEF Listens, BrowserInv, BrowserTypeOK
<1>2. CASE server[q] # NoPort
  BY <1>0, <1>1, <1>2, StutterStep DEF Listens
<1>3. CASE server[q] = NoPort
  <2> DEFINE n == listened + 1
             s == [name |-> n, by |-> p]
  <2>1. server' = [server EXCEPT ![q] = s] /\ listened' = n
    BY <1>0, <1>3 DEF Listens
  <2>2. n \in Nat
    BY <1>1
  <2> HIDE DEF n
  <2>3. s \in Browsers
    BY <2>2 DEF Browsers
  <2> HIDE DEF s
  <2> QED
    BY <1>1, <1>3, <2>1, <2>2, <2>3, ServerStep
<1> QED
  BY <1>2, <1>3

LEMMA CrashStep == ASSUME BrowserInv, NEW q \in Ports, Crash(q) PROVE BrowserInv'
<1>1. listened \in Nat
  BY DEF BrowserInv, BrowserTypeOK
<1> QED
  BY <1>1, ServerStep DEF Crash

LEMMA NextBrowser == BrowserInv /\ [BrowserNext]_browserVars => BrowserInv'
<1> SUFFICES ASSUME BrowserInv, [BrowserNext]_browserVars PROVE BrowserInv'
  OBVIOUS
<1>1. CASE UNCHANGED browserVars
  BY <1>1, StutterStep DEF browserVars
<1>2. ASSUME NEW p \in Processes, WarmUp(p) \/ ToolCall(p) PROVE BrowserInv'
  BY <1>2, WarmUpStep, ToolCallStep
<1>3. ASSUME NEW w \in Workers,
             \/ Kill(w) \/ Launch(w) \/ Answered(w) \/ Deadline(w) \/ PostTo(w)
             \/ \E ok \in BOOLEAN : Probe(w, ok) \/ FallBack(w, ok)
      PROVE  BrowserInv'
  BY <1>3, KillStep, LaunchStep, AnsweredStep, DeadlineStep, PostStep, ProbeStep, FallBackStep
<1>4. ASSUME NEW p \in Processes, Listens(p) PROVE BrowserInv'
  BY <1>4, ListensStep
<1>5. ASSUME NEW q \in Ports, Crash(q) PROVE BrowserInv'
  BY <1>5, CrashStep
<1> QED
  BY <1>1, <1>2, <1>3, <1>4, <1>5 DEF BrowserNext

-----------------------------------------------------------------------------
\* The invariant, for any number of processes and any ports, attempts, calls and crashes.
THEOREM BrowserInvCorrect == BrowserSpec => []BrowserInv
  BY InitBrowser, NextBrowser, PTL DEF BrowserSpec

\* PageKept: the calls of a process go on in one browser, with its page and its login,
\* unless one of the named things happened to it (browser.py:106-137, 191-294), however
\* many threads of it call tools at the same time.
THEOREM PageStays == BrowserSpec => []PageKept
<1>1. BrowserInv => PageKept
  BY DEF BrowserInv, LetAlone, PageKept
<1> QED
  BY <1>1, BrowserInvCorrect, PTL
=============================================================================
