----------------------------- MODULE OrgProofs -----------------------------
(***************************************************************************)
(* TLAPS proofs about AgentStack and OrgPack, for any files, edits and     *)
(* requests: what an agent may use, what the audit foresees, what the kit  *)
(* makes of the same files, and what a pack ships.                         *)
(***************************************************************************)
EXTENDS AgentStack, OrgPack, Integers, FiniteSetTheorems, SequenceTheorems, WellFoundedInduction, TLAPS

-----------------------------------------------------------------------------
(***************************************************************************)
(* Induction, with a set in place of a predicate.                          *)
(***************************************************************************)

\* A set of numbers has a least one.
LEMMA LeastNatural ==
  ASSUME NEW S \in SUBSET Nat, S # {}
  PROVE  \E x \in S : \A y \in S : x <= y
<1>1. IsWellFoundedOn(OpToRel(<, Nat), Nat)
  BY NatLessThanWellFounded
<1>2. OpToRel(<, Nat) = {ss \in Nat \X Nat : ss[1] < ss[2]}
  BY DEF OpToRel
<1>3. PICK x \in S : \A y \in S : ~ (<<y, x>> \in {ss \in Nat \X Nat : ss[1] < ss[2]})
  BY <1>1, <1>2, WFMin
<1>4. ASSUME NEW y \in S
      PROVE  x <= y
  <2>1. ~ (<<y, x>> \in {ss \in Nat \X Nat : ss[1] < ss[2]})
    BY <1>3
  <2>2. <<y, x>> \in Nat \X Nat /\ <<y, x>>[1] = y /\ <<y, x>>[2] = x
    OBVIOUS
  <2> QED
    BY <2>1, <2>2
<1> QED
  BY <1>4

\* What holds of 0, and of the next number, holds of all.
LEMMA InductionBySet ==
  ASSUME NEW S, 0 \in S, \A n \in Nat : n \in S => n + 1 \in S
  PROVE  \A n \in Nat : n \in S
<1> SUFFICES ASSUME Nat \ S # {} PROVE FALSE
  OBVIOUS
<1>1. PICK x \in Nat \ S : \A y \in Nat \ S : x <= y
  BY LeastNatural
<1>2. x # 0 /\ x - 1 \in Nat
  OBVIOUS
<1>3. x - 1 \in S
  BY <1>1, <1>2
<1> QED
  BY <1>1, <1>2, <1>3

\* A finite set of numbers has a greatest one.
LEMMA GreatestIsMax ==
  ASSUME NEW n \in Nat, NEW S \in SUBSET (0..n), S # {}
  PROVE  Max(S) \in S /\ \A k \in S : k <= Max(S)
<1> DEFINE M == {n - k : k \in S}
<1>0. M \in SUBSET Nat /\ M # {}
  <2>1. ASSUME NEW k \in S
        PROVE  n - k \in Nat
    OBVIOUS
  <2> QED
    BY <2>1
<1>1. PICK m \in M : \A y \in M : m <= y
  <2> HIDE DEF M
  <2> QED
    BY <1>0, LeastNatural
<1>2. PICK k \in S : m = n - k
  BY <1>1
<1>3. \A j \in S : k >= j
  <2> SUFFICES ASSUME NEW j \in S PROVE k >= j
    OBVIOUS
  <2>1. n - k <= n - j
    BY <1>1, <1>2
  <2> QED
    BY <2>1
<1>4. Max(S) \in S /\ \A j \in S : Max(S) >= j
  BY <1>3 DEF Max
<1> QED
  BY <1>4

-----------------------------------------------------------------------------
(***************************************************************************)
(* Chains of orgs.                                                         *)
(***************************************************************************)

\* The walk to the ancestors goes from an org to its parent.
LEMMA UpWalks ==
  ASSUME NEW w, NEW o, IsFiniteSet(DOMAIN w.dirs)
  PROVE  /\ Depth(w) \in Nat
         /\ Up(w, o)[0] = o
         /\ \A k \in 1..Depth(w) : Up(w, o)[k] = Parent(w, Up(w, o)[k - 1])
<1> DEFINE Walks(n, f) == f = [k \in 0..n |-> IF k = 0 THEN o ELSE Parent(w, f[k - 1])]
           S == {n \in Nat : \E f : Walks(n, f)}
<1>1. 0 \in S
  <2> DEFINE f == [k \in 0..0 |-> o]
  <2>1. Walks(0, f)
    OBVIOUS
  <2> QED
    BY <2>1
<1>2. ASSUME NEW n \in Nat, n \in S
      PROVE  n + 1 \in S
  <2>1. PICK f : Walks(n, f)
    BY <1>2
  <2> DEFINE g == [k \in 0..(n + 1) |-> IF k = n + 1 THEN Parent(w, f[n]) ELSE f[k]]
  <2>2. ASSUME NEW k \in 0..(n + 1)
        PROVE  g[k] = IF k = 0 THEN o ELSE Parent(w, g[k - 1])
    <3>1. CASE k = n + 1
      BY <3>1
    <3>2. CASE k # n + 1
      <4>1. k \in 0..n /\ (k # 0 => k - 1 \in 0..n)
        BY <3>2
      <4>2. g[k] = f[k] /\ (k # 0 => g[k - 1] = f[k - 1])
        BY <4>1
      <4>3. f[k] = IF k = 0 THEN o ELSE Parent(w, f[k - 1])
        BY <2>1, <4>1
      <4> QED
        BY <4>1, <4>2, <4>3
    <3> QED
      BY <3>1, <3>2
  <2>3. g = [k \in 0..(n + 1) |-> g[k]]
    OBVIOUS
  <2> HIDE DEF g
  <2>4. Walks(n + 1, g)
    BY <2>2, <2>3
  <2> QED
    BY <2>4
<1>3. Depth(w) \in Nat
  BY FS_CardinalityType DEF Depth
<1> HIDE DEF S
<1>4. Depth(w) \in S
  BY <1>1, <1>2, <1>3, InductionBySet
<1>5. \E f : Walks(Depth(w), f)
  BY <1>4 DEF S
<1>6. Walks(Depth(w), Up(w, o))
  BY <1>5, Zenon DEF Up
<1> QED
  BY <1>3, <1>6

\* A walk that has ended goes nowhere.
LEMMA UpEnds ==
  ASSUME NEW w, NEW o, IsFiniteSet(DOMAIN w.dirs),
         NEW j \in 0..Depth(w), Up(w, o)[j] = None, NEW k \in j..Depth(w)
  PROVE  Up(w, o)[k] = None
<1> DEFINE up == Up(w, o)
           S == {n \in Nat : j + n \in 0..Depth(w) => up[j + n] = None}
<1>1. Depth(w) \in Nat
  BY UpWalks
<1>2. 0 \in S
  OBVIOUS
<1>3. ASSUME NEW n \in Nat, n \in S
      PROVE  n + 1 \in S
  <2> SUFFICES ASSUME j + (n + 1) \in 0..Depth(w)
               PROVE  up[j + (n + 1)] = None
    OBVIOUS
  <2>1. j + n \in 0..Depth(w) /\ j + (n + 1) \in 1..Depth(w)
    BY <1>1
  <2>2. up[j + n] = None
    BY <1>3, <2>1
  <2>3. up[j + (n + 1)] = Parent(w, up[(j + (n + 1)) - 1])
    BY <2>1, UpWalks
  <2>4. (j + (n + 1)) - 1 = j + n
    BY <1>1
  <2> QED
    BY <2>2, <2>3, <2>4 DEF Parent
<1> HIDE DEF S
<1>4. k - j \in Nat
  BY <1>1
<1>5. k - j \in S
  BY <1>2, <1>3, <1>4, InductionBySet
<1> QED
  BY <1>1, <1>5 DEF S

\* An unbroken chain is the walk as far as it goes: child first, each a base org
\* but for the child.
LEMMA ChainWalks ==
  ASSUME NEW v \in Versions, NEW o, ~ Broken(World[v], o)
  PROVE  \E n \in Nat :
            /\ Chain(World[v], o) = [k \in 1..n |-> Up(World[v], o)[k - 1]]
            /\ o # None => n >= 1
            /\ n >= 1 => Up(World[v], o)[0] = o
            /\ \A k \in 1..n : k > 1 => IsBase(World[v], Up(World[v], o)[k - 1])
<1> DEFINE w == World[v]
           up == Up(w, o)
           D == Depth(w)
           A == {k \in 0..D : up[k] # None}
           n == Cardinality(A)
<1>0. IsFiniteSet(DOMAIN w.dirs)
  BY FilesAreFinite
<1>1. D \in Nat /\ up[0] = o
  BY <1>0, UpWalks
<1>2. IsFiniteSet(0..D) /\ Cardinality(0..D) = D + 1
  BY <1>1, FS_Interval
<1>3. IsFiniteSet(A) /\ n <= D + 1
  BY <1>2, FS_Subset
<1>4. n \in Nat
  BY <1>3, FS_CardinalityType
<1>5. ASSUME NEW i \in 0..D, up[i] = None
      PROVE  n <= i
  <2>1. A \subseteq 0..(i - 1)
    <3> SUFFICES ASSUME NEW k \in A, ~ (k <= i - 1) PROVE FALSE
      BY <1>1
    <3>1. k \in i..D
      BY <1>1
    <3> QED
      BY <1>0, <1>5, <3>1, UpEnds
  <2>2. IsFiniteSet(0..(i - 1)) /\ Cardinality(0..(i - 1)) = i
    <3>1. 0 \in Int /\ i - 1 \in Int /\ i \in Nat
      BY <1>1
    <3>2. Cardinality(0..(i - 1)) = IF 0 > i - 1 THEN 0 ELSE (i - 1) - 0 + 1
      BY <3>1, FS_Interval
    <3> QED
      BY <3>1, <3>2, FS_Interval
  <2> QED
    BY <2>1, <2>2, FS_Subset
<1>6. o # None => n >= 1
  <2> SUFFICES ASSUME o # None, n = 0 PROVE FALSE
    BY <1>4
  <2>1. A = {}
    BY <1>3, FS_EmptySet
  <2> QED
    BY <1>1, <2>1
<1>7. ASSUME NEW k \in 1..n, k > 1
      PROVE  IsBase(w, up[k - 1])
  <2>1. k - 1 \in 1..D
    BY <1>1, <1>3, <1>4, <1>7
  <2>2. up[k - 1] # None
    <3> SUFFICES ASSUME up[k - 1] = None PROVE FALSE
      OBVIOUS
    <3>1. n <= k - 1
      BY <1>1, <1>5, <2>1
    <3> QED
      BY <1>4, <3>1
  <2> QED
    BY <2>1, <2>2 DEF Broken, LeadsNowhere
<1>8. Chain(w, o) = [k \in 1..n |-> up[k - 1]]
  BY DEF Chain
<1> HIDE DEF n, A
<1> QED
  BY <1>1, <1>4, <1>6, <1>7, <1>8

-----------------------------------------------------------------------------
(***************************************************************************)
(* Agents: what is laid over what.                                         *)
(***************************************************************************)

\* There are finitely many agents in a tree.
LEMMA AgentsAreFinite ==
  ASSUME NEW v \in Versions
  PROVE  IsFiniteSet(AgentNames(World[v]))
<1> DEFINE w == World[v]
           of == [d \in DOMAIN w.dirs |-> DOMAIN w.dirs[d].agents]
           T == {DOMAIN w.dirs[d].agents : d \in DOMAIN w.dirs}
<1>1. /\ IsFiniteSet(DOMAIN w.dirs) /\ IsFiniteSet(DOMAIN w.shared)
      /\ \A d \in DOMAIN w.dirs : IsFiniteSet(DOMAIN w.dirs[d].agents)
  BY FilesAreFinite
<1>2. of \in Surjection(DOMAIN w.dirs, T)
  BY DEF Surjection
<1>3. IsFiniteSet(T) /\ \A t \in T : IsFiniteSet(t)
  <2> HIDE DEF of
  <2>1. IsFiniteSet(T)
    <3> HIDE DEF T
    <3> QED
      BY <1>1, <1>2, FS_Surjection
  <2> QED
    BY <1>1, <2>1
<1>4. IsFiniteSet(UNION T)
  <2> HIDE DEF T
  <2> QED
    BY <1>3, FS_UNION
<1>5. IsFiniteSet(DOMAIN w.shared \cup UNION T)
  <2> HIDE DEF T
  <2> QED
    BY <1>1, <1>4, FS_Union
<1> QED
  BY <1>5 DEF AgentNames

\* The walk from an agent to what it extends.
WalksOn(w, o, slug, hop, m) ==
    /\ m \in Nat /\ DOMAIN hop = 0..m
    /\ hop[0] = slug
    /\ \A k \in 1..m : hop[k] = Hop(w, o, hop[k - 1])

LEMMA HopsWalk ==
  ASSUME NEW w, NEW o, NEW slug, IsFiniteSet(AgentNames(w))
  PROVE  WalksOn(w, o, slug, Hops(w, o, slug), 2 * Cardinality(AgentNames(w)))
<1> DEFINE size == Cardinality(AgentNames(w))
           Walks(n, f) == f = [k \in 0..n |-> IF k = 0 THEN slug ELSE Hop(w, o, f[k - 1])]
           S == {n \in Nat : \E f : Walks(n, f)}
<1>1. 0 \in S
  <2> DEFINE f == [k \in 0..0 |-> slug]
  <2>1. Walks(0, f)
    OBVIOUS
  <2> QED
    BY <2>1
<1>2. ASSUME NEW n \in Nat, n \in S
      PROVE  n + 1 \in S
  <2>1. PICK f : Walks(n, f)
    BY <1>2
  <2> DEFINE g == [k \in 0..(n + 1) |-> IF k = n + 1 THEN Hop(w, o, f[n]) ELSE f[k]]
  <2>2. ASSUME NEW k \in 0..(n + 1)
        PROVE  g[k] = IF k = 0 THEN slug ELSE Hop(w, o, g[k - 1])
    <3>1. CASE k = n + 1
      BY <3>1
    <3>2. CASE k # n + 1
      <4>1. k \in 0..n /\ (k # 0 => k - 1 \in 0..n)
        BY <3>2
      <4>2. g[k] = f[k] /\ (k # 0 => g[k - 1] = f[k - 1])
        BY <4>1
      <4>3. f[k] = IF k = 0 THEN slug ELSE Hop(w, o, f[k - 1])
        BY <2>1, <4>1
      <4> QED
        BY <4>1, <4>2, <4>3
    <3> QED
      BY <3>1, <3>2
  <2>3. g = [k \in 0..(n + 1) |-> g[k]]
    OBVIOUS
  <2> HIDE DEF g
  <2>4. Walks(n + 1, g)
    BY <2>2, <2>3
  <2> QED
    BY <2>4
<1>3. size \in Nat
  BY FS_CardinalityType
<1> HIDE DEF S
<1>4. 2 * size \in Nat /\ 2 * size \in S
  <2> HIDE DEF size
  <2>1. 2 * size \in Nat
    BY <1>3
  <2> QED
    BY <1>1, <1>2, <2>1, InductionBySet
<1>5. \E f : Walks(2 * size, f)
  BY <1>4 DEF S
<1>6. Walks(2 * size, Hops(w, o, slug))
  BY <1>5, Zenon DEF Hops
<1> DEFINE m == 2 * size
<1>7. m \in Nat /\ Walks(m, Hops(w, o, slug))
  BY <1>4, <1>6
<1> HIDE DEF m
<1>8. WalksOn(w, o, slug, Hops(w, o, slug), m)
  BY <1>7 DEF WalksOn
<1> QED
  BY <1>8 DEF m

\* The named ones are the walk up to the root, whatever is extended after it.
LEMMA NamedAreFirst ==
  ASSUME NEW w, NEW o, NEW slug, IsFiniteSet(AgentNames(w)), slug # None
  PROVE  /\ Max(Named(Hops(w, o, slug))) \in Named(Hops(w, o, slug))
         /\ Max(Named(Hops(w, o, slug))) \in Nat
         /\ Named(Hops(w, o, slug)) = 0..Max(Named(Hops(w, o, slug)))
<1> DEFINE hop == Hops(w, o, slug)
           root == Max(Named(hop))
<1>0. \E m : WalksOn(w, o, slug, hop, m)
  BY HopsWalk
<1> HIDE DEF hop
<1>p. PICK m : WalksOn(w, o, slug, hop, m)
  BY <1>0
<1>1. /\ m \in Nat /\ DOMAIN hop = 0..m /\ hop[0] = slug
      /\ \A k \in 1..m : hop[k] = Hop(w, o, hop[k - 1])
  BY <1>p DEF WalksOn
<1>2. Named(hop) \in SUBSET (0..m) /\ 0 \in Named(hop)
  BY <1>1 DEF Named
<1>n. m \in Nat /\ Named(hop) # {}
  BY <1>1, <1>2
<1>3. root \in Named(hop) /\ \A k \in Named(hop) : k <= root
  BY <1>2, <1>n, GreatestIsMax, Zenon
<1> HIDE DEF root
<1>4. root \in 0..m /\ root \in Nat
  BY <1>2, <1>3
<1> DEFINE S == {n \in Nat : root - n \in 0..root => hop[root - n] # None}
<1>5. 0 \in S
  BY <1>3, <1>4 DEF Named
<1>6. ASSUME NEW n \in Nat, n \in S
      PROVE  n + 1 \in S
  <2> SUFFICES ASSUME root - (n + 1) \in 0..root
               PROVE  hop[root - (n + 1)] # None
    OBVIOUS
  <2>0. m \in Nat /\ root \in 0..m /\ n \in Nat
    BY <1>n, <1>4
  <2>1. root - n \in 0..root /\ root - n \in 1..m /\ (root - n) - 1 = root - (n + 1)
    BY <2>0
  <2>2. hop[root - n] # None /\ hop[root - n] = Hop(w, o, hop[root - (n + 1)])
    BY <1>1, <1>6, <2>1
  <2> QED
    BY <2>2 DEF Hop
<1>7. ASSUME NEW k \in 0..root
      PROVE  k \in Named(hop)
  <2>1. root - k \in Nat /\ root - (root - k) = k
    BY <1>4
  <2>2. root - k \in S
    <3> HIDE DEF S
    <3> QED
      BY <1>5, <1>6, <2>1, InductionBySet
  <2>3. hop[k] # None
    BY <2>1, <2>2
  <2> QED
    BY <1>1, <1>4, <2>3 DEF Named
<1>8. Named(hop) = 0..root
  <2>1. ASSUME NEW k \in Named(hop)
        PROVE  k \in 0..root
    BY <1>2, <1>3, <1>4
  <2> QED
    BY <1>7, <2>1
<1> QED
  BY <1>3, <1>4, <1>8 DEF root, hop

\* The file of a hop, as it is laid over the ones after it.
File(w, o, hop, k) == Desugar(AgentFile(w, o, hop[k]))

\* _load_agent_spec lays one file after the other over the root's.
Lays(w, o, hop, root, merged) ==
    /\ LaidOver(w, o, hop) = merged[root]
    /\ merged[0] = Delta(File(w, o, hop, root))
    /\ \A k \in 1..root : merged[k] = Merge(merged[k - 1], Delta(File(w, o, hop, root - k)))

LEMMA LaidOverWalks ==
  ASSUME NEW w, NEW o, NEW hop, NEW root \in Nat, root = Max(Named(hop))
  PROVE  \E merged : Lays(w, o, hop, root, merged)
<1> DEFINE fm(k) == Delta(Desugar(AgentFile(w, o, hop[root - k])))
           Walks(n, f) == f = [k \in 0..n |-> IF k = 0 THEN fm(k) ELSE Merge(f[k - 1], fm(k))]
           S == {n \in Nat : \E f : Walks(n, f)}
<1>0. root = Max(Named(hop))
  OBVIOUS
<1>1. 0 \in S
  <2> DEFINE f == [k \in 0..0 |-> fm(k)]
  <2> HIDE DEF fm
  <2>1. Walks(0, f)
    OBVIOUS
  <2> QED
    BY <2>1
<1>2. ASSUME NEW n \in Nat, n \in S
      PROVE  n + 1 \in S
  <2> HIDE DEF fm
  <2>1. PICK f : Walks(n, f)
    BY <1>2
  <2> DEFINE g == [k \in 0..(n + 1) |-> IF k = n + 1 THEN Merge(f[n], fm(k)) ELSE f[k]]
  <2>2. ASSUME NEW k \in 0..(n + 1)
        PROVE  g[k] = IF k = 0 THEN fm(k) ELSE Merge(g[k - 1], fm(k))
    <3>1. CASE k = n + 1
      BY <3>1
    <3>2. CASE k # n + 1
      <4>1. k \in 0..n /\ (k # 0 => k - 1 \in 0..n)
        BY <3>2
      <4>2. g[k] = f[k] /\ (k # 0 => g[k - 1] = f[k - 1])
        BY <4>1
      <4>3. f[k] = IF k = 0 THEN fm(k) ELSE Merge(f[k - 1], fm(k))
        BY <2>1, <4>1
      <4> QED
        BY <4>1, <4>2, <4>3
    <3> QED
      BY <3>1, <3>2
  <2>3. g = [k \in 0..(n + 1) |-> g[k]]
    OBVIOUS
  <2> HIDE DEF g
  <2>4. Walks(n + 1, g)
    BY <2>2, <2>3
  <2> QED
    BY <2>4
<1> HIDE DEF S
<1>3. root \in S
  BY <1>1, <1>2, InductionBySet
<1>4. \E f : Walks(root, f)
  BY <1>3 DEF S
<1>5. \E f : Walks(root, f) /\ LaidOver(w, o, hop) = f[root]
  BY <1>0, <1>4, Zenon DEF LaidOver
<1>6. PICK f : Walks(root, f) /\ LaidOver(w, o, hop) = f[root]
  BY <1>5
<1>7. f[0] = fm(0) /\ \A k \in 1..root : f[k] = Merge(f[k - 1], fm(k))
  <2> HIDE DEF fm
  <2> QED
    BY <1>6
<1>8. root - 0 = root
  OBVIOUS
<1>9. Lays(w, o, hop, root, f)
  BY <1>6, <1>7, <1>8 DEF File, Lays
<1> QED
  BY <1>9

\* _merge_extends keeps the servers of the base and changes its tools as told.
LEMMA MergeKeeps ==
  ASSUME NEW base, NEW delta
  PROVE  /\ Get(Merge(base, delta), "mcp", <<>>) = Get(base, "mcp", <<>>)
         /\ Get(Merge(base, delta), "tools", {}) =
               IF "tools" \in DOMAIN delta THEN delta["tools"]
               ELSE (Get(base, "tools", {}) \cup Get(delta, "tools_add", {})) \ Get(delta, "tools_remove", {})
  BY DEF Merge, Get

\* The root's file lists tools or servers, a delta's tools or tools_add.
ListsAt(file, k, root) ==
    \/ Get(file, "tools", {}) # {}
    \/ k # root /\ Get(file, "tools_add", {}) # {}
    \/ k = root /\ DOMAIN Get(file, "mcp", <<>>) # {}

\* A delta takes tools away, or empties the list.
TakesAway(file) ==
    \/ Get(file, "tools_remove", {}) # {}
    \/ "tools" \in DOMAIN file /\ Get(file, "tools", {}) = {}

\* If no delta takes anything away, what one of the files lists is in the agent's.
LEMMA ListedStays ==
  ASSUME NEW v \in Versions, NEW o, NEW slug, slug # None,
         NEW hop, hop = Hops(World[v], o, slug),
         NEW root, root = Max(Named(hop)),
         NEW i \in Named(hop), ListsAt(File(World[v], o, hop, i), i, root),
         \A k \in Named(hop) \ {root} : ~ TakesAway(File(World[v], o, hop, k))
  PROVE  ~ Wide(Spec(World[v], o, slug))
<1> DEFINE w == World[v]
<1>1. root \in Nat /\ Named(hop) = 0..root
  BY AgentsAreFinite, NamedAreFirst
<1>i. i \in 0..root
  BY <1>1, Zenon
<1>m. PICK merged : Lays(w, o, hop, root, merged)
  BY <1>1, LaidOverWalks
<1>2. /\ LaidOver(w, o, hop) = merged[root]
      /\ merged[0] = Delta(File(w, o, hop, root))
      /\ \A k \in 1..root : merged[k] = Merge(merged[k - 1], Delta(File(w, o, hop, root - k)))
  BY <1>m DEF Lays
<1> DEFINE Has(fm) == Get(fm, "tools", {}) # {} \/ DOMAIN Get(fm, "mcp", <<>>) # {}
           S == {n \in Nat : root - i + n \in 0..root => Has(merged[root - i + n])}
<1>3. \A fm, k : /\ Get(Delta(fm), "tools", k) = Get(fm, "tools", k)
                 /\ Get(Delta(fm), "mcp", k) = Get(fm, "mcp", k)
                 /\ Get(Delta(fm), "tools_add", k) = Get(fm, "tools_add", k)
                 /\ Get(Delta(fm), "tools_remove", k) = Get(fm, "tools_remove", k)
                 /\ "tools" \in DOMAIN Delta(fm) <=> "tools" \in DOMAIN fm
                 /\ "tools" \in DOMAIN fm => Delta(fm)["tools"] = fm["tools"]
  BY DEF Delta, Get
<1>4. 0 \in S
  <2>1. root - i + 0 = root - i /\ root - i \in 0..root
    BY <1>1, <1>i
  <2>2. CASE i = root
    <3>1. root - i = 0
      BY <1>1, <2>2
    <3>2. Has(merged[0])
      BY <1>2, <1>3, <2>2 DEF ListsAt
    <3> QED
      BY <2>1, <3>1, <3>2
  <2>3. CASE i # root
    <3>1. root - i \in 1..root /\ root - (root - i) = i
      BY <1>1, <1>i, <2>3
    <3>2. merged[root - i] = Merge(merged[root - i - 1], Delta(File(w, o, hop, i)))
      BY <1>2, <3>1
    <3>3. Get(File(w, o, hop, i), "tools_remove", {}) = {}
          /\ ("tools" \in DOMAIN File(w, o, hop, i) => File(w, o, hop, i)["tools"] # {})
          /\ ("tools" \in DOMAIN File(w, o, hop, i) \/ Get(File(w, o, hop, i), "tools_add", {}) # {})
      BY <2>3 DEF ListsAt, TakesAway, Get
    <3>4. Get(merged[root - i], "tools", {}) # {}
      BY <1>3, <3>2, <3>3, MergeKeeps
    <3> QED
      BY <2>1, <3>4
  <2> QED
    BY <2>2, <2>3
<1>5. ASSUME NEW n \in Nat, n \in S
      PROVE  n + 1 \in S
  <2> SUFFICES ASSUME root - i + (n + 1) \in 0..root
               PROVE  Has(merged[root - i + (n + 1)])
    OBVIOUS
  <2> DEFINE k == root - i + (n + 1)
             file == File(w, o, hop, root - k)
  <2>0. root \in Nat /\ i \in 0..root /\ n \in Nat /\ k \in 0..root /\ k = root - i + (n + 1)
    BY <1>1, <1>i
  <2> HIDE DEF k
  <2>1. /\ k \in 1..root /\ k - 1 = root - i + n /\ k - 1 \in 0..root
        /\ root - k \in 0..root /\ root - k # root
    BY <2>0
  <2>2. Has(merged[k - 1])
    BY <1>5, <2>1
  <2>3. merged[k] = Merge(merged[k - 1], Delta(file))
    BY <1>2, <2>1
  <2>4. ~ TakesAway(file)
    BY <1>1, <2>1
  <2> HIDE DEF file
  <2>5. Get(file, "tools_remove", {}) = {} /\ ("tools" \in DOMAIN file => file["tools"] # {})
    BY <2>4 DEF TakesAway, Get
  <2>6. Has(merged[k])
    BY <1>3, <2>2, <2>3, <2>5, MergeKeeps
  <2> QED
    BY <2>6 DEF k
<1> HIDE DEF S
<1>6. i \in Nat /\ i \in S
  BY <1>1, <1>4, <1>5, InductionBySet
<1>7. root - i + i = root /\ root \in 0..root
  BY <1>1, <1>i
<1>8. Has(merged[root])
  BY <1>6, <1>7 DEF S
<1>9. Spec(w, o, slug) = merged[root]
  BY <1>2 DEF Spec
<1> QED
  BY <1>8, <1>9 DEF Wide

-----------------------------------------------------------------------------
(***************************************************************************)
(* What a build holds to at every reading.                                 *)
(***************************************************************************)

\* The readings before the supervisor has any tool, and before its agents are built.
BeforeTools == {"profile", "gate", "retries", "overrides", "surface"}
BeforeAgents == BeforeTools \cup {"askUser", "allowlist", "prompt", "roster"}

\* The build knows only versions it has met, and asks for an org that is no base.
KnownInv ==
    /\ step \in Steps
    /\ version \in seen /\ seen \subseteq Versions
    /\ org \notin DOMAIN Bare /\ AskUser \notin request.armed
    /\ None \notin waiting
    /\ step \in BeforeTools => tools = {}
    /\ step \in BeforeAgents => agents = <<>>

\* An agent of any roster has a name.
LEMMA RostersName ==
  ASSUME NEW v \in Versions, NEW o
  PROVE  None \notin Roster(World[v], o)
<1> SUFFICES ASSUME NEW p \in RosterSources(World[v], o), None \in OwnRoster(World[v], p)
             PROVE  FALSE
  BY DEF Roster
<1>1. HasDir(World[v], p) /\ None \in Get(Dir(World[v], p).yaml, "agents", {})
  BY DEF OwnRoster
<1>2. DirOf(World[v], p) \in DOMAIN World[v].dirs
  BY <1>1 DEF HasDir
<1> QED
  BY <1>1, <1>2, AgentsHaveNames DEF Dir

\* The request a build begins with.
LEMMA RequestStarts ==
  ASSUME StackInit
  PROVE  org \notin DOMAIN Bare /\ AskUser \notin request.armed
<1>1. PICK r \in Requests : request = [r EXCEPT !.armed = {t \in @ : t[2] \in Openable(files, r.org)}]
  BY DEF StackInit
<1> DEFINE left == {t \in r.armed : t[2] \in Openable(files, r.org)}
<1>2. request = [r EXCEPT !.armed = left]
  BY <1>1
<1>3. left \subseteq r.armed
  OBVIOUS
<1> HIDE DEF left
<1>4. r = [org |-> r.org, transport |-> r.transport, armed |-> r.armed]
  BY RequestsAreWellFormed
<1>5. request.org = r.org /\ request.armed = left
  BY <1>2, <1>4
<1> QED
  BY <1>3, <1>5, RequestsAreWellFormed DEF org

\* Two readings whose answer is a Boolean of the profile.
LEMMA GateReads ==
  ASSUME ReadGate
  PROVE  /\ step = "gate"
         /\ \/ Stop("rubric")
            \/ /\ Proceed("retries")
               /\ UNCHANGED <<profile, sub, mounted, surface, tools, declared, waiting, agents>>
  BY Zenon DEF ReadGate

LEMMA AskUserReads ==
  ASSUME ReadAskUser
  PROVE  /\ step = "askUser"
         /\ \/ Stop("askUser")
            \/ /\ tools' = tools \/ (tools' = tools \cup {AskUser} /\ "attended" \in request.transport)
               /\ Proceed("allowlist")
               /\ UNCHANGED <<profile, gates, sub, mounted, surface, declared, waiting, agents>>
<1> DEFINE asked == Get(Profile(files, org), "askUser", FALSE) /\ "attended" \in request.transport
<1>1. /\ step = "askUser"
      /\ \/ Stop("askUser")
         \/ /\ tools' = tools \cup If(asked, AskUser)
            /\ Proceed("allowlist")
            /\ UNCHANGED <<profile, gates, sub, mounted, surface, declared, waiting, agents>>
  BY Zenon DEF ReadAskUser
<1>2. asked => "attended" \in request.transport
  OBVIOUS
<1> HIDE DEF asked
<1>3. \/ If(asked, AskUser) = {}
      \/ If(asked, AskUser) = {AskUser} /\ "attended" \in request.transport
  BY <1>2, Zenon DEF If
<1> HIDE DEF Stop, Proceed
<1> QED
  BY <1>1, <1>3

LEMMA KnownStarts ==
  ASSUME StackInit
  PROVE  KnownInv
<1>1. org \notin DOMAIN Bare /\ AskUser \notin request.armed
  BY RequestStarts
<1> QED
  BY <1>1, StartIsKnown DEF KnownInv, StackInit, Steps, BeforeTools, BeforeAgents

LEMMA NobodyYet ==
  ASSUME StackInit
  PROVE  DOMAIN agents = {}
  BY DEF StackInit

LEMMA KnownKeeps ==
  ASSUME KnownInv, [StackNext]_vars
  PROVE  KnownInv'
<1> USE DEF KnownInv, Steps, BeforeTools, BeforeAgents, Stop, Proceed, org
<1>1. CASE ReadProfile
  BY <1>1 DEF ReadProfile
<1>2. CASE ReadGate
  BY <1>2, GateReads
<1>3. CASE ReadRetries
  BY <1>3 DEF ReadRetries
<1>4. CASE ReadOverrides
  BY <1>4 DEF ReadOverrides
<1>5. CASE ReadSurface
  BY <1>5 DEF ReadSurface
<1>6. CASE ReadAskUser
  BY <1>6, AskUserReads
<1>7. CASE ReadAllowlist
  BY <1>7 DEF ReadAllowlist
<1>8. CASE ReadPrompt
  BY <1>8 DEF ReadPrompt
<1>9. CASE ReadRoster
  <2>1. None \notin Roster(files, org)
    BY RostersName DEF files
  <2> QED
    BY <1>9, <2>1 DEF ReadRoster
<1>10. CASE \E slug \in waiting : BuildAgent(slug)
  BY <1>10 DEF BuildAgent
<1>11. CASE BuildGeneral
  BY <1>11 DEF BuildGeneral
<1>12. CASE Edit
  <2>1. Edits[version] \subseteq Versions
    BY EditsLeadSomewhere
  <2> QED
    BY <1>12, <2>1 DEF Edit
<1>13. CASE UNCHANGED vars
  BY <1>13 DEF vars
<1> QED
  BY <1>1, <1>2, <1>3, <1>4, <1>5, <1>6, <1>7, <1>8, <1>9, <1>10, <1>11, <1>12, <1>13 DEF StackNext

\* What Added adds.
LEMMA OneMore ==
  ASSUME NEW f, NEW k, NEW e, NEW x \in DOMAIN Added(f, k, e)
  PROVE  (x = k /\ Added(f, k, e)[x] = e) \/ (x \in DOMAIN f /\ Added(f, k, e)[x] = f[x])
  BY DEF Added

LEMMA OneKept ==
  ASSUME NEW f, NEW k, NEW e, NEW x \in DOMAIN f
  PROVE  x \in DOMAIN Added(f, k, e) /\ Added(f, k, e)[x] = f[x]
  BY DEF Added

LEMMA OneLonger ==
  ASSUME NEW f, NEW k, NEW e
  PROVE  DOMAIN Added(f, k, e) = DOMAIN f \cup {k}
  BY DEF Added

\* A turn of the loop refuses the agent, or adds one that is as its files say.
LEMMA AgentBuilds ==
  ASSUME NEW slug, BuildAgent(slug)
  PROVE  /\ step = "agents" /\ slug \in waiting
         /\ \/ \E why : Stop(why)
            \/ /\ ~ SpecFails(files, org, slug) /\ ~ SkillsFail(files, Spec(files, org, slug))
               /\ Listed(Spec(files, org, slug)) \subseteq surface
               /\ agents' = Added(agents, slug, Built(slug, Spec(files, org, slug)))
               /\ waiting' = waiting \ {slug}
               /\ Proceed("agents")
               /\ UNCHANGED <<profile, gates, sub, mounted, surface, tools, declared>>
  BY Zenon DEF BuildAgent

LEMMA GeneralBuilds ==
  ASSUME BuildGeneral
  PROVE  /\ step = "agents" /\ waiting = {}
         /\ \/ Stop("gpText")
            \/ /\ agents' = agents \/ \E off : agents' = Added(agents, General, Helper(off))
               /\ Proceed("done")
               /\ UNCHANGED <<profile, gates, sub, mounted, surface, tools, declared, waiting>>
  BY Zenon DEF BuildGeneral

\* An agent is as it was, with the profile, the middlewares and the request it was
\* built for, or this step builds it.
AgentComes(a) ==
    /\ UNCHANGED <<profile, mounted, request>>
    /\ \/ a \in DOMAIN agents /\ agents'[a] = agents[a]
       \/ a \in waiting /\ agents'[a] = Built(a, Spec(files, org, a))
       \/ \E off : agents'[a] = Helper(off)

LEMMA AgentsCome ==
  ASSUME KnownInv, [StackNext]_vars, NEW a \in DOMAIN agents'
  PROVE  AgentComes(a)
<1>0. step \in BeforeAgents => agents = <<>>
  BY DEF KnownInv
<1>s. ASSUME UNCHANGED <<profile, mounted, request, agents>>
      PROVE  AgentComes(a)
  BY <1>s DEF AgentComes
<1>e. DOMAIN <<>> = {}
  OBVIOUS
<1> USE DEF BeforeAgents, BeforeTools
<1>1. CASE ReadProfile
  BY <1>0, <1>1, <1>e, <1>s DEF ReadProfile, Stop
<1>2. CASE ReadGate
  BY <1>2, <1>s, GateReads DEF Stop, Proceed
<1>3. CASE ReadRetries
  BY <1>3, <1>s DEF ReadRetries, Stop, Proceed
<1>4. CASE ReadOverrides
  BY <1>0, <1>4, <1>e, <1>s DEF ReadOverrides, Stop
<1>5. CASE ReadSurface
  BY <1>5, <1>s DEF ReadSurface, Stop, Proceed
<1>6. CASE ReadAskUser
  BY <1>6, <1>s, AskUserReads DEF Stop, Proceed
<1>7. CASE ReadAllowlist
  BY <1>7, <1>s DEF ReadAllowlist, Stop, Proceed
<1>8. CASE ReadPrompt
  BY <1>8, <1>s DEF ReadPrompt, Stop, Proceed
<1>9. CASE ReadRoster
  BY <1>9, <1>s DEF ReadRoster, Stop, Proceed
<1>10. ASSUME NEW slug \in waiting, BuildAgent(slug)
       PROVE  AgentComes(a)
  <2>1. CASE \E why : Stop(why)
    BY <1>s, <2>1 DEF Stop
  <2>2. CASE ~ \E why : Stop(why)
    <3>1. /\ agents' = Added(agents, slug, Built(slug, Spec(files, org, slug)))
          /\ UNCHANGED <<profile, mounted, request>>
      BY <1>10, <2>2, AgentBuilds DEF Proceed
    <3>2. \/ a = slug /\ agents'[a] = Built(slug, Spec(files, org, slug))
          \/ a \in DOMAIN agents /\ agents'[a] = agents[a]
      BY <3>1, OneMore
    <3> QED
      BY <3>1, <3>2 DEF AgentComes
  <2> QED
    BY <2>1, <2>2
<1>11. CASE BuildGeneral
  <2>1. UNCHANGED <<profile, mounted, request>>
    BY <1>11, GeneralBuilds DEF Stop, Proceed
  <2>2. CASE agents' = agents
    BY <1>s, <2>1, <2>2
  <2>3. ASSUME NEW off, agents' = Added(agents, General, Helper(off))
        PROVE  AgentComes(a)
    <3>1. agents'[a] = Helper(off) \/ (a \in DOMAIN agents /\ agents'[a] = agents[a])
      BY <2>3, OneMore
    <3> QED
      BY <2>1, <3>1 DEF AgentComes
  <2>4. agents' = agents \/ \E off : agents' = Added(agents, General, Helper(off))
    BY <1>11, GeneralBuilds DEF Stop
  <2> QED
    BY <2>2, <2>3, <2>4
<1>12. CASE Edit
  BY <1>12, <1>s DEF Edit
<1>13. CASE UNCHANGED vars
  BY <1>13, <1>s DEF vars
<1> QED
  BY <1>1, <1>2, <1>3, <1>4, <1>5, <1>6, <1>7, <1>8, <1>9, <1>10, <1>11, <1>12, <1>13 DEF StackNext

-----------------------------------------------------------------------------
(***************************************************************************)
(* What an agent may use.                                                  *)
(***************************************************************************)

\* What an agent has is barred as its own and the org's exclusions say.
Barred(r) ==
    /\ r.tools \cap Excluded(profile) \subseteq Retrieval \cup {AskUser}
    /\ ~ r.wide => r.tools \cap Excluded(r.spec) \subseteq Retrieval

BarredInv ==
    /\ tools \cap Excluded(profile) \subseteq {AskUser}
    /\ \A a \in DOMAIN agents : Barred(agents[a])

LEMMA BuiltIsBarred ==
  ASSUME NEW slug, NEW spec, BarredInv
  PROVE  Barred(Built(slug, spec))
<1> DEFINE r == Built(slug, spec)
<1>1. r.tools = IF Wide(spec) THEN tools ELSE WithRetrieval(OwnTools(spec))
  BY DEF Built
<1>2. r.wide = Wide(spec) /\ r.spec = spec
  BY Zenon DEF Built
<1> HIDE DEF r
<1>3. ContextTools \subseteq Retrieval
  BY DEF ContextTools
<1>4. OwnTools(spec) \cap Excluded(profile) = {} /\ OwnTools(spec) \cap Excluded(spec) = {}
  BY DEF OwnTools
<1>5. ASSUME Wide(spec)
      PROVE  Barred(r)
  BY <1>1, <1>2, <1>5 DEF Barred, BarredInv
<1>6. ASSUME ~ Wide(spec)
      PROVE  Barred(r)
  BY <1>1, <1>2, <1>3, <1>4, <1>6 DEF Barred, WithRetrieval
<1> QED
  BY <1>5, <1>6 DEF r

LEMMA HelperIsBarred ==
  ASSUME NEW off
  PROVE  Barred(Helper(off))
<1> DEFINE r == Helper(off)
<1>1. r.wide = FALSE /\ r.spec = <<>> /\ r.tools \cap Excluded(profile) = {}
  BY DEF Helper
<1>2. Excluded(<<>>) = {}
  BY DEF Excluded, Get
<1> HIDE DEF r
<1> QED
  BY <1>1, <1>2 DEF Barred, r

LEMMA BarredStarts ==
  ASSUME StackInit
  PROVE  BarredInv
  BY DEF BarredInv, StackInit

LEMMA BarredKeeps ==
  ASSUME KnownInv, BarredInv, [StackNext]_vars
  PROVE  BarredInv'
<1>a. tools' \cap Excluded(profile)' \subseteq {AskUser}
  <2> USE DEF BarredInv, Excluded
  <2>1. CASE ReadProfile
    BY <2>1 DEF ReadProfile, Stop, KnownInv, BeforeTools
  <2>2. CASE ReadGate
    BY <2>2, GateReads DEF Stop
  <2>3. CASE ReadRetries
    BY <2>3 DEF ReadRetries, Stop
  <2>4. CASE ReadOverrides
    BY <2>4 DEF ReadOverrides, Stop
  <2>5. CASE ReadSurface
    BY <2>5 DEF ReadSurface, Stop
  <2>6. CASE ReadAskUser
    BY <2>6, AskUserReads DEF Stop
  <2>7. CASE ReadAllowlist
    BY <2>7 DEF ReadAllowlist, Stop, Scoped
  <2>8. CASE ReadPrompt
    BY <2>8 DEF ReadPrompt, Stop
  <2>9. CASE ReadRoster
    BY <2>9 DEF ReadRoster, Stop
  <2>10. ASSUME NEW slug \in waiting, BuildAgent(slug)
         PROVE  tools' \cap Excluded(profile)' \subseteq {AskUser}
    BY <2>10, AgentBuilds DEF Stop
  <2>11. CASE BuildGeneral
    BY <2>11, GeneralBuilds DEF Stop
  <2>12. CASE Edit
    BY <2>12 DEF Edit
  <2>13. CASE UNCHANGED vars
    BY <2>13 DEF vars
  <2> QED
    BY <2>1, <2>2, <2>3, <2>4, <2>5, <2>6, <2>7, <2>8, <2>9, <2>10, <2>11, <2>12, <2>13 DEF StackNext
<1>b. ASSUME NEW a \in DOMAIN agents'
      PROVE  Barred(agents'[a]) /\ profile' = profile
  <2>1. AgentComes(a)
    BY <1>b, AgentsCome
  <2> QED
    BY <2>1, BuiltIsBarred, HelperIsBarred DEF AgentComes, BarredInv
<1>c. ASSUME NEW a \in DOMAIN agents'
      PROVE  Barred(agents[a])'
  BY <1>b, <1>c DEF Barred, Excluded
<1> QED
  BY <1>a, <1>c DEF BarredInv

\* _merge_extends knows no exclusions but the base's, and a capabilities block has none.
LEMMA MergeKeepsExclusions ==
  ASSUME NEW base, NEW delta
  PROVE  Excluded(Merge(base, delta)) = Excluded(base)
  BY DEF Merge, Excluded, Get

LEMMA DesugarKeepsExclusions ==
  ASSUME NEW fm
  PROVE  Excluded(Delta(Desugar(fm))) = Excluded(fm)
<1>1. Excluded(Desugar(fm)) = Excluded(fm)
  BY DEF Desugar, Excluded, Get
<1>2. Excluded(Delta(Desugar(fm))) = Excluded(Desugar(fm))
  BY DEF Delta, Excluded, Get
<1> QED
  BY <1>1, <1>2

\* What an agent excludes is what the file at the root of its chain excludes.
LEMMA RootExcludes ==
  ASSUME NEW v \in Versions, NEW o, NEW slug, slug # None
  PROVE  Excluded(Spec(World[v], o, slug)) = Excluded(RootFile(World[v], o, slug))
<1> DEFINE w == World[v]
<1>h. PICK hop : hop = Hops(w, o, slug)
  OBVIOUS
<1>r. PICK root : root = Max(Named(hop))
  OBVIOUS
<1>1. root \in Nat
  BY <1>h, <1>r, AgentsAreFinite, NamedAreFirst
<1>m. PICK merged : Lays(w, o, hop, root, merged)
  BY <1>1, <1>r, LaidOverWalks
<1>2. /\ LaidOver(w, o, hop) = merged[root]
      /\ merged[0] = Delta(File(w, o, hop, root))
      /\ \A k \in 1..root : merged[k] = Merge(merged[k - 1], Delta(File(w, o, hop, root - k)))
  BY <1>m DEF Lays
<1> DEFINE barred == Excluded(AgentFile(w, o, hop[root]))
           S == {n \in Nat : n \in 0..root => Excluded(merged[n]) = barred}
<1>3. 0 \in S
  BY <1>2, DesugarKeepsExclusions DEF File
<1> HIDE DEF barred
<1>4. ASSUME NEW n \in Nat, n \in S
      PROVE  n + 1 \in S
  <2> SUFFICES ASSUME n + 1 \in 0..root
               PROVE  Excluded(merged[n + 1]) = barred
    OBVIOUS
  <2>1. n + 1 \in 1..root /\ n \in 0..root /\ (n + 1) - 1 = n
    BY <1>1
  <2>2. merged[n + 1] = Merge(merged[n], Delta(File(w, o, hop, root - (n + 1))))
    BY <1>2, <2>1
  <2> QED
    BY <1>4, <2>1, <2>2, MergeKeepsExclusions
<1> HIDE DEF S
<1>5. root \in S
  BY <1>1, <1>3, <1>4, InductionBySet
<1>6. Excluded(merged[root]) = barred
  BY <1>1, <1>5 DEF S
<1>7. Spec(w, o, slug) = merged[root]
  BY <1>2, <1>h DEF Spec
<1>8. RootFile(w, o, slug) = AgentFile(w, o, hop[root])
  BY <1>h, <1>r DEF RootFile
<1> QED
  BY <1>6, <1>7, <1>8 DEF barred

\* What an agent was built from: nothing, or its files as they were.
ReadFrom(a, r) ==
    \/ r.spec = <<>>
    \/ a # None /\ r.from \in Versions /\ r.spec = Spec(World[r.from], org, a)
ReadInv == \A a \in DOMAIN agents : ReadFrom(a, agents[a])

LEMMA ReadKeeps ==
  ASSUME KnownInv, ReadInv, [StackNext]_vars
  PROVE  ReadInv'
<1>1. ASSUME NEW a \in DOMAIN agents'
      PROVE  ReadFrom(a, agents'[a]) /\ UNCHANGED org
  <2>1. AgentComes(a)
    BY <1>1, AgentsCome
  <2>2. ASSUME a \in waiting
        PROVE  ReadFrom(a, Built(a, Spec(files, org, a)))
    <3>1. /\ Built(a, Spec(files, org, a)).from = version
          /\ Built(a, Spec(files, org, a)).spec = Spec(files, org, a)
      BY Zenon DEF Built
    <3>2. a # None /\ version \in Versions
      BY <2>2 DEF KnownInv
    <3> QED
      BY <3>1, <3>2, Zenon DEF ReadFrom, files
  <2>3. ASSUME NEW off
        PROVE  ReadFrom(a, Helper(off))
    BY DEF Helper, ReadFrom
  <2> QED
    BY <2>1, <2>2, <2>3 DEF AgentComes, ReadInv, org
<1>2. ASSUME NEW a \in DOMAIN agents'
      PROVE  ReadFrom(a, agents[a])'
  BY <1>1, <1>2 DEF ReadFrom
<1> QED
  BY <1>2 DEF ReadInv

\* stack.py:1251-1268, orgs.py:831-848 and kit/loaders.py:385-449: whatever the files,
\* the edits and the requests are, a tool that the org's profile or the file at the
\* root of the agent's chain excludes comes back only as a retrieval tool, as ask_user,
\* or to an agent that lists nothing.  Nothing is said of the exclusions of a file
\* that extends another one, which are lost.
THEOREM ExcludedReturnsRarely == StackSpec => []ExcludedComesBack
<1> DEFINE I == KnownInv /\ BarredInv /\ ReadInv
<1>1. StackInit => I
  BY KnownStarts, BarredStarts, NobodyYet DEF ReadInv
<1>2. I /\ [StackNext]_vars => I'
  BY KnownKeeps, BarredKeeps, ReadKeeps
<1>3. I => ExcludedComesBack
  <2> SUFFICES ASSUME I, NEW a \in DOMAIN agents
               PROVE  LET back(s) == agents[a].tools \cap Excluded(s)
                      IN  /\ back(profile) \subseteq Retrieval \cup {AskUser}
                          /\ FromFiles(a) /\ ~agents[a].wide =>
                                back(RootFile(World[agents[a].from], org, a)) \subseteq Retrieval
    BY Zenon DEF ExcludedComesBack
  <2>1. Barred(agents[a]) /\ ReadFrom(a, agents[a])
    BY DEF BarredInv, ReadInv
  <2>2. ASSUME FromFiles(a)
        PROVE  Excluded(RootFile(World[agents[a].from], org, a)) = Excluded(agents[a].spec)
    <3>1. agents[a].spec # <<>>
      BY <2>2 DEF FromFiles
    <3>2. a # None /\ agents[a].from \in Versions /\ agents[a].spec = Spec(World[agents[a].from], org, a)
      BY <2>1, <3>1 DEF ReadFrom
    <3> QED
      BY <3>2, RootExcludes
  <2> QED
    BY <2>1, <2>2 DEF Barred
<1> QED
  BY <1>1, <1>2, <1>3, PTL DEF StackSpec

\* Some policy the build met names the tool or its group.
OptedIn(t) ==
    \E v \in seen : Get(Policy(World[v], org), "groups", {}) \cap
                      ({t} \cup {g \in DOMAIN Groups : t \in Groups[g]}) # {}

ScopedInv ==
    /\ AskUser \in tools => "attended" \in request.transport
    /\ step \in {"prompt", "roster", "agents", "done"} =>
          \A t \in Specialists : <<"pux", t>> \in tools => OptedIn(t)

\* A tool that is allowed is named, or its group is.
LEMMA AllowedIsNamed ==
  ASSUME KnownInv, NEW t \in AllowedSlugs(files, org)
  PROVE  OptedIn(t)
<1>1. PICK g \in Get(Policy(files, org), "groups", {}) : t \in Get(Groups, g, {g})
  BY DEF AllowedSlugs
<1>2. g = t \/ (g \in DOMAIN Groups /\ t \in Groups[g])
  BY <1>1 DEF Get
<1>3. g \in Get(Policy(files, org), "groups", {}) \cap ({t} \cup {x \in DOMAIN Groups : t \in Groups[x]})
  BY <1>1, <1>2
<1> QED
  BY <1>3 DEF OptedIn, KnownInv, files

LEMMA ScopedKeeps ==
  ASSUME KnownInv, ScopedInv, [StackNext]_vars
  PROVE  ScopedInv'
<1>m. ASSUME UNCHANGED <<tools, request>>, seen \subseteq seen',
             step' \in {"prompt", "roster", "agents", "done"} => step \in {"prompt", "roster", "agents", "done"}
      PROVE  ScopedInv'
  BY <1>m DEF ScopedInv, OptedIn, org
<1> USE DEF Stop, Proceed
<1>1. CASE ReadProfile
  BY <1>1, <1>m DEF ReadProfile
<1>2. CASE ReadGate
  BY <1>2, <1>m, GateReads
<1>3. CASE ReadRetries
  BY <1>3, <1>m DEF ReadRetries
<1>4. CASE ReadOverrides
  BY <1>4, <1>m DEF ReadOverrides
<1>5. CASE ReadSurface
  <2>1. CASE Stop("policy")
    BY <1>m, <2>1
  <2>2. CASE ~ Stop("policy")
    <3>1. /\ tools' = (request.armed \cup Surface(files, org) \cup ContextTools) \ Excluded(profile)
          /\ step' = "askUser"
      BY <1>5, <2>2 DEF ReadSurface
    <3>2. AskUser \notin Surface(files, org)
      BY DEF Surface, Sandbox, SpecialistTools, AskUser
    <3>3. AskUser \notin ContextTools /\ AskUser \notin request.armed
      BY AskUserIsApart DEF ContextTools, KnownInv
    <3> QED
      BY <3>1, <3>2, <3>3 DEF ScopedInv
  <2> QED
    BY <2>1, <2>2
<1>6. CASE ReadAskUser
  BY <1>6, AskUserReads DEF ScopedInv
<1>7. CASE ReadAllowlist
  <2>1. CASE \E why : Stop(why)
    BY <1>m, <2>1
  <2>2. CASE ~ \E why : Stop(why)
    <3>1. /\ tools' = Scoped(tools, AllowedSlugs(files, org))
          /\ UNCHANGED <<request, seen>>
      BY <1>7, <2>2 DEF ReadAllowlist
    <3>2. ASSUME NEW t \in Specialists, <<"pux", t>> \in tools'
          PROVE  t \in AllowedSlugs(files, org)
      BY <3>1, <3>2 DEF Scoped, Sandbox
    <3>3. \A t \in Specialists : <<"pux", t>> \in tools' => OptedIn(t)'
      BY <3>1, <3>2, AllowedIsNamed DEF OptedIn, org
    <3>4. AskUser \in tools' => AskUser \in tools
      BY <3>1 DEF Scoped
    <3> QED
      BY <3>1, <3>3, <3>4 DEF ScopedInv
  <2> QED
    BY <2>1, <2>2
<1>8. CASE ReadPrompt
  BY <1>8, <1>m DEF ReadPrompt
<1>9. CASE ReadRoster
  BY <1>9, <1>m DEF ReadRoster
<1>10. ASSUME NEW slug \in waiting, BuildAgent(slug)
       PROVE  ScopedInv'
  BY <1>10, <1>m, AgentBuilds
<1>11. CASE BuildGeneral
  BY <1>11, <1>m, GeneralBuilds
<1>12. CASE Edit
  BY <1>12, <1>m DEF Edit
<1>13. CASE UNCHANGED vars
  BY <1>13, <1>m DEF vars
<1> QED
  BY <1>1, <1>2, <1>3, <1>4, <1>5, <1>6, <1>7, <1>8, <1>9, <1>10, <1>11, <1>12, <1>13 DEF StackNext

\* stack.py:1121-1148, policy.py:809-824: no specialist is in the supervisor's hands
\* that no policy of the org names, and nobody is asked where nobody is there.
THEOREM SpecialistsOptedIn == StackSpec => []SupervisorOnlyOptedIn
<1>1. StackInit => KnownInv /\ ScopedInv
  BY KnownStarts DEF StackInit, ScopedInv
<1>2. (KnownInv /\ ScopedInv) /\ [StackNext]_vars => (KnownInv /\ ScopedInv)'
  BY KnownKeeps, ScopedKeeps
<1>3. ScopedInv => SupervisorOnlyOptedIn
  BY DEF ScopedInv, OptedIn, SupervisorOnlyOptedIn
<1> QED
  BY <1>1, <1>2, <1>3, PTL DEF StackSpec

\* What is put aside can be fetched.
Fetches(r) ==
    "context" \in r.middleware /\ r.own # {} /\ "context" \in mounted =>
        Retrieval \subseteq r.tools \cup Excluded(profile)

\* An agent that lists nothing has no tools of its own.
LEMMA WideHasNone ==
  ASSUME NEW spec, Wide(spec)
  PROVE  OwnTools(spec) = {}
<1>1. Get(spec, "tools", {}) = {} /\ DOMAIN Get(spec, "mcp", <<>>) = {}
  BY DEF Wide
<1>2. Listed(spec) = {}
  BY <1>1 DEF Listed, Sandbox
<1>3. Routed(spec) = {}
  BY <1>1 DEF Routed
<1> QED
  BY <1>2, <1>3 DEF OwnTools

LEMMA BuiltFetches ==
  ASSUME NEW slug, NEW spec
  PROVE  Fetches(Built(slug, spec))
<1> DEFINE r == Built(slug, spec)
<1>1. /\ r.tools = IF Wide(spec) THEN tools ELSE WithRetrieval(OwnTools(spec))
      /\ r.own = OwnTools(spec)
  BY DEF Built
<1> HIDE DEF r
<1>2. ASSUME r.own # {}, "context" \in mounted
      PROVE  Retrieval \subseteq r.tools
  BY <1>1, <1>2, WideHasNone DEF WithRetrieval, ContextTools
<1>3. Fetches(r)
  BY <1>2 DEF Fetches
<1> QED
  BY <1>3 DEF r

LEMMA HelperFetches ==
  ASSUME NEW off
  PROVE  Fetches(Helper(off))
<1> DEFINE r == Helper(off)
<1>1. r.tools = r.own /\ (r.own = {} \/ r.own = (SpecialistTools \cup ContextTools) \ Excluded(profile))
  BY DEF Helper
<1> HIDE DEF r
<1>2. Fetches(r)
  BY <1>1 DEF Fetches, ContextTools
<1> QED
  BY <1>2 DEF r

\* stack.py:390-392, orgs.py:844-848: an agent that puts large results aside can
\* fetch them back, if it has a tool left and the supervisor has the context layer.
THEOREM OffloadedIsFetched == StackSpec => []OffloadedCanBeFetched
<1> DEFINE I == \A a \in DOMAIN agents : Fetches(agents[a])
<1>1. StackInit => KnownInv /\ I
  BY KnownStarts, NobodyYet
<1>2. (KnownInv /\ I) /\ [StackNext]_vars => (KnownInv /\ I)'
  <2> SUFFICES ASSUME KnownInv, I, [StackNext]_vars
               PROVE  KnownInv' /\ I'
    OBVIOUS
  <2>1. ASSUME NEW a \in DOMAIN agents'
        PROVE  Fetches(agents'[a]) /\ UNCHANGED <<profile, mounted>>
    <3>1. AgentComes(a)
      BY <2>1, AgentsCome
    <3> QED
      BY <3>1, BuiltFetches, HelperFetches DEF AgentComes
  <2>2. ASSUME NEW a \in DOMAIN agents'
        PROVE  Fetches(agents[a])'
    BY <2>1, <2>2 DEF Fetches, Excluded
  <2> QED
    BY <2>2, KnownKeeps
<1>3. I => OffloadedCanBeFetched
  BY DEF Fetches, OffloadedCanBeFetched
<1> QED
  BY <1>1, <1>2, <1>3, PTL DEF StackSpec

\* An agent with the supervisor's tools is one whose files came out empty.
ComesOutEmpty(a, r) ==
    r.wide => /\ a # None /\ r.from \in Versions
              /\ Wide(Spec(World[r.from], org, a))

\* A file that takes nothing away leaves what another one lists.
LEMMA WideIsUnlisted ==
  ASSUME NEW v \in Versions, NEW o, NEW slug, slug # None, Wide(Spec(World[v], o, slug)),
         NEW hop, hop = Hops(World[v], o, slug),
         NEW root, root = Max(Named(hop))
  PROVE  \/ \A k \in Named(hop) : ~ ListsAt(File(World[v], o, hop, k), k, root)
         \/ \E k \in Named(hop) \ {root} : TakesAway(File(World[v], o, hop, k))
  BY ListedStays

\* orgs.py:507, loaders.py:393-411: whatever the files say and whenever they were
\* edited, only an agent whose files list nothing that counts, or take it away
\* again, has all the tools of the supervisor.
THEOREM WideIsForTheUnlisted == StackSpec => []WideOnlyWhenUnlisted
<1> DEFINE I == \A a \in DOMAIN agents : ComesOutEmpty(a, agents[a])
<1>1. StackInit => KnownInv /\ I
  BY KnownStarts, NobodyYet
<1>2. (KnownInv /\ I) /\ [StackNext]_vars => (KnownInv /\ I)'
  <2> SUFFICES ASSUME KnownInv, I, [StackNext]_vars
               PROVE  KnownInv' /\ I'
    OBVIOUS
  <2>1. ASSUME NEW a \in DOMAIN agents'
        PROVE  ComesOutEmpty(a, agents'[a]) /\ UNCHANGED org
    <3>1. AgentComes(a)
      BY <2>1, AgentsCome
    <3>2. ASSUME a \in waiting
          PROVE  ComesOutEmpty(a, Built(a, Spec(files, org, a)))
      <4>1. /\ Built(a, Spec(files, org, a)).from = version
            /\ Built(a, Spec(files, org, a)).wide = Wide(Spec(files, org, a))
        BY Zenon DEF Built
      <4>2. a # None /\ version \in Versions
        BY <3>2 DEF KnownInv
      <4> QED
        BY <4>1, <4>2, Zenon DEF ComesOutEmpty, files
    <3>3. ASSUME NEW off
          PROVE  ComesOutEmpty(a, Helper(off))
      BY DEF Helper, ComesOutEmpty
    <3> QED
      BY <3>1, <3>2, <3>3 DEF AgentComes, org
  <2>2. ASSUME NEW a \in DOMAIN agents'
        PROVE  ComesOutEmpty(a, agents[a])'
    BY <2>1, <2>2 DEF ComesOutEmpty
  <2> QED
    BY <2>2, KnownKeeps
<1>3. I => WideOnlyWhenUnlisted
  <2> SUFFICES ASSUME NEW a \in DOMAIN agents, agents[a].wide, I
               PROVE  LET w == World[agents[a].from]
                          hop == Hops(w, org, a)
                          root == Max(Named(hop))
                          file(k) == Desugar(AgentFile(w, org, hop[k]))
                          lists(k, key) == Get(file(k), key, {}) # {}
                          deltas == Named(hop) \ {root}
                      IN  \/ /\ \A k \in Named(hop) : ~lists(k, "tools")
                             /\ \A k \in deltas : ~lists(k, "tools_add")
                             /\ DOMAIN Get(file(root), "mcp", <<>>) = {}
                          \/ \E k \in deltas : \/ lists(k, "tools_remove")
                                               \/ "tools" \in DOMAIN file(k) /\ ~lists(k, "tools")
    BY Zenon DEF WideOnlyWhenUnlisted
  <2>1. a # None /\ agents[a].from \in Versions /\ Wide(Spec(World[agents[a].from], org, a))
    BY DEF ComesOutEmpty
  <2>2. PICK v \in Versions : v = agents[a].from
    BY <2>1
  <2>3. PICK hop : hop = Hops(World[v], org, a)
    OBVIOUS
  <2>4. PICK root : root = Max(Named(hop))
    OBVIOUS
  <2>5. \/ \A k \in Named(hop) : ~ ListsAt(File(World[v], org, hop, k), k, root)
        \/ \E k \in Named(hop) \ {root} : TakesAway(File(World[v], org, hop, k))
    BY <2>1, <2>2, <2>3, <2>4, WideIsUnlisted
  <2>6. root \in Named(hop)
    BY <2>1, <2>2, <2>3, <2>4, AgentsAreFinite, NamedAreFirst
  <2> QED
    BY <2>2, <2>3, <2>4, <2>5, <2>6 DEF ListsAt, TakesAway, File
<1> QED
  BY <1>1, <1>2, <1>3, PTL DEF StackSpec

-----------------------------------------------------------------------------
(***************************************************************************)
(* A build that nobody interrupts is made of one version of the files.     *)
(***************************************************************************)

\* An agent is what its files say.
AsFiled(a, r) ==
    LET spec == Spec(files, org, a)
    IN  /\ ~ SpecFails(files, org, a) /\ ~ SkillsFail(files, spec)
        /\ Listed(spec) \subseteq surface
        /\ r.wide = Wide(spec) /\ r.own = OwnTools(spec) /\ r.spec = spec

\* What has been read is what the files say.
ProfileAsRead ==
    step \notin {"profile", "failed"} =>
        profile = Profile(files, org) /\ ~ LoaderFails(files, org, "profile")
SubAsRead ==
    step \notin {"profile", "gate", "retries", "overrides", "failed"} => sub = ForAgents(Profile(files, org))
SurfaceAsRead ==
    step \notin BeforeTools \cup {"failed"} => surface = Surface(files, org)
RosterAsRead ==
    /\ step \in {"roster", "agents", "done"} => ~ PromptFails(files, org)
    /\ step \in {"agents", "done"} =>
          /\ ~ RosterFails(files, org)
          /\ waiting \subseteq Roster(files, org) /\ Roster(files, org) \subseteq waiting \cup DOMAIN agents
          /\ \A a \in Roster(files, org) \cap DOMAIN agents : AsFiled(a, agents[a])
    /\ step = "done" => waiting = {}
AsRead == ProfileAsRead /\ SubAsRead /\ SurfaceAsRead /\ RosterAsRead
UneditedInv == ~ edited => AsRead

LEMMA UneditedKeeps ==
  ASSUME KnownInv, UneditedInv, [StackNext]_vars
  PROVE  UneditedInv'
<1> SUFFICES ASSUME ~ edited'
             PROVE  AsRead'
  BY DEF UneditedInv
<1>f. ASSUME step' = "failed"
      PROVE  AsRead'
  BY <1>f DEF AsRead, ProfileAsRead, SubAsRead, SurfaceAsRead, RosterAsRead
<1>s. ASSUME NEW why, Stop(why)
      PROVE  AsRead'
  BY <1>f, <1>s DEF Stop
<1>1. CASE ReadProfile
  <2>1. CASE Stop("profile")
    BY <1>s, <2>1
  <2>2. CASE ~ Stop("profile")
    <3>1. /\ ~ LoaderFails(files, org, "profile") /\ profile' = Profile(files, org)
          /\ step' = "gate" /\ UNCHANGED <<version, request>>
      BY <1>1, <2>2 DEF ReadProfile, Proceed
    <3> QED
      BY <3>1 DEF AsRead, ProfileAsRead, SubAsRead, SurfaceAsRead, RosterAsRead, BeforeTools, files, org
  <2> QED
    BY <2>1, <2>2
<1> DEFINE Same == ~ edited /\ UNCHANGED <<version, request>>
<1>2. CASE ReadGate
  <2>1. CASE Stop("rubric")
    BY <1>s, <2>1
  <2>2. CASE ~ Stop("rubric")
    <3>1. Same /\ step = "gate" /\ step' = "retries" /\ UNCHANGED profile
      BY <1>2, <2>2, GateReads DEF Proceed
    <3> QED
      BY <3>1 DEF UneditedInv, AsRead, ProfileAsRead, SubAsRead, SurfaceAsRead, RosterAsRead, BeforeTools, files, org
  <2> QED
    BY <2>1, <2>2
<1>3. CASE ReadRetries
  <2>1. CASE Stop("retries")
    BY <1>s, <2>1
  <2>2. CASE ~ Stop("retries")
    <3>1. Same /\ step = "retries" /\ step' = "overrides" /\ UNCHANGED profile
      BY <1>3, <2>2 DEF ReadRetries, Proceed
    <3> QED
      BY <3>1 DEF UneditedInv, AsRead, ProfileAsRead, SubAsRead, SurfaceAsRead, RosterAsRead, BeforeTools, files, org
  <2> QED
    BY <2>1, <2>2
<1>4. CASE ReadOverrides
  <2>1. CASE Stop("middleware")
    BY <1>s, <2>1
  <2>2. CASE ~ Stop("middleware")
    <3>1. /\ Same /\ step = "overrides" /\ step' = "surface" /\ UNCHANGED profile
          /\ sub' = ForAgents(Profile(files, org))
      BY <1>4, <2>2 DEF ReadOverrides, Proceed
    <3> QED
      BY <3>1 DEF UneditedInv, AsRead, ProfileAsRead, SubAsRead, SurfaceAsRead, RosterAsRead, BeforeTools, files, org
  <2> QED
    BY <2>1, <2>2
<1>5. CASE ReadSurface
  <2>1. CASE Stop("policy")
    BY <1>s, <2>1
  <2>2. CASE ~ Stop("policy")
    <3>1. /\ Same /\ step = "surface" /\ step' = "askUser" /\ UNCHANGED <<profile, sub>>
          /\ surface' = Surface(files, org)
      BY <1>5, <2>2 DEF ReadSurface, Proceed
    <3> QED
      BY <3>1 DEF UneditedInv, AsRead, ProfileAsRead, SubAsRead, SurfaceAsRead, RosterAsRead, BeforeTools, files, org
  <2> QED
    BY <2>1, <2>2
<1>6. CASE ReadAskUser
  <2>1. CASE Stop("askUser")
    BY <1>s, <2>1
  <2>2. CASE ~ Stop("askUser")
    <3>1. Same /\ step = "askUser" /\ step' = "allowlist" /\ UNCHANGED <<profile, sub, surface>>
      BY <1>6, <2>2, AskUserReads DEF Proceed
    <3> QED
      BY <3>1 DEF UneditedInv, AsRead, ProfileAsRead, SubAsRead, SurfaceAsRead, RosterAsRead, BeforeTools, files, org
  <2> QED
    BY <2>1, <2>2
<1>7. CASE ReadAllowlist
  <2>1. CASE \E why : Stop(why)
    BY <1>s, <2>1
  <2>2. CASE ~ \E why : Stop(why)
    <3>1. Same /\ step = "allowlist" /\ step' = "prompt" /\ UNCHANGED <<profile, sub, surface>>
      BY <1>7, <2>2 DEF ReadAllowlist, Proceed
    <3> QED
      BY <3>1 DEF UneditedInv, AsRead, ProfileAsRead, SubAsRead, SurfaceAsRead, RosterAsRead, BeforeTools, files, org
  <2> QED
    BY <2>1, <2>2
<1>8. CASE ReadPrompt
  <2>1. CASE \E why : Stop(why)
    BY <1>s, <2>1
  <2>2. CASE ~ \E why : Stop(why)
    <3>1. /\ Same /\ step = "prompt" /\ step' = "roster" /\ UNCHANGED <<profile, sub, surface>>
          /\ ~ PromptFails(files, org)
      BY <1>8, <2>2 DEF ReadPrompt, Proceed
    <3> QED
      BY <3>1 DEF UneditedInv, AsRead, ProfileAsRead, SubAsRead, SurfaceAsRead, RosterAsRead, BeforeTools, files, org
  <2> QED
    BY <2>1, <2>2
<1>9. CASE ReadRoster
  <2>1. CASE \E why : Stop(why)
    BY <1>s, <2>1
  <2>2. CASE ~ \E why : Stop(why)
    <3>1. /\ Same /\ step = "roster" /\ step' = "agents" /\ UNCHANGED <<profile, sub, surface, agents>>
          /\ ~ RosterFails(files, org) /\ waiting' = Roster(files, org)
      BY <1>9, <2>2 DEF ReadRoster, Proceed
    <3>2. agents = <<>> /\ DOMAIN <<>> = {}
      BY <3>1 DEF KnownInv, BeforeAgents
    <3>3. DOMAIN agents' = {}
      BY <3>1, <3>2
    <3> QED
      BY <3>1, <3>3 DEF UneditedInv, AsRead, ProfileAsRead, SubAsRead, SurfaceAsRead, RosterAsRead, BeforeTools, files, org
  <2> QED
    BY <2>1, <2>2
<1>10. ASSUME NEW slug \in waiting, BuildAgent(slug)
       PROVE  AsRead'
  <2>1. CASE \E why : Stop(why)
    BY <1>s, <2>1
  <2>2. CASE ~ \E why : Stop(why)
    <3>1. /\ Same /\ step = "agents" /\ step' = "agents"
          /\ UNCHANGED <<profile, sub, surface, request, declared>>
          /\ ~ SpecFails(files, org, slug) /\ ~ SkillsFail(files, Spec(files, org, slug))
          /\ Listed(Spec(files, org, slug)) \subseteq surface
          /\ agents' = Added(agents, slug, Built(slug, Spec(files, org, slug)))
          /\ waiting' = waiting \ {slug}
      BY <1>10, <2>2, AgentBuilds DEF Proceed
    <3>2. AsRead
      BY <3>1 DEF UneditedInv
    <3>3. AsFiled(slug, Built(slug, Spec(files, org, slug)))
      <4>1. /\ Built(slug, Spec(files, org, slug)).wide = Wide(Spec(files, org, slug))
            /\ Built(slug, Spec(files, org, slug)).own = OwnTools(Spec(files, org, slug))
            /\ Built(slug, Spec(files, org, slug)).spec = Spec(files, org, slug)
        BY Zenon DEF Built
      <4> QED
        BY <3>1, <4>1, Zenon DEF AsFiled
    <3>4. ASSUME NEW a \in Roster(files, org), a \in DOMAIN agents'
          PROVE  AsFiled(a, agents'[a])
      BY <3>1, <3>2, <3>3, <3>4, OneMore DEF AsRead, RosterAsRead
    <3>5. ASSUME NEW a \in Roster(files, org), a \in DOMAIN agents'
          PROVE  AsFiled(a, agents[a])'
      BY <3>1, <3>4, <3>5 DEF AsFiled, files, org, OwnTools, Routed, Excluded
    <3>6. DOMAIN agents' = DOMAIN agents \cup {slug}
      BY <3>1, OneLonger
    <3>7. RosterAsRead'
      BY <3>1, <3>2, <3>5, <3>6 DEF AsRead, RosterAsRead, files, org
    <3> QED
      BY <3>1, <3>2, <3>7 DEF AsRead, ProfileAsRead, SubAsRead, SurfaceAsRead, BeforeTools, files, org
  <2> QED
    BY <2>1, <2>2
<1>11. CASE BuildGeneral
  <2>1. CASE \E why : Stop(why)
    BY <1>s, <2>1
  <2>2. CASE ~ \E why : Stop(why)
    <3>1. /\ Same /\ step = "agents" /\ step' = "done" /\ waiting = {}
          /\ UNCHANGED <<profile, sub, surface, request, declared, waiting>>
          /\ agents' = agents \/ \E off : agents' = Added(agents, General, Helper(off))
      BY <1>11, <2>2, GeneralBuilds DEF Proceed
    <3>2. AsRead
      BY <3>1 DEF UneditedInv
    <3>3. \A a \in DOMAIN agents : a \in DOMAIN agents' /\ agents'[a] = agents[a]
      <4>1. ASSUME NEW off, agents' = Added(agents, General, Helper(off)), NEW a \in DOMAIN agents
            PROVE  a \in DOMAIN agents' /\ agents'[a] = agents[a]
        BY <4>1, OneKept
      <4> QED
        BY <3>1, <4>1
    <3>4. ASSUME NEW a \in Roster(files, org)
          PROVE  a \in DOMAIN agents' /\ AsFiled(a, agents'[a])
      BY <3>1, <3>2, <3>3 DEF AsRead, RosterAsRead
    <3>5. ASSUME NEW a \in Roster(files, org)
          PROVE  a \in DOMAIN agents' /\ AsFiled(a, agents[a])'
      BY <3>1, <3>4 DEF AsFiled, files, org, OwnTools, Routed, Excluded
    <3>7. RosterAsRead'
      BY <3>1, <3>2, <3>5 DEF AsRead, RosterAsRead, files, org
    <3> QED
      BY <3>1, <3>2, <3>7 DEF AsRead, ProfileAsRead, SubAsRead, SurfaceAsRead, BeforeTools, files, org
  <2> QED
    BY <2>1, <2>2
<1>12. CASE Edit
  BY <1>12 DEF Edit
<1>13. CASE UNCHANGED vars
  <2> HIDE DEF Same
  <2>1. UneditedInv'
    BY <1>13 DEF vars, UneditedInv, AsRead, ProfileAsRead, SubAsRead, SurfaceAsRead, RosterAsRead, AsFiled,
                 BeforeTools, files, org, OwnTools, Routed, Excluded
  <2> QED
    BY <2>1 DEF UneditedInv
<1> QED
  BY <1>1, <1>2, <1>3, <1>4, <1>5, <1>6, <1>7, <1>8, <1>9, <1>10, <1>11, <1>12, <1>13 DEF StackNext

LEMMA UneditedStarts ==
  ASSUME StackInit
  PROVE  UneditedInv
  BY DEF StackInit, UneditedInv, AsRead, ProfileAsRead, SubAsRead, SurfaceAsRead, RosterAsRead, BeforeTools

\* What the harness resolves, the kit finds on offer.
LEMMA KitOffersTheSame ==
  ASSUME KnownInv, NEW spec, Listed(spec) \subseteq Surface(files, org)
  PROVE  {<<"pux", t>> : t \in KitListed(spec, Specialists \cup Declared(files, org))} = Listed(spec)
<1> DEFINE offered == Specialists \cup Declared(files, org)
           T == Get(spec, "tools", {})
<1>1. Natives \cap offered = {}
  <2>1. Natives \cap Declared(files, org) = {}
    <3>1. CASE HasDir(files, org)
      <4>1. DirOf(files, org) \in DOMAIN World[version].dirs /\ version \in Versions
        BY <3>1 DEF HasDir, files, KnownInv
      <4> QED
        BY <4>1, NativesAreApart DEF Declared, Dir, files
    <3> QED
      BY <3>1 DEF Declared
  <2> QED
    BY <2>1, NativesAreApart
<1>2. ASSUME NEW t \in T \ Natives
      PROVE  t \in offered
  <2>1. <<"pux", t>> \in Surface(files, org)
    BY DEF Listed, Sandbox
  <2>2. <<"pux", t>> \notin {<<"dyn", d>> : d \in Dynamic}
    OBVIOUS
  <2>3. <<"pux", t>> \in Sandbox(Specialists) \/ <<"pux", t>> \in Sandbox(Declared(files, org))
    BY <2>1, <2>2 DEF Surface, SpecialistTools
  <2> QED
    BY <2>3 DEF Sandbox
<1>3. T \cap offered = T \ Natives
  BY <1>1, <1>2
<1> QED
  BY <1>3 DEF KitListed, Listed, Sandbox

\* kit/compile.py, orgs.py:466-519: whatever the files are, what the harness has
\* built without an edit in between, the kit builds too, with the same agents and
\* the same tools before exclusions.
THEOREM KitBuildsTheSame == StackSpec => []KitAgrees
<1>1. StackInit => KnownInv /\ UneditedInv
  BY KnownStarts, UneditedStarts
<1>2. (KnownInv /\ UneditedInv) /\ [StackNext]_vars => (KnownInv /\ UneditedInv)'
  BY KnownKeeps, UneditedKeeps
<1>3. KnownInv /\ UneditedInv => KitAgrees
  <2> SUFFICES ASSUME KnownInv, UneditedInv, step = "done", ~ edited
               PROVE  /\ ~ KitFails(files, org)
                      /\ \A a \in Roster(files, org) :
                            LET kit == KitAgent(Spec(files, org, a), Specialists \cup Declared(files, org), request.armed)
                            IN  /\ kit.wide = agents[a].wide
                                /\ (kit.tools \ Excluded(profile)) \ Excluded(agents[a].spec) = agents[a].own
    BY Zenon DEF KitAgrees
  <2>1. /\ ~ PromptFails(files, org) /\ ~ RosterFails(files, org)
        /\ \A a \in Roster(files, org) : AsFiled(a, agents[a])
        /\ surface = Surface(files, org)
    BY DEF UneditedInv, AsRead, RosterAsRead, SurfaceAsRead, BeforeTools
  <2>2. ~ KitFails(files, org)
    BY <2>1 DEF KitFails, AsFiled
  <2>3. ASSUME NEW a \in Roster(files, org)
        PROVE  LET kit == KitAgent(Spec(files, org, a), Specialists \cup Declared(files, org), request.armed)
               IN  /\ kit.wide = agents[a].wide
                   /\ (kit.tools \ Excluded(profile)) \ Excluded(agents[a].spec) = agents[a].own
    <3> DEFINE spec == Spec(files, org, a)
               kit == KitAgent(spec, Specialists \cup Declared(files, org), request.armed)
    <3>1. /\ Listed(spec) \subseteq Surface(files, org)
          /\ agents[a].wide = Wide(spec) /\ agents[a].own = OwnTools(spec) /\ agents[a].spec = spec
      BY <2>1, Zenon DEF AsFiled
    <3>2. kit.wide = Wide(spec)
      BY Zenon DEF KitAgent, Wide
    <3>3. kit.tools = {<<"pux", t>> : t \in KitListed(spec, Specialists \cup Declared(files, org))}
                        \cup KitRouted(spec, request.armed)
      BY Zenon DEF KitAgent
    <3>4. KitRouted(spec, request.armed) = Routed(spec)
      BY Zenon DEF KitRouted, Routed
    <3>5. kit.tools = Listed(spec) \cup Routed(spec)
      <4> HIDE DEF kit, spec
      <4> QED
        BY <3>1, <3>3, <3>4, KitOffersTheSame
    <3>6. kit.wide = agents[a].wide
      BY <3>1, <3>2, Zenon
    <3> HIDE DEF kit, spec
    <3>7. (kit.tools \ Excluded(profile)) \ Excluded(agents[a].spec) = agents[a].own
      BY <3>1, <3>5 DEF OwnTools
    <3> QED
      BY <3>6, <3>7, Zenon DEF kit, spec
  <2> QED
    BY <2>2, <2>3, Zenon
<1> QED
  BY <1>1, <1>2, <1>3, PTL DEF StackSpec

-----------------------------------------------------------------------------
(***************************************************************************)
(* Profiles.                                                               *)
(***************************************************************************)

\* A function over 1..n is a sequence of that length.
LEMMA Counted ==
  ASSUME NEW n \in Nat, NEW f, f = [k \in 1..n |-> f[k]]
  PROVE  /\ f \in Seq({f[k] : k \in 1..n})
         /\ Len(f) = n /\ DOMAIN f = 1..n
<1> DEFINE S == {f[k] : k \in 1..n}
<1>1. f \in [1..n -> S]
  OBVIOUS
<1> HIDE DEF S
<1>2. f \in Seq(S)
  BY <1>1, SeqDef
<1>3. Len(f) = n /\ DOMAIN f = 1..n
  BY <1>1, <1>2, LenProperties
<1> QED
  BY <1>2, <1>3 DEF S

\* The length of a chain, and the order of an ancestry.
LEMMA ChainCounts ==
  ASSUME NEW v \in Versions, NEW o
  PROVE  \E n \in Nat :
            /\ DOMAIN Chain(World[v], o) = 1..n /\ Len(Chain(World[v], o)) = n
            /\ DOMAIN Ancestry(World[v], o) = 1..n /\ Len(Ancestry(World[v], o)) = n
            /\ \A i \in 1..n : Chain(World[v], o)[i] = Ancestry(World[v], o)[n - i + 1]
<1> DEFINE c == Chain(World[v], o)
<1>1. \E n \in Nat : c = [k \in 1..n |-> c[k]]
  <2>1. CASE Broken(World[v], o)
    <3>1. c = <<o>>
      BY <2>1 DEF Chain
    <3>2. <<o>> = [k \in 1..1 |-> <<o>>[k]]
      OBVIOUS
    <3> QED
      BY <3>1, <3>2
  <2>2. CASE ~ Broken(World[v], o)
    <3>1. PICK n \in Nat : c = [k \in 1..n |-> Up(World[v], o)[k - 1]]
      BY <2>2, ChainWalks
    <3> QED
      BY <3>1
  <2> QED
    BY <2>1, <2>2
<1>2. PICK n \in Nat : c = [k \in 1..n |-> c[k]]
  BY <1>1
<1> HIDE DEF c
<1>3. Len(c) = n /\ DOMAIN c = 1..n
  BY <1>2, Counted
<1> DEFINE b == Reverse(c)
<1>4. b = [i \in 1..n |-> c[(n - i) + 1]]
  BY <1>3 DEF Reverse
<1>5. b = [i \in 1..n |-> b[i]]
  BY <1>4
<1>6. \A i \in 1..n : c[i] = b[n - i + 1]
  <2> SUFFICES ASSUME NEW i \in 1..n PROVE c[i] = b[n - i + 1]
    OBVIOUS
  <2>1. n - i + 1 \in 1..n /\ (n - (n - i + 1)) + 1 = i
    OBVIOUS
  <2> QED
    BY <1>4, <2>1
<1> HIDE DEF b
<1>7. Len(b) = n /\ DOMAIN b = 1..n
  BY <1>5, Counted
<1> QED
  BY <1>3, <1>6, <1>7 DEF Ancestry, b, c

\* _resolved_profile_yaml lays one profile after the other over the root's.
LaysProfiles(w, o, n, laid) ==
    /\ Profile(w, o) = laid[n] /\ laid[0] = <<>>
    /\ \A k \in 1..n : laid[k] = DeepMerge(laid[k - 1], OwnProfile(w, Ancestry(w, o)[k]))

LEMMA ProfileWalks ==
  ASSUME NEW w, NEW o, NEW m \in Nat, Len(Ancestry(w, o)) = m
  PROVE  \E laid : LaysProfiles(w, o, m, laid)
<1> DEFINE line == Ancestry(w, o)
           Walks(n, f) == f = [k \in 0..n |-> IF k = 0 THEN <<>> ELSE DeepMerge(f[k - 1], OwnProfile(w, line[k]))]
           S == {n \in Nat : \E f : Walks(n, f)}
<1> HIDE DEF line
<1>1. 0 \in S
  <2> DEFINE f == [k \in 0..0 |-> <<>>]
  <2>1. Walks(0, f)
    OBVIOUS
  <2> QED
    BY <2>1
<1>2. ASSUME NEW n \in Nat, n \in S
      PROVE  n + 1 \in S
  <2>1. PICK f : Walks(n, f)
    BY <1>2
  <2> DEFINE g == [k \in 0..(n + 1) |-> IF k = n + 1 THEN DeepMerge(f[n], OwnProfile(w, line[k])) ELSE f[k]]
  <2>2. ASSUME NEW k \in 0..(n + 1)
        PROVE  g[k] = IF k = 0 THEN <<>> ELSE DeepMerge(g[k - 1], OwnProfile(w, line[k]))
    <3>1. CASE k = n + 1
      BY <3>1
    <3>2. CASE k # n + 1
      <4>1. k \in 0..n /\ (k # 0 => k - 1 \in 0..n)
        BY <3>2
      <4>2. g[k] = f[k] /\ (k # 0 => g[k - 1] = f[k - 1])
        BY <4>1
      <4>3. f[k] = IF k = 0 THEN <<>> ELSE DeepMerge(f[k - 1], OwnProfile(w, line[k]))
        BY <2>1, <4>1
      <4> QED
        BY <4>1, <4>2, <4>3
    <3> QED
      BY <3>1, <3>2
  <2>3. g = [k \in 0..(n + 1) |-> g[k]]
    OBVIOUS
  <2> HIDE DEF g
  <2>4. Walks(n + 1, g)
    BY <2>2, <2>3
  <2> QED
    BY <2>4
<1> HIDE DEF S
<1>3. m \in S
  BY <1>1, <1>2, InductionBySet
<1>4. \E f : Walks(m, f)
  BY <1>3 DEF S
<1>5. \E f : Walks(m, f) /\ Profile(w, o) = f[m]
  BY <1>4, Zenon DEF Profile, line
<1>6. PICK f : Walks(m, f) /\ Profile(w, o) = f[m]
  BY <1>5
<1>7. f[0] = <<>> /\ \A k \in 1..m : f[k] = DeepMerge(f[k - 1], OwnProfile(w, line[k]))
  BY <1>6
<1>8. LaysProfiles(w, o, m, f)
  BY <1>6, <1>7 DEF LaysProfiles, line
<1> QED
  BY <1>8

\* _deep_merge_profile joins the lists.
LEMMA ListsJoin ==
  ASSUME NEW base, NEW delta, NEW k \in Lists
  PROVE  /\ Get(DeepMerge(base, delta), k, {}) = Get(base, k, {}) \cup Get(delta, k, {})
         /\ DOMAIN DeepMerge(base, delta) = DOMAIN base \cup DOMAIN delta
  BY DEF DeepMerge, Get

LEMMA ExclusionsJoin ==
  ASSUME NEW base, NEW delta
  PROVE  Excluded(DeepMerge(base, delta)) = Excluded(base) \cup Excluded(delta)
<1>1. "excludedTools" \in Lists
  BY DEF Lists
<1> QED
  BY <1>1 DEF Excluded, DeepMerge, Get

\* What the profile of a link of the chain excludes is excluded by the whole.
LEMMA ExclusionsAddUp ==
  ASSUME NEW v \in Versions, NEW o, NEW a \in ToSet(Chain(World[v], o))
  PROVE  Excluded(OwnProfile(World[v], a)) \subseteq Excluded(Profile(World[v], o))
<1> DEFINE w == World[v]
           line == Ancestry(w, o)
<1>1. PICK n \in Nat :
         /\ DOMAIN Chain(w, o) = 1..n /\ Len(line) = n
         /\ \A i \in 1..n : Chain(w, o)[i] = line[n - i + 1]
  BY ChainCounts
<1>2. PICK i \in 1..n : a = Chain(w, o)[i]
  BY <1>1 DEF ToSet
<1>3. PICK laid : LaysProfiles(w, o, n, laid)
  BY <1>1, ProfileWalks
<1>4. /\ Profile(w, o) = laid[n]
      /\ \A k \in 1..n : laid[k] = DeepMerge(laid[k - 1], OwnProfile(w, line[k]))
  BY <1>3 DEF LaysProfiles
<1>j. PICK j \in 1..n : a = line[j]
  <2>1. n - i + 1 \in 1..n
    OBVIOUS
  <2> QED
    BY <1>1, <1>2, <2>1
<1> HIDE DEF line, w
<1> DEFINE own == Excluded(OwnProfile(w, a))
           S == {d \in Nat : j + d \in 1..n => own \subseteq Excluded(laid[j + d])}
<1>5. \A k \in 1..n : Excluded(laid[k]) = Excluded(laid[k - 1]) \cup Excluded(OwnProfile(w, line[k]))
  BY <1>4, ExclusionsJoin
<1>6. 0 \in S
  BY <1>5, <1>j
<1>7. ASSUME NEW d \in Nat, d \in S
      PROVE  d + 1 \in S
  <2> SUFFICES ASSUME j + (d + 1) \in 1..n
               PROVE  own \subseteq Excluded(laid[j + (d + 1)])
    OBVIOUS
  <2>1. j + d \in 1..n /\ (j + (d + 1)) - 1 = j + d
    OBVIOUS
  <2>2. own \subseteq Excluded(laid[j + d])
    BY <1>7, <2>1
  <2> QED
    BY <1>5, <2>1, <2>2
<1> HIDE DEF S
<1>8. n - j \in Nat /\ n - j \in S /\ j + (n - j) = n /\ n \in 1..n
  BY <1>6, <1>7, InductionBySet
<1>9. own \subseteq Excluded(laid[n])
  BY <1>8 DEF S
<1> QED
  BY <1>4, <1>9 DEF w

\* _profile_path finds the profile of an org that lives in the project.
LEMMA OwnProfileIsFound ==
  ASSUME NEW w, NEW a, DirOf(w, a)[1] \in {"orgs", "specialists"}
  PROVE  /\ DirOf(w, a) \in DOMAIN w.dirs
         /\ OwnProfile(w, a) = DeepMerge(Dir(w, a).profile, Dir(w, a).local)
<1> DEFINE S == {i \in 1..Len(Roots) : <<Roots[i], a>> \in DOMAIN w.dirs}
<1>0. Len(Roots) = 3 /\ Roots[1] = "orgs" /\ Roots[2] = "specialists" /\ Roots[3] = "extra"
  BY DEF Roots
<1>1. a \notin DOMAIN Bare
  BY DEF DirOf
<1>2. DirOf(w, a) = RootIn(S, a)
  BY <1>1 DEF DirOf
<1>3. S # {}
  BY <1>2, NoneIsNoRoot DEF RootIn
<1>4. DirOf(w, a) = <<Roots[Min(S)], a>>
  BY <1>2, <1>3 DEF RootIn
<1>5. Min(S) \in S /\ \A i \in S : Min(S) <= i
  <2>1. S \in SUBSET Nat
    OBVIOUS
  <2> HIDE DEF S
  <2>2. \E x \in S : \A y \in S : x <= y
    BY <1>3, <2>1, LeastNatural
  <2> QED
    BY <2>2 DEF Min
<1>6. Min(S) \in {1, 2}
  BY <1>0, <1>4, <1>5
<1>7. CASE Min(S) = 1
  <2>1. DirOf(w, a) = <<"orgs", a>> /\ <<"orgs", a>> \in DOMAIN w.dirs
    BY <1>0, <1>4, <1>5, <1>7
  <2> QED
    BY <2>1 DEF OwnProfile, Dir
<1>8. CASE Min(S) = 2
  <2>1. DirOf(w, a) = <<"specialists", a>> /\ <<"specialists", a>> \in DOMAIN w.dirs
    BY <1>0, <1>4, <1>5, <1>8
  <2>2. <<"orgs", a>> \notin DOMAIN w.dirs
    BY <1>0, <1>5, <1>8
  <2> QED
    BY <2>1, <2>2 DEF OwnProfile, Dir
<1> QED
  BY <1>6, <1>7, <1>8

\* profile.py:70-81, 273-330: however long the chain is, what an ancestor of the
\* project excludes stays excluded.
THEOREM AncestorsExclude == StackSpec => []AncestorExclusionsHold
<1>1. StackInit => KnownInv /\ UneditedInv
  BY KnownStarts, UneditedStarts
<1>2. (KnownInv /\ UneditedInv) /\ [StackNext]_vars => (KnownInv /\ UneditedInv)'
  BY KnownKeeps, UneditedKeeps
<1>3. KnownInv /\ UneditedInv => AncestorExclusionsHold
  <2> SUFFICES ASSUME KnownInv, UneditedInv, step = "done", ~ edited,
                      NEW a \in ToSet(Chain(files, org)), DirOf(files, a)[1] \in {"orgs", "specialists"}
               PROVE  Excluded(Dir(files, a).profile) \subseteq Excluded(profile)
    BY DEF AncestorExclusionsHold
  <2>1. profile = Profile(files, org) /\ version \in Versions
    BY DEF KnownInv, UneditedInv, AsRead, ProfileAsRead
  <2>2. Excluded(OwnProfile(files, a)) \subseteq Excluded(profile)
    BY <2>1, ExclusionsAddUp DEF files
  <2>3. Excluded(Dir(files, a).profile) \subseteq Excluded(OwnProfile(files, a))
    BY OwnProfileIsFound, ExclusionsJoin
  <2> QED
    BY <2>2, <2>3
<1> QED
  BY <1>1, <1>2, <1>3, PTL DEF StackSpec

-----------------------------------------------------------------------------
(***************************************************************************)
(* What the audit foresees.                                                *)
(***************************************************************************)

\* A web_router block that is wrong is in the profile, however it was laid together.
LEMMA RouterBlocksJoin ==
  ASSUME NEW base, NEW delta, RouterBlockIsThere(base), RouterBlockIsThere(delta)
  PROVE  RouterBlockIsThere(DeepMerge(base, delta))
<1>1. "bad" \in Lists
  BY DEF Lists
<1>2. /\ Get(DeepMerge(base, delta), "bad", {}) = Get(base, "bad", {}) \cup Get(delta, "bad", {})
      /\ DOMAIN DeepMerge(base, delta) = DOMAIN base \cup DOMAIN delta
  BY <1>1 DEF DeepMerge, Get
<1> QED
  BY <1>2 DEF RouterBlockIsThere

LEMMA RouterBlockStays ==
  ASSUME NEW v \in Versions, NEW o
  PROVE  RouterBlockIsThere(Profile(World[v], o))
<1> DEFINE w == World[v]
           line == Ancestry(w, o)
<1>1. PICK n \in Nat : Len(line) = n
  BY ChainCounts
<1>2. PICK laid : LaysProfiles(w, o, n, laid)
  BY <1>1, ProfileWalks
<1>3. /\ Profile(w, o) = laid[n] /\ laid[0] = <<>>
      /\ \A k \in 1..n : laid[k] = DeepMerge(laid[k - 1], OwnProfile(w, line[k]))
  BY <1>2 DEF LaysProfiles
<1>4. RouterBlockIsThere(<<>>)
  BY DEF RouterBlockIsThere, Get
<1>5. ASSUME NEW a
      PROVE  RouterBlockIsThere(OwnProfile(w, a))
  <2>1. ASSUME NEW key \in DOMAIN w.dirs
        PROVE  RouterBlockIsThere(DeepMerge(w.dirs[key].profile, w.dirs[key].local))
    BY WrongBlocksAreThere, RouterBlocksJoin
  <2> QED
    BY <1>4, <2>1 DEF OwnProfile
<1> HIDE DEF w, line
<1> DEFINE S == {k \in Nat : k \in 0..n => RouterBlockIsThere(laid[k])}
<1>6. 0 \in S
  BY <1>3, <1>4
<1>7. ASSUME NEW k \in Nat, k \in S
      PROVE  k + 1 \in S
  <2> SUFFICES ASSUME k + 1 \in 0..n
               PROVE  RouterBlockIsThere(laid[k + 1])
    OBVIOUS
  <2>1. k \in 0..n /\ k + 1 \in 1..n /\ (k + 1) - 1 = k
    OBVIOUS
  <2>2. laid[k + 1] = DeepMerge(laid[k], OwnProfile(w, line[k + 1]))
    BY <1>3, <2>1
  <2> QED
    BY <1>5, <1>7, <2>1, <2>2, RouterBlocksJoin
<1> HIDE DEF S
<1>8. n \in S
  BY <1>6, <1>7, InductionBySet
<1> QED
  BY <1>3, <1>8 DEF S, w

\* What no rule of the audit complains of.
LEMMA CleanIs ==
  ASSUME NEW w, NEW o, Problems(w, o) = {}
  PROVE  /\ IsBase(w, o)
         /\ OrgChainProblems(w, o) = {} /\ RosterProblems(w, o) = {}
         /\ PolicyProblems(w, o) = {} /\ ProfileProblems(w, o) = {}
         /\ \A slug \in AuditedRoster(w, o) : AgentProblems(w, o, slug) = {}
<1>1. IsBase(w, o)
  BY DEF Problems, IsBase
<1>2. OrgChainProblems(w, o) \cup RosterProblems(w, o) \cup PolicyProblems(w, o)
           \cup ServerProblems(w, o) \cup ProfileProblems(w, o)
           \cup UNION {AgentProblems(w, o, slug) : slug \in AuditedRoster(w, o)} = {}
  BY <1>1 DEF Problems, IsBase
<1> QED
  BY <1>1, <1>2

\* A rule that gives nothing is kept.
LEMMA RuleIsKept ==
  ASSUME NEW c \in BOOLEAN, NEW rule, If(c, rule) = {}
  PROVE  ~ c
  BY DEF If

\* A clean org's chain is made of base orgs.
LEMMA CleanChain ==
  ASSUME NEW v \in Versions, NEW o, IsBase(World[v], o), OrgChainProblems(World[v], o) = {}
  PROVE  ~ PromptFails(World[v], o)
<1> DEFINE w == World[v]
           up == Up(w, o)
           bad == {k \in 1..Depth(w) : up[k] # None /\ (~HasDir(w, up[k]) \/ ~Dir(w, up[k]).agentsMd)}
           far == up[Depth(w)] # None
<1>1. If(bad # {}, "org-extends-resolvable") \cup If(bad = {} /\ far, "org-extends-acyclic") = {}
  BY Zenon DEF OrgChainProblems
<1>2. bad = {} /\ ~ far
  <2> HIDE DEF bad, far
  <2>1. If(bad # {}, "org-extends-resolvable") = {} /\ If(bad = {} /\ far, "org-extends-acyclic") = {}
    BY <1>1
  <2>2. bad = {}
    BY <2>1, Zenon DEF If
  <2>3. ~ (bad = {} /\ far)
    BY <2>1, Zenon DEF If
  <2> QED
    BY <2>2, <2>3
<1>3. \A k \in 1..Depth(w) : up[k] # None => IsBase(w, up[k])
  BY <1>2 DEF IsBase
<1>4. ~ Broken(w, o)
  BY <1>2, <1>3 DEF Broken, LeadsNowhere, IsBase
<1>5. PICK n \in Nat : /\ Chain(w, o) = [k \in 1..n |-> up[k - 1]]
                       /\ n >= 1 => up[0] = o
                       /\ \A k \in 1..n : k > 1 => IsBase(w, up[k - 1])
  BY <1>4, ChainWalks
<1>6. ASSUME NEW k \in 1..n
      PROVE  IsBase(w, up[k - 1])
  <2>1. CASE k = 1
    BY <1>5, <2>1
  <2>2. CASE k # 1
    BY <1>5, <2>2
  <2> QED
    BY <2>1, <2>2
<1> QED
  BY <1>5, <1>6 DEF PromptFails, ToSet

\* An org with a directory of the project is discovered.
LEMMA CleanIsDiscovered ==
  ASSUME NEW w, NEW o, o \notin DOMAIN Bare, IsBase(w, o)
  PROVE  o \in Discovered(w)
<1> DEFINE d == DirOf(w, o)
<1>1. d \in DOMAIN w.dirs /\ w.dirs[d].agentsMd
  BY DEF IsBase, HasDir, Dir
<1>2. d[1] # "bases" /\ d[2] = o
  <2> DEFINE S == {i \in 1..Len(Roots) : <<Roots[i], o>> \in DOMAIN w.dirs}
  <2>1. d = RootIn(S, o)
    BY DEF DirOf
  <2>2. CASE S = {}
    BY <2>1, <2>2, NoneIsNoRoot DEF RootIn
  <2>3. CASE S # {}
    <3>1. S \in SUBSET Nat
      OBVIOUS
    <3> HIDE DEF S
    <3>2. \E x \in S : \A y \in S : x <= y
      BY <2>3, <3>1, LeastNatural
    <3>3. Min(S) \in S
      BY <3>2 DEF Min
    <3>4. Min(S) \in 1..3
      BY <3>3 DEF S, Roots
    <3>5. d = <<Roots[Min(S)], o>>
      BY <2>1, <2>3 DEF RootIn
    <3> QED
      BY <3>4, <3>5 DEF Roots
  <2> QED
    BY <2>2, <2>3
<1> QED
  BY <1>1, <1>2 DEF Discovered

\* The roster of a clean org fails only for the manifest of a parent.
LEMMA CleanRoster ==
  ASSUME NEW v \in Versions, NEW o, RosterProblems(World[v], o) = {}, RosterFails(World[v], o)
  PROVE  Len(Chain(World[v], o)) > 1
<1> DEFINE w == World[v]
<1>1. "malformed" \notin DOMAIN Dir(w, o).yaml
  BY DEF RosterProblems, If
<1>2. PICK a \in RosterSources(w, o) : "malformed" \in DOMAIN Dir(w, a).yaml
  BY DEF RosterFails
<1>3. a # o /\ a \in ToSet(Chain(w, o))
  BY <1>1, <1>2 DEF RosterSources
<1>4. PICK n \in Nat : DOMAIN Chain(w, o) = 1..n /\ Len(Chain(w, o)) = n
  BY ChainCounts
<1>5. PICK i \in 1..n : a = Chain(w, o)[i]
  BY <1>3, <1>4 DEF ToSet
<1>6. 1 \in 1..n => Chain(w, o)[1] = o
  <2>1. CASE Broken(w, o)
    BY <2>1 DEF Chain
  <2>2. CASE ~ Broken(w, o)
    <3>1. PICK m \in Nat : Chain(w, o) = [k \in 1..m |-> Up(w, o)[k - 1]] /\ (m >= 1 => Up(w, o)[0] = o)
      BY <2>2, ChainWalks
    <3> QED
      BY <1>4, <3>1
  <2> QED
    BY <2>1, <2>2
<1>7. i # 1
  BY <1>3, <1>5, <1>6
<1> QED
  BY <1>4, <1>5, <1>7

\* A profile of its own that is clean passes every loader.
LEMMA CleanProfile ==
  ASSUME NEW v \in Versions, NEW o,
         ProfileProblems(World[v], o) = {}, DOMAIN Dir(World[v], o).profile # {}
  PROVE  /\ \A b \in {"profile", "rubric", "middleware", "modelRetry", "toolRetry", "askUser", "webRouter"} :
                ~ LoaderFails(World[v], o, b)
         /\ "basePrompt" \notin DOMAIN Profile(World[v], o)
         /\ Get(Profile(World[v], o), "supAdd", {}) \subseteq Registered
         /\ Get(Profile(World[v], o), "subAdd", {}) \subseteq BothScopes
<1> DEFINE w == World[v]
           p == Profile(w, o)
           c1 == LoaderFails(w, o, "profile")
           c2 == \E b \in {"rubric", "middleware", "modelRetry", "toolRetry", "askUser"} : LoaderFails(w, o, b)
           c3 == ~ c1 /\ "basePrompt" \in DOMAIN p
           c4 == \/ ~(Get(p, "supAdd", {}) \cup Get(p, "supRemove", {}) \subseteq Registered)
                 \/ ~(Get(p, "subAdd", {}) \cup Get(p, "subRemove", {}) \subseteq BothScopes)
<1>1. If(c1, "profile-schema") \cup If(c2, "profile-block") \cup If(c3, "profile-base-system-prompt")
         \cup If(c4, "middleware-overrides") = {}
  BY Zenon DEF ProfileProblems
<1>2. ~ c1 /\ ~ c2 /\ ~ c3 /\ ~ c4
  <2> HIDE DEF c1, c2, c3, c4
  <2>1. /\ If(c1, "profile-schema") = {} /\ If(c2, "profile-block") = {}
        /\ If(c3, "profile-base-system-prompt") = {} /\ If(c4, "middleware-overrides") = {}
    BY <1>1
  <2> QED
    BY <2>1, Zenon DEF If
<1>3. ~ LoaderFails(w, o, "webRouter")
  <2>1. /\ "malformed" \notin DOMAIN p /\ ~ BlockFails(p, "profile") /\ ~ KeysFail(p)
    BY <1>2, Zenon DEF LoaderFails
  <2>2. "models" \notin Get(p, "bad", {})
    BY <2>1 DEF BlockFails
  <2>3. "webRouter" \notin DOMAIN p
    BY <2>1 DEF KeysFail
  <2>4. "webRouter" \notin Get(p, "bad", {})
    BY <2>3, RouterBlockStays DEF RouterBlockIsThere
  <2>5. ~ BlockFails(p, "webRouter")
    BY <2>2, <2>4 DEF BlockFails
  <2> QED
    BY <2>1, <2>5, Zenon DEF LoaderFails
<1> QED
  BY <1>2, <1>3

\* What may be added in a scope does not make the toggles fail.
LEMMA TogglesPass ==
  ASSUME NEW on, NEW scope \in {"supervisor", "subagent"}, NEW adds, NEW removes, adds \subseteq Allowed(scope)
  PROVE  ~ ToggleFails(on, scope, adds, removes)
<1>1. Defaults(scope) \subseteq Allowed(scope)
  BY DEF Defaults, DefaultSubagent, Allowed, Registered, BothScopes
<1>2. Gated(on, scope, adds) \subseteq Allowed(scope)
  BY DEF Gated
<1> QED
  BY <1>1, <1>2 DEF ToggleFails, TurnedOn

\* What the audit says of an agent it has nothing to say of.
LEMMA CleanAgent ==
  ASSUME NEW w, NEW o, NEW slug, AgentProblems(w, o, slug) = {}
  PROVE  /\ ~ SpecFails(w, o, slug)
         /\ \A t \in Get(Spec(w, o, slug), "tools", {}) : ToolKnown(w, o, t)
         /\ Get(Spec(w, o, slug), "middleware", {}) \subseteq Allowed("subagent")
<1> DEFINE spec == Spec(w, o, slug)
           c1 == "name" \notin DOMAIN spec
           c2 == \E t \in Get(spec, "tools", {}) : ~ToolKnown(w, o, t)
           c3 == ~(Get(spec, "middleware", {}) \subseteq Allowed("subagent"))
<1>1. AgentChainProblems(w, o, slug) = {}
  BY Zenon DEF AgentProblems
<1>2. ~ SpecFails(w, o, slug)
  <2> SUFFICES ASSUME SpecFails(w, o, slug) PROVE FALSE
    OBVIOUS
  <2>1. AgentProblems(w, o, slug) = {"agent-resolves"}
    BY <1>1, Zenon DEF AgentProblems
  <2> QED
    BY <2>1
<1>3. If(c1, "agent-missing-keys") \cup If(c2, "tool-resolves") \cup If(c3, "agent-middleware-scope") = {}
  BY <1>1, <1>2, Zenon DEF AgentProblems
<1>4. ~ c2 /\ ~ c3
  <2> HIDE DEF c1, c2, c3
  <2>1. If(c2, "tool-resolves") = {} /\ If(c3, "agent-middleware-scope") = {}
    BY <1>3
  <2> QED
    BY <2>1, Zenon DEF If
<1> QED
  BY <1>2, <1>4

\* What the audit says of a policy it has nothing to say of, and of the roster.
LEMMA CleanPolicy ==
  ASSUME NEW w, NEW o, PolicyProblems(w, o) = {}
  PROVE  ~ PolicyFails(w, o)
<1>1. If(PolicyFails(w, o), "policy-schema") = {}
  BY DEF PolicyProblems
<1> QED
  BY <1>1, Zenon DEF If

LEMMA CleanIsAudited ==
  ASSUME NEW w, NEW o, RosterProblems(w, o) = {}, ~ RosterFails(w, o)
  PROVE  AuditedRoster(w, o) = Roster(w, o)
<1>1. If("malformed" \in DOMAIN Dir(w, o).yaml, "org-yaml-shape") = {}
  BY DEF RosterProblems
<1>2. "malformed" \notin DOMAIN Dir(w, o).yaml
  BY <1>1, Zenon DEF If
<1> QED
  BY <1>2 DEF AuditedRoster

-----------------------------------------------------------------------------
\* What excuses an audit that was clean before a build that failed.
Excused(why) ==
    \/ why \in {"groups", "mcp", "skills", "extraParts", "gpText", "agentPrompt"}
    \/ why = "tool" /\ \E a \in waiting : Get(Spec(files, org, a), "tools", {}) \cap Dynamic # {}
    \/ why = "roster" /\ Len(Chain(files, org)) > 1
    \/ why \in {"profile", "rubric", "retries", "middleware", "askUser", "basePrompt"}
          /\ DOMAIN Dir(files, org).profile = {}

\* The audit was clean, and the files are as it saw them.
Clean ==
    /\ ~ edited /\ Problems(files, org) = {}
    /\ AsRead /\ version \in Versions /\ org \notin DOMAIN Bare /\ files = World[version]

\* The reasons a turn of the loop has.
LEMMA AgentRefuses ==
  ASSUME NEW slug, BuildAgent(slug), step' = "failed"
  PROVE  /\ step = "agents"
         /\ \/ SpecFails(files, org, slug) /\ Stop("agent")
            \/ ~ (Listed(Spec(files, org, slug)) \subseteq surface) /\ Stop("tool")
            \/ Stop("mcp") \/ Stop("skills") \/ Stop("agentPrompt") \/ Stop("extraParts")
            \/ /\ ToggleFails(gates, "subagent", AgentAdds(Spec(files, org, slug)), sub.remove)
               /\ Stop("middleware")
<1>1. step' # "agents"
  OBVIOUS
<1> QED
  BY <1>1, Zenon DEF BuildAgent, Proceed

LEMMA CleanAgentIsExcused ==
  ASSUME Clean, NEW slug \in waiting, BuildAgent(slug), step' = "failed"
  PROVE  \E why : Stop(why) /\ Excused(why)
<1> DEFINE spec == Spec(files, org, slug)
<1>1. step = "agents"
  BY AgentRefuses
<1>2. ~ RosterFails(files, org) /\ slug \in Roster(files, org)
  BY <1>1 DEF Clean, AsRead, RosterAsRead
<1>3. AgentProblems(files, org, slug) = {}
  BY <1>2, CleanIs, CleanIsAudited DEF Clean
<1>4. /\ ~ SpecFails(files, org, slug)
      /\ \A t \in Get(spec, "tools", {}) : ToolKnown(files, org, t)
      /\ Get(spec, "middleware", {}) \subseteq Allowed("subagent")
  BY <1>3, CleanAgent
<1>5. ASSUME ~ (Listed(spec) \subseteq surface)
      PROVE  Excused("tool")
  <2>1. surface = Surface(files, org)
    BY <1>1 DEF Clean, AsRead, SurfaceAsRead, BeforeTools
  <2>2. PICK t \in Get(spec, "tools", {}) \ Natives : <<"pux", t>> \notin surface
    BY <1>5 DEF Listed, Sandbox
  <2>3. t \notin Specialists /\ t \notin Declared(files, org)
    BY <2>1, <2>2 DEF Surface, SpecialistTools, Sandbox
  <2>4. HasDir(files, org)
    BY CleanIs DEF Clean, IsBase
  <2>5. t \in Dynamic
    BY <1>4, <2>2, <2>3, <2>4 DEF ToolKnown, Declared
  <2> QED
    BY <2>2, <2>5 DEF Excused
<1>6. ASSUME ToggleFails(gates, "subagent", AgentAdds(spec), sub.remove)
      PROVE  Excused("middleware")
  <2> SUFFICES ASSUME DOMAIN Dir(files, org).profile # {}
               PROVE  FALSE
    BY DEF Excused
  <2>1. Get(Profile(files, org), "subAdd", {}) \subseteq BothScopes
    BY CleanIs, CleanProfile DEF Clean
  <2>2. sub.add = Get(Profile(files, org), "subAdd", {})
    BY <1>1 DEF Clean, AsRead, SubAsRead, ForAgents
  <2>3. AgentAdds(spec) \subseteq Allowed("subagent")
    BY <1>4, <2>1, <2>2 DEF AgentAdds, Allowed
  <2> QED
    BY <1>6, <2>3, TogglesPass
<1>7. \/ Excused("tool") /\ Stop("tool")
      \/ Stop("mcp") \/ Stop("skills") \/ Stop("agentPrompt") \/ Stop("extraParts")
      \/ Excused("middleware") /\ Stop("middleware")
  BY <1>4, <1>5, <1>6, AgentRefuses, Zenon
<1>8. Excused("mcp") /\ Excused("skills") /\ Excused("agentPrompt") /\ Excused("extraParts")
  BY DEF Excused
<1> QED
  BY <1>7, <1>8, Zenon

LEMMA CleanBuildIsExcused ==
  ASSUME Clean, StackNext, step' = "failed", step # "failed"
  PROVE  \E why : Stop(why) /\ Excused(why)
<1>p. ASSUME DOMAIN Dir(files, org).profile # {}
      PROVE  /\ \A b \in {"profile", "rubric", "middleware", "modelRetry", "toolRetry", "askUser", "webRouter"} :
                    ~ LoaderFails(files, org, b)
             /\ "basePrompt" \notin DOMAIN Profile(files, org)
             /\ Get(Profile(files, org), "supAdd", {}) \subseteq Registered
             /\ Get(Profile(files, org), "subAdd", {}) \subseteq BothScopes
  BY <1>p, CleanIs, CleanProfile DEF Clean
<1>1. CASE ReadProfile
  <2>1. Stop("profile") /\ LoaderFails(files, org, "profile")
    BY <1>1, Zenon DEF ReadProfile, Proceed
  <2>2. Excused("profile")
    BY <1>p, <2>1 DEF Excused
  <2> QED
    BY <2>1, <2>2
<1>2. CASE ReadGate
  <2>1. Stop("rubric") /\ LoaderFails(files, org, "rubric")
    BY <1>2, Zenon DEF ReadGate, Proceed
  <2>2. Excused("rubric")
    BY <1>p, <2>1 DEF Excused
  <2> QED
    BY <2>1, <2>2
<1>3. CASE ReadRetries
  <2>1. Stop("retries") /\ \E b \in {"modelRetry", "toolRetry", "webRouter"} : LoaderFails(files, org, b)
    BY <1>3, Zenon DEF ReadRetries, Proceed
  <2>2. Excused("retries")
    BY <1>p, <2>1 DEF Excused
  <2> QED
    BY <2>1, <2>2
<1>4. CASE ReadOverrides
  <2> DEFINE sup == ForSupervisor(Profile(files, org))
             baseline == ForAgents(Profile(files, org))
  <2>1. /\ Stop("middleware")
        /\ \/ LoaderFails(files, org, "middleware")
           \/ ToggleFails(gates, "supervisor", sup.add, sup.remove)
           \/ ToggleFails(gates, "subagent", baseline.add, baseline.remove)
    BY <1>4, Zenon DEF ReadOverrides, Proceed
  <2>2. ASSUME DOMAIN Dir(files, org).profile # {}
        PROVE  FALSE
    <3>1. sup.add \subseteq Allowed("supervisor") /\ baseline.add \subseteq Allowed("subagent")
      BY <1>p, <2>2 DEF ForSupervisor, ForAgents, Allowed
    <3>2. ~ ToggleFails(gates, "supervisor", sup.add, sup.remove)
      BY <3>1, TogglesPass
    <3>3. ~ ToggleFails(gates, "subagent", baseline.add, baseline.remove)
      BY <3>1, TogglesPass
    <3>4. ~ LoaderFails(files, org, "middleware")
      BY <1>p, <2>2
    <3> QED
      BY <2>1, <3>2, <3>3, <3>4
  <2>3. Excused("middleware")
    BY <2>2 DEF Excused
  <2> QED
    BY <2>1, <2>3
<1>5. CASE ReadSurface
  <2>1. PolicyFails(files, org)
    BY <1>5, Zenon DEF ReadSurface, Proceed
  <2> QED
    BY <2>1, CleanIs, CleanPolicy DEF Clean
<1>6. CASE ReadAskUser
  <2>1. Stop("askUser") /\ LoaderFails(files, org, "askUser")
    BY <1>6, Zenon DEF ReadAskUser, Proceed
  <2>2. Excused("askUser")
    BY <1>p, <2>1 DEF Excused
  <2> QED
    BY <2>1, <2>2
<1>7. CASE ReadAllowlist
  <2>1. /\ step = "allowlist"
        /\ PolicyFails(files, org) \/ Stop("groups") \/ ("basePrompt" \in DOMAIN profile /\ Stop("basePrompt"))
    BY <1>7, Zenon DEF ReadAllowlist, Proceed
  <2>2. ~ PolicyFails(files, org)
    BY CleanIs, CleanPolicy DEF Clean
  <2>3. ASSUME "basePrompt" \in DOMAIN profile
        PROVE  Excused("basePrompt")
    BY <1>p, <2>1, <2>3 DEF Excused, Clean, AsRead, ProfileAsRead
  <2>4. Excused("groups")
    BY DEF Excused
  <2> QED
    BY <2>1, <2>2, <2>3, <2>4
<1>8. CASE ReadPrompt
  <2>1. PromptFails(files, org) \/ Stop("extraParts")
    BY <1>8, Zenon DEF ReadPrompt, Proceed
  <2>2. ~ PromptFails(files, org)
    BY CleanIs, CleanChain DEF Clean
  <2>3. Excused("extraParts")
    BY DEF Excused
  <2> QED
    BY <2>1, <2>2, <2>3
<1>9. CASE ReadRoster
  <2>1. org \notin Discovered(files) \/ (RosterFails(files, org) /\ Stop("roster"))
    BY <1>9, Zenon DEF ReadRoster, Proceed
  <2>2. org \in Discovered(files)
    BY CleanIs, CleanIsDiscovered DEF Clean
  <2>3. ASSUME RosterFails(files, org)
        PROVE  Excused("roster")
    <3>1. RosterProblems(files, org) = {}
      BY CleanIs DEF Clean
    <3> QED
      BY <2>3, <3>1, CleanRoster DEF Excused, Clean
  <2> QED
    BY <2>1, <2>2, <2>3
<1>10. ASSUME NEW slug \in waiting, BuildAgent(slug)
       PROVE  \E why : Stop(why) /\ Excused(why)
  BY <1>10, CleanAgentIsExcused
<1>11. CASE BuildGeneral
  <2>1. Stop("gpText")
    BY <1>11, GeneralBuilds DEF Proceed
  <2>2. Excused("gpText")
    BY DEF Excused
  <2> QED
    BY <2>1, <2>2
<1>12. CASE Edit
  BY <1>12 DEF Edit
<1> QED
  BY <1>1, <1>2, <1>3, <1>4, <1>5, <1>6, <1>7, <1>8, <1>9, <1>10, <1>11, <1>12 DEF StackNext

\* A build that has failed stays as it is.
LEMMA FailedStays ==
  ASSUME [StackNext]_vars, step = "failed"
  PROVE  UNCHANGED vars
  BY Zenon DEF StackNext, ReadProfile, ReadGate, ReadRetries, ReadOverrides, ReadSurface, ReadAskUser,
         ReadAllowlist, ReadPrompt, ReadRoster, BuildAgent, BuildGeneral, Edit

LEMMA AuditKeeps ==
  ASSUME KnownInv, UneditedInv, AuditCovers, [StackNext]_vars
  PROVE  AuditCovers'
<1>1. CASE UNCHANGED vars
  BY <1>1 DEF vars, AuditCovers, files, org
<1>2. CASE StackNext /\ ~ UNCHANGED vars
  <2> SUFFICES ASSUME step' = "failed", ~ edited', (Problems(files, org) = {})'
               PROVE  AuditCovers'
    BY DEF AuditCovers
  <2>1. step # "failed"
    BY <1>2, FailedStays
  <2>2. \E why : Stop(why)
    <3>1. CASE ReadProfile
      BY <3>1, Zenon DEF ReadProfile, Proceed
    <3>2. CASE ReadGate
      BY <3>2, Zenon DEF ReadGate, Proceed
    <3>3. CASE ReadRetries
      BY <3>3, Zenon DEF ReadRetries, Proceed
    <3>4. CASE ReadOverrides
      BY <3>4, Zenon DEF ReadOverrides, Proceed
    <3>5. CASE ReadSurface
      BY <3>5, Zenon DEF ReadSurface, Proceed
    <3>6. CASE ReadAskUser
      BY <3>6, Zenon DEF ReadAskUser, Proceed
    <3>7. CASE ReadAllowlist
      BY <3>7, Zenon DEF ReadAllowlist, Proceed
    <3>8. CASE ReadPrompt
      BY <3>8, Zenon DEF ReadPrompt, Proceed
    <3>9. CASE ReadRoster
      BY <3>9, Zenon DEF ReadRoster, Proceed
    <3>10. ASSUME NEW slug \in waiting, BuildAgent(slug)
           PROVE  \E why : Stop(why)
      BY <3>10, AgentBuilds DEF Proceed
    <3>11. CASE BuildGeneral
      BY <3>11, GeneralBuilds DEF Proceed
    <3>12. CASE Edit
      BY <2>1, <3>12 DEF Edit
    <3> QED
      BY <1>2, <3>1, <3>2, <3>3, <3>4, <3>5, <3>6, <3>7, <3>8, <3>9, <3>10, <3>11, <3>12 DEF StackNext
  <2>3. ~ edited /\ UNCHANGED <<version, request>>
    BY <2>2 DEF Stop
  <2>4. Problems(files, org) = {}
    BY <2>3 DEF files, org
  <2>5. Clean
    BY <2>3, <2>4 DEF Clean, KnownInv, UneditedInv, files
  <2>6. PICK why : Stop(why) /\ Excused(why)
    BY <1>2, <2>1, <2>5, CleanBuildIsExcused
  <2> QED
    BY <2>6 DEF Stop, Excused, AuditCovers, files, org
<1> QED
  BY <1>1, <1>2

\* org_validation.py:26-27: whatever the files are, a clean audit foresees the build,
\* but for what it never looks at.
THEOREM AuditForesees == StackSpec => []AuditCovers
<1>1. StackInit => KnownInv /\ UneditedInv /\ AuditCovers
  <2>1. StackInit => AuditCovers
    BY DEF StackInit, AuditCovers
  <2> QED
    BY <2>1, KnownStarts, UneditedStarts
<1>2. (KnownInv /\ UneditedInv /\ AuditCovers) /\ [StackNext]_vars => (KnownInv /\ UneditedInv /\ AuditCovers)'
  BY KnownKeeps, UneditedKeeps, AuditKeeps
<1> QED
  BY <1>1, <1>2, PTL DEF StackSpec

-----------------------------------------------------------------------------
(***************************************************************************)
(* What a pack ships.                                                      *)
(***************************************************************************)

\* A path under a name.
LEMMA PrefixedOne ==
  ASSUME NEW n, NEW a
  PROVE  <<n>> \o <<a>> = <<n, a>> /\ Tail(<<n, a>>) = <<a>>
<1> DEFINE S == {n, a}
<1>1. <<n>> \in Seq(S) /\ <<a>> \in Seq(S) /\ <<n, a>> \in Seq(S)
  OBVIOUS
<1>2. Len(<<n>>) = 1 /\ Len(<<a>>) = 1 /\ Len(<<n, a>>) = 2
  OBVIOUS
<1>3. <<n>> \o <<a>> \in Seq(S) /\ Len(<<n>> \o <<a>>) = 2
  BY <1>1, <1>2, ConcatProperties
<1>4. (<<n>> \o <<a>>)[1] = n /\ (<<n>> \o <<a>>)[2] = a
  BY <1>1, <1>2, ConcatProperties
<1>5. \A i \in 1..2 : (<<n>> \o <<a>>)[i] = <<n, a>>[i]
  BY <1>4
<1>6. <<n>> \o <<a>> = <<n, a>>
  BY <1>1, <1>2, <1>3, <1>5, SeqEqual
<1> QED
  BY <1>1, <1>6

LEMMA PrefixedTwo ==
  ASSUME NEW n, NEW a, NEW b
  PROVE  <<n>> \o <<a, b>> = <<n, a, b>> /\ Tail(<<n, a, b>>) = <<a, b>>
<1> DEFINE S == {n, a, b}
<1>1. <<n>> \in Seq(S) /\ <<a, b>> \in Seq(S) /\ <<n, a, b>> \in Seq(S)
  OBVIOUS
<1>2. Len(<<n>>) = 1 /\ Len(<<a, b>>) = 2 /\ Len(<<n, a, b>>) = 3
  OBVIOUS
<1>3. <<n>> \o <<a, b>> \in Seq(S) /\ Len(<<n>> \o <<a, b>>) = 3
  BY <1>1, <1>2, ConcatProperties
<1>4. (<<n>> \o <<a, b>>)[1] = n /\ (<<n>> \o <<a, b>>)[2] = a /\ (<<n>> \o <<a, b>>)[3] = b
  BY <1>1, <1>2, ConcatProperties
<1>5. \A i \in 1..3 : (<<n>> \o <<a, b>>)[i] = <<n, a, b>>[i]
  BY <1>4
<1>6. <<n>> \o <<a, b>> = <<n, a, b>>
  BY <1>1, <1>2, <1>3, <1>5, SeqEqual
<1> QED
  BY <1>1, <1>6

\* The paths of a directory have one part or two.
LEMMA PathsAreShort ==
  ASSUME NEW d, NEW q \in PathsIn(d)
  PROVE  \/ \E a \in {"AGENTS.md", "org.yaml", "profile.yaml", "profile.local.yaml", "policy.yaml"} : q = <<a>>
         \/ \E a \in {"agents", "sandbox", "skills", "data"} : \E s : q = <<a, s>>
         \/ \E s \in DOMAIN Get(d, "lib", <<>>) : q = <<"lib", s>>
<1>1. \/ q \in TopFiles(d)
      \/ q \in {<<"agents", s>> : s \in DOMAIN d.agents} \/ q \in {<<"sandbox", s>> : s \in d.declared}
      \/ q \in {<<"lib", s>> : s \in DOMAIN Get(d, "lib", <<>>)}
      \/ q \in {<<"skills", s>> : s \in Get(d, "skills", {})} \/ q \in {<<"data", s>> : s \in Get(d, "data", {})}
  BY DEF PathsIn
<1>2. ASSUME q \in TopFiles(d)
      PROVE  \E a \in {"AGENTS.md", "org.yaml", "profile.yaml", "profile.local.yaml", "policy.yaml"} : q = <<a>>
  BY <1>2, Zenon DEF TopFiles
<1> QED
  BY <1>1, <1>2

\* Every path of a selection has two parts or three; what is no shared file is a
\* collected file of the org's own directory.
SharedPath(p) ==
    \/ \E a \in {"agents", "skills", "sandbox"} : \E s : p = <<"shared", a, s>>
    \/ \E s : p = <<"shared", s>>

LEMMA SelectionIs ==
  ASSUME NEW w, NEW o, NEW p \in DOMAIN Selection(w, o)
  PROVE  /\ p # <<"added">>
         /\ \/ Selection(w, o)[p] = <<Shared, Tail(p)>> /\ SharedPath(p)
            \/ /\ Selection(w, o)[p] = <<DirOf(w, o), Tail(p)>>
               /\ \E q \in Collected(Dir(w, o)) : p = <<PackageName(w, o)>> \o q /\ Tail(p) = q
<1> DEFINE own == {<<PackageName(w, o)>> \o q : q \in Collected(Dir(w, o))}
           shared == {<<"shared", "agents", s>> : s \in SharedAgents(w, o)}
                        \cup {<<"shared", "skills", s>> : s \in SharedSkills(w, o)}
                        \cup {<<"shared", "sandbox", s>> : s \in SharedHelpers(w, o)}
                        \cup {<<"shared", s>> : s \in SharedCatalog(w, o)}
<1>1. Selection(w, o) = [x \in own \cup shared |-> <<IF x \in shared THEN Shared ELSE DirOf(w, o), Tail(x)>>]
  BY Zenon DEF Selection
<1>2. ASSUME p \in shared
      PROVE  SharedPath(p) /\ p # <<"added">>
  BY <1>2 DEF SharedPath
<1>3. ASSUME p \in own
      PROVE  /\ \E q \in Collected(Dir(w, o)) : p = <<PackageName(w, o)>> \o q /\ Tail(p) = q
             /\ p # <<"added">>
  <2>1. PICK q \in Collected(Dir(w, o)) : p = <<PackageName(w, o)>> \o q
    BY <1>3
  <2>2. q \in PathsIn(Dir(w, o))
    BY DEF Collected
  <2>3. (\E a : q = <<a>>) \/ (\E a, b : q = <<a, b>>)
    BY <2>2, PathsAreShort
  <2>4. CASE \E a : q = <<a>>
    <3>1. PICK a : q = <<a>>
      BY <2>4
    <3>2. p = <<PackageName(w, o), a>> /\ Tail(p) = q
      BY <2>1, <3>1, PrefixedOne
    <3>3. p # <<"added">>
      BY <3>2
    <3> QED
      BY <2>1, <3>2, <3>3
  <2>5. CASE \E a, b : q = <<a, b>>
    <3>1. PICK a, b : q = <<a, b>>
      BY <2>5
    <3>2. p = <<PackageName(w, o), a, b>> /\ Tail(p) = q
      BY <2>1, <3>1, PrefixedTwo
    <3>3. p # <<"added">>
      BY <3>2
    <3> QED
      BY <2>1, <3>2, <3>3
  <2> QED
    BY <2>3, <2>4, <2>5
<1> HIDE DEF own, shared
<1>4. p \in own \cup shared /\ Selection(w, o)[p] = <<IF p \in shared THEN Shared ELSE DirOf(w, o), Tail(p)>>
  BY <1>1
<1>5. CASE p \in shared
  BY <1>2, <1>4, <1>5
<1>6. CASE p \notin shared
  BY <1>3, <1>4, <1>6
<1> QED
  BY <1>5, <1>6

LEMMA OwnSelection ==
  ASSUME NEW w, NEW o
  PROVE  \A p \in DOMAIN Selection(w, o) : ~ SharedPath(p) =>
            /\ Selection(w, o)[p] = <<DirOf(w, o), Tail(p)>>
            /\ \E q \in Collected(Dir(w, o)) : p = <<PackageName(w, o)>> \o q /\ Tail(p) = q
<1> SUFFICES ASSUME NEW p \in DOMAIN Selection(w, o), ~ SharedPath(p)
             PROVE  /\ Selection(w, o)[p] = <<DirOf(w, o), Tail(p)>>
                    /\ \E q \in Collected(Dir(w, o)) : p = <<PackageName(w, o)>> \o q /\ Tail(p) = q
  OBVIOUS
<1> QED
  BY SelectionIs, Zenon

LEMMA LibraryIsNotShared ==
  ASSUME NEW p, Len(p) > 2, p[2] = "lib"
  PROVE  ~ SharedPath(p)
<1>1. ASSUME NEW a \in {"agents", "skills", "sandbox"}, NEW s, p = <<"shared", a, s>>
      PROVE  FALSE
  <2>1. p[2] = a
    BY <1>1
  <2> QED
    BY <2>1
<1>2. ASSUME NEW s, p = <<"shared", s>>
      PROVE  FALSE
  <2>1. Len(p) = 2
    BY <1>2
  <2> QED
    BY <2>1
<1> QED
  BY <1>1, <1>2 DEF SharedPath

\* The steps of a pack before anything is written, and the files that are its own.
BeforeWriting == {"collect", "syntax", "secrets", "write"}
OwnFilesAllowed(chosen) ==
    \A p \in DOMAIN chosen : chosen[p][1] # Shared => ~ HardExcluded(chosen[p][2])

LEMMA SelectionIsAllowed ==
  ASSUME NEW w, NEW o
  PROVE  OwnFilesAllowed(Selection(w, o))
<1> SUFFICES ASSUME NEW p \in DOMAIN Selection(w, o), Selection(w, o)[p][1] # Shared
             PROVE  ~ HardExcluded(Selection(w, o)[p][2])
  BY DEF OwnFilesAllowed
<1>0. Selection(w, o)[p] # <<Shared, Tail(p)>>
  OBVIOUS
<1>p. /\ Selection(w, o)[p] = <<DirOf(w, o), Tail(p)>>
      /\ \E q \in Collected(Dir(w, o)) : p = <<PackageName(w, o)>> \o q /\ Tail(p) = q
  BY <1>0, SelectionIs, Zenon
<1>1. PICK q \in Collected(Dir(w, o)) : Selection(w, o)[p][2] = q
  BY <1>p
<1> QED
  BY <1>1 DEF Collected, LeftOut

\* The gate has read what is written, unless the files were edited since.
ScanInv ==
    /\ pkStep \in BeforeWriting => pkArchive = <<>>
    /\ OwnFilesAllowed(pkFiles)
    /\ DOMAIN pkArchive \subseteq DOMAIN pkFiles
    /\ pkStep = "write" /\ pkScanned # None =>
          /\ \A p \in DOMAIN pkFiles : Readable(World[pkScanned], pkFiles[p]) => pkFiles[p] \notin World[pkScanned].secrets
          /\ ~ pkEdited => pkVersion = pkScanned
    /\ ShippedWasScanned

LEMMA ScanStarts ==
  ASSUME PackInit
  PROVE  ScanInv
<1>1. DOMAIN <<>> = {}
  OBVIOUS
<1> QED
  BY <1>1 DEF PackInit, ScanInv, BeforeWriting, OwnFilesAllowed, ShippedWasScanned

\* WriteArchive ends the pack, or writes the archive.
LEMMA ArchiveWrites ==
  ASSUME WriteArchive
  PROVE  /\ pkStep = "write"
         /\ \/ PackStops("roster")
            \/ /\ pkArchive' = Written(pkRequest.org)
               /\ PackProceeds("emit")
               /\ UNCHANGED <<pkFiles, pkFlat, pkScanned, pkLayers, pkDigests, pkEmitted, pkVerdict>>
  BY Zenon DEF WriteArchive

\* What WriteArchive writes was readable, and is of the version it was read at.
LEMMA ArchiveIs ==
  ASSUME NEW o, NEW p \in DOMAIN Written(o)
  PROVE  /\ p \in DOMAIN pkFiles
         /\ Written(o)[p] # None => Written(o)[p] = pkVersion /\ Readable(World[pkVersion], pkFiles[p])
  BY DEF Written, Tree

LEMMA ScanKeeps ==
  ASSUME ScanInv, [PackNext]_packVars
  PROVE  ScanInv'
<1> USE DEF PackStops, PackProceeds
<1>s. ASSUME UNCHANGED <<pkArchive, pkFiles, pkScanned>>, pkEdited => pkEdited', pkStep' # "write",
             pkStep' \in BeforeWriting => pkStep \in BeforeWriting
      PROVE  ScanInv'
  BY <1>s DEF ScanInv, ShippedWasScanned, OwnFilesAllowed
<1>1. CASE Collect
  <2>1. CASE \E why : PackStops(why)
    BY <1>s, <2>1 DEF BeforeWriting
  <2>2. CASE ~ \E why : PackStops(why)
    <3>1. /\ pkFiles' = Selection(Tree, pkRequest.org) /\ pkStep = "collect" /\ pkStep' = "syntax"
          /\ UNCHANGED <<pkArchive, pkEdited, pkScanned>>
      BY <1>1, <2>2 DEF Collect
    <3>2. pkArchive = <<>> /\ DOMAIN <<>> = {}
      BY <3>1 DEF ScanInv, BeforeWriting
    <3>3. OwnFilesAllowed(pkFiles')
      BY <3>1, SelectionIsAllowed
    <3> QED
      BY <3>1, <3>2, <3>3 DEF ScanInv, ShippedWasScanned, OwnFilesAllowed
  <2> QED
    BY <2>1, <2>2
<1>2. CASE CheckSyntax
  BY <1>2, <1>s DEF CheckSyntax, BeforeWriting
<1>3. CASE CheckSecrets
  <2>1. PICK exit \in {"ran", "error", "absent", "noReport"} :
           IF GateRefuses(exit) THEN PackStops("secrets")
           ELSE /\ pkScanned' = IF exit = "noReport" THEN None ELSE pkVersion
                /\ PackProceeds("write")
                /\ UNCHANGED <<pkFiles, pkFlat, pkArchive, pkLayers, pkDigests, pkEmitted, pkVerdict>>
    BY <1>3 DEF CheckSecrets
  <2>2. CASE GateRefuses(exit)
    BY <1>s, <2>1, <2>2 DEF BeforeWriting
  <2>3. CASE ~ GateRefuses(exit)
    <3>1. /\ pkScanned' # None => pkScanned' = pkVersion /\ exit # "noReport"
          /\ pkStep' = "write" /\ pkStep = "secrets"
          /\ UNCHANGED <<pkFiles, pkArchive, pkVersion, pkEdited>>
      BY <1>3, <2>1, <2>3 DEF CheckSecrets
    <3>2. ASSUME pkScanned' # None
          PROVE  \A f \in HostFiles : ~ (Readable(Tree, f) /\ f \in Tree.secrets)
      BY <2>1, <2>3, <3>1, <3>2 DEF GateRefuses
    <3>3. ASSUME NEW p \in DOMAIN pkFiles, pkScanned' # None, Readable(World[pkVersion], pkFiles[p])
          PROVE  pkFiles[p] \notin World[pkVersion].secrets
      BY <3>2, <3>3 DEF HostFiles, Tree
    <3>4. pkArchive = <<>> /\ DOMAIN <<>> = {}
      BY <3>1 DEF ScanInv, BeforeWriting
    <3> QED
      BY <3>1, <3>3, <3>4 DEF ScanInv, ShippedWasScanned, OwnFilesAllowed
  <2> QED
    BY <2>2, <2>3
<1>4. CASE WriteArchive
  <2>1. CASE PackStops("roster")
    BY <1>s, <2>1 DEF BeforeWriting
  <2>2. CASE pkArchive' = Written(pkRequest.org) /\ PackProceeds("emit") /\ UNCHANGED <<pkFiles, pkScanned>>
    <3>1. pkStep = "write"
      BY <1>4, ArchiveWrites
    <3>2. ASSUME NEW p \in DOMAIN pkArchive', pkArchive'[p] # None,
                 pkFiles[p] \in World[pkArchive'[p]].secrets, pkScanned # None
          PROVE  pkEdited /\ pkArchive'[p] # pkScanned
      <4>1. p \in DOMAIN pkFiles /\ pkArchive'[p] = pkVersion /\ Readable(World[pkVersion], pkFiles[p])
        BY <2>2, <3>2, ArchiveIs
      <4>2. pkVersion # pkScanned
        BY <3>1, <3>2, <4>1 DEF ScanInv
      <4> QED
        BY <3>1, <3>2, <4>1, <4>2 DEF ScanInv
    <3>3. \A p \in DOMAIN pkArchive' : p \in DOMAIN pkFiles
      BY <2>2, ArchiveIs
    <3> QED
      BY <2>2, <3>2, <3>3 DEF ScanInv, ShippedWasScanned, OwnFilesAllowed, BeforeWriting
  <2> QED
    BY <1>4, <2>1, <2>2, ArchiveWrites
<1>5. CASE Emit
  BY <1>5, <1>s DEF Emit, BeforeWriting
<1>6. CASE Tamper
  BY <1>6, <1>s DEF Tamper, BeforeWriting
<1>7. CASE Verify
  BY <1>7, <1>s DEF Verify, BeforeWriting
<1>8. CASE PackEdit
  BY <1>8 DEF PackEdit, ScanInv, ShippedWasScanned, OwnFilesAllowed
<1>9. CASE UNCHANGED packVars
  BY <1>9 DEF packVars, ScanInv, ShippedWasScanned, OwnFilesAllowed
<1> QED
  BY <1>1, <1>2, <1>3, <1>4, <1>5, <1>6, <1>7, <1>8, <1>9 DEF PackNext

\* pack.py:823-870, manifest.py:58-63, pack_hooks.py:226-246: whatever the tree, the
\* package and the edits are, a secret ships only if it came in after the gate had
\* read, or if the gate's tool left no report that can be read, and what is excluded
\* for good does not ship from the org's own directory.
THEOREM ShipsWhatWasScanned == PackSpec => []ShippedWasScanned
<1>1. ScanInv => ShippedWasScanned
  BY DEF ScanInv
<1> QED
  BY <1>1, ScanStarts, ScanKeeps, PTL DEF PackSpec

\* The library of the layout is the one of the tree: nothing is renamed, left out
\* or kept under specialists/, and the files were selected from this tree.
LEMMA LibraryIsAttested ==
  ASSUME NEW o, HasLibrary(Tree, o), pkFiles = Selection(Tree, o),
         DirOf(Tree, o)[1] # "specialists", PackageName(Tree, o) = o,
         \A s \in DOMAIN Dir(Tree, o).lib : <<"lib", s>> \in Collected(Dir(Tree, o))
  PROVE  Layers(o).library = Attested(Tree, o)
<1> DEFINE d == DirOf(Tree, o)
           dir == Dir(Tree, o)
           lib == dir.lib
           A == {p \in DOMAIN pkFiles : Readable(Tree, pkFiles[p]) /\ IsLibrary(p, o)}
           B == {<<o, "lib", s>> : s \in DOMAIN lib}
<1>1. /\ d[1] = "orgs" /\ Get(dir, "lib", <<>>) = lib /\ dir = Tree.dirs[d]
      /\ d # Shared /\ d \in DOMAIN Tree.dirs
  <2>1. d[1] = "orgs" /\ DOMAIN Get(dir, "lib", <<>>) # {}
    BY DEF HasLibrary
  <2>2. DOMAIN <<>> = {}
    OBVIOUS
  <2>3. Get(dir, "lib", <<>>) = lib
    BY <2>1, <2>2 DEF Get
  <2>4. d \in DOMAIN Tree.dirs
    BY <2>1, OwnProfileIsFound
  <2> QED
    BY <2>1, <2>3, <2>4 DEF Dir, Shared
<1> HIDE DEF lib, dir, d
<1>2. ASSUME NEW s \in DOMAIN lib
      PROVE  /\ <<o, "lib", s>> \in DOMAIN pkFiles /\ pkFiles[<<o, "lib", s>>] = <<d, <<"lib", s>>>>
             /\ Readable(Tree, <<d, <<"lib", s>>>>)
             /\ IsLibrary(<<o, "lib", s>>, o)
  <2>1. <<"lib", s>> \in Collected(dir)
    BY DEF lib, dir
  <2>2. <<o>> \o <<"lib", s>> = <<o, "lib", s>> /\ Tail(<<o, "lib", s>>) = <<"lib", s>>
    BY PrefixedTwo
  <2>3. <<o, "lib", s>> \in {<<PackageName(Tree, o)>> \o q : q \in Collected(Dir(Tree, o))}
    BY <2>1, <2>2 DEF dir
  <2>4. <<o, "lib", s>> \in DOMAIN pkFiles
    BY <2>3 DEF Selection
  <2>5. /\ pkFiles[<<o, "lib", s>>] = <<d, <<"lib", s>>>>
    <3>1. <<o, "lib", s>>[2] = "lib" /\ Len(<<o, "lib", s>>) = 3
      OBVIOUS
    <3>2. ~ SharedPath(<<o, "lib", s>>)
      BY <3>1, LibraryIsNotShared
    <3>3. <<o, "lib", s>> \in DOMAIN Selection(Tree, o)
      BY <2>4
    <3>4. \A p \in DOMAIN Selection(Tree, o) : ~ SharedPath(p) =>
             /\ Selection(Tree, o)[p] = <<DirOf(Tree, o), Tail(p)>>
             /\ \E q \in Collected(Dir(Tree, o)) : p = <<PackageName(Tree, o)>> \o q /\ Tail(p) = q
      BY OwnSelection, Zenon
    <3>5. Selection(Tree, o)[<<o, "lib", s>>] = <<DirOf(Tree, o), Tail(<<o, "lib", s>>)>>
      BY <3>2, <3>3, <3>4
    <3> QED
      BY <2>2, <3>5 DEF d
  <2>6. Readable(Tree, <<d, <<"lib", s>>>>)
    <3>1. <<"lib", s>> \in PathsIn(dir)
      BY <2>1 DEF Collected
    <3> QED
      BY <1>1, <3>1 DEF Readable
  <2>7. IsLibrary(<<o, "lib", s>>, o)
    BY DEF IsLibrary
  <2> QED
    BY <2>4, <2>5, <2>6, <2>7
<1>3. ASSUME NEW p \in A
      PROVE  p \in B
  <2>1. p \in DOMAIN Selection(Tree, o) /\ Len(p) > 2 /\ p[1] = o /\ p[2] = "lib"
    BY DEF IsLibrary
  <2>2. ~ SharedPath(p)
    BY <2>1, LibraryIsNotShared
  <2>4. \E q \in Collected(Dir(Tree, o)) : p = <<PackageName(Tree, o)>> \o q /\ Tail(p) = q
    BY <2>1, <2>2, OwnSelection
  <2>5. PICK q \in Collected(dir) : p = <<o>> \o q
    BY <2>4 DEF dir
  <2>6. q \in PathsIn(dir)
    BY DEF Collected
  <2>7. \A a : q # <<a>>
    <3> SUFFICES ASSUME NEW a, q = <<a>>
                 PROVE  FALSE
      OBVIOUS
    <3>1. p = <<o, a>>
      BY <2>5, PrefixedOne
    <3> QED
      BY <2>1, <3>1
  <2>8. \A a \in {"agents", "sandbox", "skills", "data"} : \A s : q # <<a, s>>
    <3> SUFFICES ASSUME NEW a \in {"agents", "sandbox", "skills", "data"}, NEW s, q = <<a, s>>
                 PROVE  FALSE
      OBVIOUS
    <3>1. p = <<o, a, s>>
      BY <2>5, PrefixedTwo
    <3> QED
      BY <2>1, <3>1
  <2>9. PICK s \in DOMAIN Get(dir, "lib", <<>>) : q = <<"lib", s>>
    BY <2>6, <2>7, <2>8, PathsAreShort
  <2>10. p = <<o, "lib", s>>
    BY <2>5, <2>9, PrefixedTwo
  <2> QED
    BY <1>1, <2>9, <2>10
<1>4. A = B
  <2>1. ASSUME NEW p \in B
        PROVE  p \in A
    BY <1>2
  <2> QED
    BY <1>3, <2>1
<1>5. Layers(o).library = [p \in A |-> TextOf(pkVersion, pkFiles[p])]
  <2>1. {p \in {x \in DOMAIN pkFiles : Readable(Tree, pkFiles[x])} : IsLibrary(p, o)} = A
    OBVIOUS
  <2> HIDE DEF A
  <2> QED
    BY <2>1 DEF Layers
<1>6. Attested(Tree, o) = [p \in B |-> lib[p[Len(p)]]]
  <2>1. d[1] # "specialists" /\ Get(Tree.dirs[d], "lib", <<>>) = lib
    BY <1>1
  <2> QED
    BY <2>1 DEF Attested, d
<1>7. ASSUME NEW p \in B
      PROVE  TextOf(pkVersion, pkFiles[p]) = lib[p[Len(p)]]
  <2>1. PICK s \in DOMAIN lib : p = <<o, "lib", s>>
    OBVIOUS
  <2>2. p[Len(p)] = s
    BY <2>1
  <2>3. pkFiles[p] = <<d, <<"lib", s>>>>
    BY <1>2, <2>1
  <2>4. World[pkVersion].dirs[d].lib[s] = lib[s]
    BY <1>1 DEF lib, Tree
  <2> QED
    BY <2>2, <2>3, <2>4 DEF TextOf
<1> HIDE DEF A, B
<1> QED
  BY <1>4, <1>5, <1>6, <1>7

\* What a verification meets: the files are those of the tree unless it was edited,
\* and a layout that is not the one that was made lacks a layer or has an entry too many.
LayerNames == {"source", "library"}
Chosen == {"syntax", "secrets", "write", "emit", "shipped", "done"}
LayerInv ==
    /\ pkVerdict # "none" => pkStep = "done"
    /\ pkStep \in Chosen /\ ~ pkEdited => pkFiles = Selection(Tree, pkRequest.org)
    /\ pkStep \in {"shipped", "done"} =>
          /\ pkEmitted = [l \in LayerNames |-> pkEmitted[l]]
          /\ pkLayers = [l \in LayerNames |-> pkLayers[l]]
          /\ \A l \in LayerNames : pkLayers[l] # pkEmitted[l] =>
                pkLayers[l] = None \/ <<"added">> \in DOMAIN pkLayers[l]
          /\ pkDigests = pkLayers \/ pkDigests = pkEmitted
          /\ ~ pkEdited => pkEmitted.library = Layers(pkRequest.org).library
    /\ VerifyTells

LEMMA AttestedIsPlain ==
  ASSUME NEW w, NEW o
  PROVE  <<"added">> \notin DOMAIN Attested(w, o)
<1> DEFINE d == DirOf(w, o)
           at(s) == IF d[1] = "specialists" THEN <<"specialists", o, "lib", s>> ELSE <<o, "lib", s>>
           lib == Get(w.dirs[d], "lib", <<>>)
<1>1. \A s : <<"specialists", o, "lib", s>> # <<"added">> /\ <<o, "lib", s>> # <<"added">>
  OBVIOUS
<1>2. <<"added">> \notin {at(s) : s \in DOMAIN lib}
  BY <1>1
<1>3. DOMAIN Attested(w, o) = {at(s) : s \in DOMAIN lib}
  BY DEF Attested
<1> QED
  BY <1>2, <1>3

LEMMA LayersStay ==
  ASSUME UNCHANGED <<pkRequest, pkVersion, pkFiles>>
  PROVE  /\ Layers(pkRequest.org)' = Layers(pkRequest.org)
         /\ Selection(Tree, pkRequest.org)' = Selection(Tree, pkRequest.org)
<1>1. Tree' = Tree
  BY DEF Tree
<1>2. Layers(pkRequest.org)' = Layers(pkRequest.org)
  BY <1>1 DEF Layers, TextOf
<1>3. Selection(Tree, pkRequest.org)' = Selection(Tree, pkRequest.org)
  BY <1>1
<1> QED
  BY <1>2, <1>3

LEMMA LayerStarts == PackInit => LayerInv
<1> SUFFICES ASSUME PackInit
             PROVE  LayerInv
  OBVIOUS
<1>1. pkStep = "collect" /\ pkVerdict = "none"
  BY DEF PackInit
<1> QED
  BY <1>1 DEF LayerInv, VerifyTells, Chosen

\* A step that neither verifies nor touches the layout or the choice of files.
LEMMA LayersAside ==
  ASSUME LayerInv, UNCHANGED <<pkRequest, pkVersion, pkEdited, pkFiles, pkLayers, pkDigests, pkEmitted, pkVerdict>>,
         pkStep \in Chosen, pkStep # "done", pkStep' = "failed" \/ (pkStep' \in Chosen \ {"shipped", "done"})
  PROVE  LayerInv'
<1>1. pkVerdict' = "none" /\ pkStep' # "shipped" /\ pkStep' # "done"
  BY DEF LayerInv
<1>2. pkStep' \in Chosen /\ ~ pkEdited' => pkFiles' = Selection(Tree, pkRequest.org)'
  BY LayersStay DEF LayerInv
<1> QED
  BY <1>1, <1>2 DEF LayerInv, VerifyTells

\* The answer itself.
LEMMA VerifiesWell ==
  ASSUME LayerInv, Verify
  PROVE  VerifyTells'
<1> DEFINE o == pkRequest.org
           anchors == pkRequest.anchors
           changed == {l \in LayerNames : pkLayers[l] # pkEmitted[l]}
           attests == "source" \in anchors /\ HasLibrary(Tree, o)
           kept == DirOf(Tree, o)[1] = "specialists" \/ PackageName(Tree, o) # o
                      \/ \E s \in DOMAIN Dir(Tree, o).lib : <<"lib", s>> \notin Collected(Dir(Tree, o))
<1>1. /\ pkStep = "shipped"
      /\ pkVerdict' = IF Verifies(anchors, o) THEN "ok" ELSE "refused"
      /\ UNCHANGED <<pkRequest, pkVersion, pkEdited, pkFiles, pkLayers, pkDigests, pkEmitted>>
  BY DEF Verify, PackProceeds
<1>2. /\ pkEmitted = [l \in LayerNames |-> pkEmitted[l]]
      /\ pkLayers = [l \in LayerNames |-> pkLayers[l]]
      /\ \A l \in LayerNames : pkLayers[l] # pkEmitted[l] =>
                pkLayers[l] = None \/ <<"added">> \in DOMAIN pkLayers[l]
      /\ pkDigests = pkLayers \/ pkDigests = pkEmitted
      /\ ~ pkEdited => pkEmitted.library = Layers(o).library /\ pkFiles = Selection(Tree, o)
  BY <1>1 DEF LayerInv, Chosen
<1>3. ASSUME Verifies(anchors, o), changed # {}
      PROVE  /\ pkLayers = pkDigests /\ "manifest" \notin anchors
             /\ "library" \in changed => pkLayers.library = None \/ ("library" \notin anchors /\ ~ attests)
  <2>1. pkLayers = pkDigests /\ pkLayers # pkEmitted
    BY <1>3 DEF Verifies
  <2>2. "manifest" \notin anchors
    BY <1>3, <2>1 DEF Verifies
  <2>3. ASSUME "library" \in changed, pkLayers.library # None
        PROVE  "library" \notin anchors /\ ~ attests
    <3>1. pkLayers.library # pkEmitted.library /\ <<"added">> \in DOMAIN pkLayers.library
      BY <1>2, <2>3
    <3>2. "library" \notin anchors
      BY <1>3, <2>1, <2>3, <3>1 DEF Verifies
    <3>3. attests => Attested(Tree, o) = pkLayers.library
      BY <1>3, <2>1, <2>3 DEF Verifies
    <3> QED
      BY <3>1, <3>2, <3>3, AttestedIsPlain
  <2> QED
    BY <2>1, <2>2, <2>3
<1>4. ASSUME ~ Verifies(anchors, o), changed = {}
      PROVE  attests /\ (pkEdited \/ kept)
  <2>1. pkLayers = pkEmitted /\ pkDigests = pkEmitted
    <3>1. \A l \in LayerNames : pkLayers[l] = pkEmitted[l]
      BY <1>4
    <3> QED
      BY <1>2, <3>1
  <2>2. attests /\ Attested(Tree, o) # pkEmitted.library
    BY <1>4, <2>1 DEF Verifies
  <2>3. ASSUME ~ pkEdited, ~ kept
        PROVE  FALSE
    <3>1. Layers(o).library = Attested(Tree, o)
      BY <1>2, <2>2, <2>3, LibraryIsAttested
    <3> QED
      BY <1>2, <2>2, <2>3, <3>1
  <2> QED
    BY <2>2, <2>3
<1>5. /\ (pkVerdict' = "ok" => Verifies(anchors, o)) /\ (pkVerdict' = "refused" => ~ Verifies(anchors, o))
      /\ Tree = World[pkVersion]
  BY <1>1 DEF Tree
<1> QED
  BY <1>1, <1>3, <1>4, <1>5 DEF VerifyTells, LayerNames

LEMMA LayerKeeps == LayerInv /\ [PackNext]_packVars => LayerInv'
<1> SUFFICES ASSUME LayerInv, [PackNext]_packVars
             PROVE  LayerInv'
  OBVIOUS
<1>s. ASSUME NEW why, PackStops(why), pkStep = "collect" \/ pkStep \in Chosen, pkStep # "done"
      PROVE  LayerInv'
  <2>1. pkStep' = "failed" /\ pkVerdict' = "none"
    BY <1>s DEF PackStops, LayerInv
  <2> QED
    BY <2>1 DEF LayerInv, VerifyTells, Chosen
<1>1. CASE Collect
  <2>1. pkStep = "collect" /\ pkVerdict = "none"
    BY <1>1 DEF Collect, LayerInv
  <2>2. CASE \E why : PackStops(why)
    BY <1>s, <2>1, <2>2
  <2>3. CASE /\ pkFiles' = Selection(Tree, pkRequest.org) /\ PackProceeds("syntax")
             /\ UNCHANGED pkVerdict
    <3>1. Tree' = Tree /\ pkRequest' = pkRequest /\ pkStep' = "syntax" /\ pkVerdict' = "none"
      BY <2>1, <2>3 DEF Tree, PackProceeds
    <3>2. pkFiles' = Selection(Tree, pkRequest.org)'
      BY <2>3, <3>1
    <3> QED
      BY <3>1, <3>2 DEF LayerInv, VerifyTells
  <2> QED
    BY <1>1, <2>2, <2>3 DEF Collect
<1>2. CASE CheckSyntax
  <2>1. pkStep = "syntax"
    BY <1>2 DEF CheckSyntax
  <2>2. CASE PackStops("syntax")
    BY <1>s, <2>1, <2>2 DEF Chosen
  <2>3. CASE PackProceeds("secrets") /\ UNCHANGED <<pkFiles, pkLayers, pkDigests, pkEmitted, pkVerdict>>
    BY <2>1, <2>3, LayersAside DEF PackProceeds, Chosen
  <2> QED
    BY <1>2, <2>2, <2>3 DEF CheckSyntax
<1>3. CASE CheckSecrets
  <2>1. pkStep = "secrets"
    BY <1>3 DEF CheckSecrets
  <2>2. CASE PackStops("secrets")
    BY <1>s, <2>1, <2>2 DEF Chosen
  <2>3. CASE PackProceeds("write") /\ UNCHANGED <<pkFiles, pkLayers, pkDigests, pkEmitted, pkVerdict>>
    BY <2>1, <2>3, LayersAside DEF PackProceeds, Chosen
  <2> QED
    BY <1>3, <2>2, <2>3 DEF CheckSecrets
<1>4. CASE WriteArchive
  <2>1. pkStep = "write"
    BY <1>4, ArchiveWrites
  <2>2. CASE PackStops("roster")
    BY <1>s, <2>1, <2>2 DEF Chosen
  <2>3. CASE PackProceeds("emit") /\ UNCHANGED <<pkFiles, pkLayers, pkDigests, pkEmitted, pkVerdict>>
    BY <2>1, <2>3, LayersAside DEF PackProceeds, Chosen
  <2> QED
    BY <1>4, <2>2, <2>3, ArchiveWrites
<1>5. CASE Emit
  <2>1. pkStep = "emit" /\ pkVerdict = "none"
    BY <1>5 DEF Emit, LayerInv
  <2>2. CASE PackStops("oras")
    BY <1>s, <2>1, <2>2 DEF Chosen
  <2>3. CASE /\ pkLayers' = Layers(pkRequest.org) /\ pkDigests' = pkLayers' /\ pkEmitted' = pkLayers'
             /\ PackProceeds("shipped") /\ UNCHANGED <<pkFiles, pkVerdict>>
    <3>1. UNCHANGED <<pkRequest, pkVersion, pkEdited, pkFiles>> /\ pkStep' = "shipped" /\ pkVerdict' = "none"
      BY <2>1, <2>3 DEF PackProceeds
    <3>2. /\ Layers(pkRequest.org)' = Layers(pkRequest.org)
          /\ Selection(Tree, pkRequest.org)' = Selection(Tree, pkRequest.org)
      BY <3>1, LayersStay
    <3>3. Layers(pkRequest.org) = [l \in LayerNames |-> Layers(pkRequest.org)[l]]
      BY DEF Layers, LayerNames
    <3>4. ~ pkEdited' => pkFiles' = Selection(Tree, pkRequest.org)'
      BY <2>1, <3>1, <3>2 DEF LayerInv, Chosen
    <3>5. /\ pkEmitted' = [l \in LayerNames |-> pkEmitted'[l]]
          /\ pkLayers' = pkEmitted' /\ pkDigests' = pkEmitted'
          /\ pkEmitted' = Layers(pkRequest.org)'
      BY <2>3, <3>2, <3>3
    <3> QED
      BY <3>1, <3>4, <3>5 DEF LayerInv, VerifyTells
  <2> QED
    BY <1>5, <2>2, <2>3 DEF Emit
<1>6. CASE Tamper
  <2>1. /\ pkStep = "shipped" /\ pkVerdict = "none" /\ pkLayers = pkEmitted
        /\ UNCHANGED <<pkRequest, pkVersion, pkEdited, pkStep, pkFiles, pkEmitted, pkVerdict>>
    BY <1>6 DEF Tamper, LayerInv
  <2>2. PICK l \in LayerNames, lost \in BOOLEAN :
           /\ pkLayers' = Tampered(l, lost)
           /\ pkDigests' = pkLayers' \/ pkDigests' = pkDigests
    BY <1>6, Zenon DEF Tamper, LayerNames
  <2>3. /\ pkEmitted = [k \in LayerNames |-> pkEmitted[k]]
        /\ pkDigests = pkEmitted
        /\ ~ pkEdited => pkEmitted.library = Layers(pkRequest.org).library
        /\ ~ pkEdited => pkFiles = Selection(Tree, pkRequest.org)
    BY <2>1 DEF LayerInv, Chosen
  <2>4. /\ Layers(pkRequest.org)' = Layers(pkRequest.org)
        /\ Selection(Tree, pkRequest.org)' = Selection(Tree, pkRequest.org)
    BY <2>1, LayersStay
  <2>5. /\ pkLayers' = [k \in LayerNames |-> pkLayers'[k]]
        /\ \A k \in LayerNames : k # l => pkLayers'[k] = pkEmitted[k]
        /\ pkLayers'[l] = None \/ pkLayers'[l] = Added(pkEmitted[l], <<"added">>, "added")
    BY <2>1, <2>2, <2>3 DEF Tampered
  <2>6. pkLayers'[l] = None \/ <<"added">> \in DOMAIN pkLayers'[l]
    BY <2>5 DEF Added
  <2>7. \A k \in LayerNames :
           pkLayers'[k] # pkEmitted'[k] => pkLayers'[k] = None \/ <<"added">> \in DOMAIN pkLayers'[k]
    BY <2>1, <2>5, <2>6
  <2> QED
    BY <2>1, <2>2, <2>3, <2>4, <2>5, <2>7 DEF LayerInv, VerifyTells
<1>7. CASE Verify
  <2>1. /\ pkStep = "shipped" /\ pkStep' = "done"
        /\ UNCHANGED <<pkRequest, pkVersion, pkEdited, pkFiles, pkLayers, pkDigests, pkEmitted>>
    BY <1>7 DEF Verify, PackProceeds
  <2>2. /\ Layers(pkRequest.org)' = Layers(pkRequest.org)
        /\ Selection(Tree, pkRequest.org)' = Selection(Tree, pkRequest.org)
    BY <2>1, LayersStay
  <2>3. VerifyTells'
    BY <1>7, VerifiesWell
  <2> QED
    BY <2>1, <2>2, <2>3 DEF LayerInv, Chosen
<1>8. CASE PackEdit
  <2>1. /\ pkEdited' = TRUE /\ pkVerdict = "none" /\ pkVerdict' = "none"
        /\ UNCHANGED <<pkStep, pkLayers, pkDigests, pkEmitted>>
    BY <1>8 DEF PackEdit, LayerInv
  <2> QED
    BY <2>1 DEF LayerInv, VerifyTells
<1>9. CASE UNCHANGED packVars
  <2>1. UNCHANGED <<pkRequest, pkVersion, pkEdited, pkStep, pkFiles, pkLayers, pkDigests, pkEmitted, pkVerdict>>
    BY <1>9 DEF packVars
  <2>2. /\ Layers(pkRequest.org)' = Layers(pkRequest.org)
        /\ Selection(Tree, pkRequest.org)' = Selection(Tree, pkRequest.org)
    BY <2>1, LayersStay
  <2>3. VerifyTells'
    BY <2>1 DEF LayerInv, VerifyTells
  <2> QED
    BY <2>1, <2>2, <2>3 DEF LayerInv
<1> QED
  BY <1>1, <1>2, <1>3, <1>4, <1>5, <1>6, <1>7, <1>8, <1>9 DEF PackNext

\* oci.py:412-436, 439-513: whatever the tree, the org and the change to the layout
\* are, a verification that passes missed only what none of its anchors reaches, or a
\* library that was left out of the layout altogether, and one that refuses an unchanged layout compared a library the layout never had.
THEOREM VerifyIsRight == PackSpec => []VerifyTells
<1>1. LayerInv => VerifyTells
  BY DEF LayerInv
<1> QED
  BY <1>1, LayerStarts, LayerKeeps, PTL DEF PackSpec

-----------------------------------------------------------------------------
(***************************************************************************)
(* The unpacked archive.                                                   *)
(***************************************************************************)

\* What the tree an archive is unpacked to has of the org: its one directory extends
\* nothing and has the whole roster, the org's agents and those of _shared that go.
Twin(w, u, o) ==
    /\ DOMAIN u.dirs = {<<"orgs", o>>}
    /\ u.dirs[<<"orgs", o>>].agentsMd
    /\ Get(u.dirs[<<"orgs", o>>].yaml, "extends", None) = None
    /\ Get(u.dirs[<<"orgs", o>>].yaml, "agents", {}) = Roster(w, o)
    /\ "malformed" \notin DOMAIN u.dirs[<<"orgs", o>>].yaml
    /\ DOMAIN u.dirs[<<"orgs", o>>].agents = DOMAIN Dir(w, o).agents
    /\ \A s \in DOMAIN Dir(w, o).agents : u.dirs[<<"orgs", o>>].agents[s] = Dir(w, o).agents[s]
    /\ DOMAIN u.shared = SharedAgents(w, o)
    /\ \A s \in SharedAgents(w, o) : u.shared[s] = w.shared[s]
    /\ {k \in Get(Dir(w, o), "skills", {}) : <<"skills", k>> \in Collected(Dir(w, o))} \cup SharedSkills(w, o)
          \subseteq u.skills

LEMMA TwinIsFound ==
  ASSUME NEW w, NEW u, NEW o, o \notin DOMAIN Bare, Twin(w, u, o)
  PROVE  DirOf(u, o) = <<"orgs", o>> /\ HasDir(u, o) /\ Dir(u, o) = u.dirs[<<"orgs", o>>]
<1> DEFINE hits == {i \in 1..Len(Roots) : <<Roots[i], o>> \in DOMAIN u.dirs}
<1>1. hits = {1}
  <2>1. Len(Roots) = 3 /\ Roots[1] = "orgs" /\ Roots[2] = "specialists" /\ Roots[3] = "extra"
    BY DEF Roots
  <2>2. ASSUME NEW i \in 1..Len(Roots)
        PROVE  i \in hits <=> i = 1
    <3>1. i = 1 \/ i = 2 \/ i = 3
      BY <2>1
    <3>2. "orgs" # "specialists" /\ "orgs" # "extra"
      OBVIOUS
    <3> QED
      BY <2>1, <3>1, <3>2 DEF Twin
  <2>3. 1 \in 1..Len(Roots)
    BY <2>1
  <2> QED
    BY <2>2, <2>3
<1>2. Min({1}) = 1
  BY DEF Min
<1>3. DirOf(u, o) = RootIn(hits, o)
  BY DEF DirOf
<1>4. DirOf(u, o) = <<"orgs", o>>
  <2> HIDE DEF hits
  <2> QED
    BY <1>1, <1>2, <1>3 DEF RootIn, Roots
<1> QED
  BY <1>4 DEF HasDir, Dir, Twin

\* It extends nothing, so that its chain is the org alone.
LEMMA TwinIsFlat ==
  ASSUME NEW w, NEW u, NEW o, o \notin DOMAIN Bare, o # None, Twin(w, u, o)
  PROVE  ~ Broken(u, o) /\ Chain(u, o) = <<o>>
<1> DEFINE up == Up(u, o)
<1>0. HasDir(u, o) /\ Dir(u, o) = u.dirs[<<"orgs", o>>]
  BY TwinIsFound
<1>1. IsFiniteSet(DOMAIN u.dirs) /\ Depth(u) = 1
  <2>1. IsFiniteSet({<<"orgs", o>>}) /\ Cardinality({<<"orgs", o>>}) = 1
    BY FS_Singleton
  <2>2. DOMAIN u.dirs = {<<"orgs", o>>}
    BY DEF Twin
  <2> QED
    BY <2>1, <2>2 DEF Depth
<1>2. up[0] = o /\ up[1] = Parent(u, o)
  <2>1. up[0] = o /\ \A k \in 1..1 : up[k] = Parent(u, up[k - 1])
    BY <1>1, UpWalks
  <2>2. up[1] = Parent(u, up[1 - 1])
    BY <2>1
  <2> QED
    BY <2>1, <2>2
<1>3. up[1] = None
  BY <1>0, <1>2 DEF Parent, Twin
<1>4. ~ Broken(u, o)
  <2>1. \A k \in 1..1 : k = 1
    OBVIOUS
  <2> QED
    BY <1>0, <1>1, <1>3, <2>1 DEF Broken, LeadsNowhere
<1>5. Cardinality({k \in 0..Depth(u) : up[k] # None}) = 1
  <2>1. {k \in 0..1 : up[k] # None} = {0}
    <3>1. \A k \in 0..1 : k = 0 \/ k = 1
      OBVIOUS
    <3> QED
      BY <1>2, <1>3, <3>1
  <2> QED
    BY <1>1, <2>1, FS_Singleton
<1>6. Chain(u, o) = [k \in 1..1 |-> up[k - 1]]
  BY <1>4, <1>5 DEF Chain
<1>7. [k \in 1..1 |-> up[k - 1]] = <<o>>
  <2>1. ASSUME NEW k \in 1..1
        PROVE  up[k - 1] = o
    <3>1. k - 1 = 0
      OBVIOUS
    <3> QED
      BY <1>2, <3>1
  <2>2. <<o>> = [k \in 1..1 |-> o]
    OBVIOUS
  <2> HIDE DEF up
  <2> QED
    BY <2>1, <2>2
<1> QED
  BY <1>4, <1>6, <1>7

LEMMA TwinHasTheRoster ==
  ASSUME NEW w, NEW u, NEW o, o \notin DOMAIN Bare, o # None, Twin(w, u, o)
  PROVE  Roster(u, o) = Roster(w, o) /\ ~ RosterFails(u, o) /\ ~ PromptFails(u, o)
<1>1. HasDir(u, o) /\ Dir(u, o) = u.dirs[<<"orgs", o>>]
  BY TwinIsFound
<1>2. Chain(u, o) = <<o>>
  BY TwinIsFlat
<1>3. ToSet(<<o>>) = {o}
  BY DEF ToSet
<1>4. RosterSources(u, o) = {o}
  BY <1>2, <1>3 DEF RosterSources
<1>5. Roster(u, o) = OwnRoster(u, o)
  BY <1>4 DEF Roster
<1>6. OwnRoster(u, o) = Roster(w, o)
  BY <1>1 DEF OwnRoster, Twin
<1>7. ~ RosterFails(u, o)
  BY <1>1, <1>4 DEF RosterFails, Twin
<1>8. ~ PromptFails(u, o)
  BY <1>1, <1>2, <1>3 DEF PromptFails, IsBase, Twin
<1> QED
  BY <1>5, <1>6, <1>7, <1>8

\* The first directory that has an agent.
LEMMA FirstHit ==
  ASSUME NEW dirs, NEW name, 1 \in 1..Len(dirs), name \in DOMAIN dirs[1]
  PROVE  FirstWith(dirs, name) = dirs[1][name]
<1> DEFINE hits == {i \in 1..Len(dirs) : name \in DOMAIN dirs[i]}
<1>1. 1 \in hits /\ \A i \in hits : i \in Int /\ 1 <= i
  OBVIOUS
<1>2. Min(hits) = 1
  <2> HIDE DEF hits
  <2>1. \E x \in hits : \A y \in hits : x <= y
    BY <1>1
  <2>2. Min(hits) \in hits /\ \A y \in hits : Min(hits) <= y
    BY <2>1 DEF Min
  <2> QED
    BY <1>1, <2>2
<1> QED
  BY <1>1, <1>2 DEF FirstWith

\* The directories an agent is looked for in begin with the org's own.
LEMMA OwnAgentsFirst ==
  ASSUME NEW v \in Versions, NEW o, o # None, ~ Broken(World[v], o), HasDir(World[v], o)
  PROVE  1 \in 1..Len(AgentDirs(World[v], o)) /\ AgentDirs(World[v], o)[1] = Dir(World[v], o).agents
<1> DEFINE w == World[v]
<1>1. PICK n \in Nat : /\ Chain(w, o) = [k \in 1..n |-> Up(w, o)[k - 1]]
                       /\ o # None => n >= 1
                       /\ n >= 1 => Up(w, o)[0] = o
  BY ChainWalks
<1>2. n \in Nat /\ n >= 1 /\ Up(w, o)[0] = o
  BY <1>1
<1> HIDE DEF w
<1>3. Len(Chain(w, o)) = n /\ Chain(w, o)[1] = o
  <2>1. 1 \in 1..n /\ 1 - 1 = 0
    BY <1>2
  <2> QED
    BY <1>1, <1>2, <2>1
<1>4. AgentDirs(w, o) = [k \in 1..n |-> Dir(w, Chain(w, o)[k]).agents] \o <<w.shared>>
  BY <1>3 DEF AgentDirs, AgentsOf, w
<1> DEFINE f == [k \in 1..n |-> Dir(w, Chain(w, o)[k]).agents]
           T == {f[k] : k \in 1..n} \cup {w.shared}
<1>5. f \in Seq(T) /\ Len(f) = n /\ <<w.shared>> \in Seq(T) /\ Len(<<w.shared>>) = 1
  <2>1. f \in [1..n -> T]
    OBVIOUS
  <2>2. <<w.shared>> \in Seq(T) /\ Len(<<w.shared>>) = 1
    OBVIOUS
  <2> HIDE DEF T
  <2>3. f \in Seq(T)
    BY <1>2, <2>1
  <2> QED
    BY <1>2, <2>2, <2>3
<1>6. f[1] = Dir(w, o).agents
  BY <1>2, <1>3
<1> HIDE DEF f, T
<1>7. Len(f \o <<w.shared>>) = n + 1 /\ (f \o <<w.shared>>)[1] = f[1]
  BY <1>2, <1>5, ConcatProperties
<1> QED
  BY <1>2, <1>4, <1>6, <1>7 DEF f, w

\* The agents that go with the archive, under the file they have in the tree.
Goes(w, o, h) ==
    \/ h \in DOMAIN Dir(w, o).agents
    \/ h \in SharedAgents(w, o) /\ AgentFile(w, o, h) = w.shared[h]

LEMMA TwinHasTheFile ==
  ASSUME NEW v \in Versions, NEW u, NEW o, o \notin DOMAIN Bare, o # None,
         ~ Broken(World[v], o), HasDir(World[v], o),
         Twin(World[v], u, o), NEW h, h \notin DOMAIN Bare, Goes(World[v], o, h)
  PROVE  AgentFile(u, o, h) = AgentFile(World[v], o, h)
<1> DEFINE w == World[v]
           e == u.dirs[<<"orgs", o>>]
<1>1. AgentFile(w, o, h) = FirstWith(AgentDirs(w, o), h) /\ AgentFile(u, o, h) = FirstWith(AgentDirs(u, o), h)
  BY DEF AgentFile, Strip, Get
<1>2. 1 \in 1..Len(AgentDirs(w, o)) /\ AgentDirs(w, o)[1] = Dir(w, o).agents
  BY OwnAgentsFirst
<1>3. AgentDirs(u, o) = <<e.agents, u.shared>>
  <2>1. HasDir(u, o) /\ Dir(u, o) = e /\ Chain(u, o) = <<o>>
    BY TwinIsFound, TwinIsFlat
  <2>2. AgentDirs(u, o) = [k \in 1..1 |-> Dir(u, <<o>>[k]).agents] \o <<u.shared>>
    BY <2>1 DEF AgentDirs, AgentsOf
  <2>3. [k \in 1..1 |-> Dir(u, <<o>>[k]).agents] = <<e.agents>>
    <3> HIDE DEF e
    <3>1. \A k \in 1..1 : Dir(u, <<o>>[k]).agents = e.agents
      BY <2>1
    <3>2. <<e.agents>> = [k \in 1..1 |-> e.agents]
      OBVIOUS
    <3> QED
      BY <3>1, <3>2
  <2>4. <<e.agents>> \o <<u.shared>> = <<e.agents, u.shared>>
    BY PrefixedOne
  <2> HIDE DEF e
  <2> QED
    BY <2>2, <2>3, <2>4
<1>4. CASE h \in DOMAIN Dir(w, o).agents
  <2>1. AgentFile(w, o, h) = Dir(w, o).agents[h]
    BY <1>1, <1>2, <1>4, FirstHit
  <2>2. h \in DOMAIN e.agents /\ e.agents[h] = Dir(w, o).agents[h]
    BY <1>4 DEF Twin
  <2>3. 1 \in 1..Len(<<e.agents, u.shared>>) /\ <<e.agents, u.shared>>[1] = e.agents
    OBVIOUS
  <2> HIDE DEF e
  <2>4. FirstWith(<<e.agents, u.shared>>, h) = e.agents[h]
    BY <2>2, <2>3, FirstHit
  <2> QED
    BY <1>1, <1>3, <2>1, <2>2, <2>4
<1>5. CASE h \notin DOMAIN Dir(w, o).agents
  <2>1. h \in SharedAgents(w, o) /\ AgentFile(w, o, h) = w.shared[h]
    BY <1>5 DEF Goes
  <2>2. h \notin DOMAIN e.agents /\ h \in DOMAIN u.shared /\ u.shared[h] = w.shared[h]
    BY <1>5, <2>1 DEF Twin
  <2> DEFINE dirs == <<e.agents, u.shared>>
  <2>3. {i \in 1..Len(dirs) : h \in DOMAIN dirs[i]} = {2}
    <3> HIDE DEF e
    <3>1. Len(dirs) = 2 /\ dirs[1] = e.agents /\ dirs[2] = u.shared
      OBVIOUS
    <3>2. \A i \in 1..2 : i = 1 \/ i = 2
      OBVIOUS
    <3> QED
      BY <2>2, <3>1, <3>2
  <2>4. Min({2}) = 2 /\ dirs[2] = u.shared
    BY DEF Min
  <2> HIDE DEF dirs
  <2>5. FirstWith(dirs, h) = u.shared[h]
    BY <2>3, <2>4 DEF FirstWith
  <2> QED
    BY <1>1, <1>3, <2>1, <2>2, <2>5 DEF dirs
<1> QED
  BY <1>4, <1>5

-----------------------------------------------------------------------------
\* A walk that ends meets no agent twice: from the second time on it would go as it
\* went from the first.
LEMMA WalkMeetsEachOnce ==
  ASSUME NEW w, NEW o, NEW slug, IsFiniteSet(AgentNames(w)), slug # None,
         NEW hop, hop = Hops(w, o, slug), NEW root, root = Max(Named(hop)), Named(hop) # DOMAIN hop
  PROVE  /\ root + 1 \in DOMAIN hop /\ hop[root + 1] = None
         /\ \A i, j \in 0..root : hop[i] = hop[j] => i = j
<1> DEFINE m == 2 * Cardinality(AgentNames(w))
<1>1. WalksOn(w, o, slug, hop, m)
  BY HopsWalk
<1> HIDE DEF m
<1>2. m \in Nat /\ DOMAIN hop = 0..m /\ \A k \in 1..m : hop[k] = Hop(w, o, hop[k - 1])
  BY <1>1 DEF WalksOn
<1>3. root \in Nat /\ Named(hop) = 0..root
  BY NamedAreFirst
<1>4. 0..root \subseteq 0..m
  BY <1>2, <1>3 DEF Named
<1>5. root < m
  <2>1. root \in 0..m
    BY <1>3, <1>4
  <2>2. root # m
    BY <1>2, <1>3
  <2> QED
    BY <1>2, <2>1, <2>2
<1>6. root + 1 \in 0..m /\ root + 1 \notin Named(hop)
  <2>1. root + 1 \in 0..m
    BY <1>2, <1>3, <1>5
  <2>2. root + 1 \notin 0..root
    BY <1>3
  <2> QED
    BY <1>3, <2>1, <2>2
<1>7. hop[root + 1] = None
  BY <1>2, <1>6 DEF Named
<1>8. ASSUME NEW i \in 0..root, NEW j \in 0..root, i < j
      PROVE  hop[i] # hop[j]
  <2> SUFFICES ASSUME hop[i] = hop[j] PROVE FALSE
    OBVIOUS
  <2> DEFINE S == {t \in Nat : j + t \in 0..m => hop[i + t] = hop[j + t]}
  <2>1. 0 \in S
    BY <1>3
  <2>2. ASSUME NEW t \in Nat, t \in S
        PROVE  t + 1 \in S
    <3> SUFFICES ASSUME j + (t + 1) \in 0..m
                 PROVE  hop[i + (t + 1)] = hop[j + (t + 1)]
      OBVIOUS
    <3>0. i \in Nat /\ j \in Nat /\ i < j
      BY <1>3, <1>8
    <3>1. j + t \in 0..m /\ j + (t + 1) \in 1..m /\ i + (t + 1) \in 1..m
      BY <1>2, <3>0
    <3>2. hop[i + t] = hop[j + t]
      BY <2>2, <3>1
    <3>3. (j + (t + 1)) - 1 = j + t /\ (i + (t + 1)) - 1 = i + t
      BY <3>0
    <3>4. hop[j + (t + 1)] = Hop(w, o, hop[j + t]) /\ hop[i + (t + 1)] = Hop(w, o, hop[i + t])
      BY <1>2, <3>1, <3>3
    <3> QED
      BY <3>2, <3>4
  <2>3. \A n \in Nat : n \in S
    <3> HIDE DEF S
    <3> QED
      BY <2>1, <2>2, InductionBySet
  <2> DEFINE t == (root + 1) - j
  <2>4. t \in Nat /\ j + t = root + 1 /\ i + t \in 0..root
    BY <1>3, <1>8
  <2> HIDE DEF t
  <2>5. hop[i + t] = hop[root + 1]
    <3>1. t \in S /\ j + t \in 0..m
      BY <1>6, <2>3, <2>4
    <3> QED
      BY <2>4, <3>1
  <2>6. hop[i + t] # None
    BY <1>3, <2>4 DEF Named
  <2> QED
    BY <1>7, <2>5, <2>6
<1> QED
  <2>1. ASSUME NEW i \in 0..root, NEW j \in 0..root, hop[i] = hop[j]
        PROVE  i = j
    <3>1. i < j \/ j < i \/ i = j
      BY <1>3
    <3> QED
      BY <1>8, <2>1, <3>1
  <2> QED
    BY <1>2, <1>6, <1>7, <2>1

\* So it has no more steps than there are agents where it goes.
LEMMA WalkIsShort ==
  ASSUME NEW T, IsFiniteSet(T), NEW root \in Nat, NEW hop,
         \A k \in 0..root : hop[k] \in T,
         \A i, j \in 0..root : hop[i] = hop[j] => i = j
  PROVE  Cardinality(T) \in Nat /\ root + 1 <= Cardinality(T)
<1> DEFINE f == [k \in 0..root |-> hop[k]]
<1>1. f \in Injection(0..root, T)
  BY DEF Injection, IsInjective
<1>2. Cardinality(0..root) = root + 1
  BY FS_Interval
<1> HIDE DEF f
<1>3. Cardinality(0..root) <= Cardinality(T)
  BY <1>1, FS_Injection
<1> QED
  BY <1>2, <1>3, FS_CardinalityType

\* Every agent a spec is made of goes with the archive.
SpecGoes(w, o, slug) ==
    /\ slug # None /\ ~ SpecFails(w, o, slug)
    /\ \A k \in Named(Hops(w, o, slug)) : Goes(w, o, Hops(w, o, slug)[k])

\* The org of a tree, and what is asked of it before it is packed.
Packs(v, o) ==
    /\ v \in Versions
    /\ o \notin DOMAIN Bare /\ o # None
    /\ ~ Broken(World[v], o) /\ HasDir(World[v], o)

LEMMA WhatGoesIsBare ==
  ASSUME NEW v, NEW o, NEW h, Packs(v, o), Goes(World[v], o, h)
  PROVE  h \notin DOMAIN Bare
<1>1. DirOf(World[v], o) \in DOMAIN World[v].dirs /\ v \in Versions
  BY DEF Packs, HasDir
<1>2. h \in DOMAIN Dir(World[v], o).agents \/ h \in DOMAIN World[v].shared
  BY DEF Goes, SharedAgents
<1> QED
  BY <1>1, <1>2, FilesHaveBareNames DEF Dir

LEMMA TwinKeepsTheFile ==
  ASSUME NEW v, NEW u, NEW o, NEW h, Packs(v, o), Twin(World[v], u, o), Goes(World[v], o, h)
  PROVE  AgentFile(u, o, h) = AgentFile(World[v], o, h)
  BY WhatGoesIsBare, TwinHasTheFile DEF Packs

LEMMA TwinHasTheAgents ==
  ASSUME NEW v, NEW u, NEW o, Packs(v, o), Twin(World[v], u, o)
  PROVE  /\ IsFiniteSet(AgentNames(u))
         /\ \A h : Goes(World[v], o, h) => h \in AgentNames(u)
<1> DEFINE w == World[v]
           e == u.dirs[<<"orgs", o>>]
<1>1. AgentNames(u) = SharedAgents(w, o) \cup DOMAIN Dir(w, o).agents
  BY DEF AgentNames, Twin
<1>2. v \in Versions /\ DirOf(w, o) \in DOMAIN w.dirs
  BY DEF Packs, HasDir
<1>3. IsFiniteSet(DOMAIN w.shared) /\ IsFiniteSet(DOMAIN Dir(w, o).agents)
  BY <1>2, FilesAreFinite DEF Dir
<1>4. SharedAgents(w, o) \subseteq DOMAIN w.shared
  BY DEF SharedAgents
<1>5. IsFiniteSet(SharedAgents(w, o))
  BY <1>3, <1>4, FS_Subset
<1>6. IsFiniteSet(AgentNames(u))
  BY <1>1, <1>3, <1>5, FS_Union
<1> QED
  BY <1>1, <1>6 DEF Goes

LEMMA TwinWalksTheSame ==
  ASSUME NEW v, NEW u, NEW o, NEW slug, Packs(v, o), Twin(World[v], u, o), SpecGoes(World[v], o, slug),
         NEW hop, hop = Hops(World[v], o, slug), NEW there, there = Hops(u, o, slug),
         NEW root, root = Max(Named(hop))
  PROVE  /\ root \in Nat /\ Named(hop) = 0..root
         /\ Named(there) = 0..root /\ root = Max(Named(there)) /\ Named(there) # DOMAIN there
         /\ \A k \in 0..root : there[k] = hop[k]
<1> DEFINE w == World[v]
           m == 2 * Cardinality(AgentNames(u))
<1>1. IsFiniteSet(AgentNames(w)) /\ IsFiniteSet(AgentNames(u)) /\ slug # None
  BY AgentsAreFinite, TwinHasTheAgents DEF Packs, SpecGoes
<1>2. root \in Nat /\ Named(hop) = 0..root
  BY <1>1, NamedAreFirst
<1>3. Named(hop) # DOMAIN hop
  BY DEF SpecGoes, SpecFails, UnusableHops
<1>4. /\ root + 1 \in DOMAIN hop /\ hop[root + 1] = None
      /\ \A i, j \in 0..root : hop[i] = hop[j] => i = j
  BY <1>1, <1>3, WalkMeetsEachOnce
<1>5. \A k \in 0..root : hop[k] # None /\ Goes(w, o, hop[k])
  BY <1>2 DEF SpecGoes, Named
<1>6. \A k \in 0..root : hop[k] \in AgentNames(u)
  BY <1>5, TwinHasTheAgents
<1>7. Cardinality(AgentNames(u)) \in Nat /\ root + 1 <= Cardinality(AgentNames(u))
  BY <1>1, <1>2, <1>4, <1>6, WalkIsShort
<1>8. m \in Nat /\ root + 1 <= m
  <2> DEFINE c == Cardinality(AgentNames(u))
  <2>1. c \in Nat /\ root + 1 <= c
    BY <1>7
  <2> HIDE DEF c
  <2>2. 2 * c \in Nat /\ root + 1 <= 2 * c
    BY <1>2, <2>1
  <2> QED
    BY <2>2 DEF c
<1>9. WalksOn(u, o, slug, there, m) /\ WalksOn(w, o, slug, hop, 2 * Cardinality(AgentNames(w)))
  BY <1>1, HopsWalk
<1> HIDE DEF m
<1>10. DOMAIN there = 0..m /\ there[0] = slug /\ \A k \in 1..m : there[k] = Hop(u, o, there[k - 1])
  BY <1>9 DEF WalksOn
<1>11. hop[0] = slug /\ \A k \in DOMAIN hop \ {0} : hop[k] = Hop(w, o, hop[k - 1])
  <2> DEFINE n == 2 * Cardinality(AgentNames(w))
  <2>1. n \in Nat /\ DOMAIN hop = 0..n /\ hop[0] = slug /\ \A k \in 1..n : hop[k] = Hop(w, o, hop[k - 1])
    BY <1>9 DEF WalksOn
  <2> HIDE DEF n
  <2> QED
    BY <2>1
<1>12. \A k \in 1..(root + 1) : k \in DOMAIN hop \ {0}
  <2> DEFINE n == 2 * Cardinality(AgentNames(w))
  <2>1. n \in Nat /\ DOMAIN hop = 0..n
    BY <1>9 DEF WalksOn
  <2> HIDE DEF n
  <2> QED
    BY <1>2, <1>4, <2>1
<1> DEFINE S == {k \in Nat : k \in 0..(root + 1) => there[k] = hop[k]}
<1>13. 0 \in S
  BY <1>10, <1>11
<1>14. ASSUME NEW k \in Nat, k \in S
       PROVE  k + 1 \in S
  <2> SUFFICES ASSUME k + 1 \in 0..(root + 1)
               PROVE  there[k + 1] = hop[k + 1]
    OBVIOUS
  <2>1. k \in 0..root /\ k \in 0..(root + 1) /\ k + 1 \in 1..(root + 1) /\ k + 1 \in 1..m /\ (k + 1) - 1 = k
    BY <1>2, <1>8
  <2>2. there[k] = hop[k]
    BY <1>14, <2>1
  <2>3. there[k + 1] = Hop(u, o, hop[k])
    BY <1>10, <2>1, <2>2
  <2>4. hop[k + 1] = Hop(w, o, hop[k])
    BY <1>11, <1>12, <2>1
  <2>5. AgentFile(u, o, hop[k]) = AgentFile(w, o, hop[k])
    BY <1>5, <2>1, TwinKeepsTheFile
  <2> QED
    BY <2>3, <2>4, <2>5 DEF Hop
<1>15. \A k \in 0..(root + 1) : there[k] = hop[k]
  <2>1. \A k \in Nat : k \in S
    <3> HIDE DEF S
    <3> QED
      BY <1>13, <1>14, InductionBySet
  <2> QED
    BY <1>2, <2>1
<1> HIDE DEF S
<1>16. root \in Named(there) /\ root + 1 \notin Named(there) /\ root + 1 \in DOMAIN there
  <2>1. root \in 0..(root + 1) /\ root \in 0..root /\ root + 1 \in 0..(root + 1) /\ root \in 0..m /\ root + 1 \in 0..m
    BY <1>2, <1>8
  <2>2. there[root] = hop[root] /\ there[root + 1] = hop[root + 1]
    BY <1>15, <2>1
  <2> QED
    BY <1>4, <1>5, <1>10, <2>1, <2>2 DEF Named
<1> DEFINE last == Max(Named(there))
<1>17. last \in Nat /\ Named(there) = 0..last
  BY <1>1, NamedAreFirst
<1>18. last = root
  <2> HIDE DEF last
  <2> QED
    BY <1>2, <1>16, <1>17
<1> HIDE DEF last
<1>19. \A k \in 0..root : k \in 0..(root + 1)
  BY <1>2
<1> QED
  BY <1>2, <1>15, <1>16, <1>17, <1>18, <1>19 DEF last

LEMMA TwinHasTheSpec ==
  ASSUME NEW v, NEW u, NEW o, NEW slug, Packs(v, o), Twin(World[v], u, o), SpecGoes(World[v], o, slug)
  PROVE  Spec(u, o, slug) = Spec(World[v], o, slug) /\ ~ SpecFails(u, o, slug)
<1> DEFINE w == World[v]
           hop == Hops(w, o, slug)
           there == Hops(u, o, slug)
           root == Max(Named(hop))
<1>1. /\ root \in Nat /\ Named(hop) = 0..root
      /\ Named(there) = 0..root /\ root = Max(Named(there)) /\ Named(there) # DOMAIN there
      /\ \A k \in 0..root : there[k] = hop[k]
  BY TwinWalksTheSame
<1>2. \A k \in 0..root : Goes(w, o, hop[k])
  BY <1>1 DEF SpecGoes
<1> HIDE DEF root
<1>3. \A k \in 0..root : AgentFile(u, o, there[k]) = AgentFile(w, o, hop[k])
  BY <1>1, <1>2, TwinKeepsTheFile
<1>4. ~ SpecFails(u, o, slug)
  <2>1. \A k \in 0..root : ~ Unusable(AgentFile(w, o, hop[k]))
    BY <1>1 DEF SpecGoes, SpecFails, UnusableHops
  <2> QED
    BY <1>1, <1>3, <2>1 DEF SpecFails, UnusableHops
<1>5. \A k \in 0..root : File(u, o, there, k) = File(w, o, hop, k)
  BY <1>3 DEF File
<1>6. root \in Nat /\ root = Max(Named(hop)) /\ root = Max(Named(there))
  BY <1>1 DEF root
<1> HIDE DEF hop, there
<1>m. PICK merged : Lays(w, o, hop, root, merged)
  BY <1>6, LaidOverWalks
<1>n. PICK laid : Lays(u, o, there, root, laid)
  BY <1>6, LaidOverWalks
<1> DEFINE S == {k \in Nat : k \in 0..root => laid[k] = merged[k]}
<1>7. 0 \in S
  <2>1. root \in 0..root
    BY <1>6
  <2> QED
    BY <1>m, <1>n, <1>5, <2>1 DEF Lays
<1>8. ASSUME NEW k \in Nat, k \in S
      PROVE  k + 1 \in S
  <2> SUFFICES ASSUME k + 1 \in 0..root
               PROVE  laid[k + 1] = merged[k + 1]
    OBVIOUS
  <2>1. k \in 0..root /\ k + 1 \in 1..root /\ (k + 1) - 1 = k /\ root - (k + 1) \in 0..root
    BY <1>6
  <2>2. laid[k] = merged[k]
    BY <1>8, <2>1
  <2>3. laid[k + 1] = Merge(laid[k], Delta(File(u, o, there, root - (k + 1))))
    BY <1>n, <2>1 DEF Lays
  <2>4. merged[k + 1] = Merge(merged[k], Delta(File(w, o, hop, root - (k + 1))))
    BY <1>m, <2>1 DEF Lays
  <2>5. File(u, o, there, root - (k + 1)) = File(w, o, hop, root - (k + 1))
    BY <1>5, <2>1
  <2> QED
    BY <2>2, <2>3, <2>4, <2>5
<1>9. laid[root] = merged[root]
  <2>1. root \in S
    <3> HIDE DEF S
    <3> QED
      BY <1>6, <1>7, <1>8, InductionBySet
  <2> QED
    BY <1>6, <2>1
<1>10. LaidOver(u, o, there) = LaidOver(w, o, hop)
  BY <1>m, <1>n, <1>9 DEF Lays
<1> QED
  BY <1>4, <1>10 DEF Spec, hop, there

\* So the kit makes of it what it makes of the org.
LEMMA TwinIsTheSame ==
  ASSUME NEW v, NEW u, NEW o, Packs(v, o), Twin(World[v], u, o),
         ~ KitFails(World[v], o), ~ LeftBehind(World[v], o)
  PROVE  SameOrg(World[v], u, o)
<1> DEFINE w == World[v]
<1>1. Roster(u, o) = Roster(w, o) /\ ~ RosterFails(u, o) /\ ~ PromptFails(u, o)
  BY TwinHasTheRoster DEF Packs
<1>2. ASSUME NEW s \in Roster(w, o)
      PROVE  /\ Spec(u, o, s) = Spec(w, o, s) /\ ~ SpecFails(u, o, s)
             /\ ~ SkillsFail(u, Spec(u, o, s))
  <2>1. s # None
    BY RostersName DEF Packs
  <2>2. ~ SpecFails(w, o, s)
    BY DEF KitFails
  <2>3. ASSUME NEW k \in Named(Hops(w, o, s))
        PROVE  Goes(w, o, Hops(w, o, s)[k])
    <3>1. Hops(w, o, s)[k] \in {h \in {Hops(w, o, s)[i] : i \in DOMAIN Hops(w, o, s)} : h # None}
      BY DEF Named
    <3> QED
      BY <3>1, Zenon DEF LeftBehind, Goes
  <2>4. SpecGoes(w, o, s)
    BY <2>1, <2>2, <2>3 DEF SpecGoes
  <2>5. Spec(u, o, s) = Spec(w, o, s) /\ ~ SpecFails(u, o, s)
    BY <2>4, TwinHasTheSpec
  <2>6. Get(Spec(w, o, s), "skills", {}) \subseteq
           {k \in Get(Dir(w, o), "skills", {}) : <<"skills", k>> \in Collected(Dir(w, o))} \cup SharedSkills(w, o)
    BY Zenon DEF LeftBehind
  <2>7. ~ SkillsFail(u, Spec(u, o, s))
    BY <2>5, <2>6 DEF SkillsFail, Twin
  <2> QED
    BY <2>5, <2>7
<1> QED
  BY <1>1, <1>2 DEF SameOrg, KitFails

-----------------------------------------------------------------------------
\* The paths of shared files, and of the files of the org's own directory.
SharedOne(w, o, p) ==
    \/ \E s \in SharedAgents(w, o) : p = <<"shared", "agents", s>>
    \/ \E s \in SharedSkills(w, o) : p = <<"shared", "skills", s>>
    \/ \E s : p = <<"shared", "sandbox", s>>
    \/ \E s : p = <<"shared", s>>
OwnOne(w, o, p) ==
    \/ \E a : p = <<o, a>> /\ <<a>> \in Collected(Dir(w, o))
    \/ \E a, b : p = <<o, a, b>> /\ <<a, b>> \in Collected(Dir(w, o))

LEMMA SharedOrOwn ==
  ASSUME NEW w, NEW o, PackageName(w, o) = o, NEW p \in DOMAIN Selection(w, o)
  PROVE  (p[1] = "shared" /\ SharedOne(w, o, p)) \/ (p[1] = o /\ OwnOne(w, o, p))
<1> DEFINE own == {<<PackageName(w, o)>> \o q : q \in Collected(Dir(w, o))}
           shared == {<<"shared", "agents", s>> : s \in SharedAgents(w, o)}
                        \cup {<<"shared", "skills", s>> : s \in SharedSkills(w, o)}
                        \cup {<<"shared", "sandbox", s>> : s \in SharedHelpers(w, o)}
                        \cup {<<"shared", s>> : s \in SharedCatalog(w, o)}
<1>1. DOMAIN Selection(w, o) = own \cup shared
  BY Zenon DEF Selection
<1>2. CASE p \in shared
  <2>1. SharedOne(w, o, p)
    BY <1>2 DEF SharedOne
  <2>2. p[1] = "shared"
    BY <2>1 DEF SharedOne
  <2> QED
    BY <2>1, <2>2
<1>3. CASE p \in own
  <2>1. PICK q \in Collected(Dir(w, o)) : p = <<o>> \o q
    BY <1>3
  <2>2. q \in PathsIn(Dir(w, o))
    BY DEF Collected
  <2>3. (\E a : q = <<a>>) \/ (\E a, b : q = <<a, b>>)
    BY <2>2, PathsAreShort
  <2>4. CASE \E a : q = <<a>>
    <3>1. PICK a : q = <<a>> /\ p = <<o, a>>
      BY <2>1, <2>4, PrefixedOne
    <3> QED
      BY <3>1 DEF OwnOne
  <2>5. CASE \E a, b : q = <<a, b>>
    <3>1. PICK a, b : q = <<a, b>> /\ p = <<o, a, b>>
      BY <2>1, <2>5, PrefixedTwo
    <3> QED
      BY <3>1 DEF OwnOne
  <2> QED
    BY <2>3, <2>4, <2>5
<1> HIDE DEF own, shared
<1> QED
  BY <1>1, <1>2, <1>3

LEMMA OwnIsSelected ==
  ASSUME NEW w, NEW o, PackageName(w, o) = o
  PROVE  /\ \A a : <<a>> \in Collected(Dir(w, o)) => <<o, a>> \in DOMAIN Selection(w, o)
         /\ \A a, b : <<a, b>> \in Collected(Dir(w, o)) => <<o, a, b>> \in DOMAIN Selection(w, o)
         /\ \A s \in SharedAgents(w, o) : <<"shared", "agents", s>> \in DOMAIN Selection(w, o)
         /\ \A s \in SharedSkills(w, o) : <<"shared", "skills", s>> \in DOMAIN Selection(w, o)
<1> DEFINE own == {<<PackageName(w, o)>> \o q : q \in Collected(Dir(w, o))}
           shared == {<<"shared", "agents", s>> : s \in SharedAgents(w, o)}
                        \cup {<<"shared", "skills", s>> : s \in SharedSkills(w, o)}
                        \cup {<<"shared", "sandbox", s>> : s \in SharedHelpers(w, o)}
                        \cup {<<"shared", s>> : s \in SharedCatalog(w, o)}
<1>1. DOMAIN Selection(w, o) = own \cup shared
  BY Zenon DEF Selection
<1>2. ASSUME NEW q \in Collected(Dir(w, o))
      PROVE  <<o>> \o q \in own
  OBVIOUS
<1>3. \A a : <<a>> \in Collected(Dir(w, o)) => <<o, a>> \in own
  BY <1>2, PrefixedOne
<1>4. \A a, b : <<a, b>> \in Collected(Dir(w, o)) => <<o, a, b>> \in own
  BY <1>2, PrefixedTwo
<1>5. \A s \in SharedAgents(w, o) : <<"shared", "agents", s>> \in shared
  OBVIOUS
<1>6. \A s \in SharedSkills(w, o) : <<"shared", "skills", s>> \in shared
  OBVIOUS
<1> HIDE DEF own, shared
<1> QED
  BY <1>1, <1>3, <1>4, <1>5, <1>6

\* What the selection has in a directory.
LEMMA WhatIsUnder ==
  ASSUME NEW w, NEW o, PackageName(w, o) = o, o # "shared"
  PROVE  /\ \A dir, s : s \in Under(DOMAIN Selection(w, o), o, dir) <=> <<dir, s>> \in Collected(Dir(w, o))
         /\ Under(DOMAIN Selection(w, o), "shared", "agents") = SharedAgents(w, o)
         /\ Under(DOMAIN Selection(w, o), "shared", "skills") = SharedSkills(w, o)
         /\ \A a : <<o, a>> \in DOMAIN Selection(w, o) => <<a>> \in Collected(Dir(w, o))
<1> DEFINE S == DOMAIN Selection(w, o)
<1>1. ASSUME NEW n, NEW dir, NEW s, <<n, dir, s>> \in S
      PROVE  s \in Under(S, n, dir)
  <2>1. <<n, dir, s>> \in {q \in S : Len(q) = 3 /\ q[1] = n /\ q[2] = dir} /\ <<n, dir, s>>[3] = s
    BY <1>1
  <2> HIDE DEF S
  <2> QED
    BY <2>1 DEF Under
<1>2. ASSUME NEW dir, NEW s, s \in Under(S, o, dir)
      PROVE  <<dir, s>> \in Collected(Dir(w, o))
  <2>1. PICK p \in S : Len(p) = 3 /\ p[1] = o /\ p[2] = dir /\ p[3] = s
    BY <1>2 DEF Under
  <2>2. OwnOne(w, o, p)
    BY <2>1, SharedOrOwn
  <2>3. PICK a, b : p = <<o, a, b>> /\ <<a, b>> \in Collected(Dir(w, o))
    <3>1. ~ \E a : p = <<o, a>>
      BY <2>1
    <3> QED
      BY <2>2, <3>1 DEF OwnOne
  <2>4. a = dir /\ b = s
    BY <2>1, <2>3
  <2> QED
    BY <2>3, <2>4
<1>3. ASSUME NEW dir \in {"agents", "skills"}, NEW s, s \in Under(S, "shared", dir)
      PROVE  IF dir = "agents" THEN s \in SharedAgents(w, o) ELSE s \in SharedSkills(w, o)
  <2>1. PICK p \in S : Len(p) = 3 /\ p[1] = "shared" /\ p[2] = dir /\ p[3] = s
    BY <1>3 DEF Under
  <2>2. SharedOne(w, o, p)
    BY <2>1, SharedOrOwn
  <2>3. \/ \E k \in SharedAgents(w, o) : p = <<"shared", "agents", k>>
        \/ \E k \in SharedSkills(w, o) : p = <<"shared", "skills", k>>
        \/ \E k : p = <<"shared", "sandbox", k>>
        \/ \E k : p = <<"shared", k>>
    BY <2>2 DEF SharedOne
  <2>4. CASE \E k \in SharedAgents(w, o) : p = <<"shared", "agents", k>>
    BY <2>1, <2>4
  <2>5. CASE \E k \in SharedSkills(w, o) : p = <<"shared", "skills", k>>
    BY <2>1, <2>5
  <2>6. CASE \E k : p = <<"shared", "sandbox", k>>
    BY <2>1, <2>6
  <2>7. CASE \E k : p = <<"shared", k>>
    BY <2>1, <2>7
  <2> QED
    BY <2>3, <2>4, <2>5, <2>6, <2>7
<1>4. ASSUME NEW a, <<o, a>> \in S
      PROVE  <<a>> \in Collected(Dir(w, o))
  <2>1. <<o, a>>[1] # "shared"
    OBVIOUS
  <2>0. OwnOne(w, o, <<o, a>>)
    BY <1>4, <2>1, SharedOrOwn
  <2>2. \/ \E b : <<o, a>> = <<o, b>> /\ <<b>> \in Collected(Dir(w, o))
        \/ \E b, c : <<o, a>> = <<o, b, c>>
    BY <2>0, Zenon DEF OwnOne
  <2>3. ~ \E b, c : <<o, a>> = <<o, b, c>>
    OBVIOUS
  <2> QED
    BY <2>2, <2>3
<1>5. \A dir, s : <<dir, s>> \in Collected(Dir(w, o)) => <<o, dir, s>> \in S
  BY OwnIsSelected
<1>6. /\ \A s \in SharedAgents(w, o) : <<"shared", "agents", s>> \in S
      /\ \A s \in SharedSkills(w, o) : <<"shared", "skills", s>> \in S
  BY OwnIsSelected
<1> HIDE DEF S
<1>7. \A dir, s : s \in Under(S, o, dir) <=> <<dir, s>> \in Collected(Dir(w, o))
  BY <1>1, <1>2, <1>5
<1>8. Under(S, "shared", "agents") = SharedAgents(w, o)
  BY <1>1, <1>3, <1>6
<1>9. Under(S, "shared", "skills") = SharedSkills(w, o)
  BY <1>1, <1>3, <1>6
<1> QED
  BY <1>4, <1>7, <1>8, <1>9 DEF S

\* An org whose chain is longer than itself extends another one.
LEMMA LongChainExtends ==
  ASSUME NEW v, NEW o, Packs(v, o)
  PROVE  /\ Len(Chain(World[v], o)) > 1 => Parent(World[v], o) # None
         /\ ~ (Len(Chain(World[v], o)) > 1) => Parent(World[v], o) = None /\ Chain(World[v], o) = <<o>>
<1> DEFINE w == World[v]
           up == Up(w, o)
           D == Depth(w)
           A == {k \in 0..D : up[k] # None}
           n == Cardinality(A)
<1>0. v \in Versions /\ o # None /\ ~ Broken(w, o) /\ HasDir(w, o)
  BY DEF Packs
<1>1. IsFiniteSet(DOMAIN w.dirs) /\ DOMAIN w.dirs # {}
  BY <1>0, FilesAreFinite DEF HasDir
<1>2. D \in Nat /\ D # 0
  BY <1>1, FS_CardinalityType, FS_EmptySet DEF Depth
<1>3. up[0] = o /\ up[1] = Parent(w, o)
  <2>1. up[0] = o /\ \A k \in 1..D : up[k] = Parent(w, up[k - 1])
    BY <1>1, UpWalks
  <2>2. 1 \in 1..D /\ 1 - 1 = 0
    BY <1>2
  <2> QED
    BY <2>1, <2>2
<1>4. IsFiniteSet(A) /\ n \in Nat
  <2>1. IsFiniteSet(0..D)
    BY <1>2, FS_Interval
  <2>2. A \subseteq 0..D
    OBVIOUS
  <2> QED
    BY <2>1, <2>2, FS_Subset, FS_CardinalityType
<1>5. Chain(w, o) = [k \in 1..n |-> up[k - 1]]
  BY <1>0 DEF Chain
<1>6. Len(Chain(w, o)) = n
  <2> HIDE DEF n
  <2> QED
    BY <1>4, <1>5
<1>7. Parent(w, o) = None => A = {0}
  <2> SUFFICES ASSUME Parent(w, o) = None PROVE A = {0}
    OBVIOUS
  <2>1. ASSUME NEW k \in 1..D
        PROVE  up[k] = None
    <3>1. 1 \in 0..Depth(w) /\ k \in 1..Depth(w)
      BY <1>2
    <3> QED
      BY <1>1, <1>3, <3>1, UpEnds
  <2>2. \A k \in 0..D : k = 0 \/ k \in 1..D
    BY <1>2
  <2>3. 0 \in 0..D /\ up[0] # None
    BY <1>0, <1>2, <1>3
  <2> HIDE DEF up, D
  <2> QED
    BY <2>1, <2>2, <2>3
<1>8. Parent(w, o) = None => n = 1
  BY <1>7, FS_Singleton
<1>9. Parent(w, o) # None => n > 1
  <2> SUFFICES ASSUME Parent(w, o) # None PROVE n > 1
    OBVIOUS
  <2>1. 0 \in A /\ 1 \in A
    BY <1>0, <1>2, <1>3
  <2> HIDE DEF A
  <2>2. {0, 1} \subseteq A
    BY <2>1
  <2>3. IsFiniteSet({0, 1}) /\ Cardinality({0, 1}) = 2
    <3>1. {0, 1} = 0..1 /\ 0 \in Int /\ 1 \in Int
      OBVIOUS
    <3>2. IsFiniteSet(0..1) /\ Cardinality(0..1) = IF 0 > 1 THEN 0 ELSE (1 - 0) + 1
      BY <3>1, FS_Interval
    <3> QED
      BY <3>1, <3>2
  <2>4. 2 <= Cardinality(A)
    BY <1>4, <2>2, <2>3, FS_Subset
  <2> QED
    BY <1>4, <2>4
<1>10. Parent(w, o) = None => Chain(w, o) = <<o>>
  <2> SUFFICES ASSUME Parent(w, o) = None PROVE Chain(w, o) = <<o>>
    OBVIOUS
  <2>1. Chain(w, o) = [k \in 1..1 |-> up[k - 1]]
    BY <1>5, <1>8
  <2>2. \A k \in 1..1 : up[k - 1] = o
    <3>1. \A k \in 1..1 : k - 1 = 0
      OBVIOUS
    <3> QED
      BY <1>3, <3>1
  <2>3. <<o>> = [k \in 1..1 |-> o]
    OBVIOUS
  <2> HIDE DEF up
  <2> QED
    BY <2>1, <2>2, <2>3
<1> HIDE DEF n
<1> QED
  BY <1>4, <1>6, <1>8, <1>9, <1>10

\* The parts of the unpacked tree.
LEMMA UnpackedIs ==
  ASSUME NEW v \in Versions, NEW o, o = pkRequest.org, NEW paths, NEW flat,
         PackageName(World[v], o) = o, HasDir(World[v], o),
         NEW u, u = Unpacked(v, paths, flat), NEW e, e = u.dirs[<<"orgs", o>>]
  PROVE  /\ DOMAIN u.dirs = {<<"orgs", o>>}
         /\ <<o, "AGENTS.md">> \in paths => e.agentsMd
         /\ e.yaml = IF <<o, "org.yaml">> \notin paths THEN <<>>
                     ELSE IF <<o, "org.yaml">> \in flat THEN FlatYaml(World[v], o) ELSE Dir(World[v], o).yaml
         /\ e.agents = [s \in Under(paths, o, "agents") |-> Dir(World[v], o).agents[s]]
         /\ u.shared = [s \in Under(paths, "shared", "agents") |-> World[v].shared[s]]
         /\ u.skills = Under(paths, o, "skills") \cup Under(paths, "shared", "skills")
<1> DEFINE w == World[v]
           d == Dir(w, o)
           prompt == <<o, "AGENTS.md">> \in paths
           yaml == IF <<o, "org.yaml">> \notin paths THEN <<>>
                   ELSE IF <<o, "org.yaml">> \in flat THEN FlatYaml(w, o) ELSE d.yaml
           agentFiles == [s \in Under(paths, o, "agents") |-> d.agents[s]]
           common == [s \in Under(paths, "shared", "agents") |-> w.shared[s]]
           learned == Under(paths, o, "skills") \cup Under(paths, "shared", "skills")
           one == [d EXCEPT !.agentsMd = prompt, !.yaml = yaml, !.agents = agentFiles]
           all == [k \in {<<"orgs", o>>} |-> one]
<1>1. u = [w EXCEPT !.dirs = all, !.shared = common, !.skills = learned]
  BY Zenon DEF Unpacked
<1>2. {"dirs", "shared", "skills"} \subseteq DOMAIN w /\ {"agentsMd", "yaml", "agents"} \subseteq DOMAIN d
  BY TreesHaveParts DEF HasDir, Dir
<1> HIDE DEF all, common, learned, w
<1>3. u.dirs = all /\ u.shared = common /\ u.skills = learned
  BY <1>1, <1>2
<1> HIDE DEF one
<1>4. DOMAIN all = {<<"orgs", o>>} /\ e = one
  BY <1>3 DEF all
<1> HIDE DEF d, yaml, agentFiles, prompt
<1>5. one.agentsMd = prompt /\ one.yaml = yaml /\ one.agents = agentFiles
  BY <1>2, Zenon DEF one
<1>6. prompt => one.agentsMd
  BY <1>5, Zenon
<1> QED
  BY <1>3, <1>4, <1>5, <1>6 DEF common, learned, yaml, agentFiles, d, w, prompt

\* What a default selection takes of a directory.
LEMMA DefaultTakes ==
  ASSUME NEW d, Collected(d) = {p \in PathsIn(d) : p[1] \in DefaultInclude /\ ~ HardExcluded(p)}
  PROVE  /\ d.agentsMd => <<"AGENTS.md">> \in Collected(d)
         /\ <<"org.yaml">> \in Collected(d) <=> d.yaml # <<>>
         /\ \A s : <<"agents", s>> \in Collected(d) <=> s \in DOMAIN d.agents
<1>1. /\ ~ HardExcluded(<<"AGENTS.md">>) /\ ~ HardExcluded(<<"org.yaml">>)
      /\ \A s : ~ HardExcluded(<<"agents", s>>)
  BY DEF HardExcluded
<1>2. d.agentsMd => <<"AGENTS.md">> \in TopFiles(d)
  BY Zenon DEF TopFiles
<1>3. d.yaml # <<>> => <<"org.yaml">> \in TopFiles(d)
  BY Zenon DEF TopFiles
<1>4. ASSUME <<"org.yaml">> \in TopFiles(d)
      PROVE  d.yaml # <<>>
  <2>1. PICK T \in {IF d.agentsMd THEN {<<"AGENTS.md">>} ELSE {},
                    IF d.yaml = <<>> THEN {} ELSE {<<"org.yaml">>},
                    IF d.profile = <<>> THEN {} ELSE {<<"profile.yaml">>},
                    IF d.local = <<>> THEN {} ELSE {<<"profile.local.yaml">>},
                    IF d.policy = <<>> THEN {} ELSE {<<"policy.yaml">>}} : <<"org.yaml">> \in T
    BY <1>4, Zenon DEF TopFiles
  <2>2. <<"org.yaml">> # <<"AGENTS.md">> /\ <<"org.yaml">> # <<"profile.yaml">>
        /\ <<"org.yaml">> # <<"profile.local.yaml">> /\ <<"org.yaml">> # <<"policy.yaml">>
    OBVIOUS
  <2> QED
    BY <2>1, <2>2, Zenon
<1>5. \A q \in PathsIn(d) \ TopFiles(d) : \E a, b : q = <<a, b>>
  BY DEF PathsIn
<1>6. <<"org.yaml">> \in PathsIn(d) <=> <<"org.yaml">> \in TopFiles(d)
  <2>1. ~ \E a, b : <<"org.yaml">> = <<a, b>>
    OBVIOUS
  <2>2. TopFiles(d) \subseteq PathsIn(d)
    BY DEF PathsIn
  <2> QED
    BY <1>5, <2>1, <2>2
<1>7. ASSUME NEW s, <<"agents", s>> \in PathsIn(d)
      PROVE  s \in DOMAIN d.agents
  <2>1. <<"agents", s>> \notin TopFiles(d)
    <3>1. ASSUME NEW q, q \in TopFiles(d)
          PROVE  \E a \in {"AGENTS.md", "org.yaml", "profile.yaml", "profile.local.yaml", "policy.yaml"} : q = <<a>>
      BY <3>1, Zenon DEF TopFiles
    <3>2. ~ \E a : <<"agents", s>> = <<a>>
      OBVIOUS
    <3> QED
      BY <3>1, <3>2
  <2>2. \A k : <<"agents", s>> # <<"sandbox", k>> /\ <<"agents", s>> # <<"lib", k>>
               /\ <<"agents", s>> # <<"skills", k>> /\ <<"agents", s>> # <<"data", k>>
    OBVIOUS
  <2>3. <<"agents", s>> \in {<<"agents", k>> : k \in DOMAIN d.agents}
    BY <1>7, <2>1, <2>2 DEF PathsIn
  <2> QED
    BY <2>3
<1>8. \A s \in DOMAIN d.agents : <<"agents", s>> \in PathsIn(d)
  BY DEF PathsIn
<1>9. TopFiles(d) \subseteq PathsIn(d)
  BY DEF PathsIn
<1>10. {"AGENTS.md", "org.yaml", "agents"} \subseteq DefaultInclude
  BY DEF DefaultInclude
<1> QED
  BY <1>1, <1>2, <1>3, <1>4, <1>6, <1>7, <1>8, <1>9, <1>10

\* An org is in its own chain.
LEMMA ChainBegins ==
  ASSUME NEW v, NEW o, Packs(v, o)
  PROVE  o \in ToSet(Chain(World[v], o))
<1> DEFINE w == World[v]
<1>1. PICK n \in Nat : Chain(w, o) = [k \in 1..n |-> Up(w, o)[k - 1]] /\ n >= 1 /\ Up(w, o)[0] = o
  BY ChainWalks DEF Packs
<1>2. 1 \in DOMAIN Chain(w, o) /\ Chain(w, o)[1] = o
  <2>1. 1 \in 1..n /\ 1 - 1 = 0
    BY <1>1
  <2> QED
    BY <1>1, <2>1
<1> QED
  BY <1>2 DEF ToSet

\* The flattened files, for an org that extends another one.
FlatFiles(w, o) == IF Len(Chain(w, o)) > 1 THEN {<<o, "AGENTS.md">>, <<o, "org.yaml">>} ELSE {}

\* The manifest of the unpacked org extends nothing and has the whole roster.
LEMMA FlatManifest ==
  ASSUME NEW v, NEW o, Packs(v, o), ~ RosterFails(World[v], o),
         Len(Chain(World[v], o)) > 1 => "blockRoster" \notin DOMAIN Dir(World[v], o).yaml,
         NEW yaml,
         yaml = IF Dir(World[v], o).yaml = <<>> THEN <<>>
                ELSE IF <<o, "org.yaml">> \in FlatFiles(World[v], o) THEN FlatYaml(World[v], o)
                ELSE Dir(World[v], o).yaml
  PROVE  /\ Get(yaml, "extends", None) = None
         /\ Get(yaml, "agents", {}) = Roster(World[v], o)
         /\ "malformed" \notin DOMAIN yaml
<1> DEFINE w == World[v]
           own == Dir(w, o).yaml
<1>1. v \in Versions /\ o # None /\ HasDir(w, o)
  BY DEF Packs
<1>2. Parent(w, o) = Get(own, "extends", None)
  BY <1>1 DEF Parent
<1>3. o \in RosterSources(w, o)
  BY ChainBegins DEF RosterSources
<1>4. "malformed" \notin DOMAIN own
  BY <1>1, <1>3 DEF RosterFails
<1>5. CASE Len(Chain(w, o)) > 1
  <2>1. Parent(w, o) # None
    BY <1>5, LongChainExtends
  <2>2. own # <<>>
    <3>1. DOMAIN <<>> = {}
      OBVIOUS
    <3> QED
      BY <1>2, <2>1, <3>1 DEF Get
  <2>3. yaml = FlatYaml(w, o)
    BY <1>5, <2>2 DEF FlatFiles
  <2>4. FlatYaml(w, o) = [k \in (DOMAIN own \cup {"agents"}) \ {"extends", "inherit_roster"} |->
                            IF k = "agents" THEN Roster(w, o) ELSE own[k]]
    BY <1>5, Zenon DEF FlatYaml
  <2> DEFINE keys == (DOMAIN own \cup {"agents"}) \ {"extends", "inherit_roster"}
  <2>5. "extends" \notin keys /\ "malformed" \notin keys /\ "agents" \in keys
    BY <1>4
  <2> HIDE DEF keys, own
  <2>6. DOMAIN yaml = keys /\ yaml["agents"] = Roster(w, o)
    BY <2>3, <2>4, <2>5 DEF keys
  <2> QED
    BY <2>5, <2>6 DEF Get
<1>6. CASE ~ (Len(Chain(w, o)) > 1)
  <2>1. Parent(w, o) = None /\ Chain(w, o) = <<o>>
    BY <1>6, LongChainExtends
  <2>2. yaml = own
    BY <1>6 DEF FlatFiles
  <2>3. ToSet(<<o>>) = {o}
    BY DEF ToSet
  <2>4. RosterSources(w, o) = {o}
    BY <2>1, <2>3 DEF RosterSources
  <2>5. Roster(w, o) = OwnRoster(w, o)
    BY <2>4 DEF Roster
  <2> QED
    BY <1>1, <1>2, <1>4, <2>1, <2>2, <2>5 DEF OwnRoster
<1> QED
  BY <1>5, <1>6

\* The archive of an org that leaves nothing behind unpacks to a tree with the same org.
LEMMA UnpackedIsTwin ==
  ASSUME NEW v, NEW o, o = pkRequest.org, Packs(v, o),
         ~ KitFails(World[v], o), ~ LeftBehind(World[v], o),
         Len(Chain(World[v], o)) > 1 => "blockRoster" \notin DOMAIN Dir(World[v], o).yaml
  PROVE  Twin(World[v], Unpacked(v, DOMAIN Selection(World[v], o), FlatFiles(World[v], o)), o)
<1> DEFINE w == World[v]
           d == Dir(w, o)
           paths == DOMAIN Selection(w, o)
           u == Unpacked(v, paths, FlatFiles(w, o))
           e == u.dirs[<<"orgs", o>>]
<1>1. v \in Versions /\ o \notin DOMAIN Bare /\ o # None /\ HasDir(w, o)
  BY DEF Packs
<1>2. PackageName(w, o) = o /\ Collected(d) = {p \in PathsIn(d) : p[1] \in DefaultInclude /\ ~ HardExcluded(p)}
  BY Zenon DEF LeftBehind
<1>3. ~ RosterFails(w, o) /\ ~ PromptFails(w, o)
  BY DEF KitFails
<1>4. d.agentsMd
  BY <1>3, ChainBegins DEF PromptFails, IsBase
<1>5. o # "shared"
  <2>1. DirOf(w, o)[2] = o
    BY <1>1 DEF DirOf, RootIn
  <2>2. DirOf(w, o) \in DOMAIN w.dirs /\ w.dirs[DirOf(w, o)].agentsMd
    BY <1>1, <1>4 DEF HasDir, Dir
  <2> QED
    BY <1>1, <2>1, <2>2, TreesHaveParts
<1>6. /\ \A dir, s : s \in Under(paths, o, dir) <=> <<dir, s>> \in Collected(d)
      /\ Under(paths, "shared", "agents") = SharedAgents(w, o)
      /\ Under(paths, "shared", "skills") = SharedSkills(w, o)
      /\ \A a : <<o, a>> \in paths => <<a>> \in Collected(d)
  BY <1>2, <1>5, WhatIsUnder
<1>7. \A a : <<a>> \in Collected(d) => <<o, a>> \in paths
  BY <1>2, OwnIsSelected
<1>8. /\ d.agentsMd => <<"AGENTS.md">> \in Collected(d)
      /\ <<"org.yaml">> \in Collected(d) <=> d.yaml # <<>>
      /\ \A s : <<"agents", s>> \in Collected(d) <=> s \in DOMAIN d.agents
  BY <1>2, DefaultTakes
<1>9. /\ DOMAIN u.dirs = {<<"orgs", o>>}
      /\ <<o, "AGENTS.md">> \in paths => e.agentsMd
      /\ e.yaml = IF <<o, "org.yaml">> \notin paths THEN <<>>
                  ELSE IF <<o, "org.yaml">> \in FlatFiles(w, o) THEN FlatYaml(w, o) ELSE d.yaml
      /\ e.agents = [s \in Under(paths, o, "agents") |-> d.agents[s]]
      /\ u.shared = [s \in Under(paths, "shared", "agents") |-> w.shared[s]]
      /\ u.skills = Under(paths, o, "skills") \cup Under(paths, "shared", "skills")
  BY <1>1, <1>2, UnpackedIs
<1> HIDE DEF e, u, paths, d
<1>10. e.agentsMd
  BY <1>4, <1>7, <1>8, <1>9, Zenon
<1>11. e.yaml = IF d.yaml = <<>> THEN <<>>
                ELSE IF <<o, "org.yaml">> \in FlatFiles(w, o) THEN FlatYaml(w, o) ELSE d.yaml
  BY <1>6, <1>7, <1>8, <1>9
<1>12. Get(e.yaml, "extends", None) = None /\ Get(e.yaml, "agents", {}) = Roster(w, o) /\ "malformed" \notin DOMAIN e.yaml
  BY <1>3, <1>11, FlatManifest DEF d
<1>13. Under(paths, o, "agents") = DOMAIN d.agents
  BY <1>6, <1>8
<1>14. DOMAIN e.agents = DOMAIN d.agents /\ \A s \in DOMAIN d.agents : e.agents[s] = d.agents[s]
  BY <1>9, <1>13
<1>15. DOMAIN u.shared = SharedAgents(w, o) /\ \A s \in SharedAgents(w, o) : u.shared[s] = w.shared[s]
  BY <1>6, <1>9
<1>16. {k \in Get(d, "skills", {}) : <<"skills", k>> \in Collected(d)} \cup SharedSkills(w, o) \subseteq u.skills
  BY <1>6, <1>9
<1> QED
  BY <1>9, <1>10, <1>12, <1>14, <1>15, <1>16 DEF Twin, d, e, u, paths

-----------------------------------------------------------------------------
\* What is selected can be read, as long as nobody edits the files.
LEMMA SelectedIsReadable ==
  ASSUME NEW v, NEW o, Packs(v, o), NEW p \in DOMAIN Selection(World[v], o)
  PROVE  Readable(World[v], Selection(World[v], o)[p])
<1> DEFINE w == World[v]
           own == {<<PackageName(w, o)>> \o q : q \in Collected(Dir(w, o))}
           shared == {<<"shared", "agents", s>> : s \in SharedAgents(w, o)}
                        \cup {<<"shared", "skills", s>> : s \in SharedSkills(w, o)}
                        \cup {<<"shared", "sandbox", s>> : s \in SharedHelpers(w, o)}
                        \cup {<<"shared", s>> : s \in SharedCatalog(w, o)}
           f == Selection(w, o)[p]
<1>1. Selection(w, o) = [x \in own \cup shared |-> <<IF x \in shared THEN Shared ELSE DirOf(w, o), Tail(x)>>]
  BY Zenon DEF Selection
<1>2. v \in Versions /\ DirOf(w, o) \in DOMAIN w.dirs /\ DirOf(w, o) # Shared
  <2>1. v \in Versions /\ DirOf(w, o) \in DOMAIN w.dirs
    BY DEF Packs, HasDir
  <2>2. DirOf(w, o)[1] \in {"orgs", "specialists", "extra", "bases"}
    BY <2>1, TreesHaveParts
  <2>3. Shared[1] = "shared"
    BY DEF Shared
  <2> QED
    BY <2>1, <2>2, <2>3
<1>3. CASE p \notin shared
  <2>1. f = <<DirOf(w, o), Tail(p)>>
    BY <1>1, <1>3
  <2>2. ~ SharedPath(p) \/ f # <<Shared, Tail(p)>>
    BY <1>2, <2>1
  <2>3. PICK q \in Collected(Dir(w, o)) : f = <<DirOf(w, o), q>>
    BY <2>1, <2>2, SelectionIs, Zenon
  <2>4. q \in PathsIn(w.dirs[DirOf(w, o)])
    BY DEF Collected, Dir
  <2>5. f[1] = DirOf(w, o) /\ f[2] = q
    BY <2>3
  <2> HIDE DEF f
  <2> QED
    BY <1>2, <2>4, <2>5 DEF Readable, f
<1>4. CASE p \in shared
  <2>1. f = <<Shared, Tail(p)>>
    BY <1>1, <1>4
  <2>2. CASE \E s \in SharedAgents(w, o) : p = <<"shared", "agents", s>>
    <3>1. PICK s \in SharedAgents(w, o) : p = <<"shared", "agents", s>>
      BY <2>2
    <3>2. f[1] = Shared /\ f[2] = <<"agents", s>>
      BY <2>1, <3>1, PrefixedTwo
    <3>3. f[2][1] = "agents" /\ f[2][2] = s /\ s \in DOMAIN w.shared
      BY <3>2 DEF SharedAgents
    <3> HIDE DEF f
    <3> QED
      BY <3>2, <3>3 DEF Readable, f
  <2>3. CASE \E s \in SharedSkills(w, o) : p = <<"shared", "skills", s>>
    <3>1. PICK s \in SharedSkills(w, o) : p = <<"shared", "skills", s>>
      BY <2>3
    <3>2. f[1] = Shared /\ f[2] = <<"skills", s>>
      BY <2>1, <3>1, PrefixedTwo
    <3>3. f[2][1] = "skills" /\ f[2][2] = s /\ s \in w.skills
      BY <3>2 DEF SharedSkills
    <3> HIDE DEF f
    <3> QED
      BY <3>2, <3>3 DEF Readable, f
  <2>4. CASE \E s \in SharedHelpers(w, o) : p = <<"shared", "sandbox", s>>
    <3>1. PICK s \in SharedHelpers(w, o) : p = <<"shared", "sandbox", s>>
      BY <2>4
    <3>2. f[1] = Shared /\ f[2] = <<"sandbox", s>>
      BY <2>1, <3>1, PrefixedTwo
    <3>4. s \in w.helpers
      BY Zenon DEF SharedHelpers
    <3>3. f[2][1] = "sandbox" /\ f[2][2] = s /\ s \in w.helpers
      BY <3>2, <3>4
    <3> HIDE DEF f
    <3> QED
      BY <3>2, <3>3 DEF Readable, f
  <2>5. CASE \E s \in SharedCatalog(w, o) : p = <<"shared", s>>
    <3>1. p = <<"shared", "tool_servers.yaml">>
      BY <2>5 DEF SharedCatalog
    <3>2. f[1] = Shared /\ f[2] = <<"tool_servers.yaml">>
      BY <2>1, <3>1, PrefixedOne
    <3>3. f[2][1] = "tool_servers.yaml"
      BY <3>2
    <3> HIDE DEF f
    <3> QED
      BY <3>2, <3>3 DEF Readable, f
  <2> QED
    BY <1>4, <2>2, <2>3, <2>4, <2>5
<1> QED
  BY <1>3, <1>4

\* From the selection to the layout, as long as nobody edits the files: what was
\* selected is what the files say, all of it is written, and all of it is in a layer.
Unedited(steps) == pkStep \in steps /\ ~ pkEdited
Selected == {"syntax", "secrets", "write", "emit", "shipped"}
PackedInv ==
    /\ pkStep = "collect" /\ ~ pkEdited => pkVersion \in Versions
    /\ Unedited(Selected) =>
          /\ Packs(pkVersion, pkRequest.org)
          /\ pkFiles = Selection(World[pkVersion], pkRequest.org)
          /\ pkFlat = IF Len(Chain(World[pkVersion], pkRequest.org)) > 1 THEN pkVersion ELSE None
    /\ Unedited({"emit"}) => DOMAIN pkArchive = DOMAIN pkFiles
    /\ Unedited({"shipped"}) => DOMAIN pkEmitted.source \cup DOMAIN pkEmitted.library = DOMAIN pkFiles

LEMMA PackedStandsAlone ==
  ASSUME PackedInv
  PROVE  PackStandsAlone
<1> DEFINE o == pkRequest.org
           w == World[pkVersion]
           paths == DOMAIN Selection(w, o)
<1>1. ASSUME Unedited(Selected), ~ KitFails(w, o), ~ LeftBehind(w, o)
      PROVE  \/ SameOrg(w, Unpacked(pkVersion, paths, Flattened(o)), o)
             \/ pkFlat # None /\ "blockRoster" \in DOMAIN Dir(w, o).yaml
  <2>1. Packs(pkVersion, o) /\ pkFlat = IF Len(Chain(w, o)) > 1 THEN pkVersion ELSE None
    BY <1>1 DEF PackedInv
  <2>2. pkVersion # None
    BY <2>1, PacksStartSomewhere DEF Packs
  <2>3. Flattened(o) = FlatFiles(w, o)
    BY <2>1, <2>2 DEF Flattened, FlatFiles
  <2>4. CASE Len(Chain(w, o)) > 1 => "blockRoster" \notin DOMAIN Dir(w, o).yaml
    <3>1. Twin(w, Unpacked(pkVersion, paths, FlatFiles(w, o)), o)
      BY <1>1, <2>1, <2>4, UnpackedIsTwin
    <3> QED
      BY <1>1, <2>1, <2>3, <3>1, TwinIsTheSame
  <2>5. CASE ~ (Len(Chain(w, o)) > 1 => "blockRoster" \notin DOMAIN Dir(w, o).yaml)
    BY <2>1, <2>2, <2>5
  <2> QED
    BY <2>4, <2>5
<1>2. ASSUME pkStep = "emit", ~ pkEdited
      PROVE  Unedited(Selected) /\ DOMAIN pkArchive = paths
  BY <1>2 DEF PackedInv, Unedited, Selected
<1>3. ASSUME pkStep = "shipped", ~ pkEdited
      PROVE  Unedited(Selected) /\ DOMAIN pkEmitted.source \cup DOMAIN pkEmitted.library = paths
  BY <1>3 DEF PackedInv, Unedited, Selected
<1>4. pkFlat = None => Flattened(o) = {}
  BY DEF Flattened
<1> HIDE DEF paths, w, o
<1>5. ASSUME pkStep = "emit", ~ pkEdited, ~ KitFails(w, o), ~ LeftBehind(w, o)
      PROVE  \/ SameOrg(w, Unpacked(pkVersion, DOMAIN pkArchive, Flattened(o)), o)
             \/ pkFlat # None /\ "blockRoster" \in DOMAIN Dir(w, o).yaml
  BY <1>1, <1>2, <1>5
<1>6. ASSUME pkStep = "shipped", pkFlat = None, ~ pkEdited, ~ KitFails(w, o), ~ LeftBehind(w, o)
      PROVE  SameOrg(w, Unpacked(pkVersion, DOMAIN pkEmitted.source \cup DOMAIN pkEmitted.library, {}), o)
  BY <1>1, <1>3, <1>4, <1>6
<1> QED
  BY <1>5, <1>6, Zenon DEF PackStandsAlone, o, w

LEMMA PackedStarts ==
  ASSUME PackInit
  PROVE  PackedInv
  BY PacksStartSomewhere DEF PackInit, PackedInv, Unedited, Selected

LEMMA PackedKeeps ==
  ASSUME PackedInv, [PackNext]_packVars
  PROVE  PackedInv'
<1> DEFINE o == pkRequest.org
<1>s. ASSUME UNCHANGED <<pkRequest, pkVersion, pkEdited, pkFiles, pkFlat, pkArchive, pkEmitted>>,
             pkStep' \notin Selected \cup {"collect"} \/ pkStep' = pkStep
             \/ (pkStep \in Selected /\ pkStep' \in {"syntax", "secrets", "write"})
      PROVE  PackedInv'
  BY <1>s DEF PackedInv, Unedited, Selected
<1>1. CASE Collect
  <2>1. CASE \E why : PackStops(why)
    BY <1>s, <2>1 DEF PackStops, Selected
  <2>2. CASE ~ \E why : PackStops(why)
    <3>1. /\ pkStep = "collect" /\ o \in Discovered(Tree) /\ ~ Broken(Tree, o)
          /\ pkFiles' = Selection(Tree, o) /\ pkFlat' = IF Len(Chain(Tree, o)) > 1 THEN pkVersion ELSE None
          /\ pkStep' = "syntax" /\ UNCHANGED <<pkRequest, pkVersion, pkEdited>>
      BY <1>1, <2>2 DEF Collect, PackProceeds
    <3>2. CASE pkEdited
      BY <3>1, <3>2 DEF PackedInv, Unedited
    <3>3. CASE ~ pkEdited
      <4>1. pkVersion \in Versions
        BY <3>1, <3>3 DEF PackedInv
      <4>2. PICK d \in DOMAIN Tree.dirs : o = d[2]
        BY <3>1 DEF Discovered
      <4>3. o \notin DOMAIN Bare \cup {None}
        BY <4>1, <4>2, FilesHaveBareNames DEF Tree
      <4>4. Packs(pkVersion, o)
        BY <3>1, <4>1, <4>3 DEF Packs, Tree, Broken
      <4> QED
        BY <3>1, <4>4 DEF PackedInv, Unedited, Tree
    <3> QED
      BY <3>2, <3>3
  <2> QED
    BY <2>1, <2>2
<1>2. CASE CheckSyntax
  BY <1>2, <1>s DEF CheckSyntax, PackStops, PackProceeds, Selected
<1>3. CASE CheckSecrets
  <2>1. PICK exit \in {"ran", "error", "absent", "noReport"} :
           IF GateRefuses(exit) THEN PackStops("secrets")
           ELSE /\ pkScanned' = IF exit = "noReport" THEN None ELSE pkVersion
                /\ PackProceeds("write")
                /\ UNCHANGED <<pkFiles, pkFlat, pkArchive, pkLayers, pkDigests, pkEmitted, pkVerdict>>
    BY <1>3 DEF CheckSecrets
  <2> QED
    BY <1>3, <2>1, <1>s DEF CheckSecrets, PackStops, PackProceeds, Selected
<1>4. CASE WriteArchive
  <2>1. pkStep = "write"
    BY <1>4, ArchiveWrites
  <2>2. CASE PackStops("roster")
    BY <1>s, <2>2 DEF PackStops, Selected
  <2>3. CASE pkArchive' = Written(o) /\ PackProceeds("emit") /\ UNCHANGED <<pkFiles, pkFlat, pkEmitted>>
    <3>1. CASE pkEdited
      BY <2>1, <2>3, <3>1 DEF PackProceeds, PackedInv, Unedited
    <3>2. CASE ~ pkEdited
      <4>1. Packs(pkVersion, o) /\ pkFiles = Selection(Tree, o)
        BY <2>1, <3>2 DEF PackedInv, Unedited, Selected, Tree
      <4>2. \A p \in DOMAIN pkFiles : Readable(Tree, pkFiles[p])
        BY <4>1, SelectedIsReadable DEF Tree
      <4>3. DOMAIN Written(o) = DOMAIN pkFiles
        BY <4>2 DEF Written
      <4> QED
        BY <2>1, <2>3, <3>2, <4>3 DEF PackProceeds, PackedInv, Unedited, Selected
    <3> QED
      BY <3>1, <3>2
  <2> QED
    BY <1>4, <2>2, <2>3, ArchiveWrites
<1>5. CASE Emit
  <2>1. CASE PackStops("oras")
    BY <1>s, <2>1 DEF PackStops, Selected
  <2>2. CASE ~ PackStops("oras")
    <3>1. /\ pkStep = "emit" /\ pkStep' = "shipped" /\ UNCHANGED <<pkRequest, pkVersion, pkEdited, pkFiles, pkFlat>>
          /\ pkEmitted' = Layers(o)
      BY <1>5, <2>2 DEF Emit, PackProceeds
    <3>2. CASE pkEdited
      BY <3>1, <3>2 DEF PackedInv, Unedited
    <3>3. CASE ~ pkEdited
      <4>1. Packs(pkVersion, o) /\ pkFiles = Selection(Tree, o)
        BY <3>1, <3>3 DEF PackedInv, Unedited, Selected, Tree
      <4>2. \A p \in DOMAIN pkFiles : Readable(Tree, pkFiles[p])
        BY <4>1, SelectedIsReadable DEF Tree
      <4> DEFINE there == {p \in DOMAIN pkFiles : Readable(Tree, pkFiles[p])}
                 learned == {p \in there : IsLibrary(p, o)}
                 other == {p \in there : ~ IsLibrary(p, o)}
      <4>3. Layers(o) = [library |-> [p \in learned |-> TextOf(pkVersion, pkFiles[p])],
                         source |-> [p \in other |-> TextOf(pkVersion, pkFiles[p])]]
        BY Zenon DEF Layers
      <4>4. learned \cup other = DOMAIN pkFiles
        BY <4>2
      <4> HIDE DEF learned, other
      <4>5. DOMAIN Layers(o).source = other /\ DOMAIN Layers(o).library = learned
        BY <4>3
      <4> QED
        BY <3>1, <4>4, <4>5 DEF PackedInv, Unedited, Selected
    <3> QED
      BY <3>2, <3>3
  <2> QED
    BY <2>1, <2>2
<1>6. CASE Tamper
  BY <1>6, <1>s DEF Tamper
<1>7. CASE Verify
  BY <1>7, <1>s DEF Verify, PackProceeds, Selected
<1>8. CASE PackEdit
  BY <1>8 DEF PackEdit, PackedInv, Unedited
<1>9. CASE UNCHANGED packVars
  BY <1>9, <1>s DEF packVars
<1> QED
  BY <1>1, <1>2, <1>3, <1>4, <1>5, <1>6, <1>7, <1>8, <1>9 DEF PackNext

\* The archive of an org compiles by itself and holds the same agents, but for what the
\* pack leaves behind; so does the layout, of an org that extends no other one.
THEOREM ArchiveStandsAlone == PackSpec => []PackStandsAlone
<1>1. PackInit => PackedInv
  BY PackedStarts
<1>2. PackedInv /\ [PackNext]_packVars => PackedInv'
  BY PackedKeeps
<1>3. PackedInv => PackStandsAlone
  BY PackedStandsAlone
<1> QED
  BY <1>1, <1>2, <1>3, PTL DEF PackSpec
=============================================================================
