---------------------------- MODULE FilesProofs -----------------------------
(***************************************************************************)
(* Proofs about the files of a cook, side by side as in MCFiles: Preflight *)
(* (any files, references, nodes and answers) and Delivery (any frames,    *)
(* transfers, cooks and faults).                                           *)
(***************************************************************************)
EXTENDS Preflight, Delivery, FiniteSetTheorems, WellFoundedInduction, TLAPS

-----------------------------------------------------------------------------
(* Preflight: what is sent                                                 *)

\* What a walk of a directory comes to.
Walks(d, f) == IsStrictPrefix(d, f) /\ f \notin Backups /\ \A n \in Len(d) + 1..Len(f) - 1 : f[n] \notin SkipNames

\* Prefixes of paths, name by name.
LEMMA PrefixIs ==
  ASSUME NEW S, NEW T, NEW p \in Seq(S), NEW f \in Seq(T)
  PROVE  /\ IsPrefix(p, f) <=> Len(p) <= Len(f) /\ \A i \in 1..Len(p) : p[i] = f[i]
         /\ IsPrefix(p, f) => p = SubSeq(f, 1, Len(p))
<1>0. Len(p) \in Nat /\ Len(f) \in Nat /\ DOMAIN p = 1..Len(p) /\ DOMAIN f = 1..Len(f)
  OBVIOUS
<1>1. SubSeq(p, 1, Len(p)) = p
  OBVIOUS
<1>2. ASSUME Len(p) <= Len(f) PROVE SubSeq(f, 1, Len(p)) = [i \in 1..Len(p) |-> f[i]]
  BY <1>0, <1>2
<1>3. p = [i \in 1..Len(p) |-> p[i]]
  OBVIOUS
<1>4. ASSUME Len(p) <= Len(f) PROVE p = SubSeq(f, 1, Len(p)) <=> \A i \in 1..Len(p) : p[i] = f[i]
  BY <1>2, <1>3, <1>4
<1> QED
  BY <1>1, <1>4 DEF IsPrefix

\* Files, and the directories above them.
LEMMA FilesAre ==
  ASSUME NEW f \in Files
  PROVE  f \in Seq(Names) /\ Len(f) \in Nat \ {0} /\ \A g \in Files : ~IsStrictPrefix(f, g)
<1>1. f \in Seq(Names) /\ f # <<>> /\ \A g \in Files : ~IsStrictPrefix(f, g)
  BY PreflightAssumption
<1> QED
  BY <1>1

LEMMA DirsAre ==
  ASSUME NEW d \in Dirs
  PROVE  /\ d \in Seq(Names) /\ Len(d) \in Nat \ {0} /\ d \notin Files
         /\ \E f \in Files : IsPrefix(d, f)
<1>0. PICK f \in Files : d \in Above(f) /\ d \notin Files
  BY DEF Dirs
<1>1. PICK n \in 1..Len(f) : d = SubSeq(f, 1, n)
  BY <1>0 DEF Above
<1>2. f \in Seq(Names) /\ Len(f) \in Nat
  BY FilesAre
<1>3. d \in Seq(Names) /\ Len(d) = n /\ \A i \in 1..n : d[i] = f[i]
  BY <1>1, <1>2
<1>4. IsPrefix(d, f)
  BY <1>2, <1>3, PrefixIs
<1> QED
  BY <1>0, <1>3, <1>4

LEMMA PrefixIsDir ==
  ASSUME NEW f \in Files, NEW S, NEW p \in Seq(S), p # <<>>, IsPrefix(p, f)
  PROVE  p = f \/ (p \in Dirs /\ IsStrictPrefix(p, f))
<1>1. f \in Seq(Names)
  BY FilesAre
<1>2. p = SubSeq(f, 1, Len(p)) /\ Len(p) <= Len(f)
  BY <1>1, PrefixIs
<1>3. Len(p) \in 1..Len(f)
  BY <1>1, <1>2
<1>4. p \in Above(f)
  BY <1>2, <1>3 DEF Above
<1>5. CASE p \in Files
  BY <1>5, FilesAre DEF IsStrictPrefix
<1>6. CASE p \notin Files
  BY <1>4, <1>6 DEF Dirs, IsStrictPrefix
<1> QED
  BY <1>5, <1>6

\* Nothing lies below a file.
LEMMA NothingBelowFile ==
  ASSUME NEW f \in Files, NEW q \in Files \cup Dirs
  PROVE  ~IsStrictPrefix(f, q)
<1>1. CASE q \in Files
  BY <1>1, FilesAre
<1>2. CASE q \in Dirs
  <2>1. PICK g \in Files : IsPrefix(q, g) /\ q \notin Files
    BY <1>2, DirsAre
  <2>2. f \in Seq(Names) /\ q \in Seq(Names) /\ g \in Seq(Names)
    BY <1>2, FilesAre, DirsAre
  <2>3. ASSUME IsPrefix(f, q) PROVE IsPrefix(f, g)
    <3> HIDE DEF IsPrefix
    <3>1. /\ IsPrefix(q, g) <=> Len(q) <= Len(g) /\ \A i \in 1..Len(q) : q[i] = g[i]
          /\ IsPrefix(f, q) <=> Len(f) <= Len(q) /\ \A i \in 1..Len(f) : f[i] = q[i]
          /\ IsPrefix(f, g) <=> Len(f) <= Len(g) /\ \A i \in 1..Len(f) : f[i] = g[i]
      BY <2>2, PrefixIs
    <3> QED
      BY <2>1, <2>2, <2>3, <3>1
  <2>4. ~IsStrictPrefix(f, g)
    BY FilesAre
  <2>5. ASSUME IsStrictPrefix(f, q) PROVE FALSE
    <3>1. f = g
      BY <2>3, <2>4, <2>5 DEF IsStrictPrefix
    <3>2. /\ IsPrefix(q, g) <=> Len(q) <= Len(g) /\ \A i \in 1..Len(q) : q[i] = g[i]
          /\ IsPrefix(f, q) <=> Len(f) <= Len(q) /\ \A i \in 1..Len(f) : f[i] = q[i]
      BY <2>2, PrefixIs
    <3>3. Len(f) = Len(q)
      BY <2>1, <2>2, <2>5, <3>1, <3>2 DEF IsStrictPrefix
    <3>4. f = q
      BY <2>1, <2>2, <3>1, <3>2, <3>3
    <3> QED
      BY <2>5, <3>4 DEF IsStrictPrefix
  <2> QED
    BY <2>5
<1> QED
  BY <1>1, <1>2

\* Of two places above one file, one lies above the other.
LEMMA PrefixesCompare ==
  ASSUME NEW f \in Files, NEW p \in Seq(Names), NEW q \in Seq(Names), IsPrefix(p, f), IsPrefix(q, f)
  PROVE  p = q \/ IsStrictPrefix(p, q) \/ IsStrictPrefix(q, p)
<1>1. f \in Seq(Names)
  BY FilesAre
<1>2. /\ Len(p) <= Len(f) /\ \A i \in 1..Len(p) : p[i] = f[i]
      /\ Len(q) <= Len(f) /\ \A i \in 1..Len(q) : q[i] = f[i]
      /\ IsPrefix(p, q) <=> Len(p) <= Len(q) /\ \A i \in 1..Len(p) : p[i] = q[i]
      /\ IsPrefix(q, p) <=> Len(q) <= Len(p) /\ \A i \in 1..Len(q) : q[i] = p[i]
  BY <1>1, PrefixIs
<1>3. IsPrefix(p, q) \/ IsPrefix(q, p)
  BY <1>1, <1>2
<1> QED
  BY <1>3 DEF IsStrictPrefix

-----------------------------------------------------------------------------
\* A set of numbers has a smallest one: what induction is made of here, where the
\* induction theorems of the library, which take an operator, cannot be used.
LEMMA SmallestNumber ==
  ASSUME NEW T \in SUBSET Nat, T # {}
  PROVE  \E n \in T : \A k \in T : n <= k
<1>1. PICK n \in T : \A k \in T : ~ (<<k, n>> \in OpToRel(<, Nat))
  BY NatLessThanWellFounded, WFMin
<1>2. \A k \in T : ~ k < n
  BY <1>1 DEF OpToRel
<1> QED
  BY <1>2

\* As many steps upstream as there are nodes reach everything the fetched ROPs read:
\* a step that adds nothing ends it, and each other one adds a node (_branch_node_paths).
LEMMA BranchIsClosed ==
  ASSUME Fetched # {}
  PROVE  Branch \in SUBSET Nodes /\ Closed(Branch)
<1> DEFINE N == Cardinality(Nodes)
           Wider(S) == S \cup UNION {ReadsOf(n) : n \in S}
           Body(g, k) == IF k = 0 THEN Fetched ELSE Wider(g[k - 1])
           Grows(g) == g = [k \in 0..N |-> Body(g, k)]
           Up(j) == \E g \in [0..N -> SUBSET Nodes] : \A k \in 0..N : k <= j => g[k] = Body(g, k)
<1>1. Branch = (CHOOSE g : Grows(g))[N]
  BY Zenon DEF Branch
<1>2. /\ N \in Nat /\ Fetched \subseteq Nodes /\ IsFiniteSet(Nodes)
      /\ \A n \in Nodes : ReadsOf(n) \subseteq Nodes
  BY PreflightAssumption, FS_CardinalityType DEF ReadsOf
<1>3. ASSUME NEW S \in SUBSET Nodes PROVE Wider(S) \in SUBSET Nodes /\ S \subseteq Wider(S)
  BY <1>2
<1>4. ASSUME NEW g \in [0..N -> SUBSET Nodes], NEW k \in 0..N PROVE Body(g, k) \in SUBSET Nodes
  <2>1. k # 0 => k - 1 \in 0..N
    BY <1>2
  <2> HIDE DEF Wider
  <2> QED
    BY <1>2, <1>3, <2>1
<1>5. Up(0)
  <2>1. [k \in 0..N |-> Fetched] \in [0..N -> SUBSET Nodes]
    BY <1>2
  <2>2. \A k \in 0..N : k <= 0 => k = 0
    BY <1>2
  <2> HIDE DEF Wider
  <2> QED
    BY <2>1, <2>2
<1>6. ASSUME NEW j \in Nat, Up(j) PROVE Up(j + 1)
  <2>1. PICK g \in [0..N -> SUBSET Nodes] : \A k \in 0..N : k <= j => g[k] = Body(g, k)
    BY <1>6
  <2> DEFINE h == [k \in 0..N |-> Body(g, k)]
  <2> HIDE DEF Wider
  <2>2. h \in [0..N -> SUBSET Nodes]
    BY <1>4
  <2>3. ASSUME NEW k \in 0..N, k <= j + 1 PROVE h[k] = Body(h, k)
    <3>1. CASE k = 0
      BY <3>1
    <3>2. CASE k # 0
      <4>1. k - 1 \in 0..N /\ k - 1 <= j
        BY <1>2, <2>3, <3>2
      <4>2. h[k - 1] = g[k - 1]
        BY <2>1, <4>1
      <4> QED
        BY <3>2, <4>2
    <3> QED
      BY <3>1, <3>2
  <2> HIDE DEF h
  <2> QED
    BY <2>2, <2>3
<1>7. \A j \in Nat : Up(j)
  <2> DEFINE Bad == {j \in Nat : ~ Up(j)}
  <2> HIDE DEF Up
  <2> SUFFICES ASSUME Bad # {} PROVE FALSE
    OBVIOUS
  <2>1. PICK n \in Bad : \A k \in Bad : n <= k
    BY SmallestNumber
  <2>2. n # 0 /\ n \in Nat /\ ~ Up(n)
    BY <1>5
  <2>3. Up(n - 1)
    BY <2>1, <2>2
  <2>4. n - 1 \in Nat /\ n = (n - 1) + 1
    BY <2>2
  <2> QED
    BY <2>2, <2>3, <2>4, <1>6
<1>8. \E g \in [0..N -> SUBSET Nodes] : Grows(g)
  <2>1. PICK g \in [0..N -> SUBSET Nodes] : \A k \in 0..N : k <= N => g[k] = Body(g, k)
    BY <1>2, <1>7
  <2> HIDE DEF Body
  <2>2. g = [k \in 0..N |-> Body(g, k)]
    BY <2>1
  <2> QED
    BY <2>2
<1> DEFINE reached == CHOOSE g : Grows(g)
<1>9. Grows(reached)
  <2> HIDE DEF Grows
  <2> QED
    BY <1>8
<1> HIDE DEF reached
<1>a. \A k \in 0..N : reached[k] = Body(reached, k)
  <2> HIDE DEF Body
  <2> QED
    BY <1>9
<1>b. \A k \in 0..N : reached[k] \in SUBSET Nodes
  <2> DEFINE Bad == {k \in 0..N : reached[k] \notin SUBSET Nodes}
  <2> SUFFICES ASSUME Bad # {} PROVE FALSE
    OBVIOUS
  <2>0. Bad \in SUBSET Nat
    BY <1>2
  <2>1. PICK n \in Bad : \A k \in Bad : n <= k
    BY <2>0, SmallestNumber
  <2>2. n # 0
    BY <1>2, <1>a
  <2>3. n - 1 \in 0..N /\ n - 1 \notin Bad
    BY <1>2, <2>1, <2>2
  <2> HIDE DEF Wider
  <2>4. reached[n] = Wider(reached[n - 1])
    BY <1>a, <2>2
  <2> QED
    BY <1>3, <2>3, <2>4
<1> DEFINE Still(k) == Wider(reached[k]) = reached[k]
           Large(k) == Cardinality(reached[k]) > k
<1>c. Still(0) \/ Large(0)
  <2>0. 0 \in 0..N
    BY <1>2
  <2> HIDE DEF Wider
  <2>1. reached[0] = Fetched
    BY <1>a, <2>0
  <2>2. IsFiniteSet(Fetched)
    BY <1>2, FS_Subset
  <2>3. Cardinality(Fetched) \in Nat /\ Cardinality(Fetched) # 0
    BY <2>2, FS_CardinalityType, FS_EmptySet
  <2> QED
    BY <2>1, <2>3
<1>d. ASSUME NEW k \in 0..N, k + 1 \in 0..N, Still(k) \/ Large(k) PROVE Still(k + 1) \/ Large(k + 1)
  <2> HIDE DEF Wider
  <2>1. reached[k + 1] = Wider(reached[k])
    <3>1. (k + 1) - 1 = k /\ k + 1 # 0
      BY <1>2
    <3> QED
      BY <1>a, <1>d, <3>1
  <2>2. CASE Still(k)
    BY <2>1, <2>2
  <2>3. CASE ~ Still(k) /\ Large(k)
    <3>1. reached[k] \subseteq reached[k + 1] /\ reached[k] # reached[k + 1] /\ reached[k + 1] \subseteq Nodes
      BY <1>3, <1>b, <2>1, <2>3
    <3>a. IsFiniteSet(reached[k + 1]) /\ IsFiniteSet(reached[k])
      BY <1>2, <3>1, FS_Subset
    <3>3. Cardinality(reached[k]) \in Nat /\ Cardinality(reached[k + 1]) \in Nat
      BY <3>a, FS_CardinalityType
    <3>b. /\ Cardinality(reached[k]) <= Cardinality(reached[k + 1])
          /\ Cardinality(reached[k]) = Cardinality(reached[k + 1]) => reached[k] = reached[k + 1]
      BY <3>1, <3>a, FS_Subset
    <3>2. Cardinality(reached[k]) < Cardinality(reached[k + 1])
      BY <3>1, <3>3, <3>b
    <3> QED
      BY <1>2, <2>3, <3>2, <3>3
  <2> QED
    BY <1>d, <2>2, <2>3
<1>e. \A k \in 0..N : Still(k) \/ Large(k)
  <2> DEFINE Bad == {k \in 0..N : ~ (Still(k) \/ Large(k))}
  <2> HIDE DEF Still, Large
  <2> SUFFICES ASSUME Bad # {} PROVE FALSE
    OBVIOUS
  <2>0. Bad \in SUBSET Nat
    BY <1>2
  <2>1. PICK n \in Bad : \A k \in Bad : n <= k
    BY <2>0, SmallestNumber
  <2>2. n # 0
    BY <1>c
  <2>3. n - 1 \in 0..N /\ n - 1 \notin Bad /\ (n - 1) + 1 = n
    BY <1>2, <2>1, <2>2
  <2> QED
    BY <1>d, <2>3
<1>f. Still(N)
  <2>1. reached[N] \in SUBSET Nodes
    BY <1>2, <1>b
  <2>2. Cardinality(reached[N]) <= N
    BY <1>2, <2>1, FS_Subset
  <2>3. Cardinality(reached[N]) \in Nat
    BY <1>2, <2>1, FS_Subset, FS_CardinalityType
  <2> QED
    BY <1>2, <1>e, <2>2, <2>3
<1>g. ASSUME NEW k \in 0..N PROVE Fetched \subseteq reached[k]
  <2> DEFINE Bad == {j \in 0..N : ~ (Fetched \subseteq reached[j])}
  <2> SUFFICES ASSUME Bad # {} PROVE FALSE
    OBVIOUS
  <2>0. Bad \in SUBSET Nat
    BY <1>2
  <2>1. PICK n \in Bad : \A j \in Bad : n <= j
    BY <2>0, SmallestNumber
  <2>2. n # 0
    BY <1>a
  <2>3. n - 1 \in 0..N /\ n - 1 \notin Bad
    BY <1>2, <2>1, <2>2
  <2>4. reached[n] = Wider(reached[n - 1])
    BY <1>a, <2>2
  <2> QED
    BY <1>3, <1>b, <2>3, <2>4
<1>h. Branch = reached[N]
  BY <1>1 DEF reached
<1>i. Closed(reached[N])
  <2>1. \A n \in reached[N] : ReadsOf(n) \subseteq reached[N]
    BY <1>f
  <2> QED
    BY <1>2, <1>g, <2>1 DEF Closed, ReadsOf
<1> QED
  BY <1>2, <1>b, <1>h, <1>i

LEMMA NeededNodeInBranch ==
  ASSUME NEW n \in Nodes, NeedsNode(n)
  PROVE  n \in Branch
<1>1. CASE Fetched = {}
  BY <1>1 DEF Branch
<1>2. CASE Fetched # {}
  BY <1>2, BranchIsClosed DEF NeedsNode
<1> QED
  BY <1>1, <1>2

-----------------------------------------------------------------------------
\* A file that no rule hides, and what brings it along: itself, or a directory above.
Visible(f) == /\ f \notin Backups /\ \A n \in 1..Len(f) - 1 : f[n] \notin SkipNames
              /\ \A p \in Patterned : ~IsPrefix(p, f)

Carries(d, f) == d = f \/ (d \in Dirs /\ IsStrictPrefix(d, f))

LEMMA CarriedIsWalked ==
  ASSUME NEW f \in Files, Visible(f), NEW d, Carries(d, f)
  PROVE  /\ d \notin Patterned
         /\ d \in Dirs => Last(d) \notin SkipNames /\ Walks(d, f)
<1>1. f \in Seq(Names) /\ Len(f) \in Nat
  BY FilesAre
<1>2. IsPrefix(f, f)
  BY <1>1, PrefixIs
<1>3. CASE d = f
  BY <1>2, <1>3 DEF Visible, Dirs
<1>4. CASE d \in Dirs /\ IsStrictPrefix(d, f)
  <2>1. d \in Seq(Names) /\ Len(d) \in Nat \ {0}
    BY <1>4, DirsAre
  <2>2. Len(d) <= Len(f) /\ (\A i \in 1..Len(d) : d[i] = f[i]) /\ d = SubSeq(f, 1, Len(d))
    BY <1>1, <1>4, <2>1, PrefixIs DEF IsStrictPrefix
  <2>3. Len(d) < Len(f)
    <3>1. SubSeq(f, 1, Len(f)) = f
      BY <1>1
    <3>2. Len(d) # Len(f)
      BY <1>4, <2>2, <3>1 DEF IsStrictPrefix
    <3> QED
      BY <1>1, <2>1, <2>2, <3>2
  <2>4. Len(d) \in 1..Len(f) - 1 /\ Last(d) = f[Len(d)]
    BY <1>1, <2>1, <2>2, <2>3 DEF Last
  <2>5. \A n \in Len(d) + 1..Len(f) - 1 : n \in 1..Len(f) - 1
    BY <1>1, <2>1
  <2> QED
    BY <1>4, <2>4, <2>5 DEF Visible, Walks, IsStrictPrefix
<1> QED
  BY <1>3, <1>4 DEF Carries

\* What a reference names is there in what globbed finds of it.
LEMMA GlobbedCarries ==
  ASSUME disk \subseteq Files, NEW r \in Refs, NEW v \in {r.value, r.text}, NEW f \in PathsOf(v), f \in disk
  PROVE  \E d \in Globbed(v) : Carries(d, f)
<1>1. /\ v.shape \in {"varies", "frame", "plain", "relative", "internal"}
      /\ v.shape \in {"frame", "plain", "relative"} => v.at \in Seq(Range(v.at)) \ {<<>>}
      /\ v.shape = "frame" => Len(v.at) > 1
  BY PreflightAssumption
<1>2. f \in Files /\ f \in Seq(Names)
  BY FilesAre
<1>3. CASE v.shape = "varies"
  BY <1>3 DEF PathsOf, Globbed, Carries
<1>4. CASE v.shape = "frame"
  <2>1. v.at \in Seq(Range(v.at)) /\ Len(v.at) > 1
    BY <1>1, <1>4
  <2>2. Front(v.at) \in Seq(Range(v.at)) /\ Front(v.at) # <<>>
    BY <2>1 DEF Front
  <2>3. IsStrictPrefix(Front(v.at), f)
    BY <1>4 DEF PathsOf
  <2>4. Front(v.at) \in Dirs
    BY <1>2, <2>2, <2>3, PrefixIsDir DEF IsStrictPrefix
  <2> QED
    BY <1>4, <2>3, <2>4 DEF Globbed, Carries
<1>5. CASE v.shape = "plain"
  <2>1. v.at \in Seq(Range(v.at)) /\ v.at # <<>> /\ IsPrefix(v.at, f)
    BY <1>1, <1>5 DEF PathsOf
  <2>2. v.at = f \/ (v.at \in Dirs /\ IsStrictPrefix(v.at, f))
    BY <1>2, <2>1, PrefixIsDir
  <2> QED
    BY <1>5, <2>2 DEF Globbed, Carries, Exists
<1>6. CASE v.shape = "relative"
  <2>1. PICK root \in Roots : IsPrefix(root \o v.at, f)
    BY <1>6 DEF PathsOf
  <2>2. v.at \in Seq(Range(v.at)) /\ v.at # <<>> /\ root \in Seq(Range(root))
    BY <1>1, <1>6, PreflightAssumption
  <2>3. root \o v.at \in Seq(Range(root) \cup Range(v.at)) /\ root \o v.at # <<>>
    <3> DEFINE A == Range(root)
               B == Range(v.at)
               at == v.at
    <3>1. root \in Seq(A) /\ at \in Seq(B) /\ at # <<>>
      BY <2>2
    <3> HIDE DEF A, B, at
    <3>2. root \in Seq(A \cup B) /\ at \in Seq(A \cup B)
      BY <3>1
    <3>3. root \o at \in Seq(A \cup B) /\ root \o at # <<>>
      BY <3>1, <3>2
    <3> QED
      BY <3>3 DEF A, B, at
  <2>4. root \o v.at = f \/ (root \o v.at \in Dirs /\ IsStrictPrefix(root \o v.at, f))
    BY <1>2, <2>1, <2>3, PrefixIsDir
  <2> QED
    BY <1>6, <2>4 DEF Globbed, Carries, Exists
<1>7. CASE v.shape = "internal"
  BY <1>7 DEF PathsOf
<1> QED
  BY <1>1, <1>3, <1>4, <1>5, <1>6, <1>7

\* What the scans find, in the order of the sources.
Sources(scope, cooked) == ScanRefs(scope, FALSE) \cup UsdRefs(cooked) \cup EnvRefs
FoundBy(scope, cooked) == <<ScanRefs(scope, FALSE), UsdRefs(cooked), EnvRefs, ScanRefs(scope, TRUE)>>

\* Every file the cook needs is visible and found by one of the scans.
LEMMA NeededIsFound ==
  ASSUME disk \subseteq Files, NEW scope \in {"scene", "branch"}, NEW cooked, NEW f \in NeededFiles(cooked)
  PROVE  /\ f \in disk /\ Visible(f)
         /\ \E d \in Sources(scope, cooked) : Carries(d, f)
<1>1. f \in disk /\ Visible(f) /\ f \in Files /\ f \in Seq(Names)
  <2>1. f \in disk /\ f \notin Backups /\ (\A n \in 1..Len(f) - 1 : f[n] \notin SkipNames) /\ \A p \in Patterned : ~IsPrefix(p, f)
    BY DEF NeededFiles
  <2> QED
    BY <2>1, FilesAre DEF Visible
<1> DEFINE Reading == {s \in Refs : ~s.output /\ (s.node = Unowned \/ (~s.ours /\ NeedsNode(s.node)))}
<1>2. \/ f = Hip
      \/ \E r \in Reading : f \in PathsOf(r.value) \cup PathsOf(r.text)
      \/ \E r \in cooked : f \in Composed[r] \cup (IF Deep THEN Layered[r] ELSE {})
      \/ Ocio \in disk /\ IsPrefix(Front(Ocio), f)
  BY DEF NeededFiles
<1>3. ASSUME f = Hip
      PROVE  f \in ScanRefs(scope, FALSE) /\ Carries(f, f)
  BY <1>1, <1>3, CarriedIsWalked DEF ScanRefs, Carries
<1>4. ASSUME NEW r \in Reading, f \in PathsOf(r.value) \cup PathsOf(r.text)
      PROVE  \E d \in ScanRefs(scope, FALSE) : Carries(d, f)
  <2>1. PICK v \in {r.value, r.text} : f \in PathsOf(v)
    BY <1>4
  <2>2. PICK d \in Globbed(v) : Carries(d, f)
    BY <1>1, <2>1, GlobbedCarries
  <2>3. r \in Kept(scope) /\ r.output = FALSE
    BY NeededNodeInBranch, PreflightAssumption DEF Kept
  <2>4. d \in Found(r) /\ d \notin Patterned
    BY <1>1, <2>2, CarriedIsWalked DEF Found
  <2> QED
    BY <2>2, <2>3, <2>4 DEF ScanRefs
<1>5. ASSUME NEW r \in cooked, f \in Composed[r] \cup (IF Deep THEN Layered[r] ELSE {})
      PROVE  f \in UsdRefs(cooked) /\ Carries(f, f)
  <2>1. f \notin Patterned
    BY <1>1, CarriedIsWalked DEF Carries
  <2> QED
    BY <1>1, <1>5, <2>1 DEF UsdRefs, Carries
<1>6. ASSUME Ocio \in disk, IsPrefix(Front(Ocio), f)
      PROVE  \E d \in EnvRefs : Carries(d, f)
  <2>1. Ocio \in Seq(Names) /\ Len(Ocio) > 1 /\ Ocio \in Files
    BY FilesAre, PreflightAssumption
  <2>2. Front(Ocio) \in Seq(Names) /\ Front(Ocio) # <<>> /\ Len(Front(Ocio)) = Len(Ocio) - 1
        /\ \A i \in 1..Len(Ocio) - 1 : Front(Ocio)[i] = Ocio[i]
    BY <2>1 DEF Front
  <2>3. IsPrefix(Front(Ocio), Ocio) /\ Front(Ocio) # Ocio
    BY <2>1, <2>2, PrefixIs
  <2>4. Front(Ocio) \in Dirs
    BY <2>1, <2>2, <2>3, PrefixIsDir
  <2>5. Carries(Front(Ocio), f)
    BY <1>1, <1>6, <2>2, <2>4, PrefixIsDir DEF Carries, Dirs
  <2> QED
    BY <1>1, <1>6, <2>5, CarriedIsWalked DEF EnvRefs
<1> QED
  BY <1>1, <1>2, <1>3, <1>4, <1>5, <1>6 DEF Sources

-----------------------------------------------------------------------------
\* A row of the plan holds only what may travel.
RowForm(r) ==
  /\ r \in [path : Files \cup Dirs, rank : Scene..Output, contents : SUBSET Files]
  /\ r.path \in Dirs => Last(r.path) \notin SkipNames
  /\ r.path \in Files => r.path \notin Backups /\ r.contents = {}
  /\ \A g \in r.contents : Walks(r.path, g)

\* A file is in the tree as itself, or in a directory that is too large to list ...
Stands(p, f) == p = f \/ (p \in Dirs \cap TooMany /\ Walks(p, f))

\* ... and on a line that is checked unless the artist says otherwise.
OnLine(t, f) == \E p \in Leaves(t) : Stands(p, f) /\ ByDefault(t, p)

LEMMA NotBoth == Files \cap Dirs = {}
  BY DEF Dirs

LEMMA WalkIs ==
  ASSUME NEW d
  PROVE  WalkFiles(d) = {f \in disk : Walks(d, f)}
BY DEF WalkFiles, Walks

\* The rows of the plan, and where what was found has gone.
LEMMA PlanForm ==
  ASSUME disk \subseteq Files, NEW found, NEW r \in PlanOf(found)
  PROVE  RowForm(r) /\ (r.path \in Dirs \ TooMany => r.contents = WalkFiles(r.path))
<1>1. PICK k \in Scene..Output : r \in PlanRefs(found[k] \ UNION {found[j] : j \in 1..k - 1}, k)
  BY DEF PlanOf
<1> DEFINE paths == found[k] \ UNION {found[j] : j \in 1..k - 1}
<1> HIDE DEF paths
<1>2. r \in PlanRefs(paths, k)
  BY <1>1 DEF paths
<1>3. CASE \E p \in paths \cap Dirs : /\ Last(p) \notin SkipNames
                                      /\ r = [path |-> p, rank |-> k, contents |-> IF p \in TooMany THEN {} ELSE WalkFiles(p)]
  <2>1. PICK p \in Dirs : /\ Last(p) \notin SkipNames
                          /\ r = [path |-> p, rank |-> k, contents |-> IF p \in TooMany THEN {} ELSE WalkFiles(p)]
    BY <1>3
  <2>2. r.path = p /\ r.rank = k /\ r.contents = (IF p \in TooMany THEN {} ELSE WalkFiles(p))
    BY <2>1
  <2>3. r.contents \subseteq disk /\ \A g \in r.contents : Walks(p, g)
    BY <2>2, WalkIs
  <2>4. r \in [path : Files \cup Dirs, rank : Scene..Output, contents : SUBSET Files]
    BY <2>1, <2>2, <2>3
  <2> QED
    BY <2>1, <2>2, <2>3, <2>4, NotBoth DEF RowForm
<1>4. CASE \E f \in (paths \cap disk) \ Backups : r = [path |-> f, rank |-> k, contents |-> {}]
  BY <1>4, NotBoth DEF RowForm
<1> QED
  BY <1>2, <1>3, <1>4 DEF PlanRefs

LEMMA PlanHas ==
  ASSUME disk \subseteq Files, NEW scope, NEW cooked, NEW found, found = FoundBy(scope, cooked), NEW f, f \in disk, Visible(f),
         NEW d, d \in Sources(scope, cooked), Carries(d, f)
  PROVE  \E r \in PlanOf(found) : r.path = d /\ r.rank < Output
<1>1. d \in found[1] \cup found[2] \cup found[3]
  BY DEF FoundBy, Sources
<1>2. PICK k \in 1..3 : d \in found[k] \ UNION {found[j] : j \in 1..k - 1}
  <2>1. CASE d \in found[1]
    BY <2>1
  <2>2. CASE d \in found[2] \ found[1]
    <3>1. \A j \in 1..2 - 1 : j = 1
      OBVIOUS
    <3> QED
      BY <2>2, <3>1
  <2>3. CASE d \in found[3] \ (found[1] \cup found[2])
    <3>1. \A j \in 1..3 - 1 : j = 1 \/ j = 2
      OBVIOUS
    <3> QED
      BY <2>3, <3>1
  <2> QED
    BY <1>1, <2>1, <2>2, <2>3
<1> DEFINE paths == found[k] \ UNION {found[j] : j \in 1..k - 1}
<1>3. d \in paths
  BY <1>2
<1>4. PlanRefs(paths, k) \subseteq PlanOf(found)
  <2>1. k \in Scene..Output
    BY DEF Scene, Output
  <2> QED
    BY <2>1 DEF PlanOf
<1> HIDE DEF paths
<1>5. \E r \in PlanRefs(paths, k) : r.path = d /\ r.rank = k
  <2>1. CASE d = f
    <3>1. [path |-> f, rank |-> k, contents |-> {}] \in PlanRefs(paths, k)
      BY <1>3, <2>1 DEF PlanRefs, Visible
    <3> QED
      BY <2>1, <3>1
  <2>2. CASE d \in Dirs
    <3>1. Last(d) \notin SkipNames
      BY <2>2, CarriedIsWalked
    <3>2. [path |-> d, rank |-> k, contents |-> IF d \in TooMany THEN {} ELSE WalkFiles(d)] \in PlanRefs(paths, k)
      BY <1>3, <2>2, <3>1 DEF PlanRefs
    <3> QED
      BY <3>2
  <2> QED
    BY <2>1, <2>2 DEF Carries
<1> QED
  BY <1>2, <1>4, <1>5 DEF Output

\* What build_tree makes of rows: files are leaves, and a leaf has its first source.
LEMMA TreeIs ==
  ASSUME NEW plan, \A r \in plan : RowForm(r)
  PROVE  /\ Shown(plan) \subseteq Files \cup Dirs
         /\ Leaves(BuildTree(plan)) = {q \in Shown(plan) : \A r \in Shown(plan) : ~IsStrictPrefix(q, r)}
         /\ \A f \in Shown(plan) \cap Files : f \in Leaves(BuildTree(plan))
         /\ \A p \in Leaves(BuildTree(plan)) :
              /\ BuildTree(plan)[p] \in {r.rank : r \in {s \in plan : p \in Inserted(s)}}
              /\ \A r \in plan : p \in Inserted(r) => BuildTree(plan)[p] <= r.rank
<1>1. \A r \in plan : Inserted(r) \subseteq Files \cup Dirs
  BY DEF RowForm, Inserted
<1>2. Shown(plan) \subseteq Files \cup Dirs
  BY <1>1 DEF Shown
<1>3. Leaves(BuildTree(plan)) = {q \in Shown(plan) : \A r \in Shown(plan) : ~IsStrictPrefix(q, r)}
  BY DEF Leaves, BuildTree
<1>4. \A f \in Shown(plan) \cap Files : f \in Leaves(BuildTree(plan))
  BY <1>2, <1>3, NothingBelowFile
<1>5. ASSUME NEW p \in Leaves(BuildTree(plan))
      PROVE  /\ BuildTree(plan)[p] \in {r.rank : r \in {s \in plan : p \in Inserted(s)}}
             /\ \A r \in plan : p \in Inserted(r) => BuildTree(plan)[p] <= r.rank
  <2> DEFINE ranks == {r.rank : r \in {s \in plan : p \in Inserted(s)}}
  <2>1. BuildTree(plan)[p] = Min(ranks)
    BY <1>3, <1>5 DEF BuildTree, Leaves
  <2>2. ranks \in SUBSET Nat
    BY DEF RowForm, Scene, Output
  <2>3. ranks # {}
    BY <1>3, <1>5 DEF Shown
  <2>4. Min(ranks) \in ranks /\ \A k \in ranks : Min(ranks) <= k
    <3> HIDE DEF ranks
    <3> QED
      BY <2>2, <2>3, SmallestNumber DEF Min
  <2> QED
    BY <2>1, <2>4
<1> QED
  BY <1>2, <1>3, <1>4, <1>5

\* A file the cook needs, that build_tree keeps, is on a line of its own or of its
\* directory, which an output does not take from it.
LEMMA ScanShows ==
  ASSUME disk \subseteq Files, NEW scope \in {"scene", "branch"}, NEW cooked, NEW found, found = FoundBy(scope, cooked),
         NEW plan, plan = PlanOf(found), NEW f \in NeededFiles(cooked) \ Swallowed(plan)
  PROVE  OnLine(BuildTree(plan), f)
<1> DEFINE t == BuildTree(plan)
<1>1. f \in disk /\ Visible(f) /\ f \in Files
  BY NeededIsFound
<1>2. PICK d \in Sources(scope, cooked) : Carries(d, f)
  BY NeededIsFound
<1>3. PICK r \in plan : r.path = d /\ r.rank < Output
  BY <1>1, <1>2, PlanHas
<1>4. \A s \in plan : RowForm(s) /\ (s.path \in Dirs \ TooMany => s.contents = WalkFiles(s.path))
  BY PlanForm
<1>5. f \notin Swallowed(plan)
  OBVIOUS
<1>6. /\ Shown(plan) \subseteq Files \cup Dirs
      /\ Leaves(t) = {q \in Shown(plan) : \A s \in Shown(plan) : ~IsStrictPrefix(q, s)}
      /\ \A g \in Shown(plan) \cap Files : g \in Leaves(t)
      /\ \A p \in Leaves(t), s \in plan : p \in Inserted(s) => t[p] <= s.rank
      /\ \A p \in Leaves(t) : t[p] \in {s.rank : s \in {u \in plan : p \in Inserted(u)}}
  BY <1>4, TreeIs
<1>7. CASE f \in Inserted(r)
  <2>1. f \in Leaves(t) /\ t[f] <= r.rank
    BY <1>1, <1>6, <1>7 DEF Shown
  <2>2. r.rank \in Nat /\ t[f] \in Nat
    BY <1>4, <1>6, <2>1 DEF RowForm, Scene, Output
  <2>3. t[f] # Output
    BY <1>3, <2>1, <2>2 DEF Output
  <2> QED
    BY <2>1, <2>3 DEF OnLine, Stands, ByDefault
<1>8. CASE f \notin Inserted(r)
  <2>1. d \in Dirs \cap TooMany /\ IsStrictPrefix(d, f)
    <3>1. CASE d = f
      BY <1>1, <1>3, <1>4, <1>8, <3>1 DEF RowForm, Inserted
    <3>2. CASE d \in Dirs \ TooMany /\ IsStrictPrefix(d, f)
      <4>1. Walks(d, f)
        BY <1>1, <1>2, <3>2, CarriedIsWalked
      <4>2. f \in r.contents
        BY <1>1, <1>3, <1>4, <3>2, <4>1, WalkIs
      <4> QED
        BY <1>8, <4>2 DEF Inserted
    <3> QED
      BY <1>2, <3>1, <3>2 DEF Carries
  <2>2. PICK p \in Leaves(t) : IsPrefix(p, f) /\ ByDefault(t, p)
    BY <1>1, <1>3, <1>5, <2>1 DEF Swallowed
  <2>3. p \in Files \cup Dirs /\ p \in Seq(Names) /\ p # <<>>
    BY <1>6, <2>2, FilesAre, DirsAre
  <2>4. CASE p = f
    BY <2>2, <2>4 DEF OnLine, Stands
  <2>5. CASE p # f
    <3>1. p \in Dirs /\ IsStrictPrefix(p, f)
      BY <1>1, <2>2, <2>3, <2>5, PrefixIsDir
    <3>2. Walks(p, f)
      BY <1>1, <3>1, CarriedIsWalked DEF Carries
    <3>3. PICK s \in plan : p \in Inserted(s)
      BY <1>6, <2>2 DEF Shown
    <3>4. s.contents = {} /\ s.path = p
      BY <1>4, <3>1, <3>3, NotBoth DEF RowForm, Inserted
    <3>5. p \in TooMany
      BY <1>1, <1>4, <3>1, <3>2, <3>4, WalkIs
    <3> QED
      BY <2>2, <3>1, <3>2, <3>5 DEF OnLine, Stands
  <2> QED
    BY <2>4, <2>5
<1> QED
  BY <1>7, <1>8

-----------------------------------------------------------------------------
\* What is selected is what is sent.
LEMMA ResolveHas ==
  ASSUME NEW chosen, NEW f \in Files, f \in disk, f \notin Backups,
         NEW q \in chosen, q = f \/ (q \in Dirs /\ Last(q) \notin SkipNames /\ Walks(q, f))
  PROVE  f \in Resolve(chosen)
<1>1. CASE q = f
  BY <1>1, NotBoth DEF Resolve
<1>2. CASE q \in Dirs /\ Last(q) \notin SkipNames /\ Walks(q, f)
  BY <1>2, WalkIs DEF Resolve
<1> QED
  BY <1>1, <1>2

LEMMA SendCovers ==
  ASSUME \A r \in rows : RowForm(r), tree = BuildTree(rows), NEW f \in Files, f \in disk, f \notin Backups,
         NEW p \in Leaves(tree), Stands(p, f), p \in checked, NEW chosen, chosen = SelectedPaths(rows, checked)
  PROVE  f \in Resolve(chosen)
<1>1. p \in Shown(rows)
  BY TreeIs
<1>2. PICK r \in rows : p \in Inserted(r)
  BY <1>1 DEF Shown
<1>3. /\ r.contents # {} /\ r.contents \subseteq checked => r.path \in chosen
      /\ r.contents # {} /\ ~(r.contents \subseteq checked) => r.contents \cap checked \subseteq chosen
      /\ r.contents = {} => {r.path} \cap checked \subseteq chosen
  BY DEF SelectedPaths
<1>5. CASE r.contents # {}
  <2>1. p = f /\ f \in r.contents
    BY <1>2, <1>5, NotBoth DEF Inserted, RowForm, Stands
  <2>2. r.path \in Dirs /\ Last(r.path) \notin SkipNames /\ Walks(r.path, f)
    BY <1>5, <2>1 DEF RowForm
  <2>3. CASE r.contents \subseteq checked
    <3>1. r.path \in chosen
      BY <1>3, <1>5, <2>3
    <3> QED
      BY ResolveHas, <2>2, <3>1
  <2>4. CASE ~ r.contents \subseteq checked
    <3>1. f \in chosen
      BY <1>3, <1>5, <2>1, <2>4
    <3> QED
      BY ResolveHas, <3>1
  <2> QED
    BY <2>3, <2>4
<1>6. CASE r.contents = {}
  <2>1. p = r.path
    BY <1>2, <1>6 DEF Inserted
  <2>2. p \in chosen
    BY <1>3, <1>6, <2>1
  <2>3. CASE p = f
    BY ResolveHas, <2>2, <2>3
  <2>4. CASE p # f
    <3>1. p \in Dirs /\ Walks(p, f)
      BY <2>4 DEF Stands
    <3>2. Last(p) \notin SkipNames
      BY <2>1, <3>1 DEF RowForm
    <3> QED
      BY ResolveHas, <2>2, <3>1, <3>2
  <2> QED
    BY <2>3, <2>4
<1> QED
  BY <1>5, <1>6

\* Two lines of a tree never stand for one file.
LEMMA LeavesApart ==
  ASSUME NEW plan, \A r \in plan : RowForm(r),
         NEW p \in Leaves(BuildTree(plan)), NEW q \in Leaves(BuildTree(plan)), p # q,
         NEW f \in Files, IsPrefix(p, f)
  PROVE  ~IsPrefix(q, f)
<1>1. /\ p \in Files \cup Dirs /\ q \in Files \cup Dirs
      /\ ~IsStrictPrefix(p, q) /\ ~IsStrictPrefix(q, p)
  BY TreeIs
<1>2. p \in Seq(Names) /\ q \in Seq(Names)
  BY <1>1, FilesAre, DirsAre
<1> QED
  BY <1>1, <1>2, PrefixesCompare

\* The rows after a move to the trash are the lines of the tree before it ...
LEMMA TrashRows ==
  ASSUME disk \subseteq Files, \A r \in rows : RowForm(r), tree = BuildTree(rows), NEW f, Trash(f)
  PROVE  /\ \A r \in rows' : /\ RowForm(r) /\ r.path \in Leaves(tree) /\ r.rank = tree[r.path]
                             /\ r.path \in Files \cup TooMany => r.contents = {}
         /\ \A p \in Leaves(tree) \cap (disk' \cup Dirs) : \E r \in rows' : r.path = p
<1>1. \A p \in Leaves(tree) : p \in Shown(rows) /\ p \in Files \cup Dirs /\ tree[p] \in {r.rank : r \in rows}
  BY TreeIs
<1>2. ASSUME NEW p \in Leaves(tree)
      PROVE  /\ p \in Dirs => Last(p) \notin SkipNames
             /\ p \in Files => p \notin Backups
             /\ tree[p] \in Scene..Output
  <2>1. PICK r \in rows : p \in Inserted(r)
    BY <1>1 DEF Shown
  <2>2. tree[p] \in Scene..Output
    BY <1>1 DEF RowForm
  <2>3. CASE p = r.path
    BY <2>2, <2>3 DEF RowForm
  <2>4. CASE p \in r.contents
    BY <2>2, <2>4, NotBoth DEF RowForm, Walks
  <2> QED
    BY <2>1, <2>3, <2>4 DEF Inserted
<1> DEFINE Row(p) == [path |-> p, rank |-> tree[p], contents |-> IF p \in Files \cup TooMany THEN {} ELSE WalkFiles(p)']
<1>3. rows' = {Row(p) : p \in Leaves(tree) \cap (disk' \cup Dirs)}
  BY DEF Trash
<1>4. \A p : WalkFiles(p)' \subseteq Files /\ \A g \in WalkFiles(p)' : Walks(p, g)
  <2>1. disk' \subseteq Files
    BY DEF Trash
  <2> QED
    BY <2>1 DEF WalkFiles, Walks
<1>5. ASSUME NEW p \in Leaves(tree)
      PROVE  RowForm(Row(p)) /\ Row(p).path = p /\ Row(p).rank = tree[p] /\ (p \in Files \cup TooMany => Row(p).contents = {})
  <2> DEFINE inside == IF p \in Files \cup TooMany THEN {} ELSE WalkFiles(p)'
  <2>1. inside \subseteq Files /\ (\A g \in inside : Walks(p, g)) /\ (p \in Files \cup TooMany => inside = {})
    BY <1>4
  <2> HIDE DEF inside
  <2>2. Row(p) = [path |-> p, rank |-> tree[p], contents |-> inside]
    BY DEF inside
  <2> HIDE DEF Row
  <2>3. Row(p).path = p /\ Row(p).rank = tree[p] /\ Row(p).contents = inside
        /\ Row(p) \in [path : Files \cup Dirs, rank : Scene..Output, contents : SUBSET Files]
    BY <1>1, <1>2, <2>1, <2>2
  <2> QED
    BY <1>2, <2>1, <2>3 DEF RowForm
<1> HIDE DEF Row
<1> QED
  BY <1>3, <1>5

\* ... and stand for what they stood for.
LEMMA TrashShows ==
  ASSUME disk \subseteq Files, \A r \in rows : RowForm(r), tree = BuildTree(rows), NEW f, Trash(f),
         NEW g \in Files, g \in disk', OnLine(tree, g)
  PROVE  OnLine(BuildTree(rows'), g)
<1> DEFINE t == BuildTree(rows')
<1>1. PICK p \in Leaves(tree) : Stands(p, g) /\ ByDefault(tree, p)
  BY DEF OnLine
<1>2. /\ \A r \in rows' : /\ RowForm(r) /\ r.path \in Leaves(tree) /\ r.rank = tree[r.path]
                          /\ r.path \in Files \cup TooMany => r.contents = {}
      /\ \A q \in Leaves(tree) \cap (disk' \cup Dirs) : \E r \in rows' : r.path = q
  BY TrashRows
<1>3. p \in Files \cup Dirs /\ g \in Seq(Names) /\ IsPrefix(g, g)
  <2>1. g \in Seq(Names)
    BY FilesAre
  <2> QED
    BY <2>1, PrefixIs, TreeIs
<1>4. IsPrefix(p, g) /\ p \in Files \cup TooMany /\ p \in disk' \cup Dirs
  BY <1>1, <1>3 DEF Stands, Walks, IsStrictPrefix
<1>5. PICK r \in rows' : r.path = p /\ r.contents = {}
  BY <1>1, <1>2, <1>4
<1>6. p \in Shown(rows')
  BY <1>5 DEF Shown, Inserted
<1>7. ASSUME NEW s \in rows', NEW q \in Inserted(s)
      PROVE  ~IsStrictPrefix(p, q) /\ (q = p => s.path = p)
  <2>1. RowForm(s) /\ s.path \in Leaves(tree) /\ (s.path \in Files \cup TooMany => s.contents = {})
    BY <1>2
  <2>2. CASE s.contents = {}
    <3>1. q = s.path
      BY <1>7, <2>2 DEF Inserted
    <3> QED
      BY <2>1, <3>1, TreeIs
  <2>3. CASE s.contents # {}
    <3>1. q \in Files /\ Walks(s.path, q) /\ s.path # p
      BY <1>4, <1>7, <2>1, <2>3 DEF Inserted, RowForm
    <3>2. IsPrefix(s.path, q)
      BY <3>1 DEF Walks, IsStrictPrefix
    <3>3. ~IsPrefix(p, q)
      BY <2>1, <3>1, <3>2, LeavesApart
    <3>4. q \in Seq(Names)
      BY <3>1, FilesAre
    <3>5. IsPrefix(q, q)
      BY <3>4, PrefixIs
    <3> QED
      BY <3>3, <3>5 DEF IsStrictPrefix
  <2> QED
    BY <2>2, <2>3
<1>8. p \in Leaves(t) /\ t[p] \in {s.rank : s \in {u \in rows' : p \in Inserted(u)}}
  <2>1. \A q \in Shown(rows') : ~IsStrictPrefix(p, q)
    BY <1>7 DEF Shown
  <2> QED
    BY <1>2, <1>6, <2>1, TreeIs
<1>9. t[p] = tree[p]
  BY <1>2, <1>7, <1>8
<1> QED
  BY <1>1, <1>8, <1>9 DEF OnLine, ByDefault

-----------------------------------------------------------------------------
\* A file the cook needs is on a line of the tree from the scan until the send,
\* whatever the artist deletes and others change.
PreflightInv ==
  /\ disk \subseteq Files
  /\ \A f \in needed : f \in disk /\ f \notin Backups
  /\ \A r \in rows : RowForm(r)
  /\ pc # "rest" => tree = BuildTree(rows) /\ \A f \in needed : OnLine(tree, f)
  /\ NothingMissed

\* The scan, the trash and the send.
LEMMA ScanKeeps ==
  ASSUME PreflightInv, NEW scope \in {"scene", "branch"}, NEW ask, NEW review, Scan(scope, ask, review)
  PROVE  PreflightInv'
<1>1. PICK cooked \in SUBSET Fetched :
        /\ rows' = PlanOf(<<ScanRefs(scope, FALSE), UsdRefs(cooked), EnvRefs, ScanRefs(scope, TRUE)>>)
        /\ needed' = NeededFiles(cooked) \ Swallowed(rows')
  BY DEF Scan
<1>2. disk' = disk /\ tree' = BuildTree(rows') /\ pc' \in {"window", "send"}
  BY DEF Scan
<1>3. disk \subseteq Files
  BY DEF PreflightInv
<1> DEFINE found == FoundBy(scope, cooked)
<1>4. rows' = PlanOf(found)
  BY <1>1 DEF FoundBy
<1> HIDE DEF found
<1>5. \A r \in PlanOf(found) : RowForm(r)
  BY <1>3, PlanForm
<1>6. \A f \in NeededFiles(cooked) : f \in disk /\ Visible(f)
  BY <1>3, NeededIsFound
<1>7. \A f \in NeededFiles(cooked) \ Swallowed(PlanOf(found)) : OnLine(BuildTree(PlanOf(found)), f)
  BY <1>3, ScanShows DEF found
<1>8. needed' = NeededFiles(cooked) \ Swallowed(PlanOf(found)) /\ tree' = BuildTree(PlanOf(found))
  BY <1>1, <1>2, <1>4
<1>9. \A f \in needed' : f \in disk /\ f \notin Backups
  BY <1>6, <1>8 DEF Visible
<1>10. \A r \in rows' : RowForm(r)
  BY <1>4, <1>5
<1>11. \A f \in needed' : OnLine(tree', f)
  BY <1>7, <1>8
<1>12. tree' = BuildTree(rows')
  BY <1>2
<1>13. NothingMissed'
  BY <1>2 DEF NothingMissed
<1> QED
  BY <1>2, <1>3, <1>9, <1>10, <1>11, <1>12, <1>13 DEF PreflightInv, RowForm, OnLine, BuildTree, Shown, Inserted, Leaves

LEMMA TrashKeeps ==
  ASSUME PreflightInv, NEW f \in Files, Trash(f)
  PROVE  PreflightInv'
<1>1. /\ disk' \subseteq disk /\ needed' \subseteq needed /\ pc' = pc /\ pc = "window"
      /\ tree' = BuildTree(rows') /\ disk' = disk \ {f} /\ needed' = needed \ {f}
  BY DEF Trash
<1>2. disk \subseteq Files /\ (\A r \in rows : RowForm(r)) /\ tree = BuildTree(rows)
  BY <1>1 DEF PreflightInv
<1>3. \A r \in rows' : RowForm(r)
  BY <1>2, TrashRows
<1>4. \A g \in needed : g \in disk /\ g \notin Backups /\ OnLine(tree, g)
  BY <1>1 DEF PreflightInv
<1>5. ASSUME NEW g \in needed'
      PROVE  g \in disk' /\ g \notin Backups /\ OnLine(BuildTree(rows'), g)
  <2>1. g \in needed /\ g \in disk' /\ g \in Files
    BY <1>1, <1>2, <1>4
  <2>2. OnLine(tree, g)
    BY <1>4, <2>1
  <2> QED
    BY <1>2, <1>4, <2>1, <2>2, TrashShows
<1>6. NothingMissed'
  BY <1>1 DEF NothingMissed
<1> QED
  BY <1>1, <1>2, <1>3, <1>5, <1>6 DEF PreflightInv

LEMMA SendKeeps ==
  ASSUME PreflightInv, Send
  PROVE  PreflightInv'
<1>1. /\ pc = "send" /\ pc' = "sent" /\ disk' = disk /\ needed' = needed /\ rows' = rows /\ tree' = tree
      /\ checked' = checked /\ sent' = Resolve(SelectedPaths(rows, checked))
  BY DEF Send
<1>2. /\ disk \subseteq Files /\ \A r \in rows : RowForm(r)
      /\ tree = BuildTree(rows) /\ \A f \in needed : f \in disk /\ f \notin Backups /\ OnLine(tree, f)
  BY <1>1 DEF PreflightInv
<1> DEFINE chosen == SelectedPaths(rows, checked)
<1> HIDE DEF chosen
<1>3. sent' = Resolve(chosen)
  BY <1>1 DEF chosen
<1>4. ASSUME NEW f \in needed
      PROVE  f \in sent' \/ \E p \in Leaves(tree) \ checked : IsPrefix(p, f) /\ ByDefault(tree, p)
  <2>1. f \in Files /\ f \in disk /\ f \notin Backups /\ f \in Seq(Names)
    BY <1>2, FilesAre
  <2>2. PICK p \in Leaves(tree) : Stands(p, f) /\ ByDefault(tree, p)
    BY <1>2 DEF OnLine
  <2>3. CASE p \in checked
    <3>1. f \in Resolve(chosen)
      BY <1>2, <2>1, <2>2, <2>3, SendCovers DEF chosen
    <3> QED
      BY <1>3, <3>1
  <2>4. CASE p \notin checked
    <3>1. IsPrefix(f, f)
      BY <2>1, PrefixIs
    <3>2. IsPrefix(p, f)
      BY <2>2, <3>1 DEF Stands, Walks, IsStrictPrefix
    <3> QED
      BY <2>2, <2>4, <3>2
  <2> QED
    BY <2>3, <2>4
<1>5. NothingMissed'
  BY <1>1, <1>4 DEF NothingMissed, Leaves, ByDefault
<1> QED
  BY <1>1, <1>2, <1>5 DEF PreflightInv

\* The inductive invariant of a generation.
THEOREM PreflightInvariant == PreflightSpec => []PreflightInv
<1>1. PreflightInit => PreflightInv
  BY DEF PreflightInit, PreflightInv, NothingMissed
<1>2. PreflightInv /\ [PreflightNext]_preflightVars => PreflightInv'
  <2> SUFFICES ASSUME PreflightInv, [PreflightNext]_preflightVars
               PROVE  PreflightInv'
    OBVIOUS
  <2>1. ASSUME NEW scope \in {"scene", "branch"}, Review(scope)
        PROVE  PreflightInv'
    BY <2>1, ScanKeeps DEF Review
  <2>2. ASSUME NEW scope \in {"scene", "branch"}, NEW ask \in BOOLEAN, Generate(scope, ask)
        PROVE  PreflightInv'
    BY <2>2, ScanKeeps DEF Generate
  <2>3. ASSUME NEW f \in Files, Trash(f)
        PROVE  PreflightInv'
    BY <2>3, TrashKeeps
  <2>4. CASE Send
    BY <2>4, SendKeeps
  <2>5. CASE Done
    <3>1. rows' = {} /\ needed' = {} /\ pc' = "rest" /\ disk' = disk
      BY <2>5 DEF Done
    <3> QED
      BY <3>1 DEF PreflightInv, NothingMissed
  <2>6. ASSUME NEW f \in Files, Change(f)
        PROVE  PreflightInv'
    <3>1. /\ disk \subseteq Files /\ disk' = (IF f \in disk THEN disk \ {f} ELSE disk \cup {f})
          /\ needed' = needed \ {f} /\ rows' = rows /\ tree' = tree /\ pc' = pc /\ pc # "sent"
      BY <2>6 DEF Change, PreflightInv
    <3>2. disk' \subseteq Files /\ \A g \in needed' : g \in needed /\ g \in disk'
      BY <2>6, <3>1 DEF PreflightInv
    <3> QED
      BY <3>1, <3>2 DEF PreflightInv, NothingMissed
  <2>7. CASE Open \/ Cancel \/ TimesOut \/ CloseLeft \/ Forget \/ UNCHANGED preflightVars
    <3>1. /\ disk' = disk /\ needed' = needed /\ rows' = rows /\ tree' = tree
          /\ pc' # "rest" => pc # "rest"
          /\ pc' = "sent" => pc = "sent" /\ sent' = sent /\ checked' = checked
      BY <2>7 DEF Open, Cancel, TimesOut, CloseLeft, Forget, preflightVars
    <3> QED
      BY <3>1 DEF PreflightInv, NothingMissed, Leaves, ByDefault
  <2>8. ASSUME NEW chosen \in Selections, Accept(chosen)
        PROVE  PreflightInv'
    <3>1. /\ disk' = disk /\ needed' = needed /\ rows' = rows /\ tree' = tree
          /\ pc = "window" /\ pc' \in {"saved", "send"}
      BY <2>8 DEF Accept
    <3> QED
      BY <3>1 DEF PreflightInv, NothingMissed
  <2> QED
    BY <2>1, <2>2, <2>3, <2>4, <2>5, <2>6, <2>7, <2>8 DEF PreflightNext
<1> QED
  BY <1>1, <1>2, PTL DEF PreflightSpec

\* Whatever the references, the network and the answers are, every file the cook needs
\* travels with it, unless the artist refused its line, or it is gone, or it was
\* Swallowed by a folder too large to list.
THEOREM NothingEverMissed == PreflightSpec => []NothingMissed
<1>1. PreflightInv => NothingMissed
  BY DEF PreflightInv
<1> QED
  BY <1>1, PreflightInvariant, PTL

-----------------------------------------------------------------------------
(* Delivery: the files, the receipts and the locks                         *)

\* What a stat of a file says, what a local file is, and what a transfer holds.
Stats      == [mtime : Nat, size : {0, 1, 2}]
LocalFiles == HandMade \union {NoFile} \union {FarmFile(k) : k \in Cooks}
TransferRecs ==
  [pc : {"idle", "lock", "list", "copy", "compare", "stat", "record"}, key : 0..MaxCook, want : SUBSET Frames,
   pending : SUBSET Frames, left : SUBSET Frames, looking : 0..NFiles, index : [Frames -> 0..MaxCook],
   stamps : [Frames -> Stats], slipped : SUBSET Frames]

DeliveryRecords ==
  /\ frames \in [Frames -> Cooks]
  /\ localDisk \in [Frames -> LocalFiles]
  /\ receipts \in [Cooks -> [Frames -> Stats]]
  /\ unsure \subseteq Cooks \X Frames
  /\ lock \in [Frames -> SUBSET Transfers]
  /\ tr \in [Transfers -> TransferRecs]

\* A stat of cook k: what it names looks like a frame of k or of a later cook.
Since(k, stat) == \E c \in k..MaxCook : Alike(stat, c)

\* What a transfer may make a receipt of.
StampsInv(r) ==
  /\ r.pc # "idle" => r.key \in Cooks
  /\ r.left \subseteq r.pending /\ r.pending \subseteq r.want
  /\ \A f \in r.want : frames[f] >= r.key
  /\ \A f \in r.want : r.index[f] # Gone => r.index[f] >= r.key
  /\ \A f \in Frames : r.stamps[f] # NoStat /\ f \notin r.slipped => Since(r.key, r.stamps[f])
  /\ r.pc = "stat" => r.looking \in r.pending
  /\ r.pc = "stat" /\ r.looking \notin r.slipped => Since(r.key, localDisk[r.looking].stat)

\* Receipts and what a transfer is about to make a receipt of.
ReceiptInv ==
  /\ \A k \in Cooks, f \in Frames :
       receipts[k][f] # NoStat /\ <<k, f>> \notin unsure => Since(k, receipts[k][f])
  /\ \A t \in Transfers : StampsInv(tr[t])

\* Destinations are locked by one transfer each, and in ascending order.
LockInv ==
  /\ \A f \in Frames : \A s, t \in lock[f] : s = t
  /\ \A t \in Transfers :
       /\ At(t, "idle") => tr[t].want = {}
       /\ Held(t) \subseteq tr[t].want
       /\ ~ At(t, "idle") /\ ~ At(t, "lock") => Held(t) = tr[t].want
       /\ \A f \in Held(t), g \in tr[t].want \ Held(t) : f < g

\* Together they are inductive.
DeliveryInv == DeliveryRecords /\ ReceiptInv /\ LockInv

LEMMA NoTransferTyped ==
  /\ NoTransfer \in TransferRecs /\ NoTransfer.pc = "idle" /\ NoTransfer.want = {}
  /\ NoTransfer.pending = {} /\ NoTransfer.left = {} /\ NoTransfer.slipped = {} /\ NoTransfer.looking = 0
  /\ NoTransfer.index \in [Frames -> 0..MaxCook] /\ NoTransfer.stamps \in [Frames -> Stats]
  /\ \A f \in Frames : NoTransfer.index[f] = Gone /\ NoTransfer.stamps[f] = NoStat
<1>1. NoStat \in Stats /\ Gone \in 0..MaxCook /\ 0 \in 0..NFiles
  BY DeliveryAssumption DEF NoStat, Stats, Gone
<1>2. [f \in Frames |-> Gone] \in [Frames -> 0..MaxCook] /\ [f \in Frames |-> NoStat] \in [Frames -> Stats]
  BY <1>1
<1> QED BY <1>1, <1>2, DeliveryAssumption DEF NoTransfer, TransferRecs

LEMMA NoTransferStamps == StampsInv(NoTransfer)
BY NoTransferTyped DEF StampsInv

LEMMA LocalStats ==
  /\ \A file \in LocalFiles : file.stat \in Stats
  /\ \A k \in Cooks : FarmFile(k) \in LocalFiles
  /\ NoFile \in LocalFiles /\ HandMade \subseteq LocalFiles
<1>1. \A k \in Cooks : FarmFile(k).stat \in Stats
  BY DeliveryAssumption DEF FarmFile, FrameStat, Stats
<1>2. NoFile.stat \in Stats
  BY DEF NoFile, NoStat, Stats
<1>3. \A file \in HandMade : file.stat \in Stats
  BY DeliveryAssumption DEF HandMade, Stats
<1> QED BY <1>1, <1>2, <1>3 DEF LocalFiles

LEMMA DeliveryInit1 == DeliveryInit => DeliveryInv
<1> SUFFICES ASSUME DeliveryInit PROVE DeliveryInv
  OBVIOUS
<1>0. NoStat \in Stats /\ 1 \in Cooks
  BY DeliveryAssumption DEF NoStat, Stats, Cooks
<1>1. DeliveryRecords
  BY <1>0, NoTransferTyped, LocalStats DEF DeliveryInit, DeliveryRecords
<1>2. ReceiptInv
  BY NoTransferStamps DEF DeliveryInit, ReceiptInv
<1>3. LockInv
  BY NoTransferTyped DEF DeliveryInit, LockInv, Held, At
<1> QED BY <1>1, <1>2, <1>3 DEF DeliveryInv

\* A transfer goes on to another step and keeps what it wants; the files, the receipts and the locks stay.
LEMMA DeliveryMoves ==
  ASSUME DeliveryInv, NEW t \in Transfers, NEW r \in TransferRecs, tr' = [tr EXCEPT ![t] = r],
         UNCHANGED <<frames, localDisk, receipts, unsure, lock>>,
         r.pc # "idle", ~ At(t, "idle"), r.want = tr[t].want, StampsInv(r),
         r.pc # "lock" => Held(t) = tr[t].want
  PROVE  DeliveryInv'
<1> USE DEF DeliveryInv
<1>1. DeliveryRecords'
  BY DEF DeliveryRecords
<1>2. ReceiptInv'
  <2>1. StampsInv(r)'
    BY DEF StampsInv
  <2>2. ASSUME NEW s \in Transfers PROVE StampsInv(tr[s])'
    <3>1. CASE s = t
      BY <2>1, <3>1 DEF DeliveryRecords, StampsInv
    <3>2. CASE s # t
      BY <3>2 DEF ReceiptInv, StampsInv, DeliveryRecords
    <3> QED BY <3>1, <3>2
  <2> QED BY <2>2 DEF ReceiptInv
<1>3. LockInv'
  BY DEF LockInv, DeliveryRecords, Held, At
<1> QED BY <1>1, <1>2, <1>3

\* A transfer is over, and lets go of its destinations.
LEMMA DeliveryRests ==
  ASSUME DeliveryInv, NEW t \in Transfers, tr' = [tr EXCEPT ![t] = NoTransfer], Release(t),
         UNCHANGED <<frames, localDisk, receipts, unsure>>
  PROVE  DeliveryInv'
<1> USE DEF DeliveryInv
<1>2. DeliveryRecords'
  BY NoTransferTyped DEF DeliveryRecords, Release
<1>3. ReceiptInv'
  <2>1. ASSUME NEW s \in Transfers PROVE StampsInv(tr[s])'
    <3>1. CASE s = t
      BY NoTransferStamps, <3>1 DEF DeliveryRecords, StampsInv, NoTransfer
    <3>2. CASE s # t
      BY <3>2 DEF ReceiptInv, StampsInv, DeliveryRecords
    <3> QED BY <3>1, <3>2
  <2> QED BY <2>1 DEF ReceiptInv
<1>4. LockInv'
  <2>1. Held(t)' = {} /\ \A s \in Transfers \ {t} : Held(s)' = Held(s)
    BY DEF Release, Held, DeliveryRecords
  <2> QED BY <2>1, NoTransferTyped DEF LockInv, DeliveryRecords, Held, At, Release
<1> QED BY <1>2, <1>3, <1>4

\* What the render and the artist do to the files.
LEMMA AroundKeeps ==
  ASSUME DeliveryInv, NEW f \in Frames, Render(f) \/ Disturb(f)
  PROVE  DeliveryInv'
<1> USE DEF DeliveryInv
<1>1. CASE Render(f)
  <2>1. DeliveryRecords'
    BY <1>1, DeliveryAssumption DEF Render, DeliveryRecords, Cooks
  <2>2. ReceiptInv'
    <3>1. ASSUME NEW s \in Transfers PROVE StampsInv(tr[s])'
      <4>1. tr[s].want \subseteq Frames /\ tr[s].key \in 0..MaxCook
        BY DEF DeliveryRecords, TransferRecs
      <4>2. \A g \in tr[s].want : frames'[g] >= tr[s].key
        BY <1>1, <4>1, DeliveryAssumption DEF Render, ReceiptInv, StampsInv, DeliveryRecords, Cooks
      <4> QED BY <1>1, <4>2 DEF Render, ReceiptInv, StampsInv
    <3> QED BY <1>1, <3>1 DEF Render, ReceiptInv
  <2>3. LockInv'
    BY <1>1 DEF Render, LockInv, Held, At
  <2> QED BY <2>1, <2>2, <2>3
<1>2. CASE Disturb(f)
  <2> DEFINE slip(t) == [tr[t] EXCEPT !.slipped = @ \union {f}]
  <2>0. PICK file \in {NoFile} \union HandMade : localDisk' = [localDisk EXCEPT ![f] = file]
    BY <1>2 DEF Disturb
  <2>1. tr' = [t \in Transfers |-> IF At(t, "stat") /\ tr[t].looking = f THEN slip(t) ELSE tr[t]]
        /\ UNCHANGED <<frames, receipts, unsure, lock>>
    BY <1>2 DEF Disturb
  <2>2. \A t \in Transfers : /\ slip(t) \in TransferRecs /\ slip(t).slipped = tr[t].slipped \union {f}
                             /\ slip(t).pc = tr[t].pc /\ slip(t).key = tr[t].key /\ slip(t).want = tr[t].want
                             /\ slip(t).pending = tr[t].pending /\ slip(t).left = tr[t].left
                             /\ slip(t).looking = tr[t].looking /\ slip(t).index = tr[t].index
                             /\ slip(t).stamps = tr[t].stamps
    BY DEF DeliveryRecords, TransferRecs
  <2> HIDE DEF slip
  <2>3. DeliveryRecords'
    <3>1. tr' \in [Transfers -> TransferRecs]
      BY <2>1, <2>2 DEF DeliveryRecords
    <3>2. localDisk' \in [Frames -> LocalFiles]
      BY <2>0, LocalStats DEF DeliveryRecords
    <3> QED BY <2>1, <3>1, <3>2 DEF DeliveryRecords
  <2>4. ReceiptInv'
    <3>1. ASSUME NEW t \in Transfers PROVE StampsInv(tr[t])'
      <4>1. CASE At(t, "stat") /\ tr[t].looking = f
        <5>1. tr'[t] = slip(t)
          BY <2>1, <4>1
        <5> QED BY <2>1, <2>2, <4>1, <5>1 DEF ReceiptInv, StampsInv, At
      <4>2. CASE ~ (At(t, "stat") /\ tr[t].looking = f)
        <5>1. tr'[t] = tr[t]
          BY <2>1, <4>2
        <5>2. At(t, "stat") => tr[t].looking \in Frames /\ localDisk'[tr[t].looking] = localDisk[tr[t].looking]
          BY <2>0, <4>2 DEF ReceiptInv, StampsInv, DeliveryRecords, TransferRecs, At
        <5> QED BY <2>1, <5>1, <5>2 DEF ReceiptInv, StampsInv, At
      <4> QED BY <4>1, <4>2
    <3> QED BY <2>1, <3>1 DEF ReceiptInv
  <2>5. LockInv'
    <3>1. \A t \in Transfers : tr'[t].pc = tr[t].pc /\ tr'[t].want = tr[t].want
      BY <2>1, <2>2
    <3> QED BY <2>1, <3>1 DEF LockInv, Held, At
  <2> QED BY <2>3, <2>4, <2>5
<1> QED BY <1>1, <1>2

\* A transfer begins, takes a lock, and goes through its steps.
LEMMA BeginDelivery ==
  ASSUME DeliveryInv, NEW t \in Transfers, Begin(t)
  PROVE  DeliveryInv'
<1> USE DEF DeliveryInv
<1>0. PICK F \in SUBSET Frames \ {{}}, k \in Cooks :
        /\ \A f \in F : frames[f] >= k
        /\ tr' = [tr EXCEPT ![t] = [NoTransfer EXCEPT !.pc = "lock", !.key = k, !.want = F]]
  BY DEF Begin
<1> DEFINE r == [NoTransfer EXCEPT !.pc = "lock", !.key = k, !.want = F]
<1>1. /\ r \in TransferRecs /\ r.pc = "lock" /\ r.key = k /\ r.want = F /\ r.pending = {} /\ r.left = {}
      /\ r.index = NoTransfer.index /\ r.stamps = NoTransfer.stamps /\ r.slipped = {}
  <2>1. k \in 0..MaxCook /\ F \subseteq Frames
    BY DeliveryAssumption DEF Cooks
  <2> QED BY <2>1, NoTransferTyped DEF TransferRecs
<1> HIDE DEF r
<1>2. tr' = [tr EXCEPT ![t] = r] /\ UNCHANGED <<frames, localDisk, receipts, unsure, lock>> /\ At(t, "idle")
  BY <1>0 DEF Begin, r
<1>3. DeliveryRecords'
  BY <1>1, <1>2 DEF DeliveryRecords
<1>4. ReceiptInv'
  <2>1. StampsInv(r)
    BY <1>0, <1>1, NoTransferTyped DEF StampsInv
  <2>2. ASSUME NEW s \in Transfers PROVE StampsInv(tr[s])'
    <3>1. CASE s = t
      BY <1>2, <2>1, <3>1 DEF DeliveryRecords, StampsInv
    <3>2. CASE s # t
      BY <1>2, <3>2 DEF ReceiptInv, StampsInv, DeliveryRecords
    <3> QED BY <3>1, <3>2
  <2> QED BY <1>2, <2>2 DEF ReceiptInv
<1>5. LockInv'
  BY <1>1, <1>2 DEF LockInv, DeliveryRecords, Held, At
<1> QED BY <1>3, <1>4, <1>5

LEMMA LockDelivery ==
  ASSUME DeliveryInv, NEW t \in Transfers, Lock(t)
  PROVE  DeliveryInv'
<1> USE DEF DeliveryInv
<1>0. PICK f \in tr[t].want \ Held(t) :
        /\ At(t, "lock") /\ lock[f] = {} /\ \A g \in tr[t].want \ Held(t) : f <= g
        /\ lock' = [lock EXCEPT ![f] = {t}]
        /\ UNCHANGED <<frames, localDisk, receipts, unsure, tr, deliveryFaults, starts>>
  BY DEF Lock
<1>1. f \in Frames
  BY <1>0 DEF DeliveryRecords, TransferRecs
<1>2. DeliveryRecords'
  BY <1>0, <1>1 DEF DeliveryRecords
<1>3. ReceiptInv'
  BY <1>0 DEF ReceiptInv, StampsInv
<1>4. LockInv'
  <2>1. Held(t)' = Held(t) \union {f} /\ \A s \in Transfers \ {t} : Held(s)' = Held(s)
    BY <1>0, <1>1 DEF Held, DeliveryRecords
  <2>2. \A g \in tr[t].want \ (Held(t) \union {f}) : f < g
    BY <1>0, <1>1, DeliveryAssumption DEF Frames, DeliveryRecords, TransferRecs
  <2>3. \A g \in Frames : \A s, u \in lock'[g] : s = u
    BY <1>0, <1>1 DEF LockInv, DeliveryRecords
  <2> QED BY <1>0, <1>1, <2>1, <2>2, <2>3 DEF LockInv, At
<1> QED BY <1>2, <1>3, <1>4

\* rclone writes local files; the destination of one transfer is not verified by another.
LEMMA CopyDelivery ==
  ASSUME DeliveryInv, NEW t \in Transfers, Copy(t)
  PROVE  DeliveryInv'
<1>0. DeliveryRecords /\ ReceiptInv /\ LockInv /\ tr[t] \in TransferRecs /\ StampsInv(tr[t])
  BY DEF DeliveryInv, DeliveryRecords, ReceiptInv
<1>1. PICK f \in tr[t].left :
        /\ At(t, "copy")
        /\ \/ localDisk' = [localDisk EXCEPT ![f] = FarmFile(frames[f])]
           \/ localDisk[f] # NoFile /\ UNCHANGED localDisk
        /\ tr' = [tr EXCEPT ![t].left = IF @ = {f} THEN tr[t].pending ELSE @ \ {f},
                            ![t].pc = IF tr[t].left = {f} THEN "compare" ELSE "copy"]
        /\ UNCHANGED <<frames, receipts, unsure, lock, deliveryFaults, starts>>
  BY DEF Copy
<1> DEFINE rest == IF tr[t].left = {f} THEN tr[t].pending ELSE tr[t].left \ {f}
           label == IF tr[t].left = {f} THEN "compare" ELSE "copy"
           r == [tr[t] EXCEPT !.left = rest, !.pc = label]
<1>2. tr' = [tr EXCEPT ![t] = r]
  BY <1>0, <1>1 DEF DeliveryRecords
<1>3. rest \subseteq tr[t].pending /\ rest \subseteq Frames /\ label \in {"compare", "copy"} /\ f \in Frames /\ f \in tr[t].want
  BY <1>0, <1>1 DEF StampsInv, TransferRecs
<1> HIDE DEF rest, label
<1>4. /\ r \in TransferRecs /\ r.pc = label /\ r.key = tr[t].key /\ r.want = tr[t].want /\ r.pending = tr[t].pending
      /\ r.left = rest /\ r.index = tr[t].index /\ r.stamps = tr[t].stamps /\ r.slipped = tr[t].slipped
  BY <1>0, <1>3 DEF TransferRecs
<1> HIDE DEF r
<1>5. tr' \in [Transfers -> TransferRecs] /\ tr'[t] = r /\ \A s \in Transfers \ {t} : tr'[s] = tr[s]
  BY <1>0, <1>2, <1>4 DEF DeliveryRecords
<1>6. \A g \in Frames \ {f} : localDisk'[g] = localDisk[g]
  BY <1>0, <1>1, <1>3 DEF DeliveryRecords
<1>7. DeliveryRecords'
  <2>1. FarmFile(frames[f]) \in LocalFiles
    BY <1>0, <1>3, LocalStats DEF DeliveryRecords
  <2> QED BY <1>0, <1>1, <1>3, <1>5, <2>1 DEF DeliveryRecords
<1>8. ReceiptInv'
  <2>1. ASSUME NEW s \in Transfers PROVE StampsInv(tr[s])'
    <3>1. CASE s = t
      BY <1>0, <1>1, <1>3, <1>4, <1>5, <3>1 DEF StampsInv, At
    <3>2. CASE s # t
      <4>1. tr'[s] = tr[s] /\ StampsInv(tr[s])
        BY <1>0, <1>5, <3>2 DEF ReceiptInv
      <4>2. At(s, "stat") => tr[s].looking \in Frames \ {f}
        <5> SUFFICES ASSUME At(s, "stat") PROVE tr[s].looking \in Frames /\ tr[s].looking # f
          OBVIOUS
        <5>1. tr[s].looking \in tr[s].want /\ tr[s].want \subseteq Frames
          BY <1>0, <4>1 DEF StampsInv, At, DeliveryRecords, TransferRecs
        <5>2. s \in lock[tr[s].looking]
          BY <1>0, <5>1 DEF LockInv, Held, At
        <5>3. t \in lock[f]
          BY <1>0, <1>1, <1>3 DEF LockInv, Held, At
        <5> QED BY <1>0, <1>3, <3>2, <5>1, <5>2, <5>3 DEF LockInv
      <4> QED BY <1>1, <1>6, <4>1, <4>2 DEF StampsInv, At
    <3> QED BY <3>1, <3>2
  <2> QED BY <1>0, <1>1, <2>1 DEF ReceiptInv
<1>9. LockInv'
  <2>1. \A s \in Transfers : Held(s)' = Held(s)
    BY <1>1 DEF Held
  <2>2. \A s \in Transfers \ {t} : tr'[s] = tr[s]
    BY <1>5
  <2>3. Held(t) = tr[t].want
    BY <1>0, <1>1 DEF LockInv, At
  <2> QED BY <1>0, <1>1, <1>3, <1>4, <1>5, <2>1, <2>2, <2>3 DEF LockInv, At
<1> QED BY <1>7, <1>8, <1>9 DEF DeliveryInv

\* The steps that only the transfer sees.
LEMMA StepDelivery ==
  ASSUME DeliveryInv, NEW t \in Transfers, Locked(t) \/ List(t) \/ Compare(t) \/ Stat(t) \/ Check(t)
  PROVE  DeliveryInv'
<1>0. DeliveryRecords /\ ReceiptInv /\ LockInv /\ tr[t] \in TransferRecs /\ StampsInv(tr[t])
  BY DEF DeliveryInv, DeliveryRecords, ReceiptInv
<1>1. CASE Locked(t)
  <2> DEFINE pending == {f \in tr[t].want : ~ Valid(tr[t].key, f)}
             label == IF pending = {} THEN "compare" ELSE "list"
             r == [tr[t] EXCEPT !.pc = label, !.pending = pending, !.left = pending]
  <2>1. pending \subseteq tr[t].want /\ label \in {"compare", "list"}
    OBVIOUS
  <2>2. tr' = [tr EXCEPT ![t] = r] /\ UNCHANGED <<frames, localDisk, receipts, unsure, lock>> /\ At(t, "lock") /\ Held(t) = tr[t].want
    BY <1>0, <1>1 DEF Locked, DeliveryRecords
  <2> HIDE DEF pending, label
  <2>3. /\ r \in TransferRecs /\ r.pc = label /\ r.key = tr[t].key /\ r.want = tr[t].want /\ r.pending = pending
        /\ r.left = pending /\ r.index = tr[t].index /\ r.stamps = tr[t].stamps /\ r.slipped = tr[t].slipped
    BY <1>0, <2>1 DEF TransferRecs
  <2> HIDE DEF r
  <2>4. StampsInv(r)
    BY <1>0, <2>1, <2>2, <2>3 DEF StampsInv, At
  <2> QED BY <2>1, <2>2, <2>3, <2>4, DeliveryMoves DEF At
<1>2. CASE List(t)
  <2>0. PICK listed \in BOOLEAN :
          tr' = [tr EXCEPT ![t].pc = "copy", ![t].index = IF listed THEN frames ELSE NoTransfer.index]
    BY <1>2 DEF List
  <2> DEFINE index == IF listed THEN frames ELSE NoTransfer.index
             r == [tr[t] EXCEPT !.pc = "copy", !.index = index]
  <2>1. index \in [Frames -> 0..MaxCook] /\ \A f \in Frames : index[f] = Gone \/ index[f] = frames[f]
    <3>1. frames \in [Frames -> 0..MaxCook]
      BY <1>0, DeliveryAssumption DEF DeliveryRecords, Cooks
    <3> QED BY <3>1, NoTransferTyped
  <2>2. tr' = [tr EXCEPT ![t] = r] /\ UNCHANGED <<frames, localDisk, receipts, unsure, lock>> /\ At(t, "list")
    BY <1>0, <1>2, <2>0 DEF List, DeliveryRecords
  <2> HIDE DEF index
  <2>3. /\ r \in TransferRecs /\ r.pc = "copy" /\ r.key = tr[t].key /\ r.want = tr[t].want /\ r.pending = tr[t].pending
        /\ r.left = tr[t].left /\ r.stamps = tr[t].stamps /\ r.index = index /\ r.slipped = tr[t].slipped
    BY <1>0, <2>1 DEF TransferRecs
  <2> HIDE DEF r
  <2>4. tr[t].want \subseteq Frames
    BY <1>0 DEF TransferRecs
  <2>5. StampsInv(r)
    BY <1>0, <2>1, <2>2, <2>3, <2>4 DEF StampsInv, At
  <2>6. Held(t) = tr[t].want
    BY <1>0, <2>2 DEF LockInv, At
  <2> QED BY <2>2, <2>3, <2>5, <2>6, DeliveryMoves DEF At
<1>3. CASE Compare(t)
  <2>0. PICK f \in tr[t].left :
          /\ At(t, "compare")
          /\ tr' = [tr EXCEPT ![t].left = @ \ {f}, ![t].looking = f,
                              ![t].pc = IF tr[t].index[f] # Gone /\ Alike(localDisk[f].stat, tr[t].index[f])
                                        THEN "stat" ELSE "compare"]
          /\ UNCHANGED <<frames, localDisk, receipts, unsure, lock, deliveryFaults, starts>>
    BY <1>3 DEF Compare
  <2> DEFINE like == tr[t].index[f] # Gone /\ Alike(localDisk[f].stat, tr[t].index[f])
             label == IF like THEN "stat" ELSE "compare"
             r == [tr[t] EXCEPT !.left = @ \ {f}, !.looking = f, !.pc = label]
  <2>1. tr' = [tr EXCEPT ![t] = r] /\ Held(t) = tr[t].want
    <3>1. tr' = [tr EXCEPT ![t] = r]
      BY <1>0, <2>0, Zenon DEF DeliveryRecords
    <3>2. Held(t) = tr[t].want
      BY <1>0, <2>0 DEF LockInv, At
    <3> QED BY <3>1, <3>2
  <2>2. f \in tr[t].pending /\ f \in tr[t].want /\ f \in Frames /\ f \in 0..NFiles /\ label \in {"stat", "compare"}
    <3>1. f \in tr[t].pending /\ f \in tr[t].want /\ f \in Frames
      BY <1>0, <2>0 DEF StampsInv, TransferRecs
    <3> QED BY <3>1, DeliveryAssumption DEF Frames
  <2>3. label = "stat" => Since(tr[t].key, localDisk[f].stat)
    <3> SUFFICES ASSUME like PROVE Since(tr[t].key, localDisk[f].stat)
      OBVIOUS
    <3>1. tr[t].index[f] >= tr[t].key /\ tr[t].index[f] \in 0..MaxCook /\ tr[t].key \in 0..MaxCook
      BY <1>0, <2>2 DEF StampsInv, TransferRecs
    <3>2. tr[t].index[f] \in tr[t].key..MaxCook
      BY <3>1, DeliveryAssumption
    <3> QED BY <3>2 DEF Since
  <2> HIDE DEF label
  <2>4. /\ r \in TransferRecs /\ r.pc = label /\ r.key = tr[t].key /\ r.want = tr[t].want /\ r.pending = tr[t].pending
        /\ r.left = tr[t].left \ {f} /\ r.looking = f /\ r.index = tr[t].index /\ r.stamps = tr[t].stamps
        /\ r.slipped = tr[t].slipped
    BY <1>0, <2>2 DEF TransferRecs
  <2> HIDE DEF r
  <2>5. StampsInv(r)
    BY <1>0, <2>0, <2>2, <2>3, <2>4 DEF StampsInv, At
  <2> QED BY <2>0, <2>1, <2>2, <2>4, <2>5, DeliveryMoves DEF At
<1>4. CASE Stat(t)
  <2> DEFINE f == tr[t].looking
  <2>1. CASE tr' = [tr EXCEPT ![t] = NoTransfer] /\ Release(t)
    BY <1>4, <2>1, DeliveryRests DEF Stat
  <2>2. CASE tr' = [tr EXCEPT ![t].pc = "compare", ![t].stamps[f] = localDisk[f].stat] /\ UNCHANGED lock
    <3> DEFINE stamps == [tr[t].stamps EXCEPT ![f] = localDisk[f].stat]
               r == [tr[t] EXCEPT !.pc = "compare", !.stamps = stamps]
    <3>0. UNCHANGED <<frames, localDisk, receipts, unsure, lock>> /\ At(t, "stat")
      BY <1>4, <2>2 DEF Stat
    <3>1. tr' = [tr EXCEPT ![t] = r]
      BY <1>0, <2>2 DEF DeliveryRecords
    <3>2. f \in Frames /\ Held(t) = tr[t].want /\ localDisk[f].stat \in Stats
      BY <1>0, <3>0, LocalStats DEF StampsInv, At, TransferRecs, LockInv, DeliveryRecords
    <3>3. /\ stamps \in [Frames -> Stats] /\ stamps[f] = localDisk[f].stat
          /\ \A g \in Frames \ {f} : stamps[g] = tr[t].stamps[g]
      BY <1>0, <3>2 DEF TransferRecs
    <3> HIDE DEF stamps
    <3>4. /\ r \in TransferRecs /\ r.pc = "compare" /\ r.key = tr[t].key /\ r.want = tr[t].want /\ r.pending = tr[t].pending
          /\ r.left = tr[t].left /\ r.index = tr[t].index /\ r.stamps = stamps /\ r.slipped = tr[t].slipped
      BY <1>0, <3>3 DEF TransferRecs
    <3> HIDE DEF r
    <3>5. StampsInv(r)
      BY <1>0, <3>0, <3>2, <3>3, <3>4 DEF StampsInv, At
    <3> QED BY <3>0, <3>1, <3>2, <3>4, <3>5, DeliveryMoves DEF At
  <2> QED BY <1>4, <2>1, <2>2 DEF Stat
<1>5. CASE Check(t)
  <2>1. CASE tr' = [tr EXCEPT ![t] = NoTransfer] /\ Release(t)
    BY <1>5, <2>1, DeliveryRests DEF Check
  <2>2. CASE ToRecord(t) /\ UNCHANGED lock
    <3> DEFINE r == [tr[t] EXCEPT !.pc = "record", !.looking = 0, !.index = NoTransfer.index]
    <3>1. /\ r \in TransferRecs /\ r.pc = "record" /\ r.key = tr[t].key /\ r.want = tr[t].want /\ r.pending = tr[t].pending
          /\ r.left = tr[t].left /\ r.stamps = tr[t].stamps /\ r.index = NoTransfer.index /\ r.slipped = tr[t].slipped
      BY <1>0, NoTransferTyped, DeliveryAssumption DEF TransferRecs
    <3>2. tr' = [tr EXCEPT ![t] = r] /\ UNCHANGED <<frames, localDisk, receipts, unsure, lock>> /\ At(t, "compare")
      BY <1>0, <1>5, <2>2 DEF Check, ToRecord, DeliveryRecords
    <3> HIDE DEF r
    <3>3. tr[t].want \subseteq Frames /\ Held(t) = tr[t].want
      BY <1>0, <3>2 DEF TransferRecs, LockInv, At
    <3>4. StampsInv(r)
      BY <1>0, <3>1, <3>2, <3>3, NoTransferTyped DEF StampsInv, At
    <3> QED BY <3>1, <3>2, <3>3, <3>4, DeliveryMoves DEF At
  <2> QED BY <1>5, <2>1, <2>2 DEF Check
<1> QED BY <1>1, <1>2, <1>3, <1>4, <1>5

\* The receipts.
LEMMA RecordDelivery ==
  ASSUME DeliveryInv, NEW t \in Transfers, Record(t)
  PROVE  DeliveryInv'
<1>0. DeliveryRecords /\ ReceiptInv /\ LockInv /\ tr[t] \in TransferRecs /\ StampsInv(tr[t])
  BY DEF DeliveryInv, DeliveryRecords, ReceiptInv
<1>1. PICK f \in tr[t].pending :
        /\ At(t, "record") /\ tr[t].stamps[f] # NoStat
        /\ receipts' = [receipts EXCEPT ![tr[t].key][f] = tr[t].stamps[f]]
        /\ unsure' = IF f \in tr[t].slipped THEN unsure \union {<<tr[t].key, f>>} ELSE unsure \ {<<tr[t].key, f>>}
        /\ tr' = [tr EXCEPT ![t].stamps[f] = NoStat]
        /\ UNCHANGED <<frames, localDisk, lock, deliveryFaults, starts>>
  BY DEF Record
<1>2. /\ f \in Frames /\ tr[t].key \in Cooks /\ tr[t].stamps[f] \in Stats
      /\ f \in tr[t].slipped \/ Since(tr[t].key, tr[t].stamps[f])
  BY <1>0, <1>1 DEF TransferRecs, At, StampsInv
<1> DEFINE stamps == [tr[t].stamps EXCEPT ![f] = NoStat]
           r == [tr[t] EXCEPT !.stamps = stamps]
<1>3. tr' = [tr EXCEPT ![t] = r]
  BY <1>0, <1>1 DEF DeliveryRecords
<1>4. stamps \in [Frames -> Stats] /\ \A g \in Frames : stamps[g] = NoStat \/ stamps[g] = tr[t].stamps[g]
  BY <1>0, <1>2 DEF TransferRecs, NoStat, Stats
<1> HIDE DEF stamps
<1>5. /\ r \in TransferRecs /\ r.pc = tr[t].pc /\ r.key = tr[t].key /\ r.want = tr[t].want /\ r.pending = tr[t].pending
      /\ r.left = tr[t].left /\ r.index = tr[t].index /\ r.stamps = stamps /\ r.slipped = tr[t].slipped
  BY <1>0, <1>4 DEF TransferRecs
<1> HIDE DEF r
<1>6. tr' \in [Transfers -> TransferRecs] /\ tr'[t] = r /\ \A s \in Transfers \ {t} : tr'[s] = tr[s]
  BY <1>0, <1>3, <1>5 DEF DeliveryRecords
<1>7. DeliveryRecords'
  BY <1>0, <1>1, <1>2, <1>6 DEF DeliveryRecords
<1>8. ReceiptInv'
  <2>1. ASSUME NEW s \in Transfers PROVE StampsInv(tr[s])'
    <3>1. CASE s = t
      BY <1>0, <1>1, <1>4, <1>5, <1>6, <3>1 DEF StampsInv, At
    <3>2. CASE s # t
      BY <1>0, <1>1, <1>6, <3>2 DEF StampsInv, ReceiptInv
    <3> QED BY <3>1, <3>2
  <2>2. ASSUME NEW k \in Cooks, NEW g \in Frames, receipts'[k][g] # NoStat, <<k, g>> \notin unsure'
        PROVE  Since(k, receipts'[k][g])
    <3>1. CASE k = tr[t].key /\ g = f
      <4>1. receipts'[k][g] = tr[t].stamps[f]
        BY <1>0, <1>1, <1>2, <3>1 DEF DeliveryRecords
      <4>2. f \notin tr[t].slipped
        BY <1>1, <2>2, <3>1
      <4> QED BY <1>2, <3>1, <4>1, <4>2
    <3>2. CASE ~ (k = tr[t].key /\ g = f)
      <4>1. receipts'[k][g] = receipts[k][g] /\ <<k, g>> \notin unsure
        BY <1>0, <1>1, <1>2, <2>2, <3>2 DEF DeliveryRecords
      <4> QED BY <1>0, <2>2, <4>1 DEF ReceiptInv
    <3> QED BY <3>1, <3>2
  <2>3. \A k \in Cooks, g \in Frames :
          receipts'[k][g] # NoStat /\ <<k, g>> \notin unsure' => Since(k, receipts'[k][g])
    BY <2>2
  <2> QED BY <2>1, <2>3 DEF ReceiptInv, Since, Alike
<1>9. LockInv'
  <2>1. \A s \in Transfers : Held(s)' = Held(s) /\ tr'[s].pc = tr[s].pc /\ tr'[s].want = tr[s].want
    BY <1>1, <1>5, <1>6 DEF Held
  <2> QED BY <1>0, <1>1, <2>1 DEF LockInv, At
<1> QED BY <1>7, <1>8, <1>9 DEF DeliveryInv

LEMMA EndDelivery ==
  ASSUME DeliveryInv, NEW t \in Transfers, Finished(t) \/ Abort(t)
  PROVE  DeliveryInv'
BY DeliveryRests DEF Finished, Abort

LEMMA NextDelivery == DeliveryInv /\ [DeliveryNext]_deliveryVars => DeliveryInv'
<1> SUFFICES ASSUME DeliveryInv, [DeliveryNext]_deliveryVars PROVE DeliveryInv'
  OBVIOUS
<1>1. CASE \E f \in Frames : Render(f) \/ Disturb(f)
  BY <1>1, AroundKeeps
<1>2. CASE \E t \in Transfers : Begin(t) \/ Step(t) \/ Abort(t)
  BY <1>2, BeginDelivery, LockDelivery, StepDelivery, CopyDelivery, RecordDelivery, EndDelivery DEF Step
<1>3. CASE UNCHANGED deliveryVars
  BY <1>3 DEF deliveryVars, DeliveryInv, DeliveryRecords, ReceiptInv, StampsInv, LockInv, Held, At
<1> QED BY <1>1, <1>2, <1>3 DEF DeliveryNext

\* The inductive invariant of the transfers.
THEOREM DeliveryInvariant == DeliverySpec => []DeliveryInv
<1> QED BY DeliveryInit1, NextDelivery, PTL DEF DeliverySpec

\* The types of the delivery.
THEOREM DeliveryTypeCorrect == DeliverySpec => []DeliveryTypeOK
<1>1. DeliveryInv => DeliveryTypeOK
  <2> SUFFICES ASSUME DeliveryInv PROVE DeliveryTypeOK
    OBVIOUS
  <2>1. ASSUME NEW f \in Frames PROVE Cardinality(lock[f]) <= 1
    <3>1. lock[f] = {} \/ \E t \in lock[f] : lock[f] = {t}
      BY DEF DeliveryInv, LockInv, DeliveryRecords
    <3>2. CASE lock[f] = {}
      BY <3>2, FS_EmptySet
    <3>3. CASE \E t \in lock[f] : lock[f] = {t}
      <4>1. PICK t : lock[f] = {t}
        BY <3>3
      <4>2. Cardinality({t}) = 1
        BY FS_Singleton
      <4> QED BY <4>1, <4>2
    <3> QED BY <3>1, <3>2, <3>3
  <2> QED BY <2>1 DEF DeliveryInv, DeliveryRecords, LockInv, DeliveryTypeOK, Stats, LocalFiles, At, TransferRecs
<1> QED BY <1>1, DeliveryInvariant, PTL

\* A file that looks like a frame of some cook and was rendered is of that cook.
LEMMA OneCook ==
  ASSUME NEW j \in Cooks, NEW k \in Cooks, Alike(FrameStat(j), k)
  PROVE  j = k
<1>1. RenderedAt[j] \in Nat /\ RenderedAt[k] \in Nat /\ j \in Int /\ k \in Int
  BY DeliveryAssumption DEF Cooks
<1>2. RenderedAt[j] - RenderedAt[k] \in -2..2
  BY DEF Alike, FrameStat, Tolerance
<1>3. (j < k => RenderedAt[j] + 2 < RenderedAt[k]) /\ (k < j => RenderedAt[k] + 2 < RenderedAt[j])
  BY DeliveryAssumption DEF Tolerance
<1> QED BY <1>1, <1>2, <1>3

\* A receipt that matches the local file means a frame of its cook or of a later one, or
\* a file of the same size and mtime, whatever was rendered, deleted or changed while it
\* was being fetched, except between the comparison of the file and its stat.
THEOREM ReceiptsAreTrue == DeliverySpec => []ReceiptIsTrue
<1>1. DeliveryInv => ReceiptIsTrue
  <2> SUFFICES ASSUME DeliveryInv, NEW k \in Cooks, NEW f \in Frames, Valid(k, f), <<k, f>> \notin unsure
               PROVE  \/ localDisk[f].cook >= k
                      \/ localDisk[f].cook = 0 /\ \E c \in k..MaxCook : Alike(localDisk[f].stat, c)
    BY DEF ReceiptIsTrue
  <2>1. PICK c \in k..MaxCook : Alike(localDisk[f].stat, c)
    BY DEF DeliveryInv, ReceiptInv, Valid, Since
  <2>2. CASE localDisk[f] \in HandMade
    BY <2>1, <2>2 DEF HandMade
  <2>3. CASE localDisk[f] = NoFile
    BY <2>1, <2>3 DEF NoFile
  <2>4. CASE \E j \in Cooks : localDisk[f] = FarmFile(j)
    <3>1. PICK j \in Cooks : localDisk[f] = FarmFile(j)
      BY <2>4
    <3>2. localDisk[f].stat = FrameStat(j) /\ localDisk[f].cook = j
      BY <3>1 DEF FarmFile
    <3>3. c \in Cooks /\ c >= k
      BY DeliveryAssumption DEF Cooks
    <3> QED BY <2>1, <3>2, <3>3, OneCook
  <2> QED BY <2>2, <2>3, <2>4 DEF DeliveryInv, DeliveryRecords, LocalFiles
<1> QED BY <1>1, DeliveryInvariant, PTL

\* Transfers that want each other's destinations never wait in a circle: each takes
\* its locks in one order.
THEOREM NoLockCircle == DeliverySpec => []NobodyWaitsInCircle
<1>1. DeliveryInv => NobodyWaitsInCircle
  <2> SUFFICES ASSUME DeliveryInv, NEW s \in Transfers, NEW t \in Transfers,
                      NEW f \in tr[s].want \ Held(s), NEW g \in tr[t].want \ Held(t), f \in Held(t), g \in Held(s)
               PROVE  FALSE
    BY DEF NobodyWaitsInCircle
  <2>1. g < f /\ f < g /\ f \in Nat /\ g \in Nat
    BY DeliveryAssumption DEF DeliveryInv, LockInv, DeliveryRecords, TransferRecs, Frames
  <2> QED BY <2>1
<1> QED BY <1>1, DeliveryInvariant, PTL
=============================================================================
