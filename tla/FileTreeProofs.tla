--------------------------- MODULE FileTreeProofs ---------------------------
(***************************************************************************)
(* Proofs about the folders and files of one user, for every table of      *)
(* rows and every number of operations.                                    *)
(***************************************************************************)
EXTENDS FileTree, FiniteSetTheorems, WellFoundedInduction, TLAPS

LEMMA LeastNatural ==
    ASSUME NEW S \in SUBSET Nat, S # {}
    PROVE  \E n \in S : \A m \in S : n <= m
<1> DEFINE R == OpToRel(<, Nat)
<1>1. IsWellFoundedOn(R, Nat)
  BY NatLessThanWellFounded
<1>2. R = {p \in Nat \X Nat : p[1] < p[2]}
  BY DEF OpToRel
<1>3. \A x, y \in Nat : <<x, y>> \in R <=> x < y
  BY <1>2
<1> HIDE DEF R
<1>4. PICK n \in S : \A m \in S : ~(<<m, n>> \in R)
  BY <1>1, WFMin
<1>5. \A m \in S : ~(m < n)
  BY <1>3, <1>4
<1> QED BY <1>5

LEMMA SomeIds == MaxNodes \in Nat \ {0} /\ Root \in Ids /\ Ids \subseteq Nat \ {0}
BY TreeAssumption DEF TreeAssumption, Ids, Root

----------------------------------------------------------------------------
(* What is beneath a set of rows.                                          *)

Exists(N, S) == {i \in S : N[i].status # "gone"}

Closed(N, S) == Kids(N, S) \subseteq S

\* The iteration of Below as a function of its length.
Reaches(N, S, f, n) ==
    \A k \in 0..n : f[k] = IF k = 0 THEN Exists(N, S)
                           ELSE f[k - 1] \cup Kids(N, f[k - 1])

LEMMA KidsAre ==
    ASSUME NEW N, NEW S
    PROVE  /\ Kids(N, S) \subseteq Ids
           /\ \A i : i \in Kids(N, S) <=>
                        i \in Ids /\ N[i].status # "gone" /\ N[i].parent \in S
BY DEF Kids

LEMMA ReachExists ==
    ASSUME NEW N, NEW S
    PROVE  \A n \in 0..MaxNodes : \E f : f = [k \in 0..n |-> f[k]] /\ Reaches(N, S, f, n)
<1> DEFINE good(n) == \E f : f = [k \in 0..n |-> f[k]] /\ Reaches(N, S, f, n)
           bad == {n \in 0..MaxNodes : ~good(n)}
<1>1. SUFFICES ASSUME bad # {} PROVE FALSE
  OBVIOUS
<1>2. bad \in SUBSET Nat
  OBVIOUS
<1>3. PICK n \in bad : \A m \in bad : n <= m
  <2> HIDE DEF bad
  <2> QED BY <1>1, <1>2, LeastNatural
<1>4. n \in 0..MaxNodes /\ ~good(n) /\ MaxNodes \in Nat
  BY <1>3, SomeIds
<1>5. CASE n = 0
  <2> DEFINE f == [k \in 0..0 |-> Exists(N, S)]
  <2>1. f = [k \in 0..0 |-> f[k]] /\ Reaches(N, S, f, 0)
    BY DEF Reaches
  <2> QED BY <2>1, <1>4, <1>5
<1>6. CASE n # 0
  <2>1. n - 1 \in 0..MaxNodes /\ ~(n <= n - 1) /\ n \in Nat
    BY <1>4, <1>6
  <2>2. n - 1 \notin bad
    <3> HIDE DEF bad
    <3> QED BY <1>3, <2>1
  <2>3. good(n - 1)
    BY <2>1, <2>2
  <2>4. PICK g : g = [k \in 0..(n - 1) |-> g[k]] /\ Reaches(N, S, g, n - 1)
    BY <2>3
  <2> DEFINE f == [k \in 0..n |-> IF k = n THEN g[n - 1] \cup Kids(N, g[n - 1])
                                  ELSE g[k]]
  <2>5. f = [k \in 0..n |-> f[k]]
    OBVIOUS
  <2>6. \A k \in 0..n : f[k] = IF k = 0 THEN Exists(N, S)
                               ELSE f[k - 1] \cup Kids(N, f[k - 1])
    <3>1. SUFFICES ASSUME NEW k \in 0..n
                   PROVE  f[k] = IF k = 0 THEN Exists(N, S)
                                 ELSE f[k - 1] \cup Kids(N, f[k - 1])
      OBVIOUS
    <3>2. CASE k = n
      <4>1. f[k] = g[n - 1] \cup Kids(N, g[n - 1])
        BY <3>2
      <4>2. n - 1 \in 0..n /\ n - 1 # n
        BY <2>1, <1>6
      <4>3. f[n - 1] = g[n - 1]
        BY <4>2
      <4> QED BY <4>1, <4>3, <3>2, <1>6
    <3>3. CASE k # n
      <4>1. k \in 0..(n - 1)
        BY <3>3, <2>1
      <4>2. g[k] = IF k = 0 THEN Exists(N, S) ELSE g[k - 1] \cup Kids(N, g[k - 1])
        BY <4>1, <2>4 DEF Reaches
      <4>3. f[k] = g[k]
        BY <3>3
      <4>4. k # 0 => f[k - 1] = g[k - 1]
        BY <4>1, <2>1
      <4> QED BY <4>2, <4>3, <4>4
    <3> QED BY <3>2, <3>3
  <2>7. Reaches(N, S, f, n)
    BY <2>6 DEF Reaches
  <2>8. good(n)
    <3> HIDE DEF f
    <3> QED BY <2>5, <2>7
  <2> QED BY <2>8, <1>4
<1> QED BY <1>5, <1>6

\* Below is the end of an iteration of MaxNodes steps.
LEMMA BelowIterates ==
    ASSUME NEW N, NEW S
    PROVE  \E f : Reaches(N, S, f, MaxNodes) /\ Below(N, S) = f[MaxNodes]
<1> DEFINE step(f, k) == IF k = 0 THEN {i \in S : N[i].status # "gone"}
                         ELSE f[k - 1] \cup Kids(N, f[k - 1])
           reach == CHOOSE f : f = [k \in 0..MaxNodes |-> step(f, k)]
<1>1. MaxNodes \in Nat
  BY SomeIds
<1>2. PICK f : f = [k \in 0..MaxNodes |-> f[k]] /\ Reaches(N, S, f, MaxNodes)
  <2>1. MaxNodes \in 0..MaxNodes
    BY <1>1
  <2> QED BY <2>1, ReachExists
<1>3. \A k \in 0..MaxNodes : f[k] = step(f, k)
  BY <1>2 DEF Reaches, Exists
<1>4. f = [k \in 0..MaxNodes |-> step(f, k)]
  <2>1. [k \in 0..MaxNodes |-> f[k]] = [k \in 0..MaxNodes |-> step(f, k)]
    BY <1>3
  <2> QED BY <2>1, <1>2
<1>5. reach = [k \in 0..MaxNodes |-> step(reach, k)]
  BY <1>4
<1>6. Below(N, S) = reach[MaxNodes]
  BY DEF Below
<1>7. Reaches(N, S, reach, MaxNodes)
  <2> HIDE DEF reach
  <2>1. \A k \in 0..MaxNodes : reach[k] = step(reach, k)
    BY <1>5
  <2> QED BY <2>1 DEF Reaches, Exists
<1> HIDE DEF reach
<1> QED BY <1>6, <1>7

LEMMA ReachesInside ==
    ASSUME NEW N, NEW S, NEW f, Reaches(N, S, f, MaxNodes),
           NEW P, Exists(N, S) \subseteq P, Closed(N, P)
    PROVE  \A k \in 0..MaxNodes : f[k] \subseteq P
<1> DEFINE bad == {k \in 0..MaxNodes : ~(f[k] \subseteq P)}
<1>1. SUFFICES ASSUME bad # {} PROVE FALSE
  OBVIOUS
<1>2. bad \in SUBSET Nat
  OBVIOUS
<1>3. PICK n \in bad : \A m \in bad : n <= m
  <2> HIDE DEF bad
  <2> QED BY <1>1, <1>2, LeastNatural
<1>4. n \in 0..MaxNodes /\ ~(f[n] \subseteq P) /\ MaxNodes \in Nat
  BY <1>3, SomeIds
<1>5. n # 0
  BY <1>4 DEF Reaches
<1>6. n - 1 \in 0..MaxNodes /\ ~(n <= n - 1)
  BY <1>4, <1>5
<1>7. n - 1 \notin bad
  <2> HIDE DEF bad
  <2> QED BY <1>3, <1>6
<1>8. f[n - 1] \subseteq P
  BY <1>6, <1>7
<1>9. Kids(N, f[n - 1]) \subseteq P
  BY <1>8 DEF Closed, Kids
<1>10. f[n] = f[n - 1] \cup Kids(N, f[n - 1])
  BY <1>4, <1>5 DEF Reaches
<1> QED BY <1>4, <1>8, <1>9, <1>10

\* A step that adds nothing closes the set, and there are only MaxNodes rows.
LEMMA ReachesCloses ==
    ASSUME NEW N, NEW S \in SUBSET Ids, NEW f, Reaches(N, S, f, MaxNodes)
    PROVE  /\ f[MaxNodes] \subseteq Ids /\ Exists(N, S) \subseteq f[MaxNodes]
           /\ Closed(N, f[MaxNodes])
<1> DEFINE good(k) == /\ f[k] \subseteq Ids /\ Exists(N, S) \subseteq f[k]
                      /\ Closed(N, f[k]) \/ Cardinality(f[k]) > k
           bad == {k \in 0..MaxNodes : ~good(k)}
<1>0. /\ MaxNodes \in Nat \ {0} /\ IsFiniteSet(Ids) /\ Cardinality(Ids) = MaxNodes
  <2>1. MaxNodes \in Nat \ {0}
    BY SomeIds
  <2>2. IsFiniteSet(1..MaxNodes) /\ Cardinality(1..MaxNodes) = MaxNodes
    BY <2>1, FS_Interval
  <2> QED BY <2>1, <2>2 DEF Ids
<1>1. bad = {}
  <2>1. SUFFICES ASSUME bad # {} PROVE FALSE
    OBVIOUS
  <2>2. bad \in SUBSET Nat
    OBVIOUS
  <2>3. PICK n \in bad : \A m \in bad : n <= m
    <3> HIDE DEF bad
    <3> QED BY <2>1, <2>2, LeastNatural
  <2>4. n \in 0..MaxNodes /\ ~good(n)
    BY <2>3
  <2>5. CASE n = 0
    <3>1. f[0] = Exists(N, S)
      <4>1. 0 \in 0..MaxNodes
        BY <1>0
      <4> QED BY <4>1 DEF Reaches
    <3>2. f[0] \subseteq Ids
      BY <3>1 DEF Exists
    <3>3. CASE f[0] = {}
      <4>1. Closed(N, f[0])
        BY <3>3 DEF Closed, Kids
      <4> QED BY <4>1, <3>1, <3>2, <2>4, <2>5
    <3>4. CASE f[0] # {}
      <4>1. IsFiniteSet(f[0])
        BY <3>2, <1>0, FS_Subset
      <4>2. Cardinality(f[0]) \in Nat /\ Cardinality(f[0]) # 0
        BY <4>1, <3>4, FS_EmptySet, FS_CardinalityType
      <4> QED BY <4>2, <3>1, <3>2, <2>4, <2>5
    <3> QED BY <3>3, <3>4
  <2>6. CASE n # 0
    <3>1. PICK m \in 0..MaxNodes : m = n - 1
      BY <2>4, <2>6, <1>0
    <3>2. ~(n <= m)
      BY <3>1, <2>4
    <3>3. m \notin bad
      <4> HIDE DEF bad
      <4> QED BY <2>3, <3>2
    <3>4. good(m)
      BY <3>3
    <3>5. f[n] = f[m] \cup Kids(N, f[m])
      BY <3>1, <2>4, <2>6 DEF Reaches
    <3>6. f[n] \subseteq Ids /\ Exists(N, S) \subseteq f[n]
      BY <3>4, <3>5, KidsAre
    <3>7. CASE Closed(N, f[m])
      <4>1. f[n] = f[m]
        BY <3>5, <3>7 DEF Closed
      <4> QED BY <4>1, <3>6, <3>7, <2>4
    <3>8. CASE ~Closed(N, f[m])
      <4>1. PICK x \in Kids(N, f[m]) : x \notin f[m]
        BY <3>8 DEF Closed
      <4>2. IsFiniteSet(f[m]) /\ IsFiniteSet(f[n])
        BY <3>4, <3>6, <1>0, FS_Subset
      <4>3. Cardinality(f[m] \cup {x}) = Cardinality(f[m]) + 1
            /\ IsFiniteSet(f[m] \cup {x})
        BY <4>1, <4>2, FS_AddElement
      <4>4. Cardinality(f[m] \cup {x}) <= Cardinality(f[n])
        <5>1. f[m] \cup {x} \subseteq f[n]
          BY <4>1, <3>5
        <5> QED BY <5>1, <4>2, FS_Subset
      <4>5. Cardinality(f[m]) \in Nat /\ Cardinality(f[n]) \in Nat
        BY <4>2, FS_CardinalityType
      <4>6. Cardinality(f[m]) > m
        BY <3>4, <3>8
      <4>7. Cardinality(f[n]) > n
        BY <3>1, <4>3, <4>4, <4>5, <4>6
      <4> QED BY <4>7, <3>6, <2>4
    <3> QED BY <3>7, <3>8
  <2> QED BY <2>5, <2>6
<1>2. good(MaxNodes)
  <2>1. MaxNodes \in 0..MaxNodes
    BY <1>0
  <2> QED BY <2>1, <1>1
<1>3. ~(Cardinality(f[MaxNodes]) > MaxNodes)
  <2>1. IsFiniteSet(f[MaxNodes]) /\ Cardinality(f[MaxNodes]) <= MaxNodes
    BY <1>0, <1>2, FS_Subset
  <2>2. Cardinality(f[MaxNodes]) \in Nat
    BY <2>1, FS_CardinalityType
  <2> QED BY <1>0, <2>1, <2>2
<1> QED BY <1>2, <1>3

\* Below is the least set that holds the rows of S and their children.
LEMMA BelowIs ==
    ASSUME NEW N, NEW S \in SUBSET Ids
    PROVE  /\ Below(N, S) \subseteq Ids
           /\ \A i \in S : N[i].status # "gone" => i \in Below(N, S)
           /\ \A i \in Ids : N[i].status # "gone" /\ N[i].parent \in Below(N, S)
                               => i \in Below(N, S)
<1>1. PICK f : Reaches(N, S, f, MaxNodes) /\ Below(N, S) = f[MaxNodes]
  BY BelowIterates
<1>2. /\ f[MaxNodes] \subseteq Ids /\ Exists(N, S) \subseteq f[MaxNodes]
      /\ Closed(N, f[MaxNodes])
  BY <1>1, ReachesCloses
<1> QED BY <1>1, <1>2 DEF Exists, Closed, Kids

LEMMA BelowLeast ==
    ASSUME NEW N, NEW S, NEW P,
           \A i \in S : N[i].status # "gone" => i \in P,
           \A i \in Ids : N[i].status # "gone" /\ N[i].parent \in P => i \in P
    PROVE  Below(N, S) \subseteq P
<1>1. PICK f : Reaches(N, S, f, MaxNodes) /\ Below(N, S) = f[MaxNodes]
  BY BelowIterates
<1>2. Exists(N, S) \subseteq P /\ Closed(N, P)
  BY DEF Exists, Closed, Kids
<1>3. MaxNodes \in 0..MaxNodes
  BY SomeIds
<1> QED BY <1>1, <1>2, <1>3, ReachesInside

\* A row beneath S is one of S, or its parent is beneath S.
LEMMA BelowUnrolls ==
    ASSUME NEW N, NEW S \in SUBSET Ids, NEW i \in Below(N, S)
    PROVE  /\ N[i].status # "gone"
           /\ i \in S \/ N[i].parent \in Below(N, S)
<1> DEFINE P == {j \in Below(N, S) : /\ N[j].status # "gone"
                                     /\ j \in S \/ N[j].parent \in Below(N, S)}
<1>1. \A j \in S : N[j].status # "gone" => j \in P
  BY BelowIs
<1>2. \A j \in Ids : N[j].status # "gone" /\ N[j].parent \in P => j \in P
  BY BelowIs
<1>3. Below(N, S) \subseteq P
  <2> HIDE DEF P
  <2> QED BY <1>1, <1>2, BelowLeast
<1> QED BY <1>3

LEMMA BelowNone ==
    ASSUME NEW N, NEW i, N[i].status = "gone" PROVE Below(N, {i}) = {}
<1>1. PICK P : P = {}
  OBVIOUS
<1>2. \A j \in {i} : N[j].status # "gone" => j \in P
  OBVIOUS
<1>3. \A j \in Ids : N[j].status # "gone" /\ N[j].parent \in P => j \in P
  BY <1>1
<1>4. Below(N, {i}) \subseteq P
  BY <1>2, <1>3, BelowLeast
<1> QED BY <1>1, <1>4

LEMMA BelowTransitive ==
    ASSUME NEW N, NEW S \in SUBSET Ids, NEW T \in SUBSET Ids, T \subseteq Below(N, S)
    PROVE  Below(N, T) \subseteq Below(N, S)
BY BelowIs, BelowLeast

----------------------------------------------------------------------------
(* The inductive invariant.                                                *)

NodeNames == Names \cup {"", "root"}

Rec == [type : {"none", "folder", "file"}, name : NodeNames,
        parent : Nat, status : {"active", "pending_deletion", "gone"}, size : Nat]

\* The rows after c were inserted.
Table(N, c) ==
    /\ N \in [Ids -> Rec]
    /\ IsFolder(N, Root) /\ N[Root].parent = 0
    /\ \A i \in Ids :
          /\ N[i].type = "none" <=> N[i].status = "gone"
          /\ N[i].type = "folder" => N[i].status = "active"
          /\ N[i].type = "file" => N[i].size = 1
          /\ N[i].parent <= c
          /\ i > c => N[i].status = "gone"

\* What Attached says of the table.
Hung(N) ==
    \A i \in Active(N) \ {Root} :
        IsFolder(N, N[i].parent) /\ i \in Below(N, {Root})

TreeInv ==
    /\ created \in 1..MaxNodes
    /\ Table(nodes, created)
    /\ history = {} => Hung(nodes)

----------------------------------------------------------------------------
(* What makes a table hang together.                                       *)

LEMMA BelowSome ==
    ASSUME NEW N, NEW S \in SUBSET Ids, NEW i \in Below(N, S)
    PROVE  \E j \in S : i \in Below(N, {j})
<1> DEFINE P == {k \in Ids : \E j \in S : k \in Below(N, {j})}
<1>1. \A j \in S : {j} \in SUBSET Ids
  OBVIOUS
<1>2. \A k \in S : N[k].status # "gone" => k \in P
  BY <1>1, BelowIs
<1>3. \A k \in Ids : N[k].status # "gone" /\ N[k].parent \in P => k \in P
  BY <1>1, BelowIs
<1>4. Below(N, S) \subseteq P
  <2> HIDE DEF P
  <2> QED BY <1>2, <1>3, BelowLeast
<1> QED BY <1>4

\* Of the rows of N, those of t go.
LosesRows(N, M, t) ==
    /\ \A j \in Active(M) : j \in Active(N) \ t
    /\ \A k \in Active(N) \ t : M[k].status # "gone"

\* Of the rest, those that are not in W keep their parent or get one of W.
KeepsParents(N, M, t, W) ==
    \A k \in Active(N) \ (t \cup W) :
        \/ M[k].parent \in W /\ M[M[k].parent].status # "gone"
        \/ M[k].parent = N[k].parent /\ N[k].parent \notin t

\* The rows of W are moved to p, which is not beneath them.
PlacesRows(M, W, p) ==
    \A w \in W : M[w].status # "gone" =>
        M[w].parent = p /\ p \in Active(M) /\ p \notin Below(M, {w})

LEMMA Rehangs ==
    ASSUME NEW N, NEW M, NEW t \in SUBSET Ids, NEW W \in SUBSET Ids, NEW p,
           Hung(N), N[Root].parent = 0, Root \in Active(M),
           LosesRows(N, M, t), KeepsParents(N, M, t, W), PlacesRows(M, W, p),
           \A j \in Active(M) \ {Root} : IsFolder(M, M[j].parent)
    PROVE  Hung(M)
<1> DEFINE R == Below(M, {Root})
           T == Below(M, W)
           P == {j \in Ids : j \notin Active(N) \/ j \in t \/ j \in R \/ j \in T}
<1>0. Root \in Ids /\ {Root} \in SUBSET Ids /\ Root # 0
  BY SomeIds DEF Root
<1>1. \A j \in {Root} : N[j].status # "gone" => j \in P
  <2>1. Root \in R
    BY <1>0, BelowIs DEF Active
  <2> QED BY <2>1, <1>0
<1>2. \A k \in Ids : N[k].status # "gone" /\ N[k].parent \in P => k \in P
  <2>1. SUFFICES ASSUME NEW k \in Ids, N[k].parent \in P,
                        k \in Active(N), k \notin t
                 PROVE  k \in R \/ k \in T
    OBVIOUS
  <2>2. M[k].status # "gone"
    BY <2>1 DEF LosesRows
  <2>3. CASE k \in W
    BY <2>2, <2>3, BelowIs
  <2>4. CASE k \notin W /\ M[k].parent \in W /\ M[M[k].parent].status # "gone"
    <3>1. M[k].parent \in T
      BY <2>4, BelowIs
    <3> QED BY <3>1, <2>2, BelowIs
  <2>5. CASE M[k].parent = N[k].parent /\ N[k].parent \notin t
    <3>1. N[k].parent # 0
      BY <2>1, SomeIds
    <3>2. k # Root
      BY <3>1
    <3>3. N[k].parent \in Active(N)
      BY <2>1, <3>2 DEF Hung, IsFolder
    <3>4. M[k].parent \in R \/ M[k].parent \in T
      BY <2>1, <2>5, <3>3
    <3> QED BY <3>4, <2>2, <1>0, BelowIs
  <2> QED BY <2>1, <2>3, <2>4, <2>5 DEF KeepsParents
<1>3. Below(N, {Root}) \subseteq P
  <2> HIDE DEF P
  <2> QED BY <1>1, <1>2, BelowLeast
<1>4. \A j \in Active(M) : j \in R \/ j \in T
  <2>1. SUFFICES ASSUME NEW j \in Active(M) PROVE j \in R \/ j \in T
    OBVIOUS
  <2>2. j \in Active(N) /\ j \notin t
    BY DEF LosesRows
  <2>3. CASE j = Root
    BY <2>3, <1>0, BelowIs DEF Active
  <2>4. CASE j # Root
    <3>1. j \in Below(N, {Root})
      BY <2>2, <2>4 DEF Hung
    <3> QED BY <3>1, <2>2, <1>3
  <2> QED BY <2>3, <2>4
<1>5. T \subseteq R
  <2>1. \A w \in W : M[w].status # "gone" => w \in R
    <3>1. SUFFICES ASSUME NEW w \in W, M[w].status # "gone" PROVE w \in R
      OBVIOUS
    <3>2. M[w].parent = p /\ p \in Active(M)
      BY <3>1 DEF PlacesRows
    <3>3. p \notin T
      <4>1. SUFFICES ASSUME p \in T PROVE FALSE
        OBVIOUS
      <4>2. PICK v \in W : p \in Below(M, {v})
        BY <4>1, BelowSome
      <4>3. M[v].status # "gone"
        BY <4>2, BelowNone
      <4> QED BY <4>2, <4>3 DEF PlacesRows
    <3>4. p \in R
      BY <3>2, <3>3, <1>4
    <3> QED BY <3>1, <3>2, <3>4, <1>0, BelowIs
  <2>2. \A k \in Ids : M[k].status # "gone" /\ M[k].parent \in R => k \in R
    BY <1>0, BelowIs
  <2> HIDE DEF R
  <2> QED BY <2>1, <2>2, BelowLeast
<1> QED BY <1>4, <1>5 DEF Hung

\* A new row in a folder.
LEMMA AddsLeaf ==
    ASSUME NEW N, NEW M, NEW i \in Ids, Hung(N), Root \in Active(N),
           N[i].status = "gone", M[i].status = "active",
           IsFolder(N, M[i].parent), \A j \in Ids \ {i} : M[j] = N[j]
    PROVE  Hung(M)
<1>0. {Root} \in SUBSET Ids /\ i # Root
  BY SomeIds DEF Active
<1>1. \A j \in Ids : N[j].status # "gone" => j # i /\ M[j] = N[j]
  OBVIOUS
<1>2. Below(N, {Root}) \subseteq Below(M, {Root})
  BY <1>0, <1>1, BelowIs, BelowLeast
<1>3. \A j \in Active(N) : j \in Below(N, {Root})
  BY <1>0, BelowIs DEF Hung, Active
<1>4. \A j : IsFolder(N, j) => IsFolder(M, j) /\ j \in Below(M, {Root})
  BY <1>1, <1>2, <1>3 DEF IsFolder, Active
<1>5. i \in Below(M, {Root})
  BY <1>0, <1>4, BelowIs
<1>6. \A j \in Active(M) : j = i \/ (j \in Active(N) /\ M[j] = N[j])
  BY <1>1 DEF Active
<1>7. \A j \in Active(M) \ {Root} : IsFolder(M, M[j].parent)
  BY <1>4, <1>6 DEF Hung
<1>8. \A j \in Active(M) : j \in Below(M, {Root})
  BY <1>2, <1>3, <1>5, <1>6
<1> QED BY <1>7, <1>8 DEF Hung

----------------------------------------------------------------------------
(* What the statements do to a table.                                      *)

\* The rows are of the same types and statuses.
SameKinds(N, M) ==
    \A j \in Ids : M[j].status = N[j].status /\ M[j].type = N[j].type

LEMMA KindsKept ==
    ASSUME NEW N, NEW M, SameKinds(N, M)
    PROVE  Active(M) = Active(N) /\ \A j : IsFolder(M, j) <=> IsFolder(N, j)
BY DEF SameKinds, Active, IsFolder

LEMMA TableFacts ==
    ASSUME NEW N, NEW c \in 1..MaxNodes, Table(N, c)
    PROVE  /\ N[Root].status = "active" /\ N[Root].type = "folder"
           /\ Root \in Active(N) /\ N[Root].parent = 0
           /\ \A i \in Ids : /\ N[i] \in Rec /\ N[i].parent \in Nat
                             /\ N[i].status # "gone" => i \in 1..c
<1>1. /\ N[Root].status = "active" /\ N[Root].type = "folder"
      /\ Root \in Active(N) /\ N[Root].parent = 0
  BY DEF Table, IsFolder, Active
<1>2. ASSUME NEW i \in Ids
      PROVE  /\ N[i] \in Rec /\ N[i].parent \in Nat
             /\ N[i].status # "gone" => i \in 1..c
  <2>1. N[i] \in Rec /\ (i > c => N[i].status = "gone")
    BY DEF Table
  <2>2. i \in Nat \ {0}
    BY SomeIds
  <2>3. N[i].parent \in Nat
    BY <2>1 DEF Rec
  <2> QED BY <2>1, <2>2, <2>3
<1> QED BY <1>1, <1>2

LEMMA MovedIs ==
    ASSUME NEW N, NEW c \in 1..MaxNodes, Table(N, c), NEW src \in Ids, src # Root,
           NEW p \in 1..c, NEW name \in NodeNames
    PROVE  LET M == Moved(N, src, p, name)
           IN /\ Table(M, c) /\ SameKinds(N, M)
              /\ \A j \in Ids \ {src} : M[j] = N[j]
              /\ M[src].status # "gone" => M[src].parent = p
<1> DEFINE M == Moved(N, src, p, name)
<1>1. CASE N[src].status = "gone"
  BY <1>1 DEF Moved, SameKinds
<1>2. CASE N[src].status # "gone"
  <2>1. PICK r \in Rec : r = N[src]
    BY DEF Table
  <2>2. PICK q \in Rec : q = [r EXCEPT !.parent = p, !.name = name]
    <3>1. p \in Nat
      OBVIOUS
    <3>3. [r EXCEPT !.parent = p, !.name = name] \in Rec
      BY <3>1 DEF Rec
    <3> QED BY <3>3
  <2>3. /\ q.parent = p /\ q.status = r.status /\ q.type = r.type
        /\ q.size = r.size
    BY <2>2 DEF Rec
  <2>5. N \in [Ids -> Rec]
    BY DEF Table
  <2>4. M = [N EXCEPT ![src] = q]
    <3>1. M = [N EXCEPT ![src].parent = p, ![src].name = name]
      BY <1>2 DEF Moved
    <3>2. [N EXCEPT ![src].parent = p, ![src].name = name]
            = [N EXCEPT ![src] = [r EXCEPT !.parent = p, !.name = name]]
      BY <2>1, <2>5
    <3> QED BY <3>1, <3>2, <2>2
  <2> HIDE DEF M
  <2>6. M \in [Ids -> Rec] /\ M[src] = q /\ \A j \in Ids \ {src} : M[j] = N[j]
    BY <2>4, <2>5
  <2>7. SameKinds(N, M)
    BY <2>1, <2>3, <2>6 DEF SameKinds
  <2>8. \A j : IsFolder(M, j) <=> IsFolder(N, j)
    BY <2>7, KindsKept
  <2>9. \A j \in Ids : M[j].parent <= c /\ (M[j].type = "file" => M[j].size = 1)
    BY <2>1, <2>3, <2>6 DEF Table
  <2>10. Table(M, c)
    BY <2>6, <2>7, <2>8, <2>9, SomeIds DEF Table, SameKinds
  <2> QED BY <2>3, <2>6, <2>7, <2>10 DEF M
<1> QED BY <1>1, <1>2

\* D has lost the rows of t, and nothing that is left was in one of them.
Deleted(N, t, D) ==
    /\ Root \notin t
    /\ \A j \in Ids \ t : /\ D[j] = N[j]
                          /\ N[j].status # "gone" => N[j].parent \notin t
    /\ \A j \in t : D[j].status # "active"

\* deleteFilesBulk of one row.
LEMMA DeleteIs ==
    ASSUME NEW N, NEW c \in 1..MaxNodes, Table(N, c), NEW e \in Ids, e # Root,
           N[e].status # "gone"
    PROVE  /\ Table(DeleteFilesBulk(N, {e}), c) /\ e \in Below(N, {e})
           /\ Deleted(N, Below(N, {e}), DeleteFilesBulk(N, {e}))
<1> DEFINE D == DeleteFilesBulk(N, {e})
           t == Below(N, {e})
<1>1. {e} \in SUBSET Ids /\ 0 \notin Ids
  BY SomeIds
<1>2. /\ t \subseteq Ids /\ e \in t
      /\ \A j \in Ids : N[j].status # "gone" /\ N[j].parent \in t => j \in t
  BY <1>1, BelowIs
<1>3. Root \notin t
  <2>1. N[Root].parent = 0
    BY DEF Table
  <2> QED BY <2>1, <1>1, <1>2, BelowUnrolls
<1>4. \A j \in Ids :
         D[j] = CASE N[j].type = "file" /\ (j \in {e} \/ N[j].parent \in t) ->
                         [N[j] EXCEPT !.status = "pending_deletion"]
                  [] N[j].type = "folder" /\ j \in t -> Gone
                  [] OTHER -> N[j]
  BY DEF DeleteFilesBulk, Targets
<1>5. D = [j \in Ids |-> D[j]]
  BY DEF DeleteFilesBulk
<1> HIDE DEF D, t
<1>6. Gone \in Rec /\ Gone.status = "gone" /\ Gone.type = "none" /\ Gone.parent = 0
  BY DEF Gone, Rec, NodeNames
<1>7. ASSUME NEW j \in Ids
      PROVE  /\ D[j] \in Rec
             /\ D[j].type = "none" <=> D[j].status = "gone"
             /\ D[j].type = "folder" => D[j].status = "active"
             /\ D[j].type = "file" => D[j].size = 1
             /\ D[j].parent <= c
             /\ j > c => D[j].status = "gone"
             /\ j \notin t => D[j] = N[j]
             /\ j \in t => D[j].status # "active"
  <2>1. PICK r \in Rec : r = N[j]
    BY DEF Table
  <2>2. /\ r.type = "none" <=> r.status = "gone"
        /\ r.type = "folder" => r.status = "active"
        /\ r.type = "file" => r.size = 1
        /\ r.parent <= c
        /\ j > c => r.status = "gone"
    BY <2>1 DEF Table
  <2>3. PICK q \in Rec : q = [r EXCEPT !.status = "pending_deletion"]
    BY DEF Rec
  <2>4. /\ q.status = "pending_deletion" /\ q.type = r.type /\ q.parent = r.parent
        /\ q.size = r.size
    BY <2>3 DEF Rec
  <2>5. CASE r.type = "file" /\ (j \in {e} \/ N[j].parent \in t)
    <3>1. D[j] = q
      BY <2>1, <2>3, <2>5, <1>4
    <3>2. j \in t
      BY <2>1, <2>2, <2>5, <1>2
    <3> QED BY <3>1, <3>2, <2>2, <2>4, <2>5
  <2>6. CASE r.type = "folder" /\ j \in t
    <3>1. D[j] = Gone
      BY <2>1, <2>6, <1>4
    <3>2. 0 <= c
      OBVIOUS
    <3> QED BY <3>1, <3>2, <2>6, <1>6
  <2>7. CASE ~(r.type = "file" /\ (j \in {e} \/ N[j].parent \in t))
             /\ ~(r.type = "folder" /\ j \in t)
    <3>1. D[j] = r
      BY <2>1, <2>7, <1>4
    <3>2. j \in t => r.status # "active"
      <4>1. j \in t => N[j].status # "gone" /\ (j \in {e} \/ N[j].parent \in t)
        BY <1>1, BelowUnrolls DEF t
      <4>2. r.type \in {"none", "folder", "file"}
        BY DEF Rec
      <4> QED BY <4>1, <4>2, <2>1, <2>2, <2>7
    <3> QED BY <3>1, <3>2, <2>1, <2>2
  <2> QED BY <2>5, <2>6, <2>7
<1>8. Table(D, c)
  <2>1. D \in [Ids -> Rec]
    BY <1>5, <1>7
  <2>2. D[Root] = N[Root] /\ Root \in Ids
    BY <1>3, <1>7, SomeIds
  <2>3. IsFolder(D, Root) /\ D[Root].parent = 0
    BY <2>2 DEF Table, IsFolder, Active
  <2> QED BY <2>1, <2>3, <1>7 DEF Table
<1>9. Deleted(N, t, D)
  BY <1>2, <1>3, <1>7 DEF Deleted
<1> QED BY <1>2, <1>8, <1>9 DEF D, t

\* The children of e, a folder, may have moved to src, a folder too.
LEMMA MergedIs ==
    ASSUME NEW N, NEW c \in 1..MaxNodes, Table(N, c), NEW src \in Ids, NEW e \in Ids
    PROVE  LET M == Merged(N, src, e)
           IN /\ Table(M, c) /\ SameKinds(N, M)
              /\ \A j \in Ids : \/ M[j] = N[j]
                                \/ M[j].parent = src /\ IsFolder(N, src)
<1> DEFINE M == Merged(N, src, e)
<1>1. CASE ~(N[src].type = "folder" /\ N[e].type = "folder")
  BY <1>1 DEF Merged, SameKinds
<1>2. CASE N[src].type = "folder" /\ N[e].type = "folder"
  <2> DEFINE taken == {N[k].name : k \in Kids(N, {src}) \cap Active(N)}
             moves(j) == j \in Kids(N, {e}) \cap Active(N) /\ N[j].name \notin taken
  <2>1. M = [j \in Ids |-> IF moves(j) THEN [N[j] EXCEPT !.parent = src] ELSE N[j]]
    BY <1>2 DEF Merged, Reparented
  <2>2. IsFolder(N, src) /\ src \in Nat /\ src <= c
    <3>1. N[src].status = "active" /\ (src > c => N[src].status = "gone")
      BY <1>2 DEF Table
    <3>2. src \in Nat
      BY SomeIds
    <3> QED BY <1>2, <3>1, <3>2 DEF IsFolder, Active
  <2>3. \A j : moves(j) => N[j].parent = e
    BY DEF Kids
  <2> HIDE DEF M, moves
  <2>4. ASSUME NEW j \in Ids
        PROVE  /\ M[j] \in Rec
               /\ M[j].status = N[j].status /\ M[j].type = N[j].type
               /\ M[j].size = N[j].size /\ M[j].parent <= c
               /\ M[j] = N[j] \/ M[j].parent = src
    <3>1. PICK r \in Rec : r = N[j]
      BY DEF Table
    <3>2. CASE moves(j)
      <4>1. PICK q \in Rec : q = [r EXCEPT !.parent = src]
        BY <2>2 DEF Rec
      <4>2. /\ q.status = r.status /\ q.type = r.type /\ q.parent = src
            /\ q.size = r.size
        BY <4>1 DEF Rec
      <4>3. M[j] = q
        BY <2>1, <3>1, <3>2, <4>1
      <4> QED BY <4>2, <4>3, <3>1, <2>2
    <3>3. CASE ~moves(j)
      <4>1. M[j] = r
        BY <2>1, <3>1, <3>3
      <4> QED BY <4>1, <3>1 DEF Table
    <3> QED BY <3>2, <3>3
  <2>5. SameKinds(N, M)
    BY <2>4 DEF SameKinds
  <2>6. \A j : IsFolder(M, j) <=> IsFolder(N, j)
    BY <2>5, KindsKept
  <2>7. M[Root].parent = 0
    <3>1. Root \in Ids /\ N[Root].parent = 0 /\ e # 0
      BY SomeIds DEF Table
    <3>2. ~moves(Root)
      BY <3>1, <2>3
    <3> QED BY <3>1, <3>2, <2>1
  <2>8. M \in [Ids -> Rec]
    <3>1. M = [j \in Ids |-> M[j]]
      BY <2>1
    <3> QED BY <3>1, <2>4
  <2>9. \A j \in Ids : /\ M[j].type = "none" <=> M[j].status = "gone"
                       /\ M[j].type = "folder" => M[j].status = "active"
                       /\ M[j].type = "file" => M[j].size = 1
                       /\ j > c => M[j].status = "gone"
    BY <2>4 DEF Table
  <2>10. Table(M, c)
    BY <2>4, <2>6, <2>7, <2>8, <2>9 DEF Table
  <2> QED BY <2>2, <2>4, <2>5, <2>10 DEF M
<1> QED BY <1>1, <1>2

\* Rehangs for tables: what is placed where it belongs hangs in the tree.
LEMMA PlacedHangs ==
    ASSUME NEW N, NEW M, NEW b \in 1..MaxNodes, NEW c \in 1..MaxNodes,
           Table(N, b), Table(M, c), Hung(N),
           NEW t \in SUBSET Ids, NEW W \in SUBSET Ids, NEW p,
           Active(M) = Active(N) \ t, Root \notin W,
           \A k \in Active(N) \ (t \cup W \cup {Root}) :
              /\ IsFolder(M, M[k].parent)
              /\ M[k].parent \in W \/ M[k].parent = N[k].parent,
           \A w \in W : M[w].status # "gone" =>
              M[w].parent = p /\ Placed(M, w, p) = {}
    PROVE  Hung(M)
<1>1. /\ Root \in Active(N) /\ Root \in Active(M) /\ N[Root].parent = 0
      /\ M[Root].parent = 0 /\ 0 \notin Ids
  BY TableFacts, SomeIds
<1>3. LosesRows(N, M, t)
  BY DEF LosesRows, Active
<1>4. KeepsParents(N, M, t, W)
  <2>1. \A j : IsFolder(M, j) => j \notin t /\ M[j].status # "gone"
    BY DEF IsFolder, Active
  <2> QED BY <1>1, <2>1 DEF KeepsParents
<1>5. \A w \in W : M[w].status # "gone" =>
         M[w].parent = p /\ IsFolder(M, p) /\ p \notin Below(M, {w})
  BY DEF Placed
<1>6. PlacesRows(M, W, p)
  BY <1>5 DEF IsFolder, PlacesRows
<1>7. \A j \in Active(M) \ {Root} : IsFolder(M, M[j].parent)
  <2>1. \A j \in Active(M) : M[j].status # "gone"
    BY DEF Active
  <2> QED BY <1>5, <2>1
<1> QED BY <1>1, <1>3, <1>4, <1>6, <1>7, Rehangs

----------------------------------------------------------------------------
(* Every statement leaves a table that hangs together.                     *)

LEMMA MoveHangs ==
    ASSUME NEW N, NEW c \in 1..MaxNodes, Table(N, c), Hung(N),
           NEW src \in Ids, src # Root, NEW p \in 1..c, NEW name \in NodeNames,
           Moved(N, src, p, name)[src].status # "gone" =>
               Placed(Moved(N, src, p, name), src, p) = {}
    PROVE  Hung(Moved(N, src, p, name))
<1>1. PICK M : M = Moved(N, src, p, name)
  OBVIOUS
<1>2. /\ Table(M, c) /\ SameKinds(N, M)
      /\ \A j \in Ids \ {src} : M[j] = N[j]
      /\ M[src].status # "gone" => M[src].parent = p
  BY <1>1, MovedIs
<1>3. Active(M) = Active(N) /\ \A j : IsFolder(M, j) <=> IsFolder(N, j)
  BY <1>2, KindsKept
<1>4. PICK t : t = {}
  OBVIOUS
<1>5. PICK W : W = {src}
  OBVIOUS
<1>6. \A k \in Active(N) \ (t \cup W \cup {Root}) :
         IsFolder(M, M[k].parent) /\ (M[k].parent \in W \/ M[k].parent = N[k].parent)
  <2>1. \A k \in Active(N) : k \in Ids
    BY DEF Active
  <2> QED BY <2>1, <1>2, <1>3, <1>5 DEF Hung
<1>7. Active(M) = Active(N) \ t /\ Root \notin W
  BY <1>3, <1>4, <1>5
<1>8. \A w \in W : M[w].status # "gone" => M[w].parent = p /\ Placed(M, w, p) = {}
  BY <1>1, <1>2, <1>5
<1>9. t \in SUBSET Ids /\ W \in SUBSET Ids
  BY <1>4, <1>5
<1>10. Hung(M)
  BY <1>2, <1>6, <1>7, <1>8, <1>9, PlacedHangs
<1> QED BY <1>1, <1>10

\* What the move of src over e leaves of the table.
LEMMA ReplacedIs ==
    ASSUME NEW N, NEW c \in 1..MaxNodes, Table(N, c),
           NEW src \in Ids, src # Root, NEW e \in Ids, e # Root, N[e].status # "gone",
           NEW p \in 1..c, NEW name \in NodeNames
    PROVE  LET M == Replaced(N, src, e, p, name)
               t == Below(Merged(N, src, e), {e})
           IN /\ Table(M, c) /\ t \in SUBSET Ids /\ Active(M) = Active(N) \ t
              /\ \A j \in Ids \ t :
                    /\ M[j].status = N[j].status /\ M[j].type = N[j].type
                    /\ j # src => \/ M[j].parent = N[j].parent
                                  \/ M[j].parent = src /\ IsFolder(N, src)
                    /\ j # src /\ N[j].status # "gone" => M[j].parent \notin t
              /\ M[src].status # "gone" => M[src].parent = p
<1>1. PICK N1 : N1 = Merged(N, src, e)
  OBVIOUS
<1>2. PICK t : t = Below(N1, {e})
  OBVIOUS
<1>3. PICK D : D = DeleteFilesBulk(N1, {e})
  OBVIOUS
<1>4. PICK M : M = Moved(D, src, p, name)
  OBVIOUS
<1>5. /\ Table(N1, c) /\ SameKinds(N, N1)
      /\ \A j \in Ids : N1[j] = N[j] \/ (N1[j].parent = src /\ IsFolder(N, src))
  BY <1>1, MergedIs
<1>6. N1[e].status # "gone" /\ Table(N1, c)
  BY <1>5 DEF SameKinds
<1>7. /\ Table(D, c)
      /\ \A j \in Ids \ t : D[j] = N1[j]
                            /\ (N1[j].status # "gone" => N1[j].parent \notin t)
      /\ \A j \in t : D[j].status # "active"
  <2>1. Table(D, c) /\ Deleted(N1, t, D)
    BY <1>2, <1>3, <1>6, DeleteIs
  <2> QED BY <2>1 DEF Deleted
<1>8. /\ Table(M, c) /\ SameKinds(D, M)
      /\ \A j \in Ids \ {src} : M[j] = D[j]
      /\ M[src].status # "gone" => M[src].parent = p
  BY <1>4, <1>7, MovedIs
<1>9. t \in SUBSET Ids
  BY <1>2, BelowIs
<1>10. Active(M) = Active(N) \ t
  BY <1>5, <1>7, <1>8 DEF Active, SameKinds
<1>11. ASSUME NEW j \in Ids, j \notin t
       PROVE  /\ M[j].status = N[j].status /\ M[j].type = N[j].type
              /\ j # src => \/ M[j].parent = N[j].parent
                            \/ M[j].parent = src /\ IsFolder(N, src)
              /\ j # src /\ N[j].status # "gone" => M[j].parent \notin t
  <2>1. D[j] = N1[j] /\ (N1[j].status # "gone" => N1[j].parent \notin t)
    BY <1>7, <1>11
  <2>2. M[j].status = N[j].status /\ M[j].type = N[j].type /\ N1[j].status = N[j].status
    BY <2>1, <1>5, <1>8 DEF SameKinds
  <2>3. CASE j # src
    <3>1. M[j] = N1[j]
      BY <2>1, <2>3, <1>8
    <3>2. N1[j] = N[j] \/ (N1[j].parent = src /\ IsFolder(N, src))
      BY <1>5
    <3> QED BY <3>1, <3>2, <2>1, <2>2
  <2> QED BY <2>2, <2>3
<1>12. M = Replaced(N, src, e, p, name)
  BY <1>1, <1>3, <1>4 DEF Replaced
<1> QED BY <1>1, <1>2, <1>8, <1>9, <1>10, <1>11, <1>12

LEMMA ReplaceHangs ==
    ASSUME NEW N, NEW c \in 1..MaxNodes, Table(N, c), Hung(N),
           NEW src \in Ids, src # Root, NEW e \in Ids, e # Root, N[e].status # "gone",
           NEW p \in 1..c, NEW name \in NodeNames,
           Replaced(N, src, e, p, name)[src].status # "gone" =>
               Placed(Replaced(N, src, e, p, name), src, p) = {}
    PROVE  Hung(Replaced(N, src, e, p, name))
<1>1. PICK M : M = Replaced(N, src, e, p, name)
  OBVIOUS
<1>2. PICK t : t = Below(Merged(N, src, e), {e})
  OBVIOUS
<1>3. /\ Table(M, c) /\ t \in SUBSET Ids /\ Active(M) = Active(N) \ t
      /\ \A j \in Ids \ t :
            /\ M[j].status = N[j].status /\ M[j].type = N[j].type
            /\ j # src => \/ M[j].parent = N[j].parent
                          \/ M[j].parent = src /\ IsFolder(N, src)
            /\ j # src /\ N[j].status # "gone" => M[j].parent \notin t
      /\ M[src].status # "gone" => M[src].parent = p
  BY <1>1, <1>2, ReplacedIs
<1>4. PICK W : W = {src}
  OBVIOUS
<1>5. \A j : IsFolder(N, j) /\ j \notin t => IsFolder(M, j)
  BY <1>3 DEF IsFolder, Active
<1>6. \A k \in Active(N) \ (t \cup W \cup {Root}) :
         IsFolder(M, M[k].parent) /\ (M[k].parent \in W \/ M[k].parent = N[k].parent)
  <2>1. SUFFICES ASSUME NEW k \in Active(N), k \notin t, k # src, k # Root
                 PROVE  /\ IsFolder(M, M[k].parent)
                        /\ M[k].parent = src \/ M[k].parent = N[k].parent
    BY <1>4
  <2>2. k \in Ids /\ N[k].status # "gone"
    BY DEF Active
  <2>3. /\ M[k].parent \notin t
        /\ M[k].parent = N[k].parent \/ (M[k].parent = src /\ IsFolder(N, src))
    BY <2>1, <2>2, <1>3
  <2>4. IsFolder(N, N[k].parent)
    BY <2>1 DEF Hung
  <2> QED BY <2>3, <2>4, <1>5
<1>7. Root \notin W /\ W \in SUBSET Ids
  BY <1>4
<1>8. \A w \in W : M[w].status # "gone" => M[w].parent = p /\ Placed(M, w, p) = {}
  BY <1>1, <1>3, <1>4
<1>9. Table(M, c) /\ t \in SUBSET Ids /\ Active(M) = Active(N) \ t
  BY <1>3
<1>10. Hung(M)
  BY <1>6, <1>7, <1>8, <1>9, PlacedHangs
<1> QED BY <1>1, <1>10

LEMMA DeleteHangs ==
    ASSUME NEW N, NEW c \in 1..MaxNodes, Table(N, c), Hung(N), NEW e \in Ids,
           e # Root, N[e].status # "gone"
    PROVE  Table(DeleteFilesBulk(N, {e}), c) /\ Hung(DeleteFilesBulk(N, {e}))
<1>1. PICK t : t = Below(N, {e})
  OBVIOUS
<1>2. PICK M : M = DeleteFilesBulk(N, {e})
  OBVIOUS
<1>3. /\ Table(M, c)
      /\ \A j \in Ids \ t : M[j] = N[j] /\ (N[j].status # "gone" => N[j].parent \notin t)
      /\ \A j \in t : M[j].status # "active"
  BY <1>1, <1>2, DeleteIs DEF Deleted
<1>4. PICK W : W = {}
  OBVIOUS
<1>5. Active(M) = Active(N) \ t
  BY <1>3 DEF Active
<1>6. \A k \in Active(N) \ (t \cup W \cup {Root}) :
         IsFolder(M, M[k].parent) /\ (M[k].parent \in W \/ M[k].parent = N[k].parent)
  <2>1. SUFFICES ASSUME NEW k \in Active(N), k \notin t, k # Root
                 PROVE  IsFolder(M, M[k].parent) /\ M[k].parent = N[k].parent
    OBVIOUS
  <2>2. M[k] = N[k] /\ N[k].parent \notin t
    BY <2>1, <1>3 DEF Active
  <2>3. IsFolder(N, N[k].parent)
    BY <2>1 DEF Hung
  <2> QED BY <2>2, <2>3, <1>3 DEF IsFolder, Active
<1>7. Root \notin W /\ W \in SUBSET Ids /\ t \in SUBSET Ids
  BY <1>1, <1>4, BelowIs
<1>8. \A w \in W : M[w].status # "gone" => M[w].parent = 0 /\ Placed(M, w, 0) = {}
  BY <1>4
<1>9. Hung(M)
  BY <1>3, <1>5, <1>6, <1>7, <1>8, PlacedHangs
<1> QED BY <1>2, <1>3, <1>9

\* The parents and kinds of the active rows are all that hanging is about.
LEMMA SameHangs ==
    ASSUME NEW N, NEW M, NEW b \in 1..MaxNodes, NEW c \in 1..MaxNodes,
           Table(N, b), Table(M, c), Hung(N), Active(M) = Active(N),
           \A k \in Active(N) : M[k].parent = N[k].parent,
           \A k \in Active(N) \ {Root} : IsFolder(M, N[k].parent)
    PROVE  Hung(M)
<1>1. PICK t : t = {}
  OBVIOUS
<1>2. t \in SUBSET Ids /\ Active(M) = Active(N) \ t /\ Root \notin t
  BY <1>1
<1>3. \A k \in Active(N) \ (t \cup t \cup {Root}) :
         IsFolder(M, M[k].parent) /\ (M[k].parent \in t \/ M[k].parent = N[k].parent)
  OBVIOUS
<1>4. \A w \in t : M[w].status # "gone" => M[w].parent = 0 /\ Placed(M, w, 0) = {}
  BY <1>1
<1> QED BY <1>2, <1>3, <1>4, PlacedHangs

\* The rows of ids are moved to p at once.
BulkMoved(N, ids, p) ==
    [i \in Ids |-> IF i \in ids /\ N[i].status # "gone"
                   THEN [N[i] EXCEPT !.parent = p] ELSE N[i]]

LEMMA BulkIs ==
    ASSUME NEW N, NEW c \in 1..MaxNodes, Table(N, c),
           NEW ids \in SUBSET Ids, Root \notin ids, NEW p \in 1..c
    PROVE  LET M == BulkMoved(N, ids, p)
           IN /\ Table(M, c) /\ SameKinds(N, M)
              /\ \A j \in Ids \ ids : M[j] = N[j]
              /\ \A j \in ids : M[j].status # "gone" => M[j].parent = p
<1> DEFINE M == BulkMoved(N, ids, p)
           moves(j) == j \in ids /\ N[j].status # "gone"
<1>1. M = [j \in Ids |-> IF moves(j) THEN [N[j] EXCEPT !.parent = p] ELSE N[j]]
  BY DEF BulkMoved
<1>2. \A j : moves(j) => j \in ids
  OBVIOUS
<1>3. \A j \in ids : N[j].status # "gone" => moves(j)
  OBVIOUS
<1> HIDE DEF M, moves
<1>4. ASSUME NEW j \in Ids
      PROVE  /\ M[j] \in Rec
             /\ M[j].status = N[j].status /\ M[j].type = N[j].type
             /\ M[j].size = N[j].size /\ M[j].parent <= c
             /\ moves(j) => M[j].parent = p
             /\ ~moves(j) => M[j] = N[j]
  <2>1. PICK r \in Rec : r = N[j]
    BY DEF Table
  <2>2. CASE moves(j)
    <3>1. p \in Nat /\ p <= c
      OBVIOUS
    <3>2. PICK q \in Rec : q = [r EXCEPT !.parent = p]
      BY <3>1 DEF Rec
    <3>3. /\ q.status = r.status /\ q.type = r.type /\ q.parent = p
          /\ q.size = r.size
      BY <3>2 DEF Rec
    <3>4. M[j] = q
      BY <1>1, <2>1, <2>2, <3>2
    <3> QED BY <2>1, <2>2, <3>1, <3>3, <3>4
  <2>3. CASE ~moves(j)
    <3>1. M[j] = r
      BY <1>1, <2>1, <2>3
    <3> QED BY <3>1, <2>1, <2>3 DEF Table
  <2> QED BY <2>2, <2>3
<1>5. SameKinds(N, M)
  BY <1>4 DEF SameKinds
<1>6. \A j : IsFolder(M, j) <=> IsFolder(N, j)
  BY <1>5, KindsKept
<1>7. M[Root].parent = 0
  BY <1>2, <1>4, SomeIds DEF Table
<1>8. M \in [Ids -> Rec]
  <2>1. M = [j \in Ids |-> M[j]]
    BY <1>1
  <2> QED BY <2>1, <1>4
<1>9. \A j \in Ids : /\ M[j].type = "none" <=> M[j].status = "gone"
                     /\ M[j].type = "folder" => M[j].status = "active"
                     /\ M[j].type = "file" => M[j].size = 1
                     /\ j > c => M[j].status = "gone"
  BY <1>4 DEF Table
<1>10. Table(M, c)
  BY <1>4, <1>6, <1>7, <1>8, <1>9 DEF Table
<1>11. \A j \in Ids \ ids : M[j] = N[j]
  BY <1>2, <1>4
<1>12. \A j \in ids : M[j].status # "gone" => M[j].parent = p
  BY <1>3, <1>4
<1> QED BY <1>5, <1>10, <1>11, <1>12 DEF M

LEMMA BulkHangs ==
    ASSUME NEW N, NEW c \in 1..MaxNodes, Table(N, c), Hung(N),
           NEW ids \in SUBSET Ids, Root \notin ids, NEW p \in 1..c,
           \A i \in ids : Placed(BulkMoved(N, ids, p), i, p) = {}
    PROVE  Hung(BulkMoved(N, ids, p))
<1>1. PICK M : M = BulkMoved(N, ids, p)
  OBVIOUS
<1>2. /\ Table(M, c) /\ SameKinds(N, M)
      /\ \A j \in Ids \ ids : M[j] = N[j]
      /\ \A j \in ids : M[j].status # "gone" => M[j].parent = p
  BY <1>1, BulkIs
<1>3. Active(M) = Active(N) /\ \A j : IsFolder(M, j) <=> IsFolder(N, j)
  BY <1>2, KindsKept
<1>4. PICK t : t = {}
  OBVIOUS
<1>5. \A k \in Active(N) \ (t \cup ids \cup {Root}) :
         IsFolder(M, M[k].parent) /\ (M[k].parent \in ids \/ M[k].parent = N[k].parent)
  <2>1. \A k \in Active(N) : k \in Ids
    BY DEF Active
  <2> QED BY <2>1, <1>2, <1>3 DEF Hung
<1>6. t \in SUBSET Ids /\ Active(M) = Active(N) \ t
  BY <1>3, <1>4
<1>7. \A w \in ids : M[w].status # "gone" => M[w].parent = p /\ Placed(M, w, p) = {}
  BY <1>1, <1>2
<1>8. Table(M, c)
  BY <1>2
<1>9. Hung(M)
  BY <1>5, <1>6, <1>7, <1>8, PlacedHangs
<1> QED BY <1>1, <1>9

LEMMA RowIs ==
    ASSUME NEW type \in {"folder", "file"}, NEW name \in NodeNames, NEW p \in Nat
    PROVE  \E q \in Rec : /\ q = Row(type, name, p)
                          /\ q.type = type /\ q.parent = p /\ q.status = "active"
                          /\ q.type = "file" => q.size = 1
<1>0. Row(type, name, p) \in Rec
  BY DEF Row, Rec
<1>1. PICK q \in Rec : q = Row(type, name, p)
  BY <1>0
<1>2. /\ q.type = type /\ q.parent = p /\ q.status = "active"
      /\ type = "file" => q.size = 1
  BY <1>1 DEF Row
<1> QED BY <1>1, <1>2

LEMMA GoneIs == /\ Gone \in Rec /\ Gone.type = "none" /\ Gone.status = "gone"
                /\ Gone.parent = 0
BY DEF Gone, Rec, NodeNames

\* One row is written.
LEMMA WriteIs ==
    ASSUME NEW N, NEW c \in 1..MaxNodes, Table(N, c), NEW d \in 1..MaxNodes, c <= d,
           NEW i \in 1..d, i # Root, NEW q \in Rec, q.parent <= d,
           q.type = "none" <=> q.status = "gone",
           q.type = "folder" => q.status = "active",
           q.type = "file" => q.size = 1
    PROVE  Table([N EXCEPT ![i] = q], d)
<1>1. PICK M : M = [N EXCEPT ![i] = q]
  OBVIOUS
<1>2. i \in Ids /\ N \in [Ids -> Rec] /\ Root \in Ids
  BY SomeIds DEF Ids, Table
<1>3. M \in [Ids -> Rec] /\ M[i] = q /\ \A j \in Ids \ {i} : M[j] = N[j]
  BY <1>1, <1>2
<1>4. IsFolder(M, Root) /\ M[Root].parent = 0
  BY <1>2, <1>3 DEF Table, IsFolder, Active
<1>5. ASSUME NEW j \in Ids
      PROVE  /\ M[j].type = "none" <=> M[j].status = "gone"
             /\ M[j].type = "folder" => M[j].status = "active"
             /\ M[j].type = "file" => M[j].size = 1
             /\ M[j].parent <= d
             /\ j > d => M[j].status = "gone"
  <2>1. CASE j = i
    BY <2>1, <1>3
  <2>2. CASE j # i
    <3>1. PICK r \in Rec : r = N[j]
      BY <1>2
    <3>2. M[j] = r
      BY <2>2, <1>3, <3>1
    <3>3. r.parent \in Nat /\ j \in Nat
      BY SomeIds DEF Rec
    <3>4. /\ r.type = "none" <=> r.status = "gone"
          /\ r.type = "folder" => r.status = "active"
          /\ r.type = "file" => r.size = 1
          /\ r.parent <= c
          /\ j > c => r.status = "gone"
      BY <3>1 DEF Table
    <3>5. r.parent <= d /\ (j > d => j > c)
      BY <3>3, <3>4
    <3> QED BY <3>2, <3>4, <3>5
  <2> QED BY <2>1, <2>2
<1>6. Table(M, d)
  BY <1>3, <1>4, <1>5 DEF Table
<1> QED BY <1>1, <1>6

\* INSERT: the new row is the next one, in a folder.
LEMMA InsertHangs ==
    ASSUME NEW N, NEW c \in 1..MaxNodes, Table(N, c), Hung(N), c < MaxNodes,
           NEW type \in {"folder", "file"}, NEW name \in Names, NEW p \in 1..c
    PROVE  LET M == [N EXCEPT ![c + 1] = Row(type, name, p)]
           IN  Table(M, c + 1) /\ (IsFolder(N, p) => Hung(M))
<1>1. PICK i \in 1..MaxNodes : i = c + 1
  BY SomeIds
<1>2. i \in Ids /\ i > c /\ i # Root /\ c <= i /\ i \in 1..i
  <2>1. MaxNodes \in Nat /\ c \in Nat /\ c >= 1
    BY SomeIds
  <2>2. i \in Nat /\ i > c /\ i <= MaxNodes
    BY <1>1, <2>1
  <2> QED BY <2>1, <2>2 DEF Ids, Root
<1>3. p \in 1..c /\ p <= i
  BY <1>2
<1>4. PICK q \in Rec : /\ q = Row(type, name, p)
                       /\ q.type = type /\ q.parent = p /\ q.status = "active"
                       /\ q.type = "file" => q.size = 1
  <2>1. name \in NodeNames
    BY DEF NodeNames
  <2>2. p \in Nat
    BY <1>3
  <2> QED BY <2>1, <2>2, RowIs
<1>5. q \in Rec /\ q.parent = p /\ q.status = "active"
  BY <1>4
<1>6. PICK M : M = [N EXCEPT ![i] = q]
  OBVIOUS
<1>7. Table(M, i)
  <2>1. /\ q.type = "none" <=> q.status = "gone"
        /\ q.type = "folder" => q.status = "active"
        /\ q.type = "file" => q.size = 1
    BY <1>4
  <2>2. q.parent <= i
    BY <1>3, <1>5
  <2> QED BY <2>1, <2>2, <1>2, <1>5, <1>6, WriteIs
<1>8. N[i].status = "gone" /\ Root \in Active(N)
  <2>1. Root \in Active(N)
    BY TableFacts
  <2>2. N[i].status = "gone"
    BY <1>2 DEF Table
  <2> QED BY <2>1, <2>2
<1>9. M[i] = q /\ \A j \in Ids \ {i} : M[j] = N[j]
  BY <1>2, <1>6 DEF Table
<1>10. IsFolder(N, p) => Hung(M)
  BY <1>2, <1>5, <1>8, <1>9, AddsLeaf
<1> QED BY <1>1, <1>4, <1>6, <1>7, <1>10

\* ON CONFLICT DO UPDATE: the row has the parent that it is given.
LEMMA OverwriteHangs ==
    ASSUME NEW N, NEW c \in 1..MaxNodes, Table(N, c), Hung(N),
           NEW type \in {"folder", "file"}, NEW name \in Names, NEW p \in 1..c,
           NEW i \in Active(N), N[i].parent = p
    PROVE  LET M == [N EXCEPT ![i] = Row(type, name, p)]
           IN  Table(M, c) /\ ((type = "file" => Kids(N, {i}) = {}) => Hung(M))
<1>1. PICK q \in Rec : /\ q = Row(type, name, p)
                       /\ q.type = type /\ q.parent = p /\ q.status = "active"
                       /\ q.type = "file" => q.size = 1
  <2>1. name \in NodeNames
    BY DEF NodeNames
  <2>2. p \in Nat
    OBVIOUS
  <2> QED BY <2>1, <2>2, RowIs
<1>2. q \in Rec /\ q.parent = p /\ q.status = "active" /\ q.type = type
  BY <1>1
<1>3. PICK M : M = [N EXCEPT ![i] = q]
  OBVIOUS
<1>4. i \in Ids /\ i # Root /\ i \in 1..c
  <2>1. i \in Ids /\ N[i].status # "gone"
    BY DEF Active
  <2>2. i \in 1..c
    BY <2>1, TableFacts
  <2> QED BY <2>1, <2>2 DEF Table
<1>5. Table(M, c)
  <2>1. /\ q.type = "none" <=> q.status = "gone"
        /\ q.type = "folder" => q.status = "active"
        /\ q.type = "file" => q.size = 1
    BY <1>1
  <2>2. q.parent <= c /\ c <= c
    BY <1>2
  <2> QED BY <2>1, <2>2, <1>2, <1>3, <1>4, WriteIs
<1>6. M[i] = q /\ \A j \in Ids \ {i} : M[j] = N[j]
  BY <1>3, <1>4 DEF Table
<1>7. Active(M) = Active(N)
  BY <1>2, <1>4, <1>6 DEF Active
<1>8. \A k \in Active(N) : M[k].parent = N[k].parent
  BY <1>2, <1>6 DEF Active
<1>9. ASSUME type = "file" => Kids(N, {i}) = {}
      PROVE  \A k \in Active(N) \ {Root} : IsFolder(M, N[k].parent)
  <2>1. SUFFICES ASSUME NEW k \in Active(N), k # Root PROVE IsFolder(M, N[k].parent)
    OBVIOUS
  <2>2. IsFolder(N, N[k].parent)
    BY <2>1 DEF Hung
  <2>3. CASE N[k].parent = i
    <3>1. k \in Kids(N, {i})
      BY <2>3 DEF Kids, Active
    <3>2. type = "folder"
      BY <3>1, <1>9
    <3> QED BY <2>3, <3>2, <1>2, <1>6, <1>7 DEF IsFolder
  <2>4. CASE N[k].parent # i
    BY <2>2, <2>4, <1>6, <1>7 DEF IsFolder, Active
  <2> QED BY <2>3, <2>4
<1>10. (type = "file" => Kids(N, {i}) = {}) => Hung(M)
  BY <1>5, <1>7, <1>8, <1>9, SameHangs
<1> QED BY <1>1, <1>3, <1>5, <1>10

\* cleanFiles: the row is not one that users can see.
LEMMA CleanHangs ==
    ASSUME NEW N, NEW c \in 1..MaxNodes, Table(N, c), Hung(N),
           NEW i \in Ids, N[i].status = "pending_deletion"
    PROVE  LET M == [N EXCEPT ![i] = Gone] IN Table(M, c) /\ Hung(M)
<1>1. PICK M : M = [N EXCEPT ![i] = Gone]
  OBVIOUS
<1>2. i \in 1..c /\ i # Root /\ i \notin Active(N)
  BY TableFacts DEF Active
<1>3. Table(M, c)
  <2>1. PICK q \in Rec : q = Gone
    BY GoneIs
  <2>2. /\ q.type = "none" <=> q.status = "gone"
        /\ q.type = "folder" => q.status = "active"
        /\ q.type = "file" => q.size = 1
        /\ q.parent <= c /\ c <= c
    BY <2>1, GoneIs
  <2>3. M = [N EXCEPT ![i] = q]
    BY <2>1, <1>1
  <2> QED BY <2>2, <2>3, <1>2, WriteIs
<1>4. M[i].status = "gone" /\ \A j \in Ids \ {i} : M[j] = N[j]
  BY <1>1, GoneIs DEF Table
<1>5. Active(M) = Active(N)
  BY <1>2, <1>4 DEF Active
<1>6. \A k \in Active(N) : M[k] = N[k]
  BY <1>2, <1>4 DEF Active
<1>7. \A k \in Active(N) \ {Root} : IsFolder(M, N[k].parent)
  BY <1>5, <1>6 DEF Hung, IsFolder
<1>8. Hung(M)
  BY <1>3, <1>5, <1>6, <1>7, SameHangs
<1> QED BY <1>1, <1>3, <1>8

\* updateFolderSize: sizes only.
LEMMA SizedHangs ==
    ASSUME NEW N, NEW c \in 1..MaxNodes, Table(N, c), Hung(N)
    PROVE  Table(Sized(N), c) /\ Hung(Sized(N))
<1> DEFINE sizes(j) == N[j].type = "folder" /\ SizedFiles(N, j) # {}
           M == Sized(N)
<1>1. M = [j \in Ids |-> IF sizes(j)
                         THEN [N[j] EXCEPT !.size = Cardinality(SizedFiles(N, j))]
                         ELSE N[j]]
  BY DEF Sized
<1>2. \A j : sizes(j) => N[j].type = "folder"
  OBVIOUS
<1>3. \A j \in Ids : Cardinality(SizedFiles(N, j)) \in Nat
  <2>1. SUFFICES ASSUME NEW j \in Ids PROVE Cardinality(SizedFiles(N, j)) \in Nat
    OBVIOUS
  <2>2. {j} \in SUBSET Ids
    OBVIOUS
  <2>3. SizedFiles(N, j) \subseteq 1..MaxNodes
    BY <2>2, BelowIs DEF SizedFiles, FilesBelow, Ids
  <2>4. IsFiniteSet(1..MaxNodes)
    BY SomeIds, FS_Interval
  <2> QED BY <2>3, <2>4, FS_Subset, FS_CardinalityType
<1> HIDE DEF sizes, M
<1>4. ASSUME NEW j \in Ids
      PROVE  /\ M[j] \in Rec
             /\ M[j].status = N[j].status /\ M[j].type = N[j].type
             /\ M[j].parent = N[j].parent
             /\ M[j].type = "file" => M[j].size = 1
  <2>1. PICK r \in Rec : r = N[j]
    BY DEF Table
  <2>2. CASE sizes(j)
    <3>1. PICK n \in Nat : n = Cardinality(SizedFiles(N, j))
      BY <1>3
    <3>2. PICK q \in Rec : q = [r EXCEPT !.size = n]
      BY DEF Rec
    <3>3. q.status = r.status /\ q.type = r.type /\ q.parent = r.parent
      BY <3>2 DEF Rec
    <3>4. M[j] = q
      BY <1>1, <2>1, <2>2, <3>1, <3>2
    <3>5. r.type = "folder"
      BY <1>2, <2>1, <2>2
    <3> QED BY <2>1, <3>3, <3>4, <3>5
  <2>3. CASE ~sizes(j)
    <3>1. M[j] = r
      BY <1>1, <2>1, <2>3
    <3> QED BY <3>1, <2>1 DEF Table
  <2> QED BY <2>2, <2>3
<1>5. SameKinds(N, M)
  BY <1>4 DEF SameKinds
<1>6. Active(M) = Active(N) /\ \A j : IsFolder(M, j) <=> IsFolder(N, j)
  BY <1>5, KindsKept
<1>7. M \in [Ids -> Rec]
  <2>1. M = [j \in Ids |-> M[j]]
    BY <1>1
  <2> QED BY <2>1, <1>4
<1>8. \A j \in Ids : /\ M[j].type = "none" <=> M[j].status = "gone"
                     /\ M[j].type = "folder" => M[j].status = "active"
                     /\ M[j].parent <= c
                     /\ j > c => M[j].status = "gone"
  BY <1>4 DEF Table
<1>9. M[Root].parent = 0
  BY <1>4, SomeIds DEF Table
<1>10. Table(M, c)
  BY <1>4, <1>6, <1>7, <1>8, <1>9 DEF Table
<1>11. \A k \in Active(N) : M[k].parent = N[k].parent
  BY <1>4 DEF Active
<1>12. \A k \in Active(N) \ {Root} : IsFolder(M, N[k].parent)
  BY <1>6 DEF Hung
<1>13. Hung(M)
  BY <1>6, <1>10, <1>11, <1>12, SameHangs
<1> QED BY <1>10, <1>13 DEF M

\* The tables that there are to begin with.
LEMMA TreeHangs ==
    ASSUME NEW t \in Trees, NEW N,
           N = [i \in Ids |-> IF i \in DOMAIN t THEN t[i] ELSE Gone]
    PROVE  \E n \in 1..MaxNodes :
              Cardinality(DOMAIN t) = n /\ Table(N, n) /\ Hung(N)
<1>1. PICK n \in 1..MaxNodes :
        /\ DOMAIN t = 1..n
        /\ t[Root] = Row("folder", "root", 0)
        /\ \A i \in 2..n :
              \E type \in {"folder", "file"}, name \in Names, p \in 1..(i - 1) :
                 t[i] = Row(type, name, p) /\ t[p].type = "folder"
  BY TreesAssumption
<1>2. Cardinality(DOMAIN t) = n
  <2>1. Cardinality(1..n) = n
    BY FS_Interval, SomeIds
  <2> QED BY <1>1, <2>1
<1>3. MaxNodes \in Nat /\ n \in Nat /\ 1 <= n /\ n <= MaxNodes
  BY SomeIds
<1>4. \A i \in 1..n : i \in Ids /\ N[i] = t[i]
  BY <1>1, <1>3 DEF Ids
<1>5. \A i \in Ids : i \notin 1..n => N[i] = Gone
  BY <1>1
<1>6. Root \in 1..n
  BY <1>3 DEF Root
<1>7. N[Root] \in Rec /\ N[Root].type = "folder" /\ N[Root].status = "active"
      /\ N[Root].parent = 0
  <2>1. "folder" \in {"folder", "file"} /\ 0 \in Nat
    OBVIOUS
  <2>2. "root" \in NodeNames
    BY DEF NodeNames
  <2>3. PICK q \in Rec : /\ q = Row("folder", "root", 0)
                         /\ q.type = "folder" /\ q.parent = 0 /\ q.status = "active"
                         /\ q.type = "file" => q.size = 1
    BY <2>1, <2>2, RowIs
  <2> QED BY <2>3, <1>1, <1>4, <1>6
<1>8. ASSUME NEW i \in 1..n, i # Root
      PROVE  /\ N[i] \in Rec /\ N[i].type \in {"folder", "file"}
             /\ N[i].status = "active" /\ (N[i].type = "file" => N[i].size = 1)
             /\ N[i].parent \in 1..(i - 1) /\ N[N[i].parent].type = "folder"
  <2>1. i \in 2..n
    BY <1>3, <1>8 DEF Root
  <2>2. PICK type \in {"folder", "file"}, name \in Names, p \in 1..(i - 1) :
           t[i] = Row(type, name, p) /\ t[p].type = "folder"
    BY <1>1, <2>1
  <2>3. name \in NodeNames
    BY DEF NodeNames
  <2>4. p \in Nat /\ p \in 1..n
    BY <2>1, <1>3
  <2>5. PICK q \in Rec : /\ q = Row(type, name, p)
                         /\ q.type = type /\ q.parent = p /\ q.status = "active"
                         /\ q.type = "file" => q.size = 1
    BY <2>3, <2>4, RowIs
  <2>6. N[i] = q
    BY <2>2, <2>5, <1>4
  <2>7. N[p].type = "folder"
    BY <2>2, <2>4, <1>4
  <2> QED BY <2>5, <2>6, <2>7
<1>9. ASSUME NEW i \in Ids
      PROVE  /\ N[i] \in Rec
             /\ N[i].type = "none" <=> N[i].status = "gone"
             /\ N[i].type = "folder" => N[i].status = "active"
             /\ N[i].type = "file" => N[i].size = 1
             /\ N[i].parent <= n
             /\ i > n => N[i].status = "gone"
  <2>0. i \in Nat \ {0}
    BY SomeIds
  <2>1. CASE i \notin 1..n
    <3>1. N[i] = Gone
      BY <2>1, <1>5
    <3> QED BY <3>1, <1>3, GoneIs
  <2>2. CASE i = Root
    <3>1. ~(i > n)
      BY <2>2, <1>6
    <3> QED BY <2>2, <3>1, <1>3, <1>7
  <2>3. CASE i \in 1..n /\ i # Root
    <3>1. /\ N[i] \in Rec /\ N[i].type \in {"folder", "file"}
          /\ N[i].status = "active" /\ (N[i].type = "file" => N[i].size = 1)
      BY <2>3, <1>8
    <3>2. N[i].parent \in 1..(i - 1)
      BY <2>3, <1>8
    <3>3. N[i].parent <= n /\ ~(i > n)
      BY <2>3, <3>2, <1>3
    <3> QED BY <3>1, <3>3
  <2> QED BY <2>1, <2>2, <2>3
<1>10. Table(N, n)
  <2>1. N = [i \in Ids |-> N[i]]
    OBVIOUS
  <2>2. N \in [Ids -> Rec]
    BY <2>1, <1>9
  <2>3. IsFolder(N, Root) /\ N[Root].parent = 0
    BY <1>4, <1>6, <1>7 DEF IsFolder, Active
  <2> QED BY <2>2, <2>3, <1>9 DEF Table
<1>11. Active(N) = 1..n
  <2>1. \A i \in 1..n : N[i].status = "active"
    BY <1>7, <1>8
  <2> QED BY <2>1, <1>4, <1>5, GoneIs DEF Active
<1>12. \A i \in Active(N) \ {Root} : IsFolder(N, N[i].parent)
  <2>1. SUFFICES ASSUME NEW i \in 1..n, i # Root PROVE IsFolder(N, N[i].parent)
    BY <1>11
  <2>2. N[i].parent \in 1..(i - 1) /\ N[N[i].parent].type = "folder"
    BY <2>1, <1>8
  <2>3. N[i].parent \in 1..n
    BY <2>2, <1>3
  <2> QED BY <2>2, <2>3, <1>11 DEF IsFolder
\* Every row is below the root, by the least one that is not.
<1>13. \A i \in 1..n : i \in Below(N, {Root})
  <2> DEFINE bad == {i \in 1..n : i \notin Below(N, {Root})}
  <2>1. SUFFICES ASSUME bad # {} PROVE FALSE
    OBVIOUS
  <2>2. bad \in SUBSET Nat
    BY <1>3
  <2>3. PICK i \in bad : \A j \in bad : i <= j
    <3> HIDE DEF bad
    <3> QED BY <2>1, <2>2, LeastNatural
  <2>4. i \in 1..n /\ i \notin Below(N, {Root})
    BY <2>3
  <2>5. {Root} \in SUBSET Ids
    BY SomeIds
  <2>6. i # Root
    BY <2>4, <2>5, <1>7, BelowIs
  <2>7. PICK p \in 1..(i - 1) : p = N[i].parent
    BY <2>4, <2>6, <1>8
  <2>8. p \in 1..n /\ ~(i <= p)
    BY <2>4, <1>3
  <2>9. p \in Below(N, {Root})
    <3>1. p \notin bad
      <4> HIDE DEF bad
      <4> QED BY <2>3, <2>8
    <3> QED BY <3>1, <2>8
  <2>10. i \in Ids /\ N[i].status # "gone"
    BY <2>4, <2>6, <1>4, <1>8
  <2> QED BY <2>4, <2>5, <2>7, <2>9, <2>10, BelowIs
<1>14. Hung(N)
  BY <1>11, <1>12, <1>13 DEF Hung
<1> QED BY <1>2, <1>10, <1>14

----------------------------------------------------------------------------
(* The invariant is inductive.                                             *)

LEMMA TreeInit == Init => TreeInv
<1>1. SUFFICES ASSUME Init PROVE TreeInv
  OBVIOUS
<1>2. PICK t \in Trees :
        /\ nodes = [i \in Ids |-> IF i \in DOMAIN t THEN t[i] ELSE Gone]
        /\ created = Cardinality(DOMAIN t)
  BY <1>1 DEF Init
<1>3. \E n \in 1..MaxNodes :
         Cardinality(DOMAIN t) = n /\ Table(nodes, n) /\ Hung(nodes)
  BY <1>2, TreeHangs
<1> QED BY <1>2, <1>3 DEF TreeInv

\* What a statement is to leave behind.
After(N, c, h) == c \in 1..MaxNodes /\ Table(N, c) /\ (h = {} => Hung(N))

LEMMA CreateStep ==
    ASSUME created \in 1..MaxNodes, Table(nodes, created), Hung(nodes), history = {},
           NEW type \in {"folder", "file"}, NEW name \in Names, NEW p \in 1..created,
           FilesCreate(type, name, p)
    PROVE  After(nodes', created', history')
<1> DEFINE same == {i \in Active(nodes) : nodes[i].name = name /\ nodes[i].parent = p}
<1>1. CASE /\ created < MaxNodes /\ created' = created + 1
           /\ nodes' = [nodes EXCEPT ![created + 1] = Row(type, name, p)]
           /\ history' = history \cup Placed(nodes, created + 1, p)
  <2>1. Table(nodes', created') /\ (IsFolder(nodes, p) => Hung(nodes'))
    BY <1>1, InsertHangs
  <2>2. history' = {} => IsFolder(nodes, p)
    BY <1>1 DEF Placed
  <2>3. created' \in 1..MaxNodes
    BY <1>1, SomeIds
  <2> QED BY <2>1, <2>2, <2>3 DEF After
<1>2. CASE \E i \in same :
             /\ nodes' = [nodes EXCEPT ![i] = Row(type, name, p)]
             /\ history' = IF type = "file" /\ Kids(nodes, {i}) # {}
                           THEN history \cup {"overwritten"} ELSE history
             /\ UNCHANGED created
  <2>1. PICK i \in same :
             /\ nodes' = [nodes EXCEPT ![i] = Row(type, name, p)]
             /\ history' = IF type = "file" /\ Kids(nodes, {i}) # {}
                           THEN history \cup {"overwritten"} ELSE history
             /\ UNCHANGED created
    BY <1>2
  <2>2. i \in Active(nodes) /\ nodes[i].parent = p
    OBVIOUS
  <2>3. /\ Table(nodes', created)
        /\ (type = "file" => Kids(nodes, {i}) = {}) => Hung(nodes')
    BY <2>1, <2>2, OverwriteHangs
  <2>4. history' = {} => (type = "file" => Kids(nodes, {i}) = {})
    BY <2>1
  <2> QED BY <2>1, <2>3, <2>4 DEF After
<1> QED BY <1>1, <1>2 DEF FilesCreate

LEMMA MkdirStep ==
    ASSUME created \in 1..MaxNodes, Table(nodes, created), Hung(nodes), history = {},
           NEW p \in Ids, NEW name \in Names, FilesMkdir(p, name)
    PROVE  After(nodes', created', history')
<1>1. p \in 1..created
  <2>1. {Root} \in SUBSET Ids /\ p \in Below(nodes, {Root})
    BY SomeIds DEF FilesMkdir
  <2>2. nodes[p].status # "gone"
    BY <2>1, BelowUnrolls
  <2> QED BY <2>2, TableFacts
<1>2. /\ created < MaxNodes /\ created' = created + 1
      /\ nodes' = [nodes EXCEPT ![created + 1] = Row("folder", name, p)]
  BY DEF FilesMkdir
<1>3. PICK type \in {"folder", "file"} : type = "folder"
  OBVIOUS
<1>4. Table(nodes', created') /\ (IsFolder(nodes, p) => Hung(nodes'))
  BY <1>1, <1>2, <1>3, InsertHangs
<1>5. history' = {} => IsFolder(nodes, p)
  BY DEF FilesMkdir
<1>6. created' \in 1..MaxNodes
  BY <1>2, SomeIds
<1> QED BY <1>4, <1>5, <1>6 DEF After

LEMMA MoveStep ==
    ASSUME created \in 1..MaxNodes, Table(nodes, created), Hung(nodes), history = {},
           NEW src \in Ids, NEW p \in 1..created, NEW name \in Names,
           FilesMoveNamed(src, p, name)
    PROVE  After(nodes', created', history')
<1>1. src # Root /\ created' = created /\ name \in NodeNames
  BY DEF FilesMoveNamed, NodeNames
<1>2. history' = {} => (nodes'[src].status # "gone" => Placed(nodes', src, p) = {})
  BY DEF FilesMoveNamed
<1>3. CASE nodes' = Moved(nodes, src, p, name)
  <2>1. Table(nodes', created)
    BY <1>1, <1>3, MovedIs
  <2>2. history' = {} => Hung(nodes')
    BY <1>1, <1>2, <1>3, MoveHangs
  <2> QED BY <1>1, <2>1, <2>2 DEF After
<1>4. CASE \E e \in Existing(nodes, p, name) : nodes' = Replaced(nodes, src, e, p, name)
  <2>1. PICK e \in Existing(nodes, p, name) : nodes' = Replaced(nodes, src, e, p, name)
    BY <1>4
  <2>2. e \in Ids /\ nodes[e].status # "gone" /\ nodes[e].parent = p
    BY DEF Existing, Active
  <2>3. e # Root
    BY <2>2 DEF Table
  <2>4. Table(nodes', created)
    BY <1>1, <2>1, <2>2, <2>3, ReplacedIs
  <2>5. history' = {} => Hung(nodes')
    BY <1>1, <1>2, <2>1, <2>2, <2>3, ReplaceHangs
  <2> QED BY <1>1, <2>4, <2>5 DEF After
<1> QED BY <1>3, <1>4 DEF FilesMoveNamed

LEMMA BulkStep ==
    ASSUME created \in 1..MaxNodes, Table(nodes, created), Hung(nodes), history = {},
           NEW ids \in SUBSET Ids, NEW p \in 1..created, FilesMoveBulk(ids, p)
    PROVE  After(nodes', created', history')
<1>1. /\ Root \notin ids /\ created' = created
      /\ nodes' = BulkMoved(nodes, ids, p)
  BY DEF FilesMoveBulk, BulkMoved
<1>2. Table(nodes', created)
  BY <1>1, BulkIs
<1>3. history' = {} => \A i \in ids : Placed(nodes', i, p) = {}
  BY DEF FilesMoveBulk
<1>4. history' = {} => Hung(nodes')
  BY <1>1, <1>3, BulkHangs
<1> QED BY <1>1, <1>2, <1>4 DEF After

LEMMA UpdateStep ==
    ASSUME created \in 1..MaxNodes, Table(nodes, created), Hung(nodes), history = {},
           NEW i \in Ids, NEW p \in 1..created, NEW name \in Names,
           FilesUpdate(i, p, name)
    PROVE  After(nodes', created', history')
<1>1. /\ i # Root /\ created' = created /\ nodes' = Moved(nodes, i, p, name)
      /\ name \in NodeNames
  BY DEF FilesUpdate, NodeNames
<1>2. Table(nodes', created)
  BY <1>1, MovedIs
<1>3. history' = {} => Placed(nodes', i, p) = {}
  BY DEF FilesUpdate
<1>4. history' = {} => Hung(nodes')
  BY <1>1, <1>3, MoveHangs
<1> QED BY <1>1, <1>2, <1>4 DEF After

LEMMA TreeStep == TreeInv /\ [Next]_vars => TreeInv'
<1>1. SUFFICES ASSUME TreeInv, [Next]_vars PROVE After(nodes', created', history')
  BY DEF After, TreeInv
<1>2. CASE UNCHANGED vars
  BY <1>1, <1>2 DEF vars, After, TreeInv
<1>3. CASE Next
  <2>1. /\ created \in 1..MaxNodes /\ Table(nodes, created) /\ Hung(nodes)
        /\ history = {} /\ Operation
    BY <1>1, <1>3 DEF Next, TreeInv
  <2>2. ASSUME NEW type \in {"file", "folder"}, NEW name \in Names,
               NEW p \in 1..created, FilesCreate(type, name, p)
        PROVE  After(nodes', created', history')
    BY <2>1, <2>2, CreateStep
  <2>3. ASSUME NEW p \in Ids, NEW name \in Names, FilesMkdir(p, name)
        PROVE  After(nodes', created', history')
    BY <2>1, <2>3, MkdirStep
  <2>4. ASSUME NEW i \in Ids, FilesDelete(i)
        PROVE  After(nodes', created', history')
    <3>1. /\ i # Root /\ nodes[i].status # "gone" /\ created' = created
          /\ nodes' = DeleteFilesBulk(nodes, {i})
      BY <2>4 DEF FilesDelete
    <3> QED BY <2>1, <3>1, DeleteHangs DEF After
  <2>5. ASSUME NEW src \in Ids, NEW p \in 1..created, NEW name \in Names,
               FilesMoveNamed(src, p, name)
        PROVE  After(nodes', created', history')
    BY <2>1, <2>5, MoveStep
  <2>6. ASSUME NEW ids \in SUBSET Ids, NEW p \in 1..created, FilesMoveBulk(ids, p)
        PROVE  After(nodes', created', history')
    BY <2>1, <2>6, BulkStep
  <2>7. ASSUME NEW i \in Ids, NEW p \in 1..created, NEW name \in Names,
               FilesUpdate(i, p, name)
        PROVE  After(nodes', created', history')
    BY <2>1, <2>7, UpdateStep
  <2>8. ASSUME NEW i \in Ids, CleanFiles(i)
        PROVE  After(nodes', created', history')
    <3>1. /\ nodes[i].status = "pending_deletion" /\ created' = created
          /\ nodes' = [nodes EXCEPT ![i] = Gone]
      BY <2>8 DEF CleanFiles
    <3> QED BY <2>1, <3>1, CleanHangs DEF After
  <2>9. ASSUME UpdateFolderSize PROVE After(nodes', created', history')
    <3>1. nodes' = Sized(nodes) /\ created' = created
      BY <2>9 DEF UpdateFolderSize
    <3> QED BY <2>1, <3>1, SizedHangs DEF After
  <2> QED BY <2>1, <2>2, <2>3, <2>4, <2>5, <2>6, <2>7, <2>8, <2>9 DEF Operation
<1> QED BY <1>1, <1>2, <1>3

\* The table is well formed whatever the operations, and hangs together for as
\* long as no row was placed where the code does not look.
THEOREM TreeCorrect == Spec => []TreeInv
BY TreeInit, TreeStep, PTL DEF Spec

\* Moves, merges, deletions and purges leave no row that users can see outside
\* of the tree (FilesMove, deleteFilesBulk, reparenting, cleanFiles).
THEOREM RowsStayAttached == Spec => []Attached
<1>1. TreeInv => Attached
  BY DEF TreeInv, Hung, Attached
<1> QED BY <1>1, TreeCorrect, PTL

----------------------------------------------------------------------------
(* What a move loses.                                                      *)

\* Nothing that hangs in the tree is beneath itself.
LEMMA NoCycle ==
    ASSUME NEW N, NEW c \in 1..MaxNodes, Table(N, c), Hung(N), NEW e \in Active(N)
    PROVE  e \notin Below(N, Kids(N, {e}))
<1> DEFINE P == {j \in Ids : j \notin Below(N, Kids(N, {j}))}
<1>0. /\ {Root} \in SUBSET Ids /\ 0 \notin Ids /\ N[Root].parent = 0
      /\ \A S : Kids(N, S) \in SUBSET Ids
  BY SomeIds, TableFacts, KidsAre
<1>1. \A j \in {Root} : N[j].status # "gone" => j \in P
  <2>1. SUFFICES ASSUME Root \in Below(N, Kids(N, {Root})) PROVE FALSE
    BY <1>0
  <2>2. Root \in Kids(N, {Root}) \/ 0 \in Below(N, Kids(N, {Root}))
    BY <1>0, <2>1, BelowUnrolls
  <2>3. 0 = Root
    BY <1>0, <2>2, BelowIs, KidsAre
  <2> QED BY <2>3, <1>0
<1>2. \A j \in Ids : N[j].status # "gone" /\ N[j].parent \in P => j \in P
  <2>1. SUFFICES ASSUME NEW j \in Ids, N[j].status # "gone",
                        j \in Below(N, Kids(N, {j}))
                 PROVE  N[j].parent \notin P
    OBVIOUS
  <2>2. PICK q : q = N[j].parent
    OBVIOUS
  <2>3. CASE j \in Kids(N, {j})
    <3>1. N[j].parent = j
      BY <2>3, KidsAre
    <3> QED BY <2>1, <3>1
  <2>4. CASE q \in Below(N, Kids(N, {j}))
    <3>1. j \in Below(N, Kids(N, {q}))
      <4>1. j \in Kids(N, {q})
        BY <2>1, <2>2, KidsAre
      <4> QED BY <4>1, <2>1, <1>0, BelowIs
    <3>2. Kids(N, {j}) \subseteq Below(N, Kids(N, {q}))
      <4>1. \A i \in Kids(N, {j}) : i \in Ids /\ N[i].status # "gone" /\ N[i].parent = j
        BY KidsAre
      <4> QED BY <4>1, <3>1, <1>0, BelowIs
    <3>3. Below(N, Kids(N, {j})) \subseteq Below(N, Kids(N, {q}))
      BY <3>2, <1>0, BelowTransitive
    <3> QED BY <2>2, <2>4, <3>3
  <2>5. j \in Kids(N, {j}) \/ q \in Below(N, Kids(N, {j}))
    BY <2>1, <2>2, <1>0, BelowUnrolls
  <2> QED BY <2>3, <2>4, <2>5
<1>3. Below(N, {Root}) \subseteq P
  <2> HIDE DEF P
  <2> QED BY <1>1, <1>2, BelowLeast
<1>4. e \in P
  <2>1. e \in Below(N, {Root})
    BY <1>0, BelowIs DEF Hung, Active
  <2> QED BY <2>1, <1>3
<1> QED BY <1>4

\* The children of e that do not move over to src.
Stay(N, src, e) ==
    {k \in Kids(N, {e}) :
        \/ k \notin Active(N)
        \/ N[k].name \in {N[i].name : i \in Kids(N, {src}) \cap Active(N)}}

\* Of two folders, e and its children that stay behind are beneath e when it
\* goes; or all that ever was, when src is beneath one of those.
LEMMA MergeLeaves ==
    ASSUME NEW N, NEW c \in 1..MaxNodes, Table(N, c), Hung(N),
           NEW src \in Ids, NEW e \in Active(N), src # e,
           N[src].type = "folder", N[e].type = "folder"
    PROVE  Below(Merged(N, src, e), {e})
             = IF src \notin Below(N, Stay(N, src, e))
               THEN {e} \cup Below(N, Stay(N, src, e)) ELSE Below(N, {e})
<1>1. PICK M : M = Merged(N, src, e)
  OBVIOUS
<1>2. PICK S : S = Stay(N, src, e)
  OBVIOUS
<1>3. PICK mv : mv = Kids(N, {e}) \ S
  OBVIOUS
<1>4. S \subseteq Kids(N, {e}) /\ S \in SUBSET Ids
  BY <1>2, KidsAre DEF Stay
<1>5. \A j \in Ids : /\ j \in mv => N[j].parent = e /\ M[j].parent = src
                     /\ j \notin mv => M[j] = N[j]
  <2> DEFINE taken == {N[i].name : i \in Kids(N, {src}) \cap Active(N)}
  <2>1. M = [j \in Ids |-> IF j \in Kids(N, {e}) \cap Active(N) /\ N[j].name \notin taken
                           THEN [N[j] EXCEPT !.parent = src] ELSE N[j]]
    BY <1>1 DEF Merged, Reparented
  <2>2. \A j : j \in mv <=> j \in Kids(N, {e}) /\ j \in Active(N) /\ N[j].name \notin taken
    BY <1>2, <1>3 DEF Stay
  <2> HIDE DEF taken
  <2>3. ASSUME NEW j \in Ids, j \in mv PROVE N[j].parent = e /\ M[j].parent = src
    <3>1. PICK r \in Rec : r = N[j]
      BY DEF Table
    <3>2. M[j] = [r EXCEPT !.parent = src]
      BY <2>1, <2>2, <2>3, <3>1
    <3>3. [r EXCEPT !.parent = src].parent = src
      BY DEF Rec
    <3>4. N[j].parent = e
      BY <2>2, <2>3, KidsAre
    <3> QED BY <3>2, <3>3, <3>4
  <2>4. ASSUME NEW j \in Ids, j \notin mv PROVE M[j] = N[j]
    BY <2>1, <2>2, <2>4
  <2> QED BY <2>3, <2>4
<1>6. \A j \in Ids : M[j].status = N[j].status
  <2>1. e \in Ids
    BY DEF Active
  <2>2. SameKinds(N, M)
    BY <1>1, <2>1, MergedIs
  <2> QED BY <2>2 DEF SameKinds
<1>7. {e} \in SUBSET Ids /\ e \in Ids /\ N[e].status # "gone"
  BY DEF Active
<1>8. PICK R : R = Below(M, {e})
  OBVIOUS
<1>9. /\ e \in R
      /\ \A j \in Ids : N[j].status # "gone" /\ M[j].parent \in R => j \in R
  BY <1>6, <1>7, <1>8, BelowIs
<1>10. PICK B : B = Below(N, S)
  OBVIOUS
<1>11. /\ \A j \in S : j \in B
       /\ \A j \in Ids : N[j].status # "gone" /\ N[j].parent \in B => j \in B
  <2>1. \A j \in S : N[j].status # "gone"
    BY <1>4, KidsAre
  <2> QED BY <2>1, <1>4, <1>10, BelowIs
<1>12. B \subseteq R
  <2>1. e \notin B
    <3>1. e \notin Below(N, Kids(N, {e}))
      BY NoCycle
    <3>2. Kids(N, {e}) \in SUBSET Ids
      BY KidsAre
    <3>3. S \subseteq Below(N, Kids(N, {e}))
      BY <1>4, <3>2, KidsAre, BelowIs
    <3>4. B \subseteq Below(N, Kids(N, {e}))
      BY <1>4, <1>10, <3>2, <3>3, BelowTransitive
    <3> QED BY <3>1, <3>4
  <2> DEFINE P == {j \in B : j \in R}
  <2>2. \A j \in S : N[j].status # "gone" => j \in P
    <3>1. SUFFICES ASSUME NEW j \in S, N[j].status # "gone" PROVE j \in R
      BY <1>11
    <3>2. j \in Ids /\ N[j].parent = e /\ j \notin mv
      BY <3>1, <1>3, <1>4, KidsAre
    <3> QED BY <3>1, <3>2, <1>5, <1>9
  <2>3. \A j \in Ids : N[j].status # "gone" /\ N[j].parent \in P => j \in P
    <3>1. SUFFICES ASSUME NEW j \in Ids, N[j].status # "gone",
                          N[j].parent \in B, N[j].parent \in R
                   PROVE  j \in R
      BY <1>11
    <3>2. j \notin mv
      BY <3>1, <2>1, <1>5
    <3> QED BY <3>1, <3>2, <1>5, <1>9
  <2>4. Below(N, S) \subseteq P
    <3> HIDE DEF P
    <3> QED BY <2>2, <2>3, BelowLeast
  <2> QED BY <2>4, <1>10
<1>13. CASE src \notin B
  <2>1. PICK P : P = {e} \cup B
    OBVIOUS
  <2>2. \A j \in {e} : M[j].status # "gone" => j \in P
    BY <2>1
  <2>3. \A j \in Ids : M[j].status # "gone" /\ M[j].parent \in P => j \in P
    <3>1. SUFFICES ASSUME NEW j \in Ids, N[j].status # "gone", M[j].parent \in P
                   PROVE  j \in P
      BY <1>6
    <3>2. j \notin mv
      BY <3>1, <2>1, <1>5, <1>13
    <3>3. N[j].parent \in P
      BY <3>1, <3>2, <1>5
    <3>4. CASE N[j].parent = e
      <4>1. j \in Kids(N, {e})
        BY <3>1, <3>4, KidsAre
      <4> QED BY <4>1, <3>2, <1>3, <1>11, <2>1
    <3>5. CASE N[j].parent \in B
      BY <3>1, <3>5, <1>11, <2>1
    <3> QED BY <3>3, <3>4, <3>5, <2>1
  <2>4. R \subseteq P
    BY <2>2, <2>3, <1>8, BelowLeast
  <2>5. R = {e} \cup B
    BY <2>1, <2>4, <1>9, <1>12
  <2> QED BY <2>5, <1>1, <1>2, <1>8, <1>10, <1>13
<1>14. CASE src \in B
  <2>1. PICK P : P = Below(N, {e})
    OBVIOUS
  <2>2. /\ e \in P
        /\ \A j \in Ids : N[j].status # "gone" /\ N[j].parent \in P => j \in P
    BY <2>1, <1>7, BelowIs
  <2>3. R \subseteq P
    <3>1. \A j \in {e} : M[j].status # "gone" => j \in P
      BY <2>2
    <3>2. \A j \in Ids : M[j].status # "gone" /\ M[j].parent \in P => j \in P
      BY <2>2, <1>5, <1>6
    <3> QED BY <3>1, <3>2, <1>8, BelowLeast
  <2>4. P \subseteq R
    <3>1. \A j \in {e} : N[j].status # "gone" => j \in R
      BY <1>9
    <3>2. src \in R
      BY <1>12, <1>14
    <3>3. \A j \in Ids : N[j].status # "gone" /\ N[j].parent \in R => j \in R
      BY <3>2, <1>5, <1>9
    <3> QED BY <3>1, <3>3, <2>1, BelowLeast
  <2> QED BY <2>1, <2>3, <2>4, <1>1, <1>2, <1>8, <1>10, <1>14
<1> QED BY <1>13, <1>14

\* What is moved onto itself merges with nothing.
LEMMA MergeSelf ==
    ASSUME NEW N, NEW c \in 1..MaxNodes, Table(N, c), NEW e \in Ids
    PROVE  Merged(N, e, e) = N
<1>1. CASE N[e].type # "folder"
  BY <1>1 DEF Merged
<1>2. CASE N[e].type = "folder"
  <2> DEFINE taken == {N[k].name : k \in Kids(N, {e}) \cap Active(N)}
  <2>1. Merged(N, e, e) =
          [j \in Ids |-> IF j \in Kids(N, {e}) \cap Active(N) /\ N[j].name \notin taken
                         THEN [N[j] EXCEPT !.parent = e] ELSE N[j]]
    BY <1>2 DEF Merged, Reparented
  <2>2. \A j \in Kids(N, {e}) \cap Active(N) : N[j].name \in taken
    OBVIOUS
  <2> HIDE DEF taken
  <2>3. Merged(N, e, e) = [j \in Ids |-> N[j]]
    BY <2>1, <2>2
  <2>4. N = [j \in Ids |-> N[j]]
    BY DEF Table
  <2> QED BY <2>3, <2>4
<1> QED BY <1>1, <1>2

\* FilesMove loses what its destination shadows and nothing else.
THEOREM MovesLoseOnlyShadowed == Spec => []MoveLosesOnlyShadowed
<1>1. ASSUME created \in 1..MaxNodes, Table(nodes, created), Hung(nodes),
             NEW src \in Active(nodes) \ {Root}, NEW e \in Active(nodes) \ {Root}
      PROVE  Active(nodes) \ Active(Replaced(nodes, src, e, nodes[e].parent,
                                             nodes[e].name))
             = Active(nodes) \cap Doomed(src, e)
  <2>1. src \in Ids /\ e \in Ids /\ nodes[e].status # "gone"
    BY DEF Active
  <2>2. nodes[e].name \in NodeNames
    <3>1. nodes[e] \in Rec
      BY <1>1, <2>1 DEF Table
    <3> QED BY <3>1 DEF Rec
  <2>3. nodes[e].parent \in 1..created
    <3>1. nodes[e].parent \in Ids /\ nodes[nodes[e].parent].status # "gone"
      BY <1>1 DEF Hung, IsFolder, Active
    <3> QED BY <3>1, <1>1, TableFacts
  <2>4. PICK t : t = Below(Merged(nodes, src, e), {e})
    OBVIOUS
  <2>5. Active(Replaced(nodes, src, e, nodes[e].parent, nodes[e].name))
          = Active(nodes) \ t
    BY <1>1, <2>1, <2>2, <2>3, <2>4, ReplacedIs
  <2>6. t = Doomed(src, e)
    <3>1. Doomed(src, e) =
            IF /\ src # e
               /\ nodes[src].type = "folder" /\ nodes[e].type = "folder"
               /\ src \notin Below(nodes, Stay(nodes, src, e))
            THEN {e} \cup Below(nodes, Stay(nodes, src, e))
            ELSE Below(nodes, {e})
      BY DEF Doomed, Stay
    <3>2. CASE src = e
      <4>1. t = Below(nodes, {e})
        BY <1>1, <2>1, <2>4, <3>2, MergeSelf
      <4> QED BY <4>1, <3>1, <3>2
    <3>3. CASE ~(nodes[src].type = "folder" /\ nodes[e].type = "folder")
      <4>1. t = Below(nodes, {e})
        BY <2>4, <3>3 DEF Merged
      <4> QED BY <4>1, <3>1, <3>3
    <3>4. CASE src # e /\ nodes[src].type = "folder" /\ nodes[e].type = "folder"
      <4>1. t = IF src \notin Below(nodes, Stay(nodes, src, e))
                THEN {e} \cup Below(nodes, Stay(nodes, src, e))
                ELSE Below(nodes, {e})
        BY <1>1, <2>1, <2>4, <3>4, MergeLeaves
      <4> QED BY <4>1, <3>1, <3>4
    <3> QED BY <3>2, <3>3, <3>4
  <2> QED BY <2>5, <2>6
<1>2. TreeInv => MoveLosesOnlyShadowed
  BY <1>1 DEF TreeInv, MoveLosesOnlyShadowed
<1> QED BY <1>2, TreeCorrect, PTL

----------------------------------------------------------------------------
(* Sums of sizes.                                                          *)

\* The rows of all the sets F[k].
Joined(F, s) == UNION {F[k] : k \in s}

\* They are sets of rows, and no two share one.
Apart(S, F) == /\ \A k \in S : F[k] \subseteq Ids
               /\ \A k, l \in S : k # l => F[k] \cap F[l] = {}

LEMMA JoinedAdds ==
    ASSUME NEW S, NEW F, Apart(S, F),
           NEW s \in SUBSET S, NEW x \in s
    PROVE  /\ Cardinality(Joined(F, s)) \in Nat
           /\ Cardinality(Joined(F, s))
                = Cardinality(F[x]) + Cardinality(Joined(F, s \ {x}))
<1>1. IsFiniteSet(Ids)
  BY SomeIds, FS_Interval DEF Ids
<1>2. /\ F[x] \subseteq Ids /\ Joined(F, s \ {x}) \subseteq Ids
      /\ Joined(F, s) = F[x] \cup Joined(F, s \ {x})
  BY DEF Joined, Apart
<1>3. F[x] \cap Joined(F, s \ {x}) = {}
  BY DEF Joined, Apart
<1>4. IsFiniteSet(F[x]) /\ IsFiniteSet(Joined(F, s \ {x}))
  BY <1>1, <1>2, FS_Subset
<1>5. Cardinality(Joined(F, s)) = Cardinality(F[x]) + Cardinality(Joined(F, s \ {x}))
                                    - Cardinality(F[x] \cap Joined(F, s \ {x}))
  BY <1>2, <1>4, FS_Union
<1>6. Cardinality(F[x] \cap Joined(F, s \ {x})) = 0
  BY <1>3, FS_EmptySet
<1>7. Cardinality(F[x]) \in Nat /\ Cardinality(Joined(F, s \ {x})) \in Nat
  BY <1>4, FS_CardinalityType
<1> QED BY <1>5, <1>6, <1>7

SumOfSizes(T, S) == MapThenSumSet(LAMBDA k : T[k].size, S)

\* The sum of the cardinalities of disjoint sets is that of their union.
LEMMA SizesSum ==
    ASSUME NEW S, IsFiniteSet(S), NEW F, Apart(S, F),
           NEW T, \A k \in S : T[k].size = Cardinality(F[k])
    PROVE  SumOfSizes(T, S) = Cardinality(Joined(F, S))
<1> DEFINE total(s) == Cardinality(Joined(F, s))
           first(s) == CHOOSE x \in s : TRUE
           step(f, s) == IF s = {} THEN 0
                         ELSE T[first(s)].size + f[s \ {first(s)}]
           iter == CHOOSE f : f = [s \in SUBSET S |-> step(f, s)]
<1>1. SumOfSizes(T, S) = iter[S]
  BY DEF SumOfSizes, MapThenSumSet, MapThenFoldSet
<1>2. total({}) = 0
  <2>1. Joined(F, {}) = {}
    BY DEF Joined
  <2> QED BY <2>1, FS_EmptySet
<1>3. \A s \in SUBSET S : s # {} => first(s) \in s
  OBVIOUS
<1>4. ASSUME NEW s \in SUBSET S, s # {}
      PROVE  total(s) = T[first(s)].size + total(s \ {first(s)})
  <2>1. PICK x \in s : x = first(s)
    BY <1>3, <1>4
  <2>2. total(s) = Cardinality(F[x]) + total(s \ {x})
    BY JoinedAdds
  <2>3. T[x].size = Cardinality(F[x])
    OBVIOUS
  <2> QED BY <2>1, <2>2, <2>3
<1> HIDE DEF total, first
<1>5. iter = [s \in SUBSET S |-> step(iter, s)]
  <2> DEFINE f == [s \in SUBSET S |-> total(s)]
  <2>1. \A s \in SUBSET S : f[s] = step(f, s)
    <3>1. SUFFICES ASSUME NEW s \in SUBSET S PROVE total(s) = step(f, s)
      OBVIOUS
    <3>2. CASE s = {}
      BY <3>2, <1>2
    <3>3. CASE s # {}
      <4>1. s \ {first(s)} \in SUBSET S
        OBVIOUS
      <4>2. f[s \ {first(s)}] = total(s \ {first(s)})
        BY <4>1
      <4> QED BY <3>3, <4>2, <1>4
    <3> QED BY <3>2, <3>3
  <2>2. f = [s \in SUBSET S |-> f[s]]
    OBVIOUS
  <2> HIDE DEF f
  <2>3. f = [s \in SUBSET S |-> step(f, s)]
    <3>1. [s \in SUBSET S |-> f[s]] = [s \in SUBSET S |-> step(f, s)]
      BY <2>1
    <3> QED BY <3>1, <2>2
  <2> QED BY <2>3
<1> HIDE DEF iter
<1>6. \A s \in SUBSET S : iter[s] = step(iter, s)
  BY <1>5
<1>7. \A s \in SUBSET S : iter[s] = total(s)
  <2> DEFINE bad == {n \in Nat : \E s \in SUBSET S :
                                    Cardinality(s) = n /\ iter[s] # total(s)}
  <2>1. SUFFICES ASSUME NEW s0 \in SUBSET S, iter[s0] # total(s0) PROVE FALSE
    OBVIOUS
  <2>2. Cardinality(s0) \in Nat
    <3>1. IsFiniteSet(s0)
      BY FS_Subset
    <3> QED BY <3>1, FS_CardinalityType
  <2>3. bad \in SUBSET Nat /\ bad # {}
    BY <2>1, <2>2
  <2>4. PICK n \in bad : \A m \in bad : n <= m
    <3> HIDE DEF bad
    <3> QED BY <2>3, LeastNatural
  <2>5. PICK s \in SUBSET S : Cardinality(s) = n /\ iter[s] # total(s)
    BY <2>4
  <2>6. s # {}
    BY <2>5, <1>2, <1>6
  <2>7. PICK x \in s : x = first(s)
    BY <2>6, <1>3
  <2>8. IsFiniteSet(s) /\ IsFiniteSet(s \ {x})
    BY FS_Subset
  <2>9. Cardinality(s \ {x}) = Cardinality(s) - 1
    BY <2>8, FS_RemoveElement
  <2>10. Cardinality(s \ {x}) \in Nat /\ Cardinality(s) \in Nat
    BY <2>8, FS_CardinalityType
  <2>11. Cardinality(s \ {x}) \notin bad
    <3>1. ~(n <= Cardinality(s \ {x}))
      BY <2>5, <2>9, <2>10
    <3> HIDE DEF bad
    <3> QED BY <2>4, <3>1
  <2>12. s \ {x} \in SUBSET S
    OBVIOUS
  <2>13. iter[s \ {x}] = total(s \ {x})
    BY <2>10, <2>11, <2>12
  <2>14. iter[s] = T[x].size + total(s \ {x})
    BY <2>6, <2>7, <2>13, <1>6
  <2>15. total(s) = T[x].size + total(s \ {x})
    BY <2>6, <2>7, <1>4
  <2> QED BY <2>5, <2>14, <2>15
<1> QED BY <1>1, <1>7 DEF total

\* Of two rows above a third, one is above the other.
LEMMA BelowBoth ==
    ASSUME NEW N, NEW a \in Ids, NEW b \in Ids,
           NEW f \in Below(N, {a}), f \in Below(N, {b})
    PROVE  a \in Below(N, {b}) \/ b \in Below(N, {a})
<1> DEFINE linked == a \in Below(N, {b}) \/ b \in Below(N, {a})
           P == {j \in Below(N, {a}) : j \in Below(N, {b}) => linked}
<1>1. {a} \in SUBSET Ids /\ {b} \in SUBSET Ids
  OBVIOUS
<1>2. \A j \in {a} : N[j].status # "gone" => j \in P
  <2>1. N[a].status # "gone" => a \in Below(N, {a})
    BY <1>1, BelowIs
  <2> QED BY <2>1
<1>3. \A j \in Ids : N[j].status # "gone" /\ N[j].parent \in P => j \in P
  <2>1. SUFFICES ASSUME NEW j \in Ids, N[j].status # "gone", N[j].parent \in P
                 PROVE  j \in P
    OBVIOUS
  <2>2. j \in Below(N, {a})
    BY <2>1, <1>1, BelowIs
  <2>3. j \in Below(N, {b}) => j = b \/ N[j].parent \in Below(N, {b})
    BY <1>1, BelowUnrolls
  <2> QED BY <2>1, <2>2, <2>3
<1>4. Below(N, {a}) \subseteq P
  <2> HIDE DEF P
  <2> QED BY <1>2, <1>3, BelowLeast
<1> QED BY <1>4

LEMMA FilesBelowAre ==
    ASSUME NEW N, NEW i, NEW f
    PROVE  f \in FilesBelow(N, i) <=>
              f \in Below(N, {i}) /\ f \in Active(N) /\ N[f].type = "file"
BY DEF FilesBelow

\* What users see in a folder is in one of the rows they see right there.
LEMMA FilesSplit ==
    ASSUME NEW N, NEW c \in 1..MaxNodes, Table(N, c), Hung(N), NEW i \in Ids,
           IsFolder(N, i), NEW S, S = Kids(N, {i}) \cap Active(N),
           NEW F, F = [k \in S |-> FilesBelow(N, k)]
    PROVE  /\ Joined(F, S) = FilesBelow(N, i)
           /\ Apart(S, F)
           /\ \A k \in S : N[k].type = "file" => F[k] = {k}
<1>1. \A k \in S : /\ k \in Ids /\ {k} \in SUBSET Ids /\ k \in Active(N)
                   /\ N[k].parent = i /\ N[k].status # "gone"
  BY KidsAre DEF Active
<1>2. {i} \in SUBSET Ids /\ i \in Active(N) /\ N[i].status # "gone"
      /\ N[i].type = "folder"
  BY DEF IsFolder, Active
<1>3. \A k \in S : k \in Below(N, {i}) /\ Below(N, {k}) \subseteq Below(N, {i})
  <2>1. i \in Below(N, {i})
    BY <1>2, BelowIs
  <2>2. \A k \in S : k \in Below(N, {i})
    BY <1>1, <1>2, <2>1, BelowIs
  <2>3. \A k \in S : {k} \subseteq Below(N, {i})
    BY <2>2
  <2> QED BY <1>1, <1>2, <2>2, <2>3, BelowTransitive
\* The parent of an active row other than the root is an active folder.
<1>4. \A j \in Active(N) : N[j].parent \in Ids =>
         N[j].parent \in Active(N) /\ N[N[j].parent].type = "folder"
  <2>1. 0 \notin Ids /\ N[Root].parent = 0
    BY SomeIds, TableFacts
  <2> QED BY <2>1 DEF Hung, IsFolder
<1>5. ASSUME NEW f \in FilesBelow(N, i) PROVE \E k \in S : f \in F[k]
  <2> DEFINE P == {j \in Ids : \/ j = i \/ j \notin Active(N)
                               \/ \E k \in S : j \in Below(N, {k})}
  <2>1. \A j \in {i} : N[j].status # "gone" => j \in P
    OBVIOUS
  <2>2. \A j \in Ids : N[j].status # "gone" /\ N[j].parent \in P => j \in P
    <3>1. SUFFICES ASSUME NEW j \in Active(N), j \in Ids, N[j].status # "gone",
                          N[j].parent \in P
                   PROVE  \E k \in S : j \in Below(N, {k})
      OBVIOUS
    <3>2. CASE N[j].parent = i
      <4>1. j \in S
        BY <3>1, <3>2, KidsAre
      <4> QED BY <4>1, <3>1, <1>1, BelowIs
    <3>3. CASE N[j].parent \notin Active(N)
      BY <3>1, <3>3, <1>4
    <3>4. CASE \E k \in S : N[j].parent \in Below(N, {k})
      BY <3>1, <3>4, <1>1, BelowIs
    <3> QED BY <3>1, <3>2, <3>3, <3>4
  <2>3. Below(N, {i}) \subseteq P
    <3> HIDE DEF P
    <3> QED BY <2>1, <2>2, BelowLeast
  <2>4. f \in Below(N, {i}) /\ f \in Active(N) /\ N[f].type = "file"
    BY FilesBelowAre
  <2>5. f # i
    BY <2>4, <1>2
  <2>6. PICK k \in S : f \in Below(N, {k})
    BY <2>3, <2>4, <2>5
  <2> QED BY <2>4, <2>6, FilesBelowAre
<1>6. ASSUME NEW k \in S, NEW f \in F[k]
      PROVE  f \in FilesBelow(N, i) /\ f \in Ids /\ f \in Below(N, {k})
  <2>1. f \in Below(N, {k}) /\ f \in Active(N) /\ N[f].type = "file"
    BY FilesBelowAre
  <2>2. f \in Below(N, {i}) /\ f \in Ids
    BY <2>1, <1>3 DEF Active
  <2> QED BY <2>1, <2>2, FilesBelowAre
<1>7. Joined(F, S) = FilesBelow(N, i)
  BY <1>5, <1>6 DEF Joined
<1>8. ASSUME NEW k \in S, NEW l \in S, k # l, NEW f, f \in F[k], f \in F[l]
      PROVE  FALSE
  <2>1. f \in Below(N, {k}) /\ f \in Below(N, {l})
    BY <1>6, <1>8
  <2>2. k \in Below(N, {l}) \/ l \in Below(N, {k})
    BY <2>1, <1>1, BelowBoth
  <2>3. ASSUME NEW a \in S, NEW b \in S, a # b, a \in Below(N, {b}) PROVE FALSE
    <3>1. i \in Below(N, {b})
      BY <2>3, <1>1, BelowUnrolls
    <3>2. b \in Kids(N, {i}) /\ Kids(N, {i}) \in SUBSET Ids
      BY KidsAre
    <3>3. {b} \subseteq Below(N, Kids(N, {i}))
      BY <3>2, <1>1, BelowIs
    <3>4. i \in Below(N, Kids(N, {i}))
      BY <3>1, <3>2, <3>3, <1>1, BelowTransitive
    <3> QED BY <3>4, <1>2, NoCycle
  <2> QED BY <2>2, <2>3, <1>8
<1>9. Apart(S, F)
  <2>1. \A k \in S : F[k] \subseteq Ids
    BY <1>6
  <2>2. \A k, l \in S : k # l => F[k] \cap F[l] = {}
    BY <1>8
  <2> QED BY <2>1, <2>2 DEF Apart
<1>10. ASSUME NEW k \in S, N[k].type = "file" PROVE F[k] = {k}
  <2> DEFINE P == {j \in Ids : j = k \/ j \notin Active(N)}
  <2>1. \A j \in {k} : N[j].status # "gone" => j \in P
    BY <1>1
  <2>2. \A j \in Ids : N[j].status # "gone" /\ N[j].parent \in P => j \in P
    BY <1>4, <1>10
  <2>3. Below(N, {k}) \subseteq P
    <3> HIDE DEF P
    <3> QED BY <2>1, <2>2, BelowLeast
  <2>4. F[k] \subseteq {k}
    <3>1. SUFFICES ASSUME NEW f \in F[k] PROVE f = k
      OBVIOUS
    <3>2. f \in Below(N, {k}) /\ f \in Active(N)
      BY FilesBelowAre
    <3> QED BY <3>2, <2>3
  <2>5. k \in F[k]
    <3>1. k \in Below(N, {k})
      BY <1>1, BelowIs
    <3>2. k \in FilesBelow(N, k)
      BY <3>1, <1>1, <1>10, FilesBelowAre
    <3> QED BY <3>2
  <2> QED BY <2>4, <2>5
<1> QED BY <1>7, <1>9, <1>10

\* What updateFolderSize writes for a folder is the sum of what it writes for
\* what users see right in there.
THEOREM SizesAreSums == Spec => []SizesAdd
<1>1. ASSUME created \in 1..MaxNodes, Table(nodes, created), Hung(nodes),
             NEW i \in Ids, IsFolder(nodes, i),
             \A j \in Below(nodes, {i}) :
                IsFolder(nodes, j) => FilesBelow(nodes, j) # {}
      PROVE  Sized(nodes)[i].size =
                MapThenSumSet(LAMBDA k : Sized(nodes)[k].size,
                              Kids(nodes, {i}) \cap Active(nodes))
  <2>1. PICK S : S = Kids(nodes, {i}) \cap Active(nodes)
    OBVIOUS
  <2>2. PICK F : F = [k \in S |-> FilesBelow(nodes, k)]
    OBVIOUS
  <2>3. /\ Joined(F, S) = FilesBelow(nodes, i) /\ Apart(S, F)
        /\ \A k \in S : nodes[k].type = "file" => F[k] = {k}
    BY <1>1, <2>1, <2>2, FilesSplit
  <2>4. PICK T : T = Sized(nodes)
    OBVIOUS
  <2>5. ASSUME NEW j \in Ids
        PROVE  /\ nodes[j].type = "folder" /\ FilesBelow(nodes, j) # {} =>
                     T[j].size = Cardinality(FilesBelow(nodes, j))
               /\ nodes[j].type = "file" => T[j].size = 1
    <3>1. PICK r \in Rec : r = nodes[j]
      BY <1>1 DEF Table
    <3>2. T[j] = IF r.type = "folder" /\ FilesBelow(nodes, j) # {}
                 THEN [r EXCEPT !.size = Cardinality(FilesBelow(nodes, j))] ELSE r
      BY <2>4, <3>1 DEF Sized, SizedFiles
    <3>3. \A n : [r EXCEPT !.size = n].size = n
      BY DEF Rec
    <3>4. r.type = "file" => r.size = 1
      BY <1>1, <3>1 DEF Table
    <3> QED BY <3>1, <3>2, <3>3, <3>4
  <2>6. i \in Below(nodes, {i}) /\ nodes[i].type = "folder"
    <3>1. {i} \in SUBSET Ids /\ nodes[i].status # "gone" /\ nodes[i].type = "folder"
      BY <1>1 DEF IsFolder, Active
    <3> QED BY <3>1, BelowIs
  <2>7. T[i].size = Cardinality(FilesBelow(nodes, i))
    BY <1>1, <2>5, <2>6
  <2>8. ASSUME NEW k \in S PROVE T[k].size = Cardinality(F[k])
    <3>1. /\ k \in Ids /\ k \in Active(nodes) /\ nodes[k].parent = i
          /\ nodes[k].status = "active"
      BY <2>1, KidsAre DEF Active
    <3>2. CASE nodes[k].type = "file"
      <4>1. F[k] = {k}
        BY <2>3, <3>2
      <4> QED BY <4>1, <3>1, <3>2, <2>5, FS_Singleton
    <3>3. CASE nodes[k].type = "folder"
      <4>1. {i} \in SUBSET Ids
        OBVIOUS
      <4>2. k \in Below(nodes, {i})
        BY <4>1, <3>1, <2>6, BelowIs
      <4>3. FilesBelow(nodes, k) # {}
        BY <1>1, <3>1, <3>3, <4>2 DEF IsFolder
      <4> QED BY <4>3, <3>1, <3>3, <2>2, <2>5
    <3>4. nodes[k].type \in {"file", "folder"}
      <4>1. PICK r \in Rec : r = nodes[k]
        BY <1>1, <3>1 DEF Table
      <4>2. r.type \in {"none", "folder", "file"}
        BY DEF Rec
      <4>3. r.type # "none"
        BY <1>1, <3>1, <4>1 DEF Table
      <4> QED BY <4>1, <4>2, <4>3
    <3> QED BY <3>2, <3>3, <3>4
  <2>9. IsFiniteSet(S)
    <3>1. IsFiniteSet(Ids)
      BY SomeIds, FS_Interval DEF Ids
    <3>2. S \subseteq Ids
      BY <2>1, KidsAre
    <3> QED BY <3>1, <3>2, FS_Subset
  <2>10. SumOfSizes(T, S) = Cardinality(Joined(F, S))
    <3>1. Apart(S, F) /\ \A k \in S : T[k].size = Cardinality(F[k])
      BY <2>3, <2>8
    <3> QED BY <3>1, <2>9, SizesSum
  <2>11. Sized(nodes)[i].size
           = SumOfSizes(Sized(nodes), Kids(nodes, {i}) \cap Active(nodes))
    BY <2>1, <2>3, <2>4, <2>7, <2>10
  <2> QED BY <2>11 DEF SumOfSizes
<1>2. TreeInv => SizesAdd
  BY <1>1 DEF TreeInv, SizesAdd
<1> QED BY <1>2, TreeCorrect, PTL
=============================================================================
