------------------------------ MODULE VfsProofs ------------------------------
(***************************************************************************)
(* The virtual file system, for any paths, sizes and numbers of inodes,    *)
(* descriptors and buffers: references are counted right (RefCountsMatch), *)
(* every buffer has one owner and covers its file (BuffersOwned), and what *)
(* was created is found (CreatedIsFound).                                  *)
(*                                                                         *)
(* A lookup walks a path of any length.  What it returns is shown by       *)
(* induction on the components it has passed, which rests on the least     *)
(* element of a set of numbers (LeastExists).                              *)
(***************************************************************************)
EXTENDS Vfs, FiniteSetTheorems, SequenceTheorems, TLAPS

LEMMA LeastExists ==
    ASSUME NEW S, S \subseteq Nat, S # {}
    PROVE  \E i \in S : \A j \in S : i <= j
  <1> DEFINE T == {0 .. n : n \in S}
             R == StrictSubsetOrdering(Nat)
             F == FiniteSubsetsOf(Nat)
  <1>1. IsWellFoundedOn(R, F)
    BY FS_StrictSubsetOrderingWellFounded
  <1>2. T \subseteq F
    <2>1. \A n \in Nat : IsFiniteSet(0 .. n) /\ (0 .. n) \subseteq Nat
      BY FS_Interval
    <2> QED
      BY <2>1 DEF FiniteSubsetsOf
  <1>3. T # {}
    OBVIOUS
  <1>4. PICK x \in T : \A y \in T : <<y, x>> \notin R
    <2> HIDE DEF T, R, F
    <2> QED
      BY <1>1, <1>2, <1>3, WFMin
  <1>5. PICK i \in S : x = 0 .. i
    BY <1>4
  <1>6. ASSUME NEW j \in S
        PROVE  i <= j
    <2> SUFFICES ASSUME j < i
                 PROVE  FALSE
      OBVIOUS
    <2>1. (0 .. j) \in T
      OBVIOUS
    <2>2. (0 .. j) \subseteq (0 .. i) /\ (0 .. j) # (0 .. i)
      OBVIOUS
    <2>3. (0 .. j) \in SUBSET Nat /\ (0 .. i) \in SUBSET Nat
      OBVIOUS
    <2>4. <<0 .. j, 0 .. i>> \in R
      BY <2>2, <2>3 DEF StrictSubsetOrdering
    <2> QED
      BY <1>4, <1>5, <2>1, <2>4
  <1> QED
    BY <1>6

\* A set of numbers with 0 and with the successor of each of its elements
\* has all numbers.
LEMMA Induction ==
    ASSUME NEW S, 0 \in S, \A n \in Nat : n \in S => n + 1 \in S
    PROVE  Nat \subseteq S
  <1> SUFFICES ASSUME Nat \ S # {}
               PROVE  FALSE
    OBVIOUS
  <1>1. PICK m \in Nat \ S : \A j \in Nat \ S : m <= j
    BY LeastExists
  <1>2. m - 1 \in Nat /\ (m - 1) + 1 = m /\ ~(m <= m - 1)
    BY <1>1
  <1> QED
    BY <1>1, <1>2

-----------------------------------------------------------------------------
(***************************************************************************)
(* Walking a path.                                                         *)
(***************************************************************************)
IsWalk(ino, path, n, f) ==
    f = [k \in 0 .. n |-> IF k = 0 THEN 1 ELSE walk(ino, f[k - 1], path[k])]

\* A path can be walked, one component after the other.
LEMMA WalkExists ==
    ASSUME NEW ino, NEW path
    PROVE  \A n \in Nat : \E f : IsWalk(ino, path, n, f)
  <1> DEFINE S == {n \in Nat : \E f : IsWalk(ino, path, n, f)}
             W(c, k) == walk(ino, c, path[k])
  <1>0. \A n, f : IsWalk(ino, path, n, f) <=>
                  f = [k \in 0 .. n |-> IF k = 0 THEN 1 ELSE W(f[k - 1], k)]
    BY DEF IsWalk
  <1> HIDE DEF W
  <1>1. 0 \in S
    <2> DEFINE f == [i \in 0 .. 0 |-> 1]
    <2>1. f = [i \in 0 .. 0 |-> IF i = 0 THEN 1 ELSE W(f[i - 1], i)]
      OBVIOUS
    <2> QED
      BY <1>0, <2>1
  <1>2. ASSUME NEW n \in Nat, n \in S
        PROVE  n + 1 \in S
    <2>1. PICK f : IsWalk(ino, path, n, f)
      BY <1>2
    <2> DEFINE g == [i \in 0 .. n + 1 |-> IF i <= n THEN f[i] ELSE W(f[n], n + 1)]
               h == [i \in 0 .. n + 1 |-> IF i = 0 THEN 1 ELSE W(g[i - 1], i)]
    <2>2. \A i \in 0 .. n : f[i] = IF i = 0 THEN 1 ELSE W(f[i - 1], i)
      BY <1>0, <2>1
    <2>3. ASSUME NEW i \in 0 .. n + 1
          PROVE  g[i] = h[i]
      <3>1. CASE i = 0
        BY <2>2, <3>1
      <3>2. CASE i \in 1 .. n
        <4>1. /\ i - 1 \in 0 .. n /\ i \in 0 .. n /\ i # 0 /\ i <= n /\ i - 1 <= n
              /\ i - 1 \in 0 .. n + 1
          BY <3>2
        <4>2. g[i] = f[i] /\ g[i - 1] = f[i - 1] /\ h[i] = W(g[i - 1], i)
          BY <4>1
        <4>3. f[i] = W(f[i - 1], i)
          BY <2>2, <4>1
        <4> QED
          BY <4>2, <4>3
      <3>3. CASE i = n + 1
        <4>1. i - 1 = n /\ ~(i <= n) /\ i # 0 /\ n \in 0 .. n + 1 /\ n <= n
          BY <3>3
        <4>2. g[i] = W(f[n], i) /\ g[n] = f[n] /\ h[i] = W(g[i - 1], i)
          BY <3>3, <4>1
        <4> QED
          BY <4>1, <4>2
      <3> QED
        BY <3>1, <3>2, <3>3
    <2>4. g = h
      <3>1. /\ g = [i \in 0 .. n + 1 |-> g[i]]
            /\ h = [i \in 0 .. n + 1 |-> h[i]]
        OBVIOUS
      <3> HIDE DEF g, h
      <3> QED
        BY <2>3, <3>1
    <2>5. IsWalk(ino, path, n + 1, g)
      BY <1>0, <2>4
    <2> QED
      BY <2>5
  <1>3. Nat \subseteq S
    <2> HIDE DEF S
    <2> QED
      BY <1>1, <1>2, Induction
  <1> QED
    BY <1>3

\* lookup_path returns where the walk of the whole path ends.
LEMMA LookupWalks ==
    ASSUME NEW ino, NEW path, Len(path) \in Nat
    PROVE  \E f : IsWalk(ino, path, Len(path), f) /\ lookup_path(ino, path) = f[Len(path)]
  <1> DEFINE cur == CHOOSE f : IsWalk(ino, path, Len(path), f)
  <1>1. lookup_path(ino, path) = cur[Len(path)]
    BY DEF lookup_path, IsWalk
  <1>2. IsWalk(ino, path, Len(path), cur)
    BY WalkExists
  <1> QED
    BY <1>1, <1>2

LEMMA WalkSteps ==
    ASSUME NEW ino, NEW path, NEW n \in Nat, NEW f, IsWalk(ino, path, n, f)
    PROVE  f[0] = 1 /\ \A k \in 1 .. n : f[k] = walk(ino, f[k - 1], path[k])
  <1> DEFINE W(c, k) == walk(ino, c, path[k])
  <1>1. f = [k \in 0 .. n |-> IF k = 0 THEN 1 ELSE W(f[k - 1], k)]
    BY DEF IsWalk
  <1> HIDE DEF W
  <1>2. f[0] = 1 /\ \A k \in 1 .. n : f[k] = W(f[k - 1], k)
    BY <1>1
  <1> QED
    BY <1>2 DEF W

\* Two walks over the same components pass the same inodes.
LEMMA WalksAgree ==
    ASSUME NEW ino, NEW path, NEW other, NEW m \in Nat, NEW n \in Nat, NEW f, NEW g,
           IsWalk(ino, path, m, f), IsWalk(ino, other, n, g),
           n <= m, \A k \in 1 .. n : path[k] = other[k]
    PROVE  \A k \in 0 .. n : f[k] = g[k]
  <1> DEFINE S == {k \in Nat : k <= n => f[k] = g[k]}
  <1>0. f[0] = 1 /\ \A k \in 1 .. m : f[k] = walk(ino, f[k - 1], path[k])
    BY WalkSteps
  <1>1. g[0] = 1 /\ \A k \in 1 .. n : g[k] = walk(ino, g[k - 1], other[k])
    BY WalkSteps
  <1>2. ASSUME NEW k \in Nat, k \in S
        PROVE  k + 1 \in S
    <2> SUFFICES ASSUME k + 1 <= n
                 PROVE  f[k + 1] = g[k + 1]
      OBVIOUS
    <2>1. /\ k + 1 \in 1 .. m /\ k + 1 \in 1 .. n /\ (k + 1) - 1 = k
      OBVIOUS
    <2>2. /\ f[k + 1] = walk(ino, f[(k + 1) - 1], path[k + 1])
          /\ g[k + 1] = walk(ino, g[(k + 1) - 1], other[k + 1])
      BY <1>0, <1>1, <2>1
    <2>3. f[k] = g[k]
      BY <1>2
    <2> QED
      BY <2>1, <2>2, <2>3
  <1>3. Nat \subseteq S
    <2>1. 0 \in S
      BY <1>0, <1>1
    <2> HIDE DEF S
    <2> QED
      BY <1>2, <2>1, Induction
  <1> QED
    BY <1>3

LEMMA PathIs ==
    ASSUME NEW path \in Paths
    PROVE  /\ path \in Seq(Name \cup Special) /\ Len(path) \in Nat \ {0}
           /\ Front(path) \in Seq(Name \cup Special) /\ Len(Front(path)) = Len(path) - 1
           /\ \A k \in 1 .. Len(path) - 1 : Front(path)[k] = path[k]
           /\ Last(path) = path[Len(path)] /\ Last(path) \in Name \cup Special
           /\ DOMAIN path = 1 .. Len(path)
  <1>1. path \in Seq(Name \cup Special) /\ path # << >>
    BY VfsAssumption
  <1>2. Len(path) \in Nat \ {0} /\ DOMAIN path = 1 .. Len(path)
    BY <1>1, EmptySeq, LenProperties
  <1>3. \A k \in 1 .. Len(path) : path[k] \in Name \cup Special
    BY <1>1, ElementOfSeq
  <1> DEFINE n == Len(path)
  <1>4. 1 \in Int /\ n - 1 \in Int /\ n \in 1 .. n /\ \A k \in 1 .. n - 1 : k \in 1 .. n
    BY <1>2
  <1>5. \A k \in 1 .. n - 1 : path[k] \in Name \cup Special
    BY <1>3, <1>4
  <1> HIDE DEF n
  <1>6. /\ SubSeq(path, 1, n - 1) \in Seq(Name \cup Special)
        /\ Len(SubSeq(path, 1, n - 1)) = IF 1 <= n - 1 THEN (n - 1) - 1 + 1 ELSE 0
        /\ \A i \in 1 .. (n - 1) - 1 + 1 : SubSeq(path, 1, n - 1)[i] = path[1 + i - 1]
    BY <1>4, <1>5, SubSeqProperties
  <1>7. n \in Nat \ {0}
    BY <1>2 DEF n
  <1>8. (n - 1) - 1 + 1 = n - 1 /\ (~(1 <= n - 1) => n - 1 = 0) /\ \A i \in 1 .. n - 1 : 1 + i - 1 = i
    BY <1>7
  <1> QED
    BY <1>1, <1>2, <1>3, <1>4, <1>6, <1>8 DEF Front, Last, n

\* The last component is looked up from where the others lead.
LEMMA LookupLast ==
    ASSUME NEW ino, NEW path \in Paths
    PROVE  lookup_path(ino, path) = walk(ino, lookup_path(ino, Front(path)), Last(path))
  <1> DEFINE n == Len(path)
             q == Front(path)
  <1>1. /\ n \in Nat \ {0} /\ Len(q) = n - 1 /\ n - 1 \in Nat
        /\ (\A k \in 1 .. n - 1 : q[k] = path[k]) /\ Last(path) = path[n]
    BY PathIs
  <1>2. PICK f : IsWalk(ino, path, n, f) /\ lookup_path(ino, path) = f[n]
    BY <1>1, LookupWalks
  <1>3. PICK g : IsWalk(ino, q, Len(q), g) /\ lookup_path(ino, q) = g[Len(q)]
    BY <1>1, LookupWalks
  <1> HIDE DEF n, q
  <1>4. IsWalk(ino, q, n - 1, g) /\ lookup_path(ino, q) = g[n - 1]
    BY <1>1, <1>3
  <1>5. n - 1 <= n /\ n - 1 <= n - 1 /\ n - 1 \in 0 .. n - 1 /\ n \in 1 .. n /\ n \in Nat
    BY <1>1
  <1>6. \A k \in 1 .. n - 1 : path[k] = q[k]
    BY <1>1
  <1>7. \A k \in 0 .. n - 1 : f[k] = g[k]
    <2> DEFINE m == n - 1
    <2>1. m \in Nat /\ m <= n /\ n \in Nat /\ \A k \in 1 .. m : path[k] = q[k]
      BY <1>1, <1>5, <1>6
    <2>2. IsWalk(ino, path, n, f) /\ IsWalk(ino, q, m, g)
      BY <1>2, <1>4 DEF n
    <2> HIDE DEF m
    <2>3. \A k \in 0 .. m : f[k] = g[k]
      BY <2>1, <2>2, WalksAgree
    <2> QED
      BY <2>3 DEF m
  <1>8. f[n] = walk(ino, f[n - 1], path[n])
    BY <1>2, <1>5, WalkSteps
  <1> QED
    BY <1>1, <1>2, <1>4, <1>5, <1>7, <1>8 DEF n, q

-----------------------------------------------------------------------------
(***************************************************************************)
(* The table of inodes.  Children have larger numbers than their parent:   *)
(* it was there when they were made.                                       *)
(***************************************************************************)
Record(n) ==
    [type: {"FILE", "DIR"}, name: Name \cup Special, size: Nat, fs_data: Buf \cup {NULL},
     ref_count: Nat, parent: 0 .. n, children: Seq(1 .. n)]

Growing(ino) ==
    \A x \in 1 .. Len(ino) : \A k \in 1 .. Len(ino[x].children) : ino[x].children[k] > x

TableOK(ino) ==
    /\ Len(ino) \in Nat \ {0}
    /\ ino \in [1 .. Len(ino) -> Record(Len(ino))]
    /\ Growing(ino)

\* The children of x that have a name.
Named(ino, x, comp) == {i \in 1 .. Len(ino[x].children) : ino[ino[x].children[i]].name = comp}

LEMMA LeastIsMin ==
    ASSUME NEW S, S \subseteq Nat, S # {}
    PROVE  Min(S) \in S /\ \A j \in S : Min(S) <= j
  <1>1. \E i \in S : \A j \in S : i <= j
    BY LeastExists
  <1> QED
    BY <1>1 DEF Min

Index(I) == IF I # {} THEN Min(I) ELSE 0

LEMMA WalkPicks ==
    ASSUME NEW ino, NEW x, x # NULL, NEW comp, comp \notin Special
    PROVE  walk(ino, x, comp) = IF Index(Named(ino, x, comp)) = 0 THEN NULL
                                ELSE ino[x].children[Index(Named(ino, x, comp))]
  BY DEF walk, SelectInSeq, Named, Special, Index

\* A proper name leads to the first child of that name.
LEMMA WalkIs ==
    ASSUME NEW ino, NEW x, x # NULL, NEW comp, comp \notin Special, Len(ino[x].children) \in Nat
    PROVE  /\ Named(ino, x, comp) = {} => walk(ino, x, comp) = NULL
           /\ Named(ino, x, comp) # {} =>
                \E k \in Named(ino, x, comp) : /\ walk(ino, x, comp) = ino[x].children[k]
                                               /\ \A j \in Named(ino, x, comp) : k <= j
  <1> DEFINE kids == ino[x].children
             I == Named(ino, x, comp)
             k == IF I # {} THEN Min(I) ELSE 0
  <1>1. walk(ino, x, comp) = IF k = 0 THEN NULL ELSE kids[k]
    BY WalkPicks DEF Index
  <1>2. I \subseteq Nat /\ 0 \notin I
    BY DEF Named
  <1>3. I # {} => Min(I) \in I /\ \A j \in I : Min(I) <= j
    <2> HIDE DEF I
    <2> QED
      BY <1>2, LeastIsMin
  <1> HIDE DEF I, kids
  <1>4. CASE I = {}
    BY <1>1, <1>4 DEF I
  <1>5. CASE I # {}
    <2>1. k = Min(I) /\ k # 0 /\ k \in I /\ \A j \in I : k <= j
      BY <1>2, <1>3, <1>5
    <2> HIDE DEF k
    <2>2. walk(ino, x, comp) = kids[k]
      BY <1>1, <2>1
    <2> QED
      BY <1>5, <2>1, <2>2 DEF I, kids
  <1> QED
    BY <1>4, <1>5

LEMMA RecordIs ==
    ASSUME NEW ino, TableOK(ino), NEW x \in 1 .. Len(ino)
    PROVE  /\ ino[x] \in Record(Len(ino)) /\ ino[x].children \in Seq(1 .. Len(ino))
           /\ Len(ino[x].children) \in Nat
           /\ \A k \in 1 .. Len(ino[x].children) : /\ ino[x].children[k] \in 1 .. Len(ino)
                                                   /\ ino[x].children[k] > x
  <1>1. ino[x] \in Record(Len(ino))
    BY DEF TableOK
  <1>2. ino[x].children \in Seq(1 .. Len(ino))
    BY <1>1 DEF Record
  <1> QED
    BY <1>1, <1>2, ElementOfSeq, LenProperties DEF TableOK, Growing

\* A step stays in the table, and but for ".." it does not go up.
LEMMA WalkType ==
    ASSUME NEW ino, TableOK(ino), NEW x \in 0 .. Len(ino), NEW comp
    PROVE  /\ walk(ino, x, comp) \in 0 .. Len(ino)
           /\ comp # ".." /\ x # NULL /\ walk(ino, x, comp) # NULL =>
                /\ walk(ino, x, comp) >= x
                /\ walk(ino, x, comp) = x <=> comp \in {"", "."}
  <1>0. Len(ino) \in Nat \ {0}
    BY DEF TableOK
  <1>1. CASE x = NULL
    BY <1>0, <1>1 DEF walk, NULL
  <1>2. CASE x # NULL /\ comp \in {"", "."}
    <2>1. walk(ino, x, comp) = x
      BY <1>2 DEF walk
    <2>2. x >= x
      BY <1>0
    <2> QED
      BY <1>2, <2>1, <2>2
  <1>3. CASE x # NULL /\ comp = ".."
    <2>1. x \in 1 .. Len(ino)
      BY <1>0, <1>3 DEF NULL
    <2>2. ino[x].parent \in 0 .. Len(ino)
      BY <2>1 DEF TableOK, Record
    <2> QED
      BY <1>0, <1>3, <2>1, <2>2 DEF walk
  <1>4. CASE x # NULL /\ comp \notin Special
    <2>1. x \in 1 .. Len(ino)
      BY <1>0, <1>4 DEF NULL
    <2>2. \/ walk(ino, x, comp) = NULL
          \/ \E k \in Named(ino, x, comp) : walk(ino, x, comp) = ino[x].children[k]
      BY <1>4, <2>1, RecordIs, WalkIs
    <2>3. \/ walk(ino, x, comp) = NULL
          \/ walk(ino, x, comp) \in 1 .. Len(ino) /\ walk(ino, x, comp) > x
      BY <2>1, <2>2, RecordIs DEF Named
    <2>4. comp \notin {"", "."}
      BY <1>4 DEF Special
    <2> DEFINE v == walk(ino, x, comp)
    <2>5. v = 0 \/ (v \in 1 .. Len(ino) /\ v > x)
      BY <2>3 DEF NULL
    <2> HIDE DEF v
    <2>6. v \in 0 .. Len(ino) /\ (v # 0 => v >= x /\ v # x)
      BY <1>0, <2>1, <2>5
    <2> QED
      BY <2>4, <2>6 DEF NULL, v
  <1> QED
    BY <1>1, <1>2, <1>3, <1>4 DEF Special

\* A lookup returns an inode or none.
LEMMA LookupType ==
    ASSUME NEW ino, TableOK(ino), NEW path, Len(path) \in Nat
    PROVE  lookup_path(ino, path) \in 0 .. Len(ino)
  <1> DEFINE n == Len(path)
  <1>1. PICK f : IsWalk(ino, path, n, f) /\ lookup_path(ino, path) = f[n]
    BY LookupWalks
  <1> HIDE DEF n
  <1>2. n \in Nat
    BY DEF n
  <1> DEFINE S == {k \in Nat : k <= n => f[k] \in 0 .. Len(ino)}
  <1>3. f[0] = 1 /\ \A k \in 1 .. n : f[k] = walk(ino, f[k - 1], path[k])
    BY <1>1, <1>2, WalkSteps DEF n
  <1>4. 0 \in S
    BY <1>3 DEF TableOK
  <1>5. ASSUME NEW k \in Nat, k \in S
        PROVE  k + 1 \in S
    <2> SUFFICES ASSUME k + 1 <= n
                 PROVE  f[k + 1] \in 0 .. Len(ino)
      OBVIOUS
    <2>1. k <= n /\ k + 1 \in 1 .. n /\ (k + 1) - 1 = k
      BY <1>2
    <2>2. f[k] \in 0 .. Len(ino)
      BY <1>5, <2>1
    <2>3. f[k + 1] = walk(ino, f[k], path[k + 1])
      BY <1>3, <2>1
    <2>4. walk(ino, f[k], path[k + 1]) \in 0 .. Len(ino)
      BY <2>2, WalkType
    <2> QED
      BY <2>3, <2>4
  <1>6. Nat \subseteq S
    <2> HIDE DEF S
    <2> QED
      BY <1>4, <1>5, Induction
  <1> QED
    BY <1>1, <1>2, <1>6

\* Records that agree but for their children.
Alike(r, s) ==
    /\ r.type = s.type /\ r.name = s.name /\ r.size = s.size /\ r.fs_data = s.fs_data
    /\ r.ref_count = s.ref_count /\ r.parent = s.parent

\* A new inode goes in front of its siblings; nothing else changes.
LEMMA AddChild ==
    ASSUME NEW ino, TableOK(ino), NEW p \in 1 .. Len(ino), NEW child \in Record(Len(ino) + 1),
           child.children = << >>, NEW t, t = add_child(ino, p, child)
    PROVE  /\ TableOK(t) /\ Len(t) = Len(ino) + 1 /\ t[Len(ino) + 1] = child
           /\ \A x \in 1 .. Len(ino) : x # p => t[x] = ino[x]
           /\ \A x \in 1 .. Len(ino) : Alike(t[x], ino[x])
           /\ Len(t[p].children) \in Nat \ {0} /\ t[p].children[1] = Len(ino) + 1
  <1> DEFINE n == Len(ino)
             kids == ino[p].children
             more == <<n + 1>> \o kids
             q == [ino[p] EXCEPT !.children = more]
             mid == [ino EXCEPT ![p] = q]
  <1>1. n \in Nat \ {0} /\ ino \in [1 .. n -> Record(n)] /\ 1 .. n \subseteq 1 .. n + 1
    BY DEF TableOK
  <1>2. t = Append(mid, child)
    BY DEF add_child
  <1>3. kids \in Seq(1 .. n + 1) /\ Len(kids) \in Nat
    BY <1>1, RecordIs, SeqMonotonic
  <1>4. /\ more \in Seq(1 .. n + 1) /\ Len(more) = 1 + Len(kids)
        /\ \A i \in 1 .. 1 + Len(kids) : more[i] = IF i <= 1 THEN n + 1 ELSE kids[i - 1]
    <2> DEFINE one == <<n + 1>>
    <2>1. one \in Seq(1 .. n + 1) /\ Len(one) = 1 /\ one[1] = n + 1
      BY <1>1
    <2> HIDE DEF one, n
    <2>2. /\ one \o kids \in Seq(1 .. n + 1) /\ Len(one \o kids) = Len(one) + Len(kids)
          /\ \A i \in 1 .. Len(one) + Len(kids) : (one \o kids)[i] =
                IF i <= Len(one) THEN one[i] ELSE kids[i - Len(one)]
      BY <1>3, <2>1, ConcatProperties
    <2>3. more = one \o kids
      BY DEF one
    <2>4. \A i \in 1 .. 1 + Len(kids) : i <= 1 => i = 1
      BY <1>3
    <2> HIDE DEF kids, more
    <2> QED
      BY <2>1, <2>2, <2>3, <2>4
  <1>5. ASSUME NEW x \in 1 .. n
        PROVE  ino[x] \in Record(n + 1)
    <2>1. ino[x] \in Record(n) /\ ino[x].children \in Seq(1 .. n)
      BY <1>1, RecordIs
    <2>2. ino[x].children \in Seq(1 .. n + 1)
      BY <1>1, <2>1, SeqMonotonic
    <2>3. \A y \in 0 .. n : y \in 0 .. n + 1
      BY <1>1
    <2> HIDE DEF n
    <2> QED
      BY <2>1, <2>2, <2>3 DEF Record
  <1> HIDE DEF more, n
  <1>6. q \in Record(n + 1) /\ q.children = more /\ Alike(q, ino[p])
    <2>1. ino[p] \in Record(n + 1)
      BY <1>5 DEF n
    <2> QED
      BY <1>4, <2>1 DEF Record, Alike
  <1> HIDE DEF q
  <1>7. /\ mid \in [1 .. n -> Record(n + 1)] /\ mid[p] = q
        /\ \A x \in 1 .. n : x # p => mid[x] = ino[x]
    BY <1>1, <1>5, <1>6 DEF n
  <1>8. mid \in Seq(Record(n + 1)) /\ Len(mid) = n
    <2> DEFINE R == Record(n + 1)
    <2>1. mid \in Seq(R)
      <3>1. mid \in [1 .. n -> R] /\ n \in Nat
        BY <1>1, <1>7
      <3> HIDE DEF mid, R
      <3> QED
        BY <3>1, SeqDef
    <2>2. DOMAIN mid = 1 .. Len(mid) /\ Len(mid) \in Nat /\ DOMAIN mid = 1 .. n
      BY <1>7, <2>1, LenProperties
    <2> QED
      BY <1>1, <2>1, <2>2
  <1> HIDE DEF mid
  <1>9. /\ t \in Seq(Record(n + 1)) /\ Len(t) = n + 1 /\ t[n + 1] = child
        /\ \A x \in 1 .. n : t[x] = mid[x]
    <2>1. /\ Append(mid, child) \in Seq(Record(n + 1))
          /\ Len(Append(mid, child)) = Len(mid) + 1
          /\ \A i \in 1 .. Len(mid) : Append(mid, child)[i] = mid[i]
          /\ Append(mid, child)[Len(mid) + 1] = child
      BY <1>8, AppendProperties DEF n
    <2> QED
      BY <1>2, <1>8, <2>1
  <1>10. t \in [1 .. Len(t) -> Record(Len(t))] /\ Len(t) \in Nat \ {0}
    <2>1. t \in [1 .. Len(t) -> Record(n + 1)]
      BY <1>9, LenProperties
    <2> QED
      BY <1>1, <1>9, <2>1
  <1>11. t[p] = q /\ \A x \in 1 .. n : x # p => t[x] = ino[x]
    BY <1>7, <1>9 DEF n
  <1>12. ASSUME NEW x \in 1 .. n + 1, NEW k \in 1 .. Len(t[x].children)
         PROVE  t[x].children[k] > x
    <2>1. CASE x = n + 1
      <3>1. Len(t[x].children) = 0
        BY <1>9, <2>1, EmptySeq
      <3> QED
        BY <3>1
    <2>2. CASE x = p
      <3>1. t[x].children = more
        BY <1>6, <1>11, <2>2
      <3>2. k \in 1 .. 1 + Len(kids) /\ more[k] = IF k <= 1 THEN n + 1 ELSE kids[k - 1]
        BY <1>3, <1>4, <3>1
      <3>3. \A i \in 1 .. Len(kids) : kids[i] > p /\ kids[i] \in 1 .. n
        BY RecordIs DEF n
      <3>4. p \in 1 .. n
        BY DEF n
      <3> HIDE DEF kids
      <3>5. k <= 1 \/ k - 1 \in 1 .. Len(kids)
        BY <1>3, <3>2
      <3>6. n + 1 > p
        BY <1>1, <3>4
      <3> QED
        BY <2>2, <3>1, <3>2, <3>3, <3>5, <3>6
    <2>3. CASE x \in 1 .. n /\ x # p
      <3>1. t[x] = ino[x]
        BY <1>11, <2>3
      <3> QED
        BY <2>3, <3>1, RecordIs DEF n
    <2> QED
      BY <1>1, <2>1, <2>2, <2>3
  <1>13. TableOK(t)
    BY <1>9, <1>10, <1>12 DEF TableOK, Growing
  <1>14. Len(t[p].children) \in Nat \ {0} /\ t[p].children[1] = n + 1
    BY <1>3, <1>4, <1>6, <1>11
  <1>15. \A x \in 1 .. n : Alike(t[x], ino[x])
    BY <1>6, <1>11 DEF Alike
  <1> QED
    BY <1>9, <1>11, <1>13, <1>14, <1>15 DEF n

\* The walk of a path that does not go up passes inodes in order.
LEMMA WalkGrows ==
    ASSUME NEW ino, TableOK(ino), NEW path, NEW m \in Nat, NEW f, IsWalk(ino, path, m, f),
           f[m] # NULL, \A k \in 1 .. m : path[k] # ".."
    PROVE  \A k \in 0 .. m : f[k] \in 1 .. Len(ino) /\ f[k] <= f[m]
  <1>1. f[0] = 1 /\ \A k \in 1 .. m : f[k] = walk(ino, f[k - 1], path[k])
    BY WalkSteps
  <1>2. Len(ino) \in Nat \ {0} /\ \A x \in 0 .. Len(ino) : \A comp : walk(ino, x, comp) \in 0 .. Len(ino)
    BY WalkType DEF TableOK
  <1> DEFINE P(k) == /\ f[k] \in 0 .. Len(ino)
                     /\ f[k] = NULL => f[m] = NULL
                     /\ f[m] # NULL => f[k] <= f[m]
  \* Forwards: every place is in the table.
  <1>3. \A k \in 0 .. m : f[k] \in 0 .. Len(ino)
    <2> DEFINE S == {k \in Nat : k <= m => f[k] \in 0 .. Len(ino)}
    <2>1. 0 \in S
      BY <1>1, <1>2
    <2>2. ASSUME NEW k \in Nat, k \in S
          PROVE  k + 1 \in S
      <3> SUFFICES ASSUME k + 1 <= m
                   PROVE  f[k + 1] \in 0 .. Len(ino)
        OBVIOUS
      <3>1. k <= m /\ k + 1 \in 1 .. m /\ (k + 1) - 1 = k
        OBVIOUS
      <3>2. f[k] \in 0 .. Len(ino) /\ f[k + 1] = walk(ino, f[k], path[k + 1])
        BY <1>1, <2>2, <3>1
      <3> QED
        BY <1>2, <3>2
    <2>3. Nat \subseteq S
      <3> HIDE DEF S
      <3> QED
        BY <2>1, <2>2, Induction
    <2> QED
      BY <2>3
  \* Backwards: none is lost and none is larger than the last.
  <1>4. \A j \in 0 .. m : P(m - j)
    <2> DEFINE S == {j \in Nat : j <= m => P(m - j)}
    <2>1. 0 \in S
      <3>1. m - 0 = m /\ f[m] \in 0 .. Len(ino)
        BY <1>3
      <3>2. f[m] <= f[m]
        BY <1>2, <3>1
      <3> QED
        BY <3>1, <3>2
    <2>2. ASSUME NEW j \in Nat, j \in S
          PROVE  j + 1 \in S
      <3> SUFFICES ASSUME j + 1 <= m
                   PROVE  P(m - (j + 1))
        OBVIOUS
      <3> DEFINE k == m - (j + 1)
                 v == walk(ino, f[k], path[k + 1])
      <3>1. k \in 0 .. m /\ k + 1 \in 1 .. m /\ (k + 1) - 1 = k /\ m - j = k + 1 /\ j <= m
        OBVIOUS
      <3>2. P(k + 1)
        BY <2>2, <3>1
      <3> HIDE DEF k
      <3>3. f[k] \in 0 .. Len(ino) /\ f[k + 1] = v /\ path[k + 1] # ".."
        BY <1>1, <1>3, <3>1
      <3>4. f[k] = NULL => v = NULL
        BY DEF walk
      <3>5. f[k] # NULL /\ v # NULL => v >= f[k] /\ v \in 0 .. Len(ino)
        BY <3>3, WalkType
      <3>6. f[m] \in 0 .. Len(ino)
        BY <1>3
      <3> HIDE DEF v
      <3>7. P(k)
        BY <1>2, <3>2, <3>3, <3>4, <3>5, <3>6
      <3> QED
        BY <3>7 DEF k
    <2>3. Nat \subseteq S
      <3> HIDE DEF S, P
      <3> QED
        BY <2>1, <2>2, Induction
    <2> HIDE DEF P
    <2> QED
      BY <2>3
  <1>5. ASSUME NEW k \in 0 .. m
        PROVE  f[k] \in 1 .. Len(ino) /\ f[k] <= f[m]
    <2>1. m - k \in 0 .. m /\ m - (m - k) = k
      OBVIOUS
    <2>2. P(k)
      <3> HIDE DEF P
      <3> QED
        BY <1>4, <2>1
    <2> QED
      BY <1>2, <2>2 DEF NULL
  <1> QED
    BY <1>5

\* What a step depends on.
LEMMA WalkSame ==
    ASSUME NEW ino, NEW t, TableOK(ino), NEW x \in 1 .. Len(ino), NEW comp,
           t[x].children = ino[x].children, t[x].parent = ino[x].parent,
           \A y \in 1 .. Len(ino) : t[y].name = ino[y].name
    PROVE  walk(t, x, comp) = walk(ino, x, comp)
  <1>0. x # NULL
    BY DEF NULL
  <1>1. CASE comp \in {"", "."}
    BY <1>1 DEF walk
  <1>2. CASE comp = ".."
    BY <1>0, <1>2 DEF walk
  <1>3. CASE comp \notin Special
    <2>1. Named(t, x, comp) = Named(ino, x, comp)
      BY RecordIs DEF Named
    <2> QED
      BY <1>0, <1>3, <2>1, WalkPicks
  <1> QED
    BY <1>1, <1>2, <1>3 DEF Special

LEMMA LookupSteps ==
    ASSUME NEW ino, NEW path, Len(path) \in Nat
    PROVE  \E f : /\ IsWalk(ino, path, Len(path), f) /\ lookup_path(ino, path) = f[Len(path)]
                  /\ f[0] = 1
                  /\ \A k \in 1 .. Len(path) : f[k] = walk(ino, f[k - 1], path[k])
  <1>1. PICK f : IsWalk(ino, path, Len(path), f) /\ lookup_path(ino, path) = f[Len(path)]
    BY LookupWalks
  <1>2. f[0] = 1 /\ \A k \in 1 .. Len(path) : f[k] = walk(ino, f[k - 1], path[k])
    BY <1>1, WalkSteps
  <1> QED
    BY <1>1, <1>2

\* A step towards p is the same when only the children of p change.
LEMMA StepStays ==
    ASSUME NEW ino, NEW t, TableOK(ino), NEW p, NEW x \in 1 .. Len(ino), NEW comp, comp # "..",
           NEW y \in 1 .. Len(ino), y = walk(ino, x, comp), x <= p, y <= p,
           \A z \in 1 .. Len(ino) : Alike(t[z], ino[z]),
           \A z \in 1 .. Len(ino) : z # p => t[z] = ino[z]
    PROVE  walk(t, x, comp) = y
  <1>1. CASE x = p
    <2>1. x \in 0 .. Len(ino) /\ x # NULL /\ y # NULL
      BY DEF NULL
    <2>2. y >= x /\ (y = x <=> comp \in {"", "."})
      BY <2>1, WalkType
    <2>3. y = x
      <3>1. y >= x
        BY <2>2
      <3>2. y <= x
        BY <1>1, Zenon
      <3>3. Len(ino) \in Nat
        BY DEF TableOK
      <3>4. x \in Int /\ y \in Int
        BY <3>3
      <3> QED
        BY <3>1, <3>2, <3>4
    <2>4. comp \in {"", "."}
      BY <2>2, <2>3
    <2> QED
      BY <2>3, <2>4 DEF walk
  <1>2. CASE x # p
    <2>1. t[x].children = ino[x].children /\ t[x].parent = ino[x].parent
      BY <1>2
    <2>2. \A z \in 1 .. Len(ino) : t[z].name = ino[z].name
      BY DEF Alike
    <2> QED
      BY <2>1, <2>2, WalkSame
  <1> QED
    BY <1>1, <1>2

\* A path that does not go up leads to the parent of the new inode as before.
LEMMA PrefixStays ==
    ASSUME NEW ino, NEW t, TableOK(ino), NEW path, Len(path) \in Nat,
           \A k \in 1 .. Len(path) : path[k] # "..",
           NEW p, p # NULL, p = lookup_path(ino, path),
           \A z \in 1 .. Len(ino) : Alike(t[z], ino[z]),
           \A z \in 1 .. Len(ino) : z # p => t[z] = ino[z]
    PROVE  lookup_path(t, path) = p
  <1> DEFINE m == Len(path)
  <1>1. PICK f : /\ IsWalk(ino, path, m, f) /\ lookup_path(ino, path) = f[m]
                 /\ f[0] = 1 /\ \A k \in 1 .. m : f[k] = walk(ino, f[k - 1], path[k])
    BY LookupSteps
  <1>2. PICK g : /\ IsWalk(t, path, m, g) /\ lookup_path(t, path) = g[m]
                 /\ g[0] = 1 /\ \A k \in 1 .. m : g[k] = walk(t, g[k - 1], path[k])
    BY LookupSteps
  <1>3. m \in Nat /\ \A k \in 1 .. m : path[k] # ".."
    OBVIOUS
  <1>4. \A k \in 0 .. m : f[k] \in 1 .. Len(ino) /\ f[k] <= p
    <2>1. f[m] # NULL /\ f[m] = p
      BY <1>1
    <2> HIDE DEF m
    <2>2. \A k \in 0 .. m : f[k] \in 1 .. Len(ino) /\ f[k] <= f[m]
      BY <1>1, <1>3, <2>1, WalkGrows
    <2> QED
      BY <2>1, <2>2
  <1>5. ASSUME NEW x \in 1 .. Len(ino), NEW comp, comp # "..", NEW y \in 1 .. Len(ino),
               y = walk(ino, x, comp), x <= p, y <= p
        PROVE  walk(t, x, comp) = y
    BY <1>5, StepStays
  <1> HIDE DEF m
  <1> DEFINE S == {k \in Nat : k <= m => g[k] = f[k]}
  <1>6. ASSUME NEW k \in Nat, k \in S
        PROVE  k + 1 \in S
    <2> SUFFICES ASSUME k + 1 <= m
                 PROVE  g[k + 1] = f[k + 1]
      OBVIOUS
    <2>1. k \in 0 .. m /\ k + 1 \in 0 .. m /\ k + 1 \in 1 .. m /\ (k + 1) - 1 = k
      BY <1>3
    <2> DEFINE x == f[k]
               y == f[k + 1]
               comp == path[k + 1]
    <2>2. x \in 1 .. Len(ino) /\ x <= p /\ y \in 1 .. Len(ino) /\ y <= p /\ comp # ".."
      BY <1>3, <1>4, <2>1
    <2>3. y = walk(ino, x, comp) /\ g[k + 1] = walk(t, g[k], comp)
      BY <1>1, <1>2, <2>1
    <2>4. g[k] = x
      BY <1>6, <2>1
    <2> HIDE DEF x, y, comp
    <2>5. walk(t, x, comp) = y
      BY <1>5, <2>2, <2>3
    <2>6. g[k + 1] = y
      BY <2>3, <2>4, <2>5
    <2> QED
      BY <2>6 DEF y
  <1>7. Nat \subseteq S
    <2>1. 0 \in S
      BY <1>1, <1>2
    <2> HIDE DEF S
    <2> QED
      BY <1>6, <2>1, Induction
  <1>8. g[m] = f[m]
    BY <1>3, <1>7
  <1> QED
    BY <1>1, <1>2, <1>8

\* The name of a new inode leads to it, and so does a path that does not go up.
LEMMA NewIsFound ==
    ASSUME NEW ino, TableOK(ino), NEW path \in Paths, Last(path) \in Name,
           NEW p \in 1 .. Len(ino), p = lookup_path(ino, Front(path)),
           NEW child \in Record(Len(ino) + 1), child.children = << >>, child.name = Last(path),
           NEW t, t = add_child(ino, p, child)
    PROVE  /\ walk(t, p, Last(path)) = Len(ino) + 1 /\ t[Len(ino) + 1] = child
           /\ ".." \notin Range(path) => lookup_path(t, path) = walk(t, p, Last(path))
  <1> DEFINE n == Len(ino)
             comp == Last(path)
  <1>1. /\ TableOK(t) /\ Len(t) = n + 1 /\ t[n + 1] = child
        /\ \A x \in 1 .. n : x # p => t[x] = ino[x]
        /\ \A x \in 1 .. n : Alike(t[x], ino[x])
        /\ Len(t[p].children) \in Nat \ {0} /\ t[p].children[1] = n + 1
    BY AddChild
  <1>2. walk(t, p, comp) = n + 1
    <2>1. 1 \in Named(t, p, comp) /\ \A j \in Named(t, p, comp) : j >= 1 /\ j \in Nat
      BY <1>1 DEF Named
    <2>2. p # NULL /\ comp \notin Special
      BY VfsAssumption DEF NULL
    <2>3. PICK k \in Named(t, p, comp) : /\ walk(t, p, comp) = t[p].children[k]
                                         /\ \A j \in Named(t, p, comp) : k <= j
      BY <1>1, <2>1, <2>2, WalkIs
    <2>4. k = 1
      BY <2>1, <2>3
    <2> QED
      BY <1>1, <2>3, <2>4
  <1>3. ASSUME ".." \notin Range(path)
        PROVE  lookup_path(t, Front(path)) = p
    <2> DEFINE q == Front(path)
    <2>1. Len(q) \in Nat /\ \A k \in 1 .. Len(q) : q[k] # ".."
      <3>1. /\ Len(path) \in Nat \ {0} /\ Len(q) = Len(path) - 1 /\ DOMAIN path = 1 .. Len(path)
            /\ \A k \in 1 .. Len(path) - 1 : q[k] = path[k]
        BY PathIs
      <3>2. \A k \in 1 .. Len(path) : path[k] # ".."
        BY <1>3, <3>1 DEF Range
      <3> DEFINE l == Len(path)
      <3> HIDE DEF l, q
      <3>3. l \in Nat \ {0} /\ Len(q) = l - 1 /\ \A k \in 1 .. l - 1 : q[k] = path[k]
        BY <3>1 DEF l
      <3>4. \A k \in 1 .. l - 1 : k \in 1 .. l
        BY <3>3
      <3> QED
        BY <3>2, <3>3, <3>4 DEF l
    <2>2. p # NULL
      BY DEF NULL
    <2> HIDE DEF q
    <2>3. p = lookup_path(ino, q)
      BY DEF q
    <2>4. lookup_path(t, q) = p
      BY <1>1, <2>1, <2>2, <2>3, PrefixStays
    <2> QED
      BY <2>4 DEF q
  <1>4. lookup_path(t, path) = walk(t, lookup_path(t, Front(path)), comp)
    BY LookupLast
  <1> QED
    BY <1>1, <1>2, <1>3, <1>4

-----------------------------------------------------------------------------
(***************************************************************************)
(* Who holds which buffer.  d and rd are what the files and the files of   *)
(* the ramdisk hold, b the lengths of the buffers.                         *)
(***************************************************************************)
Owned(d, b, rd) ==
    /\ b \in [Buf -> Nat]
    /\ \A x \in DOMAIN d : d[x] # NULL => d[x] \in Buf /\ b[d[x]] > 0
    /\ \A k \in DOMAIN rd : rd[k] # NULL => rd[k] \in Buf /\ b[rd[k]] > 0
    /\ \A x, y \in DOMAIN d : d[x] # NULL /\ d[x] = d[y] => x = y
    /\ \A k, l \in DOMAIN rd : rd[k] # NULL /\ rd[k] = rd[l] => k = l
    /\ \A x \in DOMAIN d, k \in DOMAIN rd : d[x] # NULL => d[x] # rd[k]
    /\ \A c \in Buf : b[c] > 0 => (\E x \in DOMAIN d : d[x] = c) \/ (\E k \in DOMAIN rd : rd[k] = c)

LEMMA NullIsNoBuffer == NULL \notin Buf
  BY DEF NULL, Buf

LEMMA OwnedSwap ==
    ASSUME NEW d, NEW b, NEW rd, Owned(d, b, rd)
    PROVE  Owned(rd, b, d)
  BY DEF Owned

\* kfree of what x holds.
LEMMA OwnedFree ==
    ASSUME NEW d, NEW b, NEW rd, Owned(d, b, rd), NEW x \in DOMAIN d, NEW e,
           DOMAIN e = DOMAIN d, e[x] = NULL, \A y \in DOMAIN d : y # x => e[y] = d[y]
    PROVE  /\ Owned(e, kfree(b, d[x]), rd)
           /\ \A y \in DOMAIN d : y # x /\ d[y] # NULL => kfree(b, d[x])[d[y]] = b[d[y]]
  <1> DEFINE v == d[x]
             f == kfree(b, v)
  <1>1. CASE v = NULL
    <2>1. f = b
      BY <1>1 DEF kfree
    <2>2. \A y \in DOMAIN d : e[y] = d[y]
      BY <1>1
    <2> HIDE DEF f, v
    <2> QED
      BY <2>1, <2>2 DEF Owned, v, f
  <1>2. CASE v # NULL
    <2>1. f = [b EXCEPT ![v] = 0] /\ v \in Buf
      BY <1>2 DEF kfree, Owned
    <2>2. f \in [Buf -> Nat] /\ f[v] = 0 /\ \A c \in Buf : c # v => f[c] = b[c]
      BY <2>1 DEF Owned
    <2>3. \A y \in DOMAIN d : y # x => d[y] # v
      BY <1>2 DEF Owned
    <2>4. \A k \in DOMAIN rd : rd[k] # v
      BY <1>2 DEF Owned
    <2> HIDE DEF f, v
    <2>5. \A y \in DOMAIN d : y # x /\ d[y] # NULL => f[d[y]] = b[d[y]]
      BY <2>2, <2>3 DEF Owned
    <2>6. \A y \in DOMAIN e : e[y] # NULL => y # x /\ e[y] = d[y] /\ e[y] \in Buf /\ f[e[y]] > 0
      BY <2>5 DEF Owned
    <2>7. \A k \in DOMAIN rd : rd[k] # NULL => rd[k] \in Buf /\ f[rd[k]] > 0
      BY <2>2, <2>4 DEF Owned
    <2>8. ASSUME NEW c \in Buf, f[c] > 0
          PROVE  (\E y \in DOMAIN e : e[y] = c) \/ (\E k \in DOMAIN rd : rd[k] = c)
      <3>1. c # v /\ b[c] > 0
        BY <2>2, <2>8
      <3>2. (\E y \in DOMAIN d : d[y] = c) \/ (\E k \in DOMAIN rd : rd[k] = c)
        BY <3>1 DEF Owned
      <3>3. ASSUME NEW y \in DOMAIN d, d[y] = c
            PROVE  e[y] = c
        BY <3>1, <3>3 DEF v
      <3> QED
        BY <3>2, <3>3
    <2>9. Owned(e, f, rd)
      BY <2>2, <2>6, <2>7, <2>8 DEF Owned
    <2> QED
      BY <2>5, <2>9 DEF f, v
  <1> QED
    BY <1>1, <1>2

\* Holder x, that has none or is new, gets nothing or a free buffer: v.
Gets(d, b, x, v, len, e, f) ==
    /\ len \in Nat \ {0}
    /\ DOMAIN e = DOMAIN d \cup {x} /\ (x \in DOMAIN d => d[x] = NULL)
    /\ e[x] = v /\ \A y \in DOMAIN d : y # x => e[y] = d[y]
    /\ \/ v = NULL /\ f = b
       \/ v \in Buf /\ b[v] = 0 /\ f = [b EXCEPT ![v] = len]

LEMMA OwnedGive ==
    ASSUME NEW d, NEW b, NEW rd, Owned(d, b, rd), NEW x, NEW e, NEW v, NEW f, NEW len,
           Gets(d, b, x, v, len, e, f)
    PROVE  /\ Owned(e, f, rd)
           /\ \A y \in DOMAIN d : d[y] # NULL => f[d[y]] = b[d[y]]
           /\ v # NULL => f[v] = len
  <1> USE DEF Gets
  <1>1. CASE v = NULL /\ f = b
    BY <1>1 DEF Owned
  <1>2. CASE v \in Buf /\ b[v] = 0 /\ f = [b EXCEPT ![v] = len]
    <2>1. f \in [Buf -> Nat] /\ f[v] = len /\ \A c \in Buf : c # v => f[c] = b[c]
      BY <1>2 DEF Owned
    <2>2. v # NULL
      BY <1>2, NullIsNoBuffer
    <2>3. ASSUME NEW y \in DOMAIN d, d[y] # NULL
          PROVE  d[y] \in Buf /\ d[y] # v /\ y # x /\ f[d[y]] = b[d[y]] /\ b[d[y]] > 0
      BY <1>2, <2>1, <2>3 DEF Owned
    <2>4. ASSUME NEW k \in DOMAIN rd, rd[k] # NULL
          PROVE  rd[k] \in Buf /\ rd[k] # v /\ f[rd[k]] > 0
      BY <1>2, <2>1, <2>4 DEF Owned
    <2>5. \A k \in DOMAIN rd : rd[k] # v
      BY <2>2, <2>4
    <2>6. \A y \in DOMAIN e : y = x \/ (y \in DOMAIN d /\ e[y] = d[y] /\ y # x)
      OBVIOUS
    <2>7. \A y \in DOMAIN e : e[y] # NULL => e[y] \in Buf /\ f[e[y]] > 0
      BY <1>2, <2>1, <2>3, <2>6
    <2>8. \A y, z \in DOMAIN e : e[y] # NULL /\ e[y] = e[z] => y = z
      BY <2>3, <2>6 DEF Owned
    <2>9. \A y \in DOMAIN e, k \in DOMAIN rd : e[y] # NULL => e[y] # rd[k]
      BY <2>5, <2>6 DEF Owned
    <2>10. ASSUME NEW c \in Buf, f[c] > 0
           PROVE  (\E y \in DOMAIN e : e[y] = c) \/ (\E k \in DOMAIN rd : rd[k] = c)
      <3>1. CASE c = v
        BY <3>1
      <3>2. CASE c # v
        <4>1. (\E y \in DOMAIN d : d[y] = c) \/ (\E k \in DOMAIN rd : rd[k] = c)
          BY <2>1, <2>10, <3>2 DEF Owned
        <4>2. ASSUME NEW y \in DOMAIN d, d[y] = c
              PROVE  y \in DOMAIN e /\ e[y] = c
          BY <4>2, NullIsNoBuffer
        <4> QED
          BY <4>1, <4>2
      <3> QED
        BY <3>1, <3>2
    <2>11. Owned(e, f, rd)
      BY <2>1, <2>4, <2>7, <2>8, <2>9, <2>10 DEF Owned
    <2> QED
      BY <2>1, <2>3, <2>11
  <1> QED
    BY <1>1, <1>2

\* What kmalloc returns.
LEMMA KmallocIs ==
    ASSUME NEW b, NEW len, NEW r \in kmalloc(b, len)
    PROVE  \/ r.data = NULL /\ r.buffers = b
           \/ r.data \in Buf /\ b[r.data] = 0 /\ r.buffers = [b EXCEPT ![r.data] = len]
  BY DEF kmalloc

-----------------------------------------------------------------------------
(***************************************************************************)
(* What the calls make of the table: they change one record, or add one.   *)
(***************************************************************************)
Holds(ino) == [x \in 1 .. Len(ino) |-> ino[x].fs_data]

Room(r, b) == IF r.fs_data = NULL THEN 0 ELSE b[r.fs_data]
Sized(ino, b) == \A x \in 1 .. Len(ino) : ino[x].size <= Room(ino[x], b)

\* The inodes of ino are in t, referenced as before, and t may have one more.
Extends(ino, t) ==
    /\ \/ Len(t) = Len(ino)
       \/ Len(t) = Len(ino) + 1 /\ t[Len(ino) + 1].ref_count = 1
    /\ \A x \in 1 .. Len(ino) : t[x].ref_count = ino[x].ref_count

Edited(ino, x, u, t) == t = [ino EXCEPT ![x] = u]

\* One record is changed, but for its place in the tree.
LEMMA TableEdit ==
    ASSUME NEW ino, TableOK(ino), NEW x \in 1 .. Len(ino), NEW u \in Record(Len(ino)),
           u.children = ino[x].children, NEW t, Edited(ino, x, u, t)
    PROVE  /\ TableOK(t) /\ Len(t) = Len(ino) /\ t[x] = u
           /\ \A y \in 1 .. Len(ino) : y # x => t[y] = ino[y]
  <1> DEFINE n == Len(ino)
  <1>1. n \in Nat \ {0} /\ ino \in [1 .. n -> Record(n)]
    BY DEF TableOK
  <1>2. t \in [1 .. n -> Record(n)] /\ t[x] = u /\ \A y \in 1 .. n : y # x => t[y] = ino[y]
    BY <1>1 DEF Edited
  <1>3. \A y \in 1 .. n : t[y].children = ino[y].children
    BY <1>2
  <1>4. Len(t) = n
    <2>1. t \in Seq(Record(n))
      BY <1>1, <1>2, SeqDef
    <2>2. Len(t) \in Nat /\ DOMAIN t = 1 .. Len(t)
      BY <2>1, LenProperties
    <2> QED
      BY <1>1, <1>2, <2>2
  <1> HIDE DEF n
  <1>5. Growing(t)
    <2>1. ASSUME NEW y \in 1 .. n, NEW k \in 1 .. Len(ino[y].children)
          PROVE  ino[y].children[k] > y
      BY DEF TableOK, Growing, n
    <2> QED
      BY <1>3, <1>4, <2>1 DEF Growing
  <1> QED
    BY <1>1, <1>2, <1>4, <1>5 DEF TableOK, n

\* Where a path leads depends on names, children and parents alone.
LEMMA LookupSame ==
    ASSUME NEW ino, NEW t, TableOK(ino), NEW path, Len(path) \in Nat,
           \A y \in 1 .. Len(ino) : /\ t[y].name = ino[y].name
                                    /\ t[y].children = ino[y].children
                                    /\ t[y].parent = ino[y].parent
    PROVE  lookup_path(t, path) = lookup_path(ino, path)
  <1> DEFINE m == Len(path)
  <1>1. PICK f : /\ IsWalk(ino, path, m, f) /\ lookup_path(ino, path) = f[m]
                 /\ f[0] = 1 /\ \A k \in 1 .. m : f[k] = walk(ino, f[k - 1], path[k])
    BY LookupSteps
  <1>2. PICK g : /\ IsWalk(t, path, m, g) /\ lookup_path(t, path) = g[m]
                 /\ g[0] = 1 /\ \A k \in 1 .. m : g[k] = walk(t, g[k - 1], path[k])
    BY LookupSteps
  <1>3. ASSUME NEW x \in 0 .. Len(ino), NEW comp
        PROVE  walk(t, x, comp) = walk(ino, x, comp) /\ walk(ino, x, comp) \in 0 .. Len(ino)
    <2>1. CASE x = NULL
      BY <2>1, WalkType DEF walk
    <2>2. CASE x # NULL
      <3>1. x \in 1 .. Len(ino)
        BY <2>2 DEF NULL, TableOK
      <3>2. /\ t[x].children = ino[x].children /\ t[x].parent = ino[x].parent
            /\ \A y \in 1 .. Len(ino) : t[y].name = ino[y].name
        BY <3>1
      <3>3. walk(t, x, comp) = walk(ino, x, comp)
        BY <3>1, <3>2, WalkSame
      <3> QED
        BY <3>3, WalkType
    <2> QED
      BY <2>1, <2>2
  <1>4. 1 \in 0 .. Len(ino) /\ m \in Nat
    BY DEF TableOK
  <1> HIDE DEF m
  <1> DEFINE S == {k \in Nat : k <= m => g[k] = f[k] /\ f[k] \in 0 .. Len(ino)}
  <1>5. ASSUME NEW k \in Nat, k \in S
        PROVE  k + 1 \in S
    <2> SUFFICES ASSUME k + 1 <= m
                 PROVE  g[k + 1] = f[k + 1] /\ f[k + 1] \in 0 .. Len(ino)
      OBVIOUS
    <2>1. k + 1 \in 1 .. m /\ (k + 1) - 1 = k /\ k <= m
      BY <1>4
    <2>2. g[k] = f[k] /\ f[k] \in 0 .. Len(ino)
      BY <1>5, <2>1
    <2>3. f[k + 1] = walk(ino, f[k], path[k + 1]) /\ g[k + 1] = walk(t, g[k], path[k + 1])
      BY <1>1, <1>2, <2>1
    <2> QED
      BY <1>3, <2>2, <2>3
  <1>6. Nat \subseteq S
    <2>1. 0 \in S
      BY <1>1, <1>2, <1>4
    <2> HIDE DEF S
    <2> QED
      BY <1>5, <2>1, Induction
  <1>7. g[m] = f[m]
    BY <1>4, <1>6
  <1> QED
    BY <1>1, <1>2, <1>7

\* vfs_create_file of a file that exists.
LEMMA DataReplaced ==
    ASSUME TableOK(inode), NEW b, NEW rd, Owned(Holds(inode), b, rd), NEW x \in 1 .. Len(inode),
           NEW len \in Nat, NEW r \in replace_data(b, x, len)
    PROVE  /\ TableOK(r.inode) /\ Owned(Holds(r.inode), r.buffers, rd) /\ Extends(inode, r.inode)
           /\ Sized(inode, b) => Sized(r.inode, r.buffers)
           /\ Len(r.inode) = Len(inode)
           /\ \A y \in 1 .. Len(inode) : /\ r.inode[y].name = inode[y].name
                                         /\ r.inode[y].children = inode[y].children
                                         /\ r.inode[y].parent = inode[y].parent
                                         /\ r.inode[y].type = inode[y].type
           /\ r.ok => r.inode[x].size = len
  <1> DEFINE n == Len(inode)
             old == kfree(b, inode[x].fs_data)
             size(s) == IF s.data = NULL THEN 0 ELSE len
             u(s) == [inode[x] EXCEPT !.fs_data = s.data, !.size = size(s)]
  <1>1. PICK s : /\ IF len = 0 THEN s = [data |-> NULL, buffers |-> old] ELSE s \in kmalloc(old, len)
                 /\ r.inode = [inode EXCEPT ![x] = u(s)] /\ r.buffers = s.buffers
                 /\ r.ok = (len = 0 \/ s.data # NULL)
    <2>1. PICK s : /\ IF len = 0 THEN s = [data |-> NULL, buffers |-> old] ELSE s \in kmalloc(old, len)
                   /\ r.inode = [inode EXCEPT ![x].fs_data = s.data, ![x].size = size(s)]
                   /\ r.buffers = s.buffers /\ r.ok = (len = 0 \/ s.data # NULL)
      <3>1. r \in {[inode |-> [inode EXCEPT ![x].fs_data = s.data, ![x].size = size(s)],
                    buffers |-> s.buffers, ok |-> len = 0 \/ s.data # NULL] :
                    s \in IF len = 0 THEN {[data |-> NULL, buffers |-> old]} ELSE kmalloc(old, len)}
        BY DEF replace_data
      <3> HIDE DEF old
      <3> DEFINE R(s) == [inode EXCEPT ![x].fs_data = s.data, ![x].size = size(s)]
                 K == kmalloc(old, len)
                 Z == [data |-> NULL, buffers |-> old]
      <3>2. r \in {[inode |-> R(s), buffers |-> s.buffers, ok |-> len = 0 \/ s.data # NULL] :
                    s \in IF len = 0 THEN {Z} ELSE K}
        BY <3>1
      <3> HIDE DEF R, K, Z
      <3>3. \E s : /\ IF len = 0 THEN s = Z ELSE s \in K
                   /\ r.inode = R(s) /\ r.buffers = s.buffers /\ r.ok = (len = 0 \/ s.data # NULL)
        <4>1. CASE len = 0
          BY <3>2, <4>1
        <4>2. CASE len # 0
          BY <3>2, <4>2
        <4> QED
          BY <4>1, <4>2
      <3> QED
        BY <3>3 DEF R, K, Z
    <2>2. [inode EXCEPT ![x].fs_data = s.data, ![x].size = size(s)] = [inode EXCEPT ![x] = u(s)]
      <3> DEFINE v == size(s)
                 w == s.data
      <3>1. inode \in [1 .. Len(inode) -> Record(Len(inode))]
        BY DEF TableOK
      <3> HIDE DEF v, w
      <3>2. [inode EXCEPT ![x].fs_data = w, ![x].size = v]
              = [inode EXCEPT ![x] = [inode[x] EXCEPT !.fs_data = w, !.size = v]]
        BY <3>1
      <3> QED
        BY <3>2 DEF v, w
    <2> QED
      BY <2>1, <2>2
  <1> DEFINE l == IF len = 0 THEN 1 ELSE len
  <1>2. /\ l \in Nat \ {0}
        /\ \/ s.data = NULL /\ s.buffers = old
           \/ len = l /\ s.data \in Buf /\ old[s.data] = 0 /\ s.buffers = [old EXCEPT ![s.data] = l]
    <2> HIDE DEF old
    <2>1. CASE len = 0
      BY <1>1, <2>1
    <2>2. CASE len # 0
      <3>1. s \in kmalloc(old, len) /\ l = len
        BY <1>1, <2>2
      <3> QED
        BY <2>2, <3>1, KmallocIs
    <2> QED
      BY <2>1, <2>2
  <1>3. inode[x] \in Record(n)
    BY RecordIs
  <1>4. /\ u(s) \in Record(n) /\ u(s).children = inode[x].children /\ u(s).fs_data = s.data
        /\ u(s).size = size(s) /\ u(s).name = inode[x].name /\ u(s).parent = inode[x].parent
        /\ u(s).type = inode[x].type /\ u(s).ref_count = inode[x].ref_count
    <2>1. s.data \in Buf \cup {NULL} /\ size(s) \in Nat
      BY <1>2 DEF NULL
    <2> QED
      BY <1>3, <2>1 DEF Record
  <1> HIDE DEF u, l
  <1>5. /\ TableOK(r.inode) /\ Len(r.inode) = n /\ r.inode[x] = u(s)
        /\ \A y \in 1 .. n : y # x => r.inode[y] = inode[y]
    <2>1. Edited(inode, x, u(s), r.inode)
      BY <1>1 DEF Edited
    <2> QED
      BY <1>4, <2>1, TableEdit
  <1> DEFINE d == Holds(inode)
             mid == [d EXCEPT ![x] = NULL]
             e == Holds(r.inode)
  <1>6. /\ DOMAIN d = 1 .. n /\ DOMAIN mid = DOMAIN d /\ DOMAIN e = DOMAIN d /\ mid[x] = NULL
        /\ x \in DOMAIN d /\ d[x] = inode[x].fs_data /\ e[x] = s.data
        /\ \A y \in DOMAIN d : d[y] = inode[y].fs_data
        /\ \A y \in DOMAIN d : y # x => mid[y] = d[y] /\ e[y] = d[y]
    BY <1>4, <1>5 DEF Holds
  <1> HIDE DEF d, mid, e
  <1>7. /\ Owned(mid, old, rd)
        /\ \A y \in DOMAIN d : y # x /\ d[y] # NULL => old[d[y]] = b[d[y]]
    <2>1. Owned(d, b, rd) /\ x \in DOMAIN d /\ DOMAIN mid = DOMAIN d /\ mid[x] = NULL
      BY <1>6 DEF d
    <2>2. \A y \in DOMAIN d : y # x => mid[y] = d[y]
      BY <1>6
    <2> QED
      BY <1>6, <2>1, <2>2, OwnedFree
  <1>8. /\ Owned(e, s.buffers, rd)
        /\ \A y \in DOMAIN d : mid[y] # NULL => s.buffers[mid[y]] = old[mid[y]]
        /\ s.data # NULL => s.buffers[s.data] = l
    <2>1. /\ DOMAIN e = DOMAIN mid \cup {x} /\ (x \in DOMAIN mid => mid[x] = NULL) /\ e[x] = s.data
          /\ \A y \in DOMAIN mid : y # x => e[y] = mid[y]
      BY <1>6
    <2>2. \/ s.data = NULL /\ s.buffers = old
          \/ s.data \in Buf /\ old[s.data] = 0 /\ s.buffers = [old EXCEPT ![s.data] = l]
      BY <1>2
    <2>3. Gets(mid, old, x, s.data, l, e, s.buffers)
      BY <1>2, <2>1, <2>2 DEF Gets
    <2> QED
      BY <1>6, <1>7, <2>3, OwnedGive
  <1>9. ASSUME Sized(inode, b), NEW y \in 1 .. n
        PROVE  r.inode[y].size <= Room(r.inode[y], r.buffers)
    <2>1. CASE y = x
      <3>1. r.inode[y].size = size(s) /\ r.inode[y].fs_data = s.data
        BY <1>4, <1>5, <2>1
      <3>2. CASE s.data = NULL
        BY <3>1, <3>2 DEF Room
      <3>3. CASE s.data # NULL
        <4>1. len = l
          BY <1>2, <3>3
        <4>2. Room(r.inode[y], r.buffers) = len
          BY <1>1, <1>8, <3>1, <3>3, <4>1 DEF Room
        <4> QED
          BY <3>1, <3>3, <4>2
      <3> QED
        BY <3>2, <3>3
    <2>2. CASE y # x
      <3>1. r.inode[y] = inode[y] /\ inode[y].size <= Room(inode[y], b)
        BY <1>5, <1>9, <2>2 DEF Sized
      <3>2. Room(inode[y], r.buffers) = Room(inode[y], b)
        BY <1>1, <1>6, <1>7, <1>8, <2>2 DEF Room
      <3> QED
        BY <3>1, <3>2
    <2> QED
      BY <2>1, <2>2
  <1>10. r.ok => r.inode[x].size = len
    BY <1>1, <1>4, <1>5
  <1>11. Extends(inode, r.inode)
    BY <1>4, <1>5 DEF Extends
  <1>12. \A y \in 1 .. n : /\ r.inode[y].name = inode[y].name
                           /\ r.inode[y].children = inode[y].children
                           /\ r.inode[y].parent = inode[y].parent
                           /\ r.inode[y].type = inode[y].type
    BY <1>4, <1>5
  <1> QED
    BY <1>1, <1>5, <1>8, <1>9, <1>10, <1>11, <1>12 DEF Sized, e

\* An inode more, with the buffer f gives it.
LEMMA TableAdd ==
    ASSUME NEW ino, TableOK(ino), NEW b, NEW rd, Owned(Holds(ino), b, rd), NEW p \in 1 .. Len(ino),
           NEW child \in Record(Len(ino) + 1), child.children = << >>, child.ref_count = 1,
           NEW len \in Nat \ {0}, NEW f,
           \/ child.fs_data = NULL /\ f = b
           \/ child.fs_data \in Buf /\ b[child.fs_data] = 0 /\ f = [b EXCEPT ![child.fs_data] = len],
           child.size = IF child.fs_data = NULL THEN 0 ELSE len,
           NEW t, t = add_child(ino, p, child)
    PROVE  /\ TableOK(t) /\ Owned(Holds(t), f, rd) /\ Extends(ino, t)
           /\ Sized(ino, b) => Sized(t, f)
  <1> DEFINE n == Len(ino)
  <1>1. /\ TableOK(t) /\ Len(t) = n + 1 /\ t[n + 1] = child
        /\ \A y \in 1 .. n : Alike(t[y], ino[y])
    BY AddChild
  <1>2. n \in Nat /\ 1 .. n + 1 = 1 .. n \cup {n + 1} /\ n + 1 \notin 1 .. n
    BY DEF TableOK
  <1> HIDE DEF n
  <1>3. Gets(Holds(ino), b, n + 1, child.fs_data, len, Holds(t), f)
    <2>1. DOMAIN Holds(ino) = 1 .. n /\ \A y \in 1 .. n : Holds(ino)[y] = ino[y].fs_data
      BY DEF Holds, n
    <2>2. DOMAIN Holds(t) = 1 .. n + 1 /\ \A y \in 1 .. n + 1 : Holds(t)[y] = t[y].fs_data
      BY <1>1 DEF Holds
    <2>3. \A y \in 1 .. n : Holds(t)[y] = Holds(ino)[y]
      BY <1>1, <1>2, <2>1, <2>2 DEF Alike
    <2>4. Holds(t)[n + 1] = child.fs_data
      BY <1>1, <1>2, <2>2
    <2>5. DOMAIN Holds(t) = DOMAIN Holds(ino) \cup {n + 1} /\ n + 1 \notin DOMAIN Holds(ino)
      BY <1>2, <2>1, <2>2
    <2>6. \A y \in DOMAIN Holds(ino) : y # n + 1 => Holds(t)[y] = Holds(ino)[y]
      BY <2>1, <2>3
    <2> QED
      BY <2>4, <2>5, <2>6 DEF Gets
  <1>4. /\ Owned(Holds(t), f, rd)
        /\ \A y \in DOMAIN Holds(ino) : Holds(ino)[y] # NULL => f[Holds(ino)[y]] = b[Holds(ino)[y]]
        /\ child.fs_data # NULL => f[child.fs_data] = len
    BY <1>3, OwnedGive
  <1>5. ASSUME Sized(ino, b), NEW y \in 1 .. n + 1
        PROVE  t[y].size <= Room(t[y], f)
    <2>1. CASE y \in 1 .. n
      <3>1. ino[y].size <= Room(ino[y], b)
        BY <1>5, <2>1 DEF Sized, n
      <3>2. t[y].size = ino[y].size /\ t[y].fs_data = ino[y].fs_data
        BY <1>1, <2>1 DEF Alike
      <3>3. y \in DOMAIN Holds(ino) /\ Holds(ino)[y] = ino[y].fs_data
        BY <2>1 DEF Holds, n
      <3>4. ino[y].fs_data # NULL => f[ino[y].fs_data] = b[ino[y].fs_data]
        BY <1>4, <3>3
      <3> QED
        BY <3>1, <3>2, <3>4 DEF Room
    <2>2. CASE y = n + 1
      <3>1. Room(t[y], f) = IF child.fs_data = NULL THEN 0 ELSE len
        BY <1>1, <1>4, <2>2 DEF Room
      <3> QED
        BY <1>1, <2>2, <3>1
    <2> QED
      BY <1>2, <2>1, <2>2
  <1>6. Extends(ino, t)
    BY <1>1 DEF Extends, Alike, n
  <1> QED
    BY <1>1, <1>4, <1>5, <1>6 DEF Sized

\* vfs_create_file of a new file.
LEMMA FileMade ==
    ASSUME TableOK(inode), NEW b, NEW rd, Owned(Holds(inode), b, rd), NEW p \in 1 .. Len(inode),
           NEW name \in Name \cup Special, NEW len \in Nat, NEW r \in new_file(b, p, name, len)
    PROVE  /\ TableOK(r.inode) /\ Owned(Holds(r.inode), r.buffers, rd) /\ Extends(inode, r.inode)
           /\ Sized(inode, b) => Sized(r.inode, r.buffers)
           /\ \E child \in Record(Len(inode) + 1) :
                /\ child.children = << >> /\ child.name = name /\ child.type = "FILE"
                /\ child.size = len /\ r.inode = add_child(inode, p, child)
  <1> DEFINE C(s) == [alloc_inode("FILE", name, p) EXCEPT !.fs_data = s.data, !.size = len]
             K == kmalloc(b, len)
             l == IF len = 0 THEN 1 ELSE len
  <1>1. PICK s : /\ IF len = 0 THEN s = [data |-> NULL, buffers |-> b] ELSE s \in K /\ s.data # NULL
                 /\ r.inode = add_child(inode, p, C(s)) /\ r.buffers = s.buffers
    <2> DEFINE A(s) == add_child(inode, p, C(s))
               Z == [data |-> NULL, buffers |-> b]
    <2>1. r \in {[inode |-> A(s), buffers |-> s.buffers, ok |-> TRUE] :
                    s \in IF len = 0 THEN {Z} ELSE {q \in K : q.data # NULL}}
      BY DEF new_file
    <2> HIDE DEF A, K, Z
    <2>2. \E s : /\ IF len = 0 THEN s = Z ELSE s \in K /\ s.data # NULL
                 /\ r.inode = A(s) /\ r.buffers = s.buffers
      <3>1. CASE len = 0
        BY <2>1, <3>1
      <3>2. CASE len # 0
        BY <2>1, <3>2
      <3> QED
        BY <3>1, <3>2
    <2> QED
      BY <2>2 DEF A, Z
  <1>2. /\ l \in Nat \ {0} /\ s.data \in Buf \cup {NULL} /\ len = IF s.data = NULL THEN 0 ELSE l
        /\ \/ s.data = NULL /\ s.buffers = b
           \/ s.data \in Buf /\ b[s.data] = 0 /\ s.buffers = [b EXCEPT ![s.data] = l]
    <2>1. CASE len = 0
      BY <1>1, <2>1
    <2>2. CASE len # 0
      <3>1. s \in kmalloc(b, len) /\ l = len /\ s.data # NULL
        BY <1>1, <2>2
      <3> QED
        BY <2>2, <3>1, KmallocIs
    <2> QED
      BY <2>1, <2>2
  <1> DEFINE child == C(s)
  <1>3. /\ child \in Record(Len(inode) + 1) /\ child.children = << >> /\ child.ref_count = 1
        /\ child.fs_data = s.data /\ child.size = len /\ child.type = "FILE" /\ child.name = name
    <2>1. p \in 0 .. Len(inode) + 1
      BY DEF TableOK
    <2>2. << >> \in Seq(1 .. Len(inode) + 1)
      BY EmptySeq
    <2> QED
      BY <1>2, <2>1, <2>2 DEF alloc_inode, Record
  <1>4. r.inode = add_child(inode, p, child) /\ r.buffers = s.buffers
    BY <1>1
  <1> HIDE DEF child, l
  <1> DEFINE f == s.buffers
             t == r.inode
  <1>5. /\ child.size = IF child.fs_data = NULL THEN 0 ELSE l
        /\ \/ child.fs_data = NULL /\ f = b
           \/ child.fs_data \in Buf /\ b[child.fs_data] = 0 /\ f = [b EXCEPT ![child.fs_data] = l]
    BY <1>2, <1>3
  <1>6. t = add_child(inode, p, child)
    BY <1>4
  <1> HIDE DEF f, t
  <1>7. TableOK(t) /\ Owned(Holds(t), f, rd) /\ Extends(inode, t) /\ (Sized(inode, b) => Sized(t, f))
    BY <1>2, <1>3, <1>5, <1>6, TableAdd
  <1> QED
    BY <1>3, <1>4, <1>7 DEF f, t

\* vfs_create_file keeps the table and the buffers in order.
LEMMA Created ==
    ASSUME TableOK(inode), NEW b, NEW rd, Owned(Holds(inode), b, rd), NEW path \in Paths,
           NEW len \in Nat, NEW r \in create_results(b, path, len)
    PROVE  /\ TableOK(r.inode) /\ Owned(Holds(r.inode), r.buffers, rd) /\ Extends(inode, r.inode)
           /\ Sized(inode, b) => Sized(r.inode, r.buffers)
  <1> DEFINE parent == lookup_path(inode, Front(path))
             existing == lookup_path(inode, path)
  <1>1. /\ parent \in 0 .. Len(inode) /\ existing \in 0 .. Len(inode)
        /\ Last(path) \in Name \cup Special /\ Len(inode) \in Nat
    <2>1. Len(path) \in Nat /\ Len(Front(path)) \in Nat
      BY PathIs, LenProperties
    <2> QED
      BY <2>1, LookupType, PathIs DEF TableOK
  <1> HIDE DEF parent, existing
  <1>2. \/ r = [inode |-> inode, buffers |-> b, ok |-> FALSE]
        \/ existing # NULL /\ r \in replace_data(b, existing, len)
        \/ parent # NULL /\ r \in new_file(b, parent, Last(path), len)
    BY DEF create_results, parent, existing
  <1>3. CASE r = [inode |-> inode, buffers |-> b, ok |-> FALSE]
    BY <1>3 DEF Extends
  <1>4. CASE existing # NULL /\ r \in replace_data(b, existing, len)
    <2>1. existing \in 1 .. Len(inode)
      BY <1>1, <1>4 DEF NULL
    <2> QED
      BY <1>4, <2>1, DataReplaced
  <1>5. CASE parent # NULL /\ r \in new_file(b, parent, Last(path), len)
    <2>1. parent \in 1 .. Len(inode)
      BY <1>1, <1>5 DEF NULL
    <2> QED
      BY <1>1, <1>5, <2>1, FileMade
  <1> QED
    BY <1>2, <1>3, <1>4, <1>5

\* What vfs_mkdir returns.
LEMMA MkdirIs ==
    ASSUME TableOK(inode), NEW path \in Paths, NEW r \in mkdir_results(path)
    PROVE  \/ r.inode = inode /\ r.ok = FALSE
           \/ /\ lookup_path(inode, Front(path)) \in 1 .. Len(inode)
              /\ \E child \in Record(Len(inode) + 1) :
                   /\ child.children = << >> /\ child.name = Last(path) /\ child.type = "DIR"
                   /\ child.size = 0 /\ child.fs_data = NULL /\ child.ref_count = 1
                   /\ r.inode = add_child(inode, lookup_path(inode, Front(path)), child)
  <1> DEFINE parent == lookup_path(inode, Front(path))
             type == "DIR"
             name == Last(path)
             child == alloc_inode(type, name, parent)
  <1>1. /\ parent \in 0 .. Len(inode) /\ name \in Name \cup Special /\ Len(inode) \in Nat
        /\ type \in {"FILE", "DIR"}
    <2>1. Len(Front(path)) \in Nat
      BY PathIs, LenProperties
    <2> QED
      BY <2>1, LookupType, PathIs DEF TableOK
  <1>2. \/ r.inode = inode /\ r.ok = FALSE
        \/ parent # NULL /\ r.inode = add_child(inode, parent, child)
    BY DEF mkdir_results
  <1> HIDE DEF parent, type, name
  <1>3. ASSUME parent # NULL
        PROVE  /\ child \in Record(Len(inode) + 1) /\ child.children = << >> /\ child.ref_count = 1
               /\ child.fs_data = NULL /\ child.size = 0 /\ child.type = type /\ child.name = name
    <2>1. parent \in 0 .. Len(inode) + 1
      BY <1>1
    <2>2. << >> \in Seq(1 .. Len(inode) + 1)
      BY EmptySeq
    <2> QED
      BY <1>1, <2>1, <2>2 DEF alloc_inode, Record
  <1>4. parent # NULL => parent \in 1 .. Len(inode)
    BY <1>1 DEF NULL
  <1> HIDE DEF child
  <1> QED
    BY <1>2, <1>3, <1>4 DEF parent, type, name

LEMMA Made ==
    ASSUME TableOK(inode), NEW b, NEW rd, Owned(Holds(inode), b, rd), NEW path \in Paths,
           NEW r \in mkdir_results(path)
    PROVE  /\ TableOK(r.inode) /\ Owned(Holds(r.inode), b, rd) /\ Extends(inode, r.inode)
           /\ Sized(inode, b) => Sized(r.inode, b)
  <1> DEFINE parent == lookup_path(inode, Front(path))
             t == r.inode
             len == 1
             f == b
  <1>1. CASE t = inode
    BY <1>1 DEF Extends
  <1>2. ASSUME parent \in 1 .. Len(inode), NEW child \in Record(Len(inode) + 1),
               child.children = << >>, child.size = 0, child.fs_data = NULL, child.ref_count = 1,
               t = add_child(inode, parent, child)
        PROVE  TableOK(t) /\ Owned(Holds(t), b, rd) /\ Extends(inode, t) /\ (Sized(inode, b) => Sized(t, b))
    <2>1. /\ child.size = IF child.fs_data = NULL THEN 0 ELSE len
          /\ len \in Nat \ {0} /\ f = b
          /\ \/ child.fs_data = NULL /\ f = b
             \/ child.fs_data \in Buf /\ b[child.fs_data] = 0 /\ f = [b EXCEPT ![child.fs_data] = len]
      BY <1>2
    <2> HIDE DEF parent, t, len, f
    <2>2. TableOK(t) /\ Owned(Holds(t), f, rd) /\ Extends(inode, t) /\ (Sized(inode, b) => Sized(t, f))
      BY <1>2, <2>1, TableAdd
    <2> QED
      BY <2>1, <2>2
  <1> QED
    BY <1>1, <1>2, MkdirIs

-----------------------------------------------------------------------------
(***************************************************************************)
(* The descriptors, and the invariant.                                     *)
(***************************************************************************)
Descriptor(n) ==
    [used: BOOLEAN, flags: SUBSET {"RDONLY", "WRONLY", "TRUNC"}, offset: 0 .. OffMod - 1, inode: 0 .. n]

FilesOK(of, n) ==
    /\ of \in [Fd -> Descriptor(n)]
    /\ \A fd \in Fd : of[fd].used => of[fd].inode # NULL

OpenOn(of, x) == {fd \in Fd : of[fd].used /\ of[fd].inode = x}

Counted(ino, of) == \A x \in 1 .. Len(ino) : ino[x].ref_count = 1 + Cardinality(OpenOn(of, x))

VfsInv ==
    /\ TableOK(inode)
    /\ FilesOK(open_files, Len(inode))
    /\ Counted(inode, open_files)
    /\ ramdisk_files \in Seq(Buf \cup {NULL})
    /\ Owned(Holds(inode), buffers, ramdisk_files)
    /\ fault = "none" => Sized(inode, buffers)
    /\ fs_count \in 0 .. FsMax

LEMMA Bounds ==
    /\ FdCount \in Nat /\ FsMax \in Nat /\ Assumed \in Nat /\ MaxOffset \in Nat
    /\ OffMod \in Nat \ {0} /\ OffMod > MaxOffset /\ 0 \in 0 .. OffMod - 1
  <1>1. FdCount \in Nat /\ FsMax \in Nat /\ Assumed \in Nat /\ MaxOffset \in Nat
    BY VfsAssumption
  <1>2. OffMod \in Nat /\ OffMod > MaxOffset
    BY VfsAssumption
  <1> QED
    BY <1>1, <1>2

LEMMA OpenIsFinite ==
    ASSUME NEW of, NEW x
    PROVE  IsFiniteSet(OpenOn(of, x)) /\ Cardinality(OpenOn(of, x)) \in Nat
  <1>1. IsFiniteSet(Fd)
    BY Bounds, FS_Interval DEF Fd
  <1>2. OpenOn(of, x) \subseteq Fd
    BY DEF OpenOn
  <1> QED
    BY <1>1, <1>2, FS_Subset, FS_CardinalityType

\* A new inode is open on no descriptor.
LEMMA Grown ==
    ASSUME NEW ino, NEW t, NEW of, Len(ino) \in Nat, Extends(ino, t), FilesOK(of, Len(ino)), Counted(ino, of)
    PROVE  FilesOK(of, Len(t)) /\ Counted(t, of)
  <1> DEFINE n == Len(ino)
             m == Len(t)
  <1>1. n \in Nat /\ (m = n \/ (m = n + 1 /\ t[n + 1].ref_count = 1))
    BY DEF Extends
  <1>2. \A x \in 1 .. n : t[x].ref_count = 1 + Cardinality(OpenOn(of, x))
    BY DEF Extends, Counted
  <1>3. of \in [Fd -> Descriptor(n)] /\ \A fd \in Fd : of[fd].used => of[fd].inode # NULL
    BY DEF FilesOK
  <1> HIDE DEF n, m
  <1>4. 0 .. n \subseteq 0 .. m
    BY <1>1
  <1>5. of \in [Fd -> Descriptor(m)]
    <2>1. ASSUME NEW fd \in Fd
          PROVE  of[fd] \in Descriptor(m)
      BY <1>3, <1>4 DEF Descriptor
    <2> QED
      BY <1>3, <2>1
  <1>6. OpenOn(of, n + 1) = {}
    <2>1. ASSUME NEW fd \in Fd
          PROVE  of[fd].inode # n + 1
      <3>1. of[fd].inode \in 0 .. n
        BY <1>3 DEF Descriptor
      <3> QED
        BY <1>1, <3>1
    <2> QED
      BY <2>1 DEF OpenOn
  <1>7. ASSUME NEW x \in 1 .. m
        PROVE  t[x].ref_count = 1 + Cardinality(OpenOn(of, x))
    <2>1. CASE x \in 1 .. n
      BY <1>2, <2>1
    <2>2. CASE x \notin 1 .. n
      <3>1. x = n + 1 /\ t[n + 1].ref_count = 1
        BY <1>1, <2>2
      <3>2. Cardinality(OpenOn(of, x)) = 0
        BY <1>6, <3>1, FS_EmptySet
      <3> QED
        BY <3>1, <3>2
    <2> QED
      BY <2>1, <2>2
  <1> QED
    BY <1>3, <1>5, <1>7 DEF FilesOK, Counted, m

LEMMA InitHolds == Init => VfsInv
  <1> SUFFICES ASSUME Init
               PROVE  VfsInv
    OBVIOUS
  <1> DEFINE root == alloc_inode("DIR", "", NULL)
  <1>1. inode = <<root>> /\ Len(inode) = 1 /\ inode[1] = root
    BY DEF Init
  <1>2. root \in Record(1) /\ root.children = << >> /\ root.ref_count = 1 /\ root.fs_data = NULL /\ root.size = 0
    <2>1. << >> \in Seq(1 .. 1)
      BY EmptySeq
    <2> QED
      BY <2>1 DEF alloc_inode, Record, NULL, Special
  <1> HIDE DEF root
  <1>3. TableOK(inode)
    <2>1. inode \in [1 .. 1 -> Record(1)]
      BY <1>1, <1>2
    <2>2. Growing(inode)
      <3>1. Len(root.children) = 0
        BY <1>2, EmptySeq
      <3> QED
        BY <1>1, <3>1 DEF Growing
    <2> QED
      BY <1>1, <2>1, <2>2 DEF TableOK
  <1>4. FilesOK(open_files, 1)
    <2>1. [used |-> FALSE, flags |-> {}, offset |-> 0, inode |-> NULL] \in Descriptor(1)
      BY Bounds DEF Descriptor, NULL
    <2> QED
      BY <2>1 DEF Init, FilesOK
  <1>5. Counted(inode, open_files)
    <2>1. OpenOn(open_files, 1) = {}
      BY DEF Init, OpenOn
    <2>2. Cardinality(OpenOn(open_files, 1)) = 0
      BY <2>1, FS_EmptySet
    <2> QED
      BY <1>1, <1>2, <2>2 DEF Counted
  <1>6. ramdisk_files = << >> /\ << >> \in Seq(Buf \cup {NULL}) /\ DOMAIN << >> = {}
    <2>1. << >> \in Seq(Buf \cup {NULL}) /\ Len(<< >>) = 0
      BY EmptySeq
    <2>2. DOMAIN << >> = {}
      BY <2>1, LenProperties
    <2> QED
      BY <2>1, <2>2 DEF Init
  <1>7. Owned(Holds(inode), buffers, << >>)
    <2>1. Holds(inode) = [x \in 1 .. 1 |-> NULL]
      BY <1>1, <1>2 DEF Holds
    <2>2. buffers = [b \in Buf |-> 0]
      BY DEF Init
    <2> QED
      BY <1>6, <2>1, <2>2 DEF Owned
  <1>8. Sized(inode, buffers)
    BY <1>1, <1>2 DEF Sized, Room
  <1>9. fs_count \in 0 .. FsMax
    <2>1. fs_count = 0
      BY DEF Init
    <2>2. FsMax \in Nat
      BY Bounds
    <2> QED
      BY <2>1, <2>2
  <1> QED
    BY <1>1, <1>3, <1>4, <1>5, <1>6, <1>7, <1>8, <1>9 DEF VfsInv

\* vfs_mkdir and vfs_mount.
LEMMA MkdirKeeps ==
    ASSUME VfsInv, NEW path \in Paths, \E r \in mkdir_results(path) : inode' = r.inode,
           UNCHANGED <<open_files, buffers, tables, fault>>
    PROVE  VfsInv'
  <1>1. PICK r \in mkdir_results(path) : inode' = r.inode
    OBVIOUS
  <1>2. /\ TableOK(inode') /\ Owned(Holds(inode'), buffers, ramdisk_files) /\ Extends(inode, inode')
        /\ Sized(inode, buffers) => Sized(inode', buffers)
    BY <1>1, Made DEF VfsInv
  <1>3. FilesOK(open_files, Len(inode')) /\ Counted(inode', open_files)
    BY <1>2, Grown DEF VfsInv, TableOK
  <1> QED
    BY <1>2, <1>3 DEF VfsInv, tables

LEMMA CreateKeeps ==
    ASSUME VfsInv, NEW path \in Paths, NEW len \in Nat, vfs_create_file(path, len)
    PROVE  VfsInv'
  <1>1. PICK r \in create_results(buffers, path, len) : inode' = r.inode /\ buffers' = r.buffers
    BY DEF vfs_create_file
  <1>2. /\ TableOK(inode') /\ Owned(Holds(inode'), buffers', ramdisk_files) /\ Extends(inode, inode')
        /\ Sized(inode, buffers) => Sized(inode', buffers')
    BY <1>1, Created DEF VfsInv
  <1>3. FilesOK(open_files, Len(inode')) /\ Counted(inode', open_files)
    BY <1>2, Grown DEF VfsInv, TableOK
  <1> QED
    BY <1>2, <1>3 DEF VfsInv, vfs_create_file, tables

\* The ramdisk keeps a buffer of its own before it creates the file.
LEMMA RamdiskKeeps ==
    ASSUME VfsInv, NEW path \in Paths, NEW len \in Nat, ramdisk_create_file(path, len)
    PROVE  VfsInv'
  <1> DEFINE Z == [data |-> NULL, buffers |-> buffers]
             K == kmalloc(buffers, len)
             l == IF len = 0 THEN 1 ELSE len
             rd == ramdisk_files
  <1>1. PICK g \in IF len = 0 THEN {Z} ELSE K :
          /\ ramdisk_files' = Append(rd, g.data)
          /\ \E r \in create_results(g.buffers, path, len) : inode' = r.inode /\ buffers' = r.buffers
    BY DEF ramdisk_create_file
  <1> DEFINE v == g.data
             f == g.buffers
             e == Append(rd, v)
  <1>2. /\ l \in Nat \ {0}
        /\ \/ v = NULL /\ f = buffers
           \/ v \in Buf /\ buffers[v] = 0 /\ f = [buffers EXCEPT ![v] = l]
    <2>1. CASE len = 0
      BY <1>1, <2>1
    <2>2. CASE len # 0
      <3>1. g \in kmalloc(buffers, len) /\ l = len
        BY <1>1, <2>2
      <3> QED
        BY <2>2, <3>1, KmallocIs
    <2> QED
      BY <2>1, <2>2
  <1> HIDE DEF Z, K, l, v, f
  <1>3. rd \in Seq(Buf \cup {NULL}) /\ v \in Buf \cup {NULL}
    BY <1>2 DEF VfsInv
  <1>4. e \in Seq(Buf \cup {NULL}) /\ Gets(rd, buffers, Len(rd) + 1, v, l, e, f)
    <2> DEFINE n == Len(rd)
    <2>1. /\ e \in Seq(Buf \cup {NULL}) /\ Len(e) = n + 1
          /\ \A i \in 1 .. n : e[i] = rd[i]
          /\ e[n + 1] = v
      BY <1>3, AppendProperties
    <2>2. n \in Nat /\ DOMAIN rd = 1 .. n /\ DOMAIN e = 1 .. Len(e)
      BY <1>3, <2>1, LenProperties
    <2> HIDE DEF n, e, rd
    <2>3. DOMAIN e = DOMAIN rd \cup {n + 1} /\ n + 1 \notin DOMAIN rd
      BY <2>1, <2>2
    <2> QED
      BY <1>2, <2>1, <2>2, <2>3 DEF Gets, n
  <1> HIDE DEF e
  <1>5. /\ Owned(e, f, Holds(inode))
        /\ \A y \in DOMAIN rd : rd[y] # NULL => f[rd[y]] = buffers[rd[y]]
    BY <1>4, OwnedGive, OwnedSwap DEF VfsInv
  <1>6. Owned(Holds(inode), f, e)
    BY <1>5, OwnedSwap
  \* The files hold what they held: the new buffer was free.
  <1>7. Sized(inode, buffers) => Sized(inode, f)
    <2>1. ASSUME NEW x \in 1 .. Len(inode)
          PROVE  Room(inode[x], f) = Room(inode[x], buffers)
      <3>1. Holds(inode)[x] = inode[x].fs_data /\ x \in DOMAIN Holds(inode)
        BY DEF Holds
      <3>2. inode[x].fs_data # NULL => inode[x].fs_data \in Buf /\ buffers[inode[x].fs_data] > 0
        BY <3>1 DEF VfsInv, Owned
      <3>3. buffers \in [Buf -> Nat]
        BY DEF VfsInv, Owned
      <3> QED
        BY <1>2, <3>2, <3>3 DEF Room
    <2> QED
      BY <2>1 DEF Sized
  <1>8. PICK r \in create_results(f, path, len) : inode' = r.inode /\ buffers' = r.buffers
    BY <1>1 DEF f
  <1>9. /\ TableOK(inode') /\ Owned(Holds(inode'), buffers', e) /\ Extends(inode, inode')
        /\ Sized(inode, f) => Sized(inode', buffers')
    BY <1>6, <1>8, Created DEF VfsInv
  <1>10. FilesOK(open_files, Len(inode')) /\ Counted(inode', open_files)
    BY <1>9, Grown DEF VfsInv, TableOK
  <1>11. ramdisk_files' = e
    BY <1>1 DEF e, v
  <1> QED
    BY <1>4, <1>7, <1>9, <1>10, <1>11 DEF VfsInv, ramdisk_create_file

\* A record whose place in the tree and whose buffer are kept.
LEMMA RecordEdit ==
    ASSUME VfsInv, NEW x \in 1 .. Len(inode), NEW u \in Record(Len(inode)),
           u.children = inode[x].children, u.fs_data = inode[x].fs_data,
           NEW t, Edited(inode, x, u, t)
    PROVE  /\ TableOK(t) /\ Len(t) = Len(inode) /\ t[x] = u
           /\ \A y \in 1 .. Len(inode) : y # x => t[y] = inode[y]
           /\ Owned(Holds(t), buffers, ramdisk_files)
           /\ u.size <= Room(u, buffers) /\ Sized(inode, buffers) => Sized(t, buffers)
  <1>1. /\ TableOK(t) /\ Len(t) = Len(inode) /\ t[x] = u
        /\ \A y \in 1 .. Len(inode) : y # x => t[y] = inode[y]
    <2>1. TableOK(inode)
      BY DEF VfsInv
    <2> QED
      BY <2>1, TableEdit
  <1>2. Holds(t) = Holds(inode)
    <2>1. \A y \in 1 .. Len(inode) : t[y].fs_data = inode[y].fs_data
      BY <1>1
    <2> QED
      BY <1>1, <2>1 DEF Holds
  <1>3. ASSUME u.size <= Room(u, buffers), Sized(inode, buffers), NEW y \in 1 .. Len(inode)
        PROVE  t[y].size <= Room(t[y], buffers)
    BY <1>1, <1>3 DEF Sized
  <1> QED
    BY <1>1, <1>2, <1>3 DEF VfsInv, Sized

Moved(fd, o, of) == of = [open_files EXCEPT ![fd].offset = o]

\* A descriptor whose inode and use are kept.
LEMMA OffsetEdit ==
    ASSUME VfsInv, NEW fd \in Fd, NEW o \in 0 .. OffMod - 1, NEW of, Moved(fd, o, of)
    PROVE  /\ FilesOK(of, Len(inode)) /\ of[fd].offset = o
           /\ \A x : OpenOn(of, x) = OpenOn(open_files, x)
  <1> DEFINE n == Len(inode)
  <1>1. open_files \in [Fd -> Descriptor(n)] /\ \A d \in Fd : open_files[d].used => open_files[d].inode # NULL
    BY DEF VfsInv, FilesOK
  <1> HIDE DEF n
  <1>2. ASSUME NEW d \in Fd
        PROVE  /\ of[d] \in Descriptor(n) /\ of[d].used = open_files[d].used
               /\ of[d].inode = open_files[d].inode
    BY <1>1 DEF Descriptor, Moved
  <1>3. DOMAIN of = Fd /\ of = [d \in Fd |-> of[d]] /\ of[fd].offset = o
    BY <1>1 DEF Descriptor, Moved
  <1>4. of \in [Fd -> Descriptor(n)]
    BY <1>2, <1>3
  <1>5. \A d \in Fd : of[d].used => of[d].inode # NULL
    BY <1>1, <1>2
  <1>6. \A x : OpenOn(of, x) = OpenOn(open_files, x)
    BY <1>2 DEF OpenOn
  <1> QED
    BY <1>3, <1>4, <1>5, <1>6 DEF FilesOK, n

LEMMA ModRange ==
    ASSUME NEW a \in Int, NEW m \in Nat \ {0}
    PROVE  a % m \in 0 .. m - 1
  OBVIOUS

LEMMA ModLess ==
    ASSUME NEW a \in Nat, NEW m \in Nat \ {0}
    PROVE  a % m <= a
  OBVIOUS

\* What the calls on a descriptor find.
LEMMA UsedIs ==
    ASSUME VfsInv, NEW fd \in Fd, open_files[fd].used
    PROVE  /\ open_files[fd].inode \in 1 .. Len(inode)
           /\ inode[open_files[fd].inode] \in Record(Len(inode))
  <1>1. open_files[fd] \in Descriptor(Len(inode)) /\ open_files[fd].inode # NULL
    BY DEF VfsInv, FilesOK
  <1>2. open_files[fd].inode \in 0 .. Len(inode) /\ Len(inode) \in Nat
    BY <1>1 DEF Descriptor, VfsInv, TableOK
  <1>3. open_files[fd].inode \in 1 .. Len(inode)
    BY <1>1, <1>2 DEF NULL
  <1> QED
    BY <1>3, RecordIs DEF VfsInv

LEMMA OffsetIs ==
    ASSUME VfsInv, NEW fd \in Fd
    PROVE  open_files[fd].offset \in 0 .. OffMod - 1
  BY DEF VfsInv, FilesOK, Descriptor

LEMMA SeekKeeps ==
    ASSUME VfsInv, NEW fd \in Fd, NEW offset \in Int, NEW whence \in {"SET", "CUR", "END"},
           vfs_seek(fd, offset, whence)
    PROVE  VfsInv'
  <1> DEFINE f == open_files[fd]
             base == CASE whence = "SET" -> 0
                       [] whence = "CUR" -> f.offset
                       [] whence = "END" -> inode[f.inode].size
             o == IF base + offset < 0 THEN 0 ELSE base + offset
  <1>1. /\ f.used /\ o <= MaxOffset /\ Moved(fd, o, open_files')
        /\ UNCHANGED <<inode, buffers, tables, fault>>
    BY DEF vfs_seek, Moved
  <1>2. base \in Int
    <2>1. f.offset \in Int
      BY Bounds, OffsetIs
    <2>2. inode[f.inode].size \in Int
      BY <1>1, UsedIs DEF Record
    <2> HIDE DEF f
    <2> QED
      BY <2>1, <2>2
  <1> HIDE DEF base
  <1>3. o \in 0 .. OffMod - 1
    BY <1>1, <1>2, Bounds
  <1> HIDE DEF o, f
  <1>4. FilesOK(open_files', Len(inode)) /\ \A x : OpenOn(open_files', x) = OpenOn(open_files, x)
    BY <1>1, <1>3, OffsetEdit
  <1>5. Counted(inode, open_files')
    BY <1>4 DEF VfsInv, Counted
  <1> QED
    BY <1>1, <1>4, <1>5 DEF VfsInv, tables

\* A copy moves the offset to its end, or around.
LEMMA CopyMoves ==
    ASSUME VfsInv, NEW fd \in Fd, NEW n \in Nat, NEW kind, Copy(fd, n, kind)
    PROVE  /\ FilesOK(open_files', Len(inode)) /\ Counted(inode, open_files')
           /\ \A x : OpenOn(open_files', x) = OpenOn(open_files, x)
           /\ open_files'[fd].offset \in Nat
           /\ open_files'[fd].offset <= open_files[fd].offset + n
  <1> DEFINE a == open_files[fd].offset + n
             o == a % OffMod
  <1>1. a \in Nat
    BY Bounds, OffsetIs
  <1>2. Moved(fd, o, open_files')
    BY DEF Copy, Moved
  <1> HIDE DEF a
  <1>3. o \in 0 .. OffMod - 1 /\ o <= a
    <2>1. OffMod \in Nat \ {0} /\ a \in Int
      BY <1>1, Bounds
    <2>2. a % OffMod \in 0 .. OffMod - 1
      BY <2>1, ModRange
    <2>3. a % OffMod <= a
      BY <1>1, <2>1, ModLess
    <2> QED
      BY <2>2, <2>3
  <1> HIDE DEF o
  <1>4. /\ FilesOK(open_files', Len(inode)) /\ open_files'[fd].offset = o
        /\ \A x : OpenOn(open_files', x) = OpenOn(open_files, x)
    BY <1>2, <1>3, OffsetEdit
  <1>5. Counted(inode, open_files')
    BY <1>4 DEF VfsInv, Counted
  <1>6. o \in Nat
    BY <1>3, Bounds
  <1> QED
    BY <1>3, <1>4, <1>5, <1>6 DEF a

LEMMA ReadKeeps ==
    ASSUME VfsInv, NEW fd \in Fd, NEW len \in Nat, vfs_read(fd, len)
    PROVE  VfsInv'
  <1> DEFINE f == open_files[fd]
             avail == (inode[f.inode].size - f.offset) % OffMod
             n == Clipped(len, avail)
  <1>1. f.used /\ Copy(fd, n, "read") /\ UNCHANGED <<inode, buffers, tables>>
    BY DEF vfs_read, Accessible
  <1>2. n \in Nat
    <2>1. inode[f.inode].size \in Int /\ f.offset \in Int
      BY <1>1, Bounds, UsedIs, OffsetIs DEF Record
    <2>2. avail \in Nat
      <3> DEFINE z == inode[f.inode].size - f.offset
      <3>1. z \in Int
        BY <2>1
      <3> HIDE DEF z
      <3>2. z % OffMod \in Nat
        BY <3>1, Bounds, ModRange
      <3> QED
        BY <3>2 DEF z
    <2> HIDE DEF avail
    <2> QED
      BY <2>2 DEF Clipped
  <1> HIDE DEF n
  <1>3. FilesOK(open_files', Len(inode)) /\ Counted(inode, open_files')
    BY <1>1, <1>2, CopyMoves
  <1>4. fault' = "none" => fault = "none"
    BY <1>1 DEF Copy
  <1> QED
    BY <1>1, <1>3, <1>4 DEF VfsInv, tables

LEMMA WriteKeeps ==
    ASSUME VfsInv, NEW fd \in Fd, NEW len \in Nat, vfs_write(fd, len)
    PROVE  VfsInv'
  <1> DEFINE f == open_files[fd]
             x == f.inode
             z == Assumed - f.offset
             n == Clipped(len, z % OffMod)
             o == open_files'[fd].offset
             size == IF o > inode[x].size THEN o ELSE inode[x].size
             u == [inode[x] EXCEPT !.size = size]
  <1>1. /\ f.used /\ inode[x].fs_data # NULL /\ Copy(fd, n, "write") /\ UNCHANGED <<buffers, tables>>
        /\ inode' = [inode EXCEPT ![x].size = size]
    BY DEF vfs_write, Accessible
  <1>2. x \in 1 .. Len(inode) /\ inode[x] \in Record(Len(inode)) /\ f.offset \in 0 .. OffMod - 1
    BY <1>1, UsedIs, OffsetIs
  <1>3. n \in Nat
    <2>1. z \in Int
      BY <1>2, Bounds
    <2> HIDE DEF z
    <2>2. z % OffMod \in Nat
      BY <2>1, Bounds, ModRange
    <2> QED
      BY <2>2 DEF Clipped
  <1> HIDE DEF n
  <1>4. /\ FilesOK(open_files', Len(inode)) /\ Counted(inode, open_files') /\ o \in Nat
        /\ o <= f.offset + n
    BY <1>1, <1>3, CopyMoves
  <1> HIDE DEF o
  <1>5. size \in Nat
    BY <1>2, <1>4 DEF Record
  <1>6. /\ u \in Record(Len(inode)) /\ u.children = inode[x].children /\ u.fs_data = inode[x].fs_data
        /\ u.size = size /\ u.ref_count = inode[x].ref_count
    <2> HIDE DEF size
    <2> QED
      BY <1>2, <1>5 DEF Record
  <1>7. Edited(inode, x, u, inode')
    <2>1. inode \in [1 .. Len(inode) -> Record(Len(inode))]
      BY DEF VfsInv, TableOK
    <2> HIDE DEF size, x
    <2> QED
      BY <1>1, <1>2, <2>1 DEF Edited
  <1> HIDE DEF u, x, size
  <1>8. /\ TableOK(inode') /\ Len(inode') = Len(inode) /\ inode'[x] = u
        /\ \A y \in 1 .. Len(inode) : y # x => inode'[y] = inode[y]
        /\ Owned(Holds(inode'), buffers, ramdisk_files)
        /\ u.size <= Room(u, buffers) /\ Sized(inode, buffers) => Sized(inode', buffers)
    BY <1>2, <1>6, <1>7, RecordEdit
  <1>9. fault' = "none" => fault = "none" /\ Sized(inode', buffers)
    <2> SUFFICES ASSUME fault' = "none"
                 PROVE  fault = "none" /\ Sized(inode', buffers)
      OBVIOUS
    <2>1. fault = "none" /\ ~(f.offset + n > buffers[inode[x].fs_data])
      BY <1>1 DEF Copy, x
    <2>2. buffers[inode[x].fs_data] \in Nat
      <3>1. inode[x].fs_data \in Buf /\ buffers \in [Buf -> Nat]
        BY <1>1, <1>2 DEF Record, VfsInv, Owned
      <3> QED
        BY <3>1
    <2>3. Sized(inode, buffers)
      BY <2>1 DEF VfsInv
    <2>4. inode[x].size <= buffers[inode[x].fs_data] /\ Room(u, buffers) = buffers[inode[x].fs_data]
      BY <1>1, <1>2, <1>6, <2>3 DEF Sized, Room
    <2>5. f.offset \in Nat /\ inode[x].size \in Nat
      BY <1>2, Bounds DEF Record
    <2> DEFINE room == buffers[inode[x].fs_data]
    <2> HIDE DEF f, room
    <2>6. o <= room /\ inode[x].size <= room
      BY <1>3, <1>4, <2>1, <2>2, <2>4, <2>5 DEF room
    <2>7. u.size <= room
      BY <1>6, <2>6 DEF size
    <2> QED
      BY <1>8, <2>1, <2>3, <2>4, <2>7 DEF room
  <1>10. Counted(inode', open_files')
    BY <1>4, <1>6, <1>8 DEF Counted
  <1> QED
    BY <1>1, <1>4, <1>8, <1>9, <1>10 DEF VfsInv, tables

Entered(fd, g, of) == of = [open_files EXCEPT ![fd] = g]

\* An entry of the table is filled or cleared.
LEMMA EntryEdit ==
    ASSUME VfsInv, NEW fd \in Fd, NEW g \in Descriptor(Len(inode)), g.used => g.inode # NULL,
           NEW of, Entered(fd, g, of)
    PROVE  /\ FilesOK(of, Len(inode)) /\ of[fd] = g
           /\ \A d \in Fd : d # fd => of[d] = open_files[d]
  <1> DEFINE n == Len(inode)
  <1>1. open_files \in [Fd -> Descriptor(n)] /\ \A d \in Fd : open_files[d].used => open_files[d].inode # NULL
    BY DEF VfsInv, FilesOK
  <1> HIDE DEF n
  <1>2. of[fd] = g /\ (\A d \in Fd : d # fd => of[d] = open_files[d]) /\ of \in [Fd -> Descriptor(n)]
    BY <1>1 DEF Entered, n
  <1>3. \A d \in Fd : of[d].used => of[d].inode # NULL
    BY <1>1, <1>2
  <1> QED
    BY <1>2, <1>3 DEF FilesOK, n

LEMMA OpenKeeps ==
    ASSUME VfsInv, NEW path \in Paths, NEW flags \in Flags, vfs_open(path, flags)
    PROVE  VfsInv'
  <1> DEFINE x == lookup_path(inode, path)
             fd == CHOOSE d \in Fd : ~open_files[d].used /\ \A e \in 1 .. d - 1 : open_files[e].used
             g == [used |-> TRUE, flags |-> flags, offset |-> 0, inode |-> x]
             size == IF "TRUNC" \in flags THEN 0 ELSE inode[x].size
             u == [inode[x] EXCEPT !.ref_count = inode[x].ref_count + 1, !.size = size]
  <1>1. /\ x # NULL /\ (\E d \in Fd : ~open_files[d].used) /\ Entered(fd, g, open_files')
        /\ inode' = [inode EXCEPT ![x].ref_count = @ + 1, ![x].size = IF "TRUNC" \in flags THEN 0 ELSE @]
        /\ UNCHANGED <<buffers, tables, fault>>
    BY DEF vfs_open, Opens, Entered
  <1>2. fd \in Fd /\ ~open_files[fd].used
    <2> DEFINE S == {d \in Fd : ~open_files[d].used}
    <2>1. S \subseteq Nat /\ S # {}
      BY <1>1 DEF Fd
    <2>2. PICK d \in S : \A e \in S : d <= e
      BY <2>1, LeastExists
    <2>3. ASSUME NEW e \in 1 .. d - 1
          PROVE  open_files[e].used
      <3>1. e \in Fd /\ ~(d <= e)
        BY <2>2, Bounds DEF Fd
      <3> QED
        BY <2>2, <3>1
    <2>4. \E d1 \in Fd : ~open_files[d1].used /\ \A e \in 1 .. d1 - 1 : open_files[e].used
      BY <2>2, <2>3
    <2> QED
      BY <2>4
  <1>3. x \in 1 .. Len(inode) /\ inode[x] \in Record(Len(inode))
    <2>1. Len(path) \in Nat
      BY PathIs
    <2>2. x \in 0 .. Len(inode) /\ TableOK(inode) /\ Len(inode) \in Nat
      BY <2>1, LookupType DEF VfsInv, TableOK
    <2>3. x \in 1 .. Len(inode)
      BY <1>1, <2>2 DEF NULL
    <2> QED
      BY <2>2, <2>3, RecordIs
  <1> HIDE DEF x, fd
  <1>4. /\ u \in Record(Len(inode)) /\ u.children = inode[x].children /\ u.fs_data = inode[x].fs_data
        /\ u.size = size /\ u.ref_count = inode[x].ref_count + 1
    <2>1. size \in Nat /\ inode[x].ref_count + 1 \in Nat
      BY <1>3 DEF Record
    <2> HIDE DEF size
    <2> QED
      BY <1>3, <2>1 DEF Record
  <1>5. Edited(inode, x, u, inode')
    <2>1. inode \in [1 .. Len(inode) -> Record(Len(inode))]
      BY DEF VfsInv, TableOK
    <2> QED
      BY <1>1, <1>3, <2>1 DEF Edited, Record
  <1> HIDE DEF u, size
  <1>6. /\ TableOK(inode') /\ Len(inode') = Len(inode) /\ inode'[x] = u
        /\ \A y \in 1 .. Len(inode) : y # x => inode'[y] = inode[y]
        /\ Owned(Holds(inode'), buffers, ramdisk_files)
        /\ u.size <= Room(u, buffers) /\ Sized(inode, buffers) => Sized(inode', buffers)
    BY <1>3, <1>4, <1>5, RecordEdit
  <1>7. g \in Descriptor(Len(inode)) /\ g.used /\ g.inode = x /\ x # NULL
    <2>1. flags \in SUBSET {"RDONLY", "WRONLY", "TRUNC"} /\ x \in 0 .. Len(inode)
      BY <1>3, VfsAssumption
    <2> QED
      BY <1>1, <2>1, Bounds DEF Descriptor
  <1> HIDE DEF g
  <1>8. /\ FilesOK(open_files', Len(inode)) /\ open_files'[fd] = g
        /\ \A d \in Fd : d # fd => open_files'[d] = open_files[d]
    BY <1>1, <1>2, <1>7, EntryEdit
  <1>9. Counted(inode', open_files')
    <2>1. OpenOn(open_files', x) = OpenOn(open_files, x) \cup {fd} /\ fd \notin OpenOn(open_files, x)
      BY <1>2, <1>7, <1>8 DEF OpenOn
    <2>2. \A y : y # x => OpenOn(open_files', y) = OpenOn(open_files, y)
      BY <1>2, <1>7, <1>8 DEF OpenOn
    <2>3. Cardinality(OpenOn(open_files', x)) = Cardinality(OpenOn(open_files, x)) + 1
      BY <2>1, OpenIsFinite, FS_AddElement
    <2>4. \A y \in 1 .. Len(inode) : inode[y].ref_count = 1 + Cardinality(OpenOn(open_files, y))
      BY DEF VfsInv, Counted
    <2>5. Cardinality(OpenOn(open_files, x)) \in Nat
      BY OpenIsFinite
    <2>6. u.ref_count = 1 + Cardinality(OpenOn(open_files', x))
      BY <1>3, <1>4, <2>3, <2>4, <2>5
    <2>7. ASSUME NEW y \in 1 .. Len(inode)
          PROVE  inode'[y].ref_count = 1 + Cardinality(OpenOn(open_files', y))
      BY <1>6, <2>2, <2>4, <2>6
    <2> QED
      BY <1>6, <2>7 DEF Counted
  <1>10. fault = "none" => Sized(inode', buffers)
    <2> SUFFICES ASSUME fault = "none"
                 PROVE  Sized(inode', buffers)
      OBVIOUS
    <2>1. Sized(inode, buffers)
      BY DEF VfsInv
    <2>2. inode[x].size <= Room(inode[x], buffers) /\ Room(u, buffers) = Room(inode[x], buffers)
      BY <1>3, <1>4, <2>1 DEF Sized, Room
    <2>3. inode[x].size \in Nat /\ Room(inode[x], buffers) \in Nat
      <3>1. inode[x].size \in Nat /\ inode[x].fs_data \in Buf \cup {NULL} /\ buffers \in [Buf -> Nat]
        BY <1>3 DEF Record, VfsInv, Owned
      <3> QED
        BY <3>1 DEF Room
    <2>4. u.size <= Room(u, buffers)
      BY <1>4, <2>2, <2>3 DEF size
    <2> QED
      BY <1>6, <2>1, <2>4
  <1> QED
    BY <1>1, <1>6, <1>8, <1>9, <1>10 DEF VfsInv, tables

LEMMA CloseKeeps ==
    ASSUME VfsInv, NEW fd \in Fd, vfs_close(fd)
    PROVE  VfsInv'
  <1> DEFINE x == open_files[fd].inode
             g == [used |-> FALSE, flags |-> {}, offset |-> 0, inode |-> NULL]
             c == inode[x].ref_count - 1
             u == [inode[x] EXCEPT !.ref_count = c]
  <1>1. /\ open_files[fd].used /\ Entered(fd, g, open_files')
        /\ inode' = [inode EXCEPT ![x].ref_count = c]
        /\ UNCHANGED <<buffers, tables, fault>>
    BY DEF vfs_close, Entered
  <1>2. x \in 1 .. Len(inode) /\ inode[x] \in Record(Len(inode))
    BY <1>1, UsedIs
  <1>3. fd \in OpenOn(open_files, x)
    BY <1>1 DEF OpenOn
  <1> HIDE DEF x
  <1> DEFINE k == Cardinality(OpenOn(open_files, x))
  <1>4. inode[x].ref_count = 1 + k /\ k \in Nat
    BY <1>2, OpenIsFinite DEF VfsInv, Counted
  <1>5. c = k
    <2> HIDE DEF k
    <2> QED
      BY <1>4
  <1> HIDE DEF c
  <1>6. /\ u \in Record(Len(inode)) /\ u.children = inode[x].children /\ u.fs_data = inode[x].fs_data
        /\ u.size = inode[x].size /\ u.ref_count = c
    BY <1>2, <1>4, <1>5 DEF Record
  <1>7. Edited(inode, x, u, inode')
    <2>1. inode \in [1 .. Len(inode) -> Record(Len(inode))]
      BY DEF VfsInv, TableOK
    <2> QED
      BY <1>1, <1>2, <2>1 DEF Edited, Record
  <1> HIDE DEF u
  <1>8. /\ TableOK(inode') /\ Len(inode') = Len(inode) /\ inode'[x] = u
        /\ \A y \in 1 .. Len(inode) : y # x => inode'[y] = inode[y]
        /\ Owned(Holds(inode'), buffers, ramdisk_files)
        /\ u.size <= Room(u, buffers) /\ Sized(inode, buffers) => Sized(inode', buffers)
    BY <1>2, <1>6, <1>7, RecordEdit
  <1>9. g \in Descriptor(Len(inode)) /\ ~g.used
    BY <1>2, Bounds DEF Descriptor, NULL, VfsInv, TableOK
  <1> HIDE DEF g
  <1>10. /\ FilesOK(open_files', Len(inode)) /\ open_files'[fd] = g
         /\ \A d \in Fd : d # fd => open_files'[d] = open_files[d]
    BY <1>1, <1>9, EntryEdit
  <1>11. Counted(inode', open_files')
    <2>1. OpenOn(open_files', x) = OpenOn(open_files, x) \ {fd}
      BY <1>9, <1>10 DEF OpenOn
    <2>2. \A y : y # x => OpenOn(open_files', y) = OpenOn(open_files, y)
      BY <1>9, <1>10 DEF OpenOn, x
    <2>3. Cardinality(OpenOn(open_files', x)) = k - 1
      BY <1>3, <2>1, OpenIsFinite, FS_RemoveElement
    <2> HIDE DEF k
    <2>4. u.ref_count = 1 + Cardinality(OpenOn(open_files', x))
      BY <1>4, <1>5, <1>6, <2>3
    <2>5. \A y \in 1 .. Len(inode) : inode[y].ref_count = 1 + Cardinality(OpenOn(open_files, y))
      BY DEF VfsInv, Counted
    <2>6. ASSUME NEW y \in 1 .. Len(inode)
          PROVE  inode'[y].ref_count = 1 + Cardinality(OpenOn(open_files', y))
      BY <1>8, <2>2, <2>4, <2>5
    <2> QED
      BY <1>8, <2>6 DEF Counted
  <1>12. fault = "none" => Sized(inode', buffers)
    <2> SUFFICES ASSUME fault = "none"
                 PROVE  Sized(inode', buffers)
      OBVIOUS
    <2>1. Sized(inode, buffers)
      BY DEF VfsInv
    <2>2. u.size <= Room(u, buffers)
      BY <1>2, <1>6, <2>1 DEF Sized, Room
    <2> QED
      BY <1>8, <2>1, <2>2
  <1> QED
    BY <1>1, <1>8, <1>10, <1>11, <1>12 DEF VfsInv, tables

LEMMA StepKeeps == VfsInv /\ [Next]_vars => VfsInv'
  <1> SUFFICES ASSUME VfsInv, [Next]_vars
               PROVE  VfsInv'
    OBVIOUS
  <1>1. ASSUME NEW path \in Paths, vfs_mkdir(path) \/ vfs_mount(path)
        PROVE  VfsInv'
    <2>1. /\ \E r \in mkdir_results(path) : inode' = r.inode
          /\ UNCHANGED <<open_files, buffers, tables, fault>>
      BY <1>1 DEF vfs_mkdir, vfs_mount
    <2> QED
      BY <2>1, MkdirKeeps
  <1>2. ASSUME NEW path \in Paths, NEW len \in Lens \cup {0},
               vfs_create_file(path, len) \/ ramdisk_create_file(path, len)
        PROVE  VfsInv'
    <2>1. len \in Nat
      BY VfsAssumption
    <2> QED
      BY <1>2, <2>1, CreateKeeps, RamdiskKeeps
  <1>3. ASSUME NEW path \in Paths, NEW flags \in Flags, vfs_open(path, flags)
        PROVE  VfsInv'
    BY <1>3, OpenKeeps
  <1>4. ASSUME NEW fd \in Fd, NEW len \in Lens, vfs_read(fd, len) \/ vfs_write(fd, len)
        PROVE  VfsInv'
    <2>1. len \in Nat
      BY VfsAssumption
    <2> QED
      BY <1>4, <2>1, ReadKeeps, WriteKeeps
  <1>5. ASSUME NEW fd \in Fd, NEW n \in Seeks, NEW w \in {"SET", "CUR", "END"}, vfs_seek(fd, n, w)
        PROVE  VfsInv'
    <2>1. n \in Int
      BY VfsAssumption
    <2> QED
      BY <1>5, <2>1, SeekKeeps
  <1>6. ASSUME NEW fd \in Fd, vfs_close(fd)
        PROVE  VfsInv'
    BY <1>6, CloseKeeps
  <1>7. ASSUME NEW uid \in Uids, security_set_uid(uid)
        PROVE  VfsInv'
    BY <1>7 DEF security_set_uid, VfsInv
  <1>8. ASSUME NEW gid \in Gids, security_set_gid(gid)
        PROVE  VfsInv'
    BY <1>8 DEF security_set_gid, VfsInv
  <1>9. CASE ramdisk_mount
    <2>1. fs_count' \in 0 .. FsMax
      BY <1>9, Bounds DEF ramdisk_mount, VfsInv
    <2> QED
      BY <1>9, <2>1 DEF ramdisk_mount, VfsInv
  <1>10. CASE UNCHANGED vars
    BY <1>10 DEF vars, VfsInv
  <1> QED
    BY <1>1, <1>2, <1>3, <1>4, <1>5, <1>6, <1>7, <1>8, <1>9, <1>10 DEF Next

\* The invariant holds in every state: the tree is a tree, references and
\* buffers are accounted for, and files fit their buffers.
THEOREM VfsInvariance == Spec => []VfsInv
  BY InitHolds, StepKeeps, PTL DEF Spec

-----------------------------------------------------------------------------
(***************************************************************************)
(* What follows from the invariant.                                        *)
(***************************************************************************)
LEMMA InodeIs ==
    ASSUME VfsInv
    PROVE  Inode = 1 .. Len(inode) /\ Len(inode) \in Nat \ {0}
  BY DEF VfsInv, TableOK, Inode

LEMMA InvGivesCounts == VfsInv => RefCountsMatch
  <1> SUFFICES ASSUME VfsInv
               PROVE  RefCountsMatch
    OBVIOUS
  <1> DEFINE n == Len(inode)
  <1>1. Inode = 1 .. n /\ n \in Nat \ {0} /\ TableOK(inode)
    BY InodeIs DEF VfsInv
  <1>2. ASSUME NEW x \in 1 .. n
        PROVE  /\ inode[x].type \in {"FILE", "DIR"} /\ inode[x].fs_data \in Buf \cup {NULL}
               /\ inode[x].ref_count \in Nat /\ inode[x].parent \in 1 .. n \cup {NULL}
               /\ inode[x].children \in Seq(1 .. n)
    <2>1. inode[x] \in Record(n)
      BY <1>1, RecordIs
    <2> HIDE DEF n
    <2> QED
      BY <1>1, <2>1 DEF Record, NULL
  <1>3. ASSUME NEW fd \in Fd
        PROVE  open_files[fd].offset \in 0 .. OffMod - 1 /\ open_files[fd].inode \in 1 .. n \cup {NULL}
    <2>1. open_files[fd] \in Descriptor(n)
      BY DEF VfsInv, FilesOK
    <2> HIDE DEF n
    <2> QED
      BY <1>1, <2>1 DEF Descriptor, NULL
  <1>4. VfsTypeOK
    BY <1>1, <1>2, <1>3 DEF VfsTypeOK, VfsInv
  <1>5. ASSUME NEW x \in 1 .. n
        PROVE  inode[x].ref_count = 1 + Cardinality({fd \in Fd : open_files[fd].used /\ open_files[fd].inode = x})
    BY DEF VfsInv, Counted, OpenOn
  <1> HIDE DEF n
  <1> QED
    BY <1>1, <1>4, <1>5 DEF RefCountsMatch

\* At most one, and none of two disjoint sets: the owners of a buffer.
LEMMA OneOwner ==
    ASSUME NEW A, NEW B, NEW held \in BOOLEAN,
           \A x, y \in A : x = y, \A x, y \in B : x = y, A = {} \/ B = {},
           held <=> (A # {} \/ B # {})
    PROVE  Cardinality(A) + Cardinality(B) = IF held THEN 1 ELSE 0
  <1>1. ASSUME NEW S, \A x, y \in S : x = y
        PROVE  Cardinality(S) = IF S = {} THEN 0 ELSE 1
    <2>1. CASE S = {}
      BY <2>1, FS_EmptySet
    <2>2. CASE S # {}
      <3>1. PICK x : S = {x}
        BY <1>1, <2>2
      <3>2. Cardinality({x}) = 1
        BY FS_Singleton
      <3> QED
        BY <2>2, <3>1, <3>2
    <2> QED
      BY <2>1, <2>2
  <1>2. Cardinality(A) = IF A = {} THEN 0 ELSE 1
    BY <1>1
  <1>3. Cardinality(B) = IF B = {} THEN 0 ELSE 1
    BY <1>1
  <1> QED
    BY <1>2, <1>3

LEMMA InvGivesOwners == VfsInv => BuffersOwned
  <1> SUFFICES ASSUME VfsInv
               PROVE  BuffersOwned
    OBVIOUS
  <1> DEFINE d == Holds(inode)
             rd == ramdisk_files
  <1>1. Inode = 1 .. Len(inode) /\ DOMAIN d = 1 .. Len(inode) /\ \A x \in DOMAIN d : d[x] = inode[x].fs_data
    BY InodeIs DEF Holds
  <1>2. Owned(d, buffers, rd)
    BY DEF VfsInv
  <1> HIDE DEF d
  <1>3. ASSUME NEW b \in Buf
        PROVE  Cardinality({x \in Inode : inode[x].fs_data = b})
                 + Cardinality({k \in DOMAIN rd : rd[k] = b}) = IF buffers[b] > 0 THEN 1 ELSE 0
    <2> DEFINE A == {x \in Inode : inode[x].fs_data = b}
               B == {k \in DOMAIN rd : rd[k] = b}
               held == buffers[b] > 0
    <2>1. b # NULL /\ held \in BOOLEAN
      BY NullIsNoBuffer
    <2>2. A = {x \in DOMAIN d : d[x] = b}
      BY <1>1
    <2>3. \A x, y \in A : x = y
      BY <1>2, <2>1, <2>2 DEF Owned
    <2>4. \A x, y \in B : x = y
      BY <1>2, <2>1 DEF Owned
    <2>5. A = {} \/ B = {}
      BY <1>2, <2>1, <2>2 DEF Owned
    <2>6. held <=> (A # {} \/ B # {})
      <3>1. held => (A # {} \/ B # {})
        BY <1>2, <2>2 DEF Owned
      <3>2. A # {} => held
        BY <1>2, <2>1, <2>2 DEF Owned
      <3>3. B # {} => held
        BY <1>2, <2>1 DEF Owned
      <3> QED
        BY <3>1, <3>2, <3>3
    <2> HIDE DEF A, B, held
    <2>7. Cardinality(A) + Cardinality(B) = IF held THEN 1 ELSE 0
      BY <2>1, <2>3, <2>4, <2>5, <2>6, OneOwner
    <2> QED
      BY <2>7 DEF A, B, held
  <1>4. ASSUME fault = "none", NEW x \in Inode
        PROVE  inode[x].size <= IF inode[x].fs_data = NULL THEN 0 ELSE buffers[inode[x].fs_data]
    BY <1>1, <1>4 DEF VfsInv, Sized, Room
  <1> QED
    BY <1>3, <1>4 DEF BuffersOwned

\* A file whose contents are replaced is where it was.
LEMMA ReplacedIsFound ==
    ASSUME VfsInv, NEW path \in Paths, NEW x, x = lookup_path(inode, path), x # NULL,
           inode[x].type = "FILE", NEW len \in Nat, NEW r \in replace_data(buffers, x, len), r.ok
    PROVE  /\ walk(r.inode, lookup_path(inode, Front(path)), Last(path)) = x
           /\ lookup_path(r.inode, path) = x
           /\ r.inode[x].type = "FILE" /\ r.inode[x].size = len
  <1> DEFINE q == Front(path)
             t == r.inode
  <1>1. TableOK(inode) /\ Owned(Holds(inode), buffers, ramdisk_files)
    BY DEF VfsInv
  <1>2. Len(path) \in Nat /\ Len(q) \in Nat
    BY PathIs, LenProperties
  <1>3. x \in 1 .. Len(inode)
    <2>1. x \in 0 .. Len(inode) /\ Len(inode) \in Nat
      BY <1>1, <1>2, LookupType DEF TableOK
    <2> QED
      BY <2>1 DEF NULL
  <1>4. /\ \A y \in 1 .. Len(inode) : /\ t[y].name = inode[y].name
                                      /\ t[y].children = inode[y].children
                                      /\ t[y].parent = inode[y].parent
                                      /\ t[y].type = inode[y].type
        /\ t[x].size = len
    BY <1>1, <1>3, DataReplaced
  <1> HIDE DEF t, q
  <1>5. \A y \in 1 .. Len(inode) : /\ t[y].name = inode[y].name
                                   /\ t[y].children = inode[y].children
                                   /\ t[y].parent = inode[y].parent
    BY <1>4
  <1>6. lookup_path(t, path) = lookup_path(inode, path) /\ lookup_path(t, q) = lookup_path(inode, q)
    BY <1>1, <1>2, <1>5, LookupSame
  <1>7. lookup_path(t, path) = walk(t, lookup_path(t, q), Last(path))
    BY LookupLast DEF q
  <1> QED
    BY <1>3, <1>4, <1>6, <1>7 DEF q, t

LEMMA InvGivesFound == VfsInv => CreatedIsFound
  <1> SUFFICES ASSUME VfsInv, NEW path \in Paths, Last(path) \in Name
               PROVE  LET found(ino) == walk(ino, lookup_path(inode, Front(path)), Last(path))
                          leads(ino) == ".." \notin Range(path) => lookup_path(ino, path) = found(ino)
                      IN  /\ \A len \in Lens : \A r \in create_results(buffers, path, len) : r.ok =>
                               /\ found(r.inode) # NULL /\ r.inode[found(r.inode)].type = "FILE"
                               /\ r.inode[found(r.inode)].size = len /\ leads(r.inode)
                          /\ \A r \in mkdir_results(path) : r.ok =>
                               /\ found(r.inode) # NULL /\ r.inode[found(r.inode)].type = "DIR"
                               /\ r.inode[found(r.inode)].children = << >> /\ leads(r.inode)
    BY DEF CreatedIsFound
  <1> DEFINE p == lookup_path(inode, Front(path))
             found(ino) == walk(ino, p, Last(path))
             leads(ino) == ".." \notin Range(path) => lookup_path(ino, path) = found(ino)
             x == lookup_path(inode, path)
  <1>1. TableOK(inode) /\ Owned(Holds(inode), buffers, ramdisk_files) /\ Len(inode) \in Nat
    BY DEF VfsInv, TableOK
  <1>2. p \in 0 .. Len(inode)
    <2>1. Len(Front(path)) \in Nat
      BY PathIs, LenProperties
    <2> QED
      BY <1>1, <2>1, LookupType
  \* What is new is the first of its siblings.
  <1>3. ASSUME p \in 1 .. Len(inode), NEW child \in Record(Len(inode) + 1), child.children = << >>,
               child.name = Last(path), NEW t, t = add_child(inode, p, child)
        PROVE  found(t) # NULL /\ t[found(t)] = child /\ leads(t)
    <2>1. p = lookup_path(inode, Front(path))
      OBVIOUS
    <2> HIDE DEF p
    <2>2. /\ walk(t, p, Last(path)) = Len(inode) + 1 /\ t[Len(inode) + 1] = child
          /\ ".." \notin Range(path) => lookup_path(t, path) = walk(t, p, Last(path))
      BY <1>1, <1>3, <2>1, NewIsFound
    <2>3. Len(inode) + 1 # NULL
      BY <1>1 DEF NULL
    <2> QED
      BY <2>2, <2>3
  <1>4. ASSUME NEW len \in Lens, NEW r \in create_results(buffers, path, len), r.ok
        PROVE  /\ found(r.inode) # NULL /\ r.inode[found(r.inode)].type = "FILE"
               /\ r.inode[found(r.inode)].size = len /\ leads(r.inode)
    <2>0. len \in Nat
      BY VfsAssumption
    <2>1. \/ x # NULL /\ inode[x].type = "FILE" /\ r \in replace_data(buffers, x, len)
          \/ p # NULL /\ r \in new_file(buffers, p, Last(path), len)
      <3> DEFINE fails == [inode |-> inode, buffers |-> buffers, ok |-> FALSE]
      <3>1. r # fails
        <4>1. fails.ok = FALSE
          OBVIOUS
        <4> HIDE DEF fails
        <4> QED
          BY <1>4, <4>1, Zenon
      <3>2. r \in IF Last(path) = "" \/ p = NULL THEN {fails}
                  ELSE IF inode[p].type # "DIR" THEN {fails}
                  ELSE IF x # NULL /\ inode[x].type = "FILE" THEN replace_data(buffers, x, len)
                  ELSE {fails} \cup new_file(buffers, p, Last(path), len)
        BY DEF create_results
      <3> HIDE DEF fails, p, x
      <3> QED
        BY <3>1, <3>2, Zenon
    <2>2. CASE x # NULL /\ inode[x].type = "FILE" /\ r \in replace_data(buffers, x, len)
      <3>1. /\ found(r.inode) = x /\ lookup_path(r.inode, path) = x
            /\ r.inode[x].type = "FILE" /\ r.inode[x].size = len
        BY <1>4, <2>0, <2>2, ReplacedIsFound
      <3> QED
        BY <2>2, <3>1
    <2>3. CASE p # NULL /\ r \in new_file(buffers, p, Last(path), len)
      <3>1. p \in 1 .. Len(inode) /\ Last(path) \in Name \cup Special
        BY <1>1, <1>2, <2>3 DEF NULL
      <3> HIDE DEF p
      <3>2. PICK child \in Record(Len(inode) + 1) :
              /\ child.children = << >> /\ child.name = Last(path) /\ child.type = "FILE"
              /\ child.size = len /\ r.inode = add_child(inode, p, child)
        BY <1>1, <2>0, <2>3, <3>1, FileMade
      <3> HIDE DEF found, leads
      <3>3. found(r.inode) # NULL /\ r.inode[found(r.inode)] = child /\ leads(r.inode)
        BY <1>3, <3>1, <3>2
      <3> QED
        BY <3>2, <3>3
    <2> QED
      BY <2>1, <2>2, <2>3
  <1>5. ASSUME NEW r \in mkdir_results(path), r.ok
        PROVE  /\ found(r.inode) # NULL /\ r.inode[found(r.inode)].type = "DIR"
               /\ r.inode[found(r.inode)].children = << >> /\ leads(r.inode)
    <2>1. /\ p \in 1 .. Len(inode)
          /\ \E child \in Record(Len(inode) + 1) :
               /\ child.children = << >> /\ child.name = Last(path) /\ child.type = "DIR"
               /\ r.inode = add_child(inode, p, child)
      BY <1>1, <1>5, MkdirIs
    <2>2. PICK child \in Record(Len(inode) + 1) :
            /\ child.children = << >> /\ child.name = Last(path) /\ child.type = "DIR"
            /\ r.inode = add_child(inode, p, child)
      BY <2>1
    <2> HIDE DEF found, leads, p
    <2>3. found(r.inode) # NULL /\ r.inode[found(r.inode)] = child /\ leads(r.inode)
      BY <1>3, <2>1, <2>2
    <2> QED
      BY <2>2, <2>3
  <1> QED
    BY <1>4, <1>5

\* vfs_open, vfs_close and every failed call keep the count of references
\* right, so no inode in the tree is ever freed: RefCountsMatch, with the
\* types of the tables.
THEOREM RefCountsAreRight == Spec => []RefCountsMatch
  BY VfsInvariance, InvGivesCounts, PTL

\* Every buffer that vfs_create_file or the ramdisk allocated has one owner,
\* none is lost, and until an access leaves a buffer no file is larger than
\* its buffer: BuffersOwned.
THEOREM BuffersHaveOneOwner == Spec => []BuffersOwned
  BY VfsInvariance, InvGivesOwners, PTL

\* What vfs_create_file and vfs_mkdir created is found under its name, for
\* paths of any length: CreatedIsFound.
THEOREM WhatIsCreatedIsFound == Spec => []CreatedIsFound
  BY VfsInvariance, InvGivesFound, PTL
=============================================================================
