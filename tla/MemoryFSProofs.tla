--------------------------- MODULE MemoryFSProofs ---------------------------
(***************************************************************************)
(* Phase 1 (MemoryFS), for any number of inodes, names, path depths,       *)
(* descriptors and widths of an int.  What can be reached from the root is *)
(* a tree: the invariant says that there is a set of inodes, the live      *)
(* ones, and a rank for each, its distance from the root, such that the    *)
(* entries of live directories lead to live inodes of the next rank, one   *)
(* entry to each.  Ranks make the recursion of Below end in time.          *)
(***************************************************************************)
EXTENDS MemoryFS, Induction

Entry == [name : Names, inum : Inums]
Node  == [dir : BOOLEAN, size : 0..(UINT - 1), ents : Seq(Entry)]

MemoryTypes == /\ ibitmap \subseteq Inums /\ pending \subseteq Inums /\ dropped \subseteq Inums
               /\ fds \in [Fds -> Inums \cup {INVALID_INODE}]
               /\ node \in [Inums -> Node]
               /\ length \in [Inums -> Nat]
               /\ mounted \in BOOLEAN

\* Nothing is left of an unmounted file system
Clean == ~ mounted => /\ ibitmap = {} /\ pending = {} /\ dropped = {}
                      /\ \A fd \in Fds : fds[fd] = INVALID_INODE

\* Only open files wait to be deleted
PendingOpen == \A i \in pending : Open(i) /\ i \notin dropped

\* Entry k of the directory d leads to i
Ref(d, k, i) == node[d].dir /\ k \in DOMAIN node[d].ents /\ node[d].ents[k].inum = i

\* The live inodes R form a tree
Tree(R, rank) ==
  /\ ROOT_INODE \in R /\ node[ROOT_INODE].dir /\ rank[ROOT_INODE] = 0
  /\ \A d \in R, k \in Nat, i \in Inums :
       Ref(d, k, i) => i \in R /\ i # ROOT_INODE /\ rank[i] = rank[d] + 1
  /\ \A d, e \in R, j, k \in Nat, i \in Inums :
       Ref(d, j, i) /\ Ref(e, k, i) => d = e /\ j = k
  /\ \A i \in R \ {ROOT_INODE} : \E d \in R, k \in Nat : Ref(d, k, i)

\* Every allocated inode is live, abandoned by fs_rmdir, or about to go
Accounted(R) == /\ R \subseteq ibitmap /\ dropped \subseteq ibitmap
                /\ R \cap pending = {} /\ R \cap dropped = {}
                /\ ibitmap \subseteq R \cup dropped \cup pending

Rooted == mounted => \E R \in SUBSET Inums : \E rank \in [Inums -> Nat] :
                       Tree(R, rank) /\ Accounted(R)

\* The inductive invariant
MInv == MemoryTypes /\ Clean /\ PendingOpen /\ OpenStays /\ SizesExact /\ Rooted

-----------------------------------------------------------------------------
(* Paths *)

\* One component of a path
Lookup(x, name) ==
  IF x = INVALID_INODE \/ ~ node[x].dir THEN INVALID_INODE
  ELSE LET y == search_by_name(x, name)
       IN IF y = 0 THEN INVALID_INODE ELSE node[x].ents[y].inum

\* The places in a directory are numbers, and the inodes they hold are there.
LEMMA RefTypes ==
  ASSUME MemoryTypes, NEW d \in Inums, NEW k \in DOMAIN node[d].ents
  PROVE  /\ k \in Nat \ {0} /\ node[d].ents[k].inum \in Inums
         /\ node[d].dir => Ref(d, k, node[d].ents[k].inum)
<1>1. node[d].ents \in Seq(Entry)
  BY DEF MemoryTypes, Node
<1>2. k \in 1..Len(node[d].ents) /\ node[d].ents[k] \in Entry /\ Len(node[d].ents) \in Nat
  BY <1>1
<1> QED
  BY <1>2 DEF Entry, Ref

\* search_by_name answers with a place that holds the name, or with 0.
LEMMA SearchFinds ==
  ASSUME MemoryTypes, NEW d \in Inums, NEW name, search_by_name(d, name) # 0
  PROVE  /\ search_by_name(d, name) \in DOMAIN node[d].ents
         /\ node[d].ents[search_by_name(d, name)].name = name
  BY DEF search_by_name

\* A component leads to an inode through an entry of a directory.
LEMMA LookupFinds ==
  ASSUME MemoryTypes, NEW x \in Inums \cup {INVALID_INODE}, NEW name
  PROVE  /\ Lookup(x, name) \in Inums \cup {INVALID_INODE}
         /\ Lookup(x, name) # INVALID_INODE =>
              /\ x \in Inums /\ node[x].dir
              /\ search_by_name(x, name) \in Nat \ {0}
              /\ Ref(x, search_by_name(x, name), Lookup(x, name))
<1> DEFINE y == search_by_name(x, name)
<1>1. CASE x = INVALID_INODE \/ ~ node[x].dir \/ y = 0
  BY <1>1 DEF Lookup
<1>2. CASE ~ (x = INVALID_INODE \/ ~ node[x].dir \/ y = 0)
  <2>1. x \in Inums /\ x # INVALID_INODE /\ node[x].dir /\ y # 0
    BY <1>2
  <2>2. Lookup(x, name) = node[x].ents[y].inum
    BY <2>1 DEF Lookup
  <2>3. y \in DOMAIN node[x].ents
    BY <2>1, SearchFinds
  <2> HIDE DEF y
  <2>4. y \in Nat \ {0} /\ node[x].ents[y].inum \in Inums /\ Ref(x, y, node[x].ents[y].inum)
    BY <2>1, <2>3, RefTypes
  <2> QED
    BY <2>1, <2>2, <2>4 DEF y
<1> QED
  BY <1>1, <1>2

\* A path is a sequence of names that is not empty.
LEMMA PathTypes ==
  ASSUME NEW path \in Paths
  PROVE  /\ Len(path) \in Nat \ {0} /\ \A k \in 1..Len(path) : path[k] \in Names
<1>1. PICK n \in 1..MAX_DEPTH : path \in [1..n -> Names]
  BY DEF Paths
<1>2. n \in Nat \ {0}
  BY MemoryConstants
<1>3. path \in Seq(Names) /\ Len(path) = n
  BY <1>1, <1>2
<1> QED
  BY <1>1, <1>2, <1>3

\* namei goes from component to component.
LEMMA WalkFollows ==
  ASSUME MemoryTypes, NEW path \in Paths
  PROVE  /\ Walk(path) \in [0..Len(path) -> Inums \cup {INVALID_INODE}]
         /\ Walk(path)[0] = ROOT_INODE
         /\ \A k \in 1..Len(path) : Walk(path)[k] = Lookup(Walk(path)[k - 1], path[k])
<1> DEFINE D == Inums \cup {INVALID_INODE}
           n == Len(path)
           Eq(c) == c = [k \in 0..n |-> IF k = 0 THEN ROOT_INODE ELSE Lookup(c[k - 1], path[k])]
           g == [z \in (1..n) \X D |-> Lookup(z[2], path[z[1]])]
<1>1. n \in Nat /\ ROOT_INODE \in D
  BY PathTypes, MemoryConstants DEF ROOT_INODE, Inums
<1>2. g \in [(1..n) \X D -> D]
  <2>1. \A z \in (1..n) \X D : Lookup(z[2], path[z[1]]) \in D
    BY LookupFinds
  <2> QED
    BY <2>1
<1>3. PICK f \in [0..n -> D] : Iterates(f, n, ROOT_INODE, g)
  <2> HIDE DEF D, n, g
  <2> QED
    BY <1>1, <1>2, Recursion
<1>4. Eq(f)
  <2>1. ASSUME NEW k \in 1..n PROVE f[k] = Lookup(f[k - 1], path[k])
    <3>1. k - 1 \in 0..n /\ <<k, f[k - 1]>> \in (1..n) \X D
      BY <1>1
    <3>2. g[<<k, f[k - 1]>>] = Lookup(f[k - 1], path[k])
      BY <3>1
    <3> QED
      BY <1>3, <3>2 DEF Iterates
  <2>2. \A k \in 0..n : f[k] = IF k = 0 THEN ROOT_INODE ELSE Lookup(f[k - 1], path[k])
    <3>1. \A k \in 0..n : k # 0 => k \in 1..n
      BY <1>1
    <3> QED
      BY <1>3, <2>1, <3>1 DEF Iterates
  <2>3. f = [k \in 0..n |-> f[k]]
    OBVIOUS
  <2> HIDE DEF n
  <2> QED
    BY <2>2, <2>3, Zenon
<1> DEFINE C == CHOOSE c : Eq(c)
<1>5. Eq(C)
  <2> HIDE DEF Eq
  <2> QED
    BY <1>4, Zenon
<1>6. Walk(path) = C
  BY DEF Walk, Lookup
<1> HIDE DEF C
<1>7. C[0] = ROOT_INODE /\ \A k \in 1..n : C[k] = Lookup(C[k - 1], path[k])
  BY <1>1, <1>5
<1>8. \A k \in 0..n : C[k] \in D
  <2> DEFINE S == {k \in 0..n : C[k] \in D}
  <2>1. 0 \in S
    BY <1>1, <1>7
  <2>2. ASSUME NEW k \in 0..(n - 1), k \in S PROVE k + 1 \in S
    <3>1. k + 1 \in 1..n /\ (k + 1) - 1 = k
      BY <1>1
    <3>2. C[k + 1] = Lookup(C[k], path[k + 1])
      BY <1>7, <3>1
    <3>3. C[k] \in Inums \cup {INVALID_INODE}
      BY <2>2
    <3>4. Lookup(C[k], path[k + 1]) \in D
      BY <3>3, LookupFinds
    <3> QED
      BY <3>1, <3>2, <3>4
  <2> HIDE DEF S
  <2>3. \A k \in 0..n : k \in S
    BY <1>1, <2>1, <2>2, UpTo
  <2> QED
    BY <2>3 DEF S
<1> QED
  BY <1>5, <1>6, <1>7, <1>8

\* The components of a path lead from the root along live inodes.
LEMMA WalkLive ==
  ASSUME MemoryTypes, NEW R \in SUBSET Inums, NEW rank, Tree(R, rank), NEW path \in Paths
  PROVE  \A k \in 0..Len(path) : Walk(path)[k] \in R \cup {INVALID_INODE}
<1> DEFINE W == Walk(path)
           n == Len(path)
           S == {k \in 0..n : W[k] \in R \cup {INVALID_INODE}}
<1>1. /\ W \in [0..n -> Inums \cup {INVALID_INODE}]
      /\ W[0] = ROOT_INODE
      /\ \A k \in 1..n : W[k] = Lookup(W[k - 1], path[k])
  BY WalkFollows
<1>2. n \in Nat
  BY PathTypes
<1> HIDE DEF W, n
<1>3. 0 \in S
  BY <1>1, <1>2 DEF Tree
<1>4. ASSUME NEW k \in 0..(n - 1), k \in S PROVE k + 1 \in S
  <2>1. k + 1 \in 1..n /\ k + 1 \in 0..n /\ (k + 1) - 1 = k /\ k \in 0..n
    BY <1>2
  <2>2. PICK x \in Inums \cup {INVALID_INODE} : x = W[k]
    BY <1>1, <2>1
  <2>3. PICK name : name = path[k + 1]
    OBVIOUS
  <2>4. PICK y \in Inums \cup {INVALID_INODE} : y = W[k + 1] /\ y = Lookup(x, name)
    BY <1>1, <2>1, <2>2, <2>3
  <2>5. y # INVALID_INODE => /\ x \in Inums /\ node[x].dir
                             /\ search_by_name(x, name) \in Nat
                             /\ Ref(x, search_by_name(x, name), y)
    BY <2>4, LookupFinds
  <2>6. y # INVALID_INODE => x # INVALID_INODE
    BY <2>4 DEF Lookup
  <2>7. y # INVALID_INODE => y \in R
    <3> SUFFICES ASSUME y # INVALID_INODE PROVE y \in R
      OBVIOUS
    <3>1. x \in R /\ y \in Inums
      BY <1>4, <2>2, <2>4, <2>6
    <3>2. PICK p \in Nat : Ref(x, p, y)
      BY <2>5
    <3> QED
      BY <3>1, <3>2 DEF Tree
  <2> QED
    BY <2>1, <2>4, <2>7
<1>5. \A k \in 0..n : k \in S
  <2> HIDE DEF S
  <2> QED
    BY <1>2, <1>3, <1>4, UpTo
<1> QED
  BY <1>5 DEF W, n

\* The parent that namei finds is live.
LEMMA ParentLive ==
  ASSUME MemoryTypes, NEW R \in SUBSET Inums, NEW rank, Tree(R, rank), NEW path \in Paths,
         Parent(path) # INVALID_INODE
  PROVE  Parent(path) \in R
<1>1. Len(path) - 1 \in 0..Len(path)
  BY PathTypes
<1> QED
  BY <1>1, WalkLive DEF Parent

\* The target that namei finds is live, and so is the directory with its
\* entry, which search_by_name finds again.
LEMMA TargetLive ==
  ASSUME MemoryTypes, NEW R \in SUBSET Inums, NEW rank, Tree(R, rank), NEW path \in Paths,
         Target(path) # INVALID_INODE
  PROVE  /\ Target(path) \in R \ {ROOT_INODE}
         /\ Parent(path) \in R
         /\ search_by_name(Parent(path), Last(path)) \in Nat \ {0}
         /\ Ref(Parent(path), search_by_name(Parent(path), Last(path)), Target(path))
<1>1. /\ Len(path) \in 1..Len(path) /\ Len(path) \in 0..Len(path)
      /\ Len(path) - 1 \in 0..Len(path)
  BY PathTypes
<1>2. Target(path) = Lookup(Parent(path), Last(path))
  BY <1>1, WalkFollows DEF Target, Parent, Last
<1>3. PICK x \in Inums \cup {INVALID_INODE} : x = Parent(path)
  BY <1>1, WalkFollows DEF Parent
<1>4. PICK i \in R : i = Target(path)
  BY <1>1, WalkLive DEF Target
<1>5. x # INVALID_INODE
  BY <1>2, <1>3 DEF Lookup
<1>6. x \in R
  BY <1>3, <1>5, ParentLive
<1>7. search_by_name(x, Last(path)) \in Nat \ {0} /\ Ref(x, search_by_name(x, Last(path)), i)
  BY <1>2, <1>3, <1>4, LookupFinds
<1>8. i # ROOT_INODE
  BY <1>4, <1>6, <1>7 DEF Tree
<1> QED
  BY <1>3, <1>4, <1>6, <1>7, <1>8

-----------------------------------------------------------------------------
(* What is below a directory *)

\* A level, and the inodes that the directories of it lead to
Wider(X) == X \cup UNION {Entries(x) : x \in {y \in X : node[y].dir}}

\* The entries of a directory lead to inodes.
LEMMA WiderTypes ==
  ASSUME MemoryTypes, NEW X \in SUBSET Inums
  PROVE  /\ Wider(X) \in SUBSET Inums /\ X \subseteq Wider(X)
         /\ \A z \in Inums : z \in Wider(X) <=> z \in X \/ \E y \in X, k \in Nat : Ref(y, k, z)
<1>1. ASSUME NEW x \in X, node[x].dir, NEW z \in Entries(x)
      PROVE  z \in Inums /\ \E k \in Nat : Ref(x, k, z)
  <2>1. PICK k \in DOMAIN node[x].ents : z = node[x].ents[k].inum
    BY <1>1 DEF Entries
  <2> QED
    BY <1>1, <2>1, RefTypes
<1>2. \A x \in X, k \in Nat, z \in Inums : Ref(x, k, z) => node[x].dir /\ z \in Entries(x)
  BY DEF Ref, Entries
<1>3. Wider(X) \in SUBSET Inums
  BY <1>1 DEF Wider
<1> QED
  BY <1>1, <1>2, <1>3 DEF Wider

\* Below goes from level to level.
LEMMA BelowFollows ==
  ASSUME MemoryTypes, NEW i \in Inums
  PROVE  \E L \in [0..NumInodes -> SUBSET Inums] :
           /\ L[0] = {i}
           /\ \A k \in 1..NumInodes : L[k] = Wider(L[k - 1])
           /\ Below(i) = L[NumInodes] \ {i}
<1> DEFINE D == SUBSET Inums
           n == NumInodes
           Eq(c) == c = [k \in 0..n |-> IF k = 0 THEN {i} ELSE Wider(c[k - 1])]
           g == [z \in (1..n) \X D |-> Wider(z[2])]
<1>1. n \in Nat /\ {i} \in D
  BY MemoryConstants
<1>2. g \in [(1..n) \X D -> D]
  <2>1. \A z \in (1..n) \X D : Wider(z[2]) \in D
    BY WiderTypes
  <2> QED
    BY <2>1
<1>3. PICK f \in [0..n -> D] : Iterates(f, n, {i}, g)
  <2> DEFINE a == {i}
  <2> HIDE DEF D, n, g, a
  <2>1. a \in D
    BY <1>1 DEF a
  <2>2. \E f \in [0..n -> D] : Iterates(f, n, a, g)
    BY <1>1, <1>2, <2>1, Recursion
  <2> QED
    BY <2>2 DEF a
<1>4. Eq(f)
  <2>1. ASSUME NEW k \in 1..n PROVE f[k] = Wider(f[k - 1])
    <3>1. k - 1 \in 0..n /\ <<k, f[k - 1]>> \in (1..n) \X D
      BY <1>1
    <3>2. g[<<k, f[k - 1]>>] = Wider(f[k - 1])
      BY <3>1
    <3> QED
      BY <1>3, <3>2 DEF Iterates
  <2>2. \A k \in 0..n : f[k] = IF k = 0 THEN {i} ELSE Wider(f[k - 1])
    <3>1. \A k \in 0..n : k # 0 => k \in 1..n
      BY <1>1
    <3> QED
      BY <1>3, <2>1, <3>1 DEF Iterates
  <2>3. f = [k \in 0..n |-> f[k]]
    OBVIOUS
  <2> HIDE DEF n
  <2> QED
    BY <2>2, <2>3, Zenon
<1> DEFINE C == CHOOSE c : Eq(c)
<1>5. Eq(C)
  <2> HIDE DEF Eq
  <2> QED
    BY <1>4, Zenon
<1>6. Below(i) = C[n] \ {i}
  BY DEF Below, Wider
<1> HIDE DEF C
<1>7. C[0] = {i} /\ \A k \in 1..n : C[k] = Wider(C[k - 1])
  <2>1. \A k \in 0..n : C[k] = IF k = 0 THEN {i} ELSE Wider(C[k - 1])
    BY <1>5, Zenon
  <2>2. 0 \in 0..n /\ \A k \in 1..n : k \in 0..n /\ k # 0
    BY <1>1
  <2> HIDE DEF n
  <2> QED
    BY <2>1, <2>2, Zenon
<1>8. \A k \in 0..n : C[k] \in D
  <2> DEFINE S == {k \in 0..n : C[k] \in D}
  <2>1. 0 \in S
    BY <1>1, <1>7
  <2>2. ASSUME NEW k \in 0..(n - 1), k \in S PROVE k + 1 \in S
    <3>1. k + 1 \in 1..n /\ k + 1 \in 0..n /\ (k + 1) - 1 = k
      BY <1>1
    <3>2. C[k + 1] = Wider(C[k])
      BY <1>7, <3>1
    <3>3. C[k] \in SUBSET Inums
      BY <2>2
    <3>4. Wider(C[k]) \in D
      BY <3>3, WiderTypes
    <3> QED
      BY <3>1, <3>2, <3>4
  <2> HIDE DEF S
  <2>3. \A k \in 0..n : k \in S
    BY <1>1, <2>1, <2>2, UpTo
  <2> QED
    BY <2>3 DEF S
<1>9. C \in [0..n -> D]
  BY <1>5, <1>8
<1> QED
  BY <1>6, <1>7, <1>9

\* A live inode is not deeper than there are inodes: there is a live inode of
\* each smaller rank.
LEMMA RankBound ==
  ASSUME NEW R \in SUBSET Inums, NEW rank \in [Inums -> Nat], Tree(R, rank), NEW i \in R
  PROVE  rank[i] < NumInodes
<1> DEFINE n == rank[i]
           S == {k \in 0..n : \E j \in R : rank[j] = n - k}
<1>1. n \in Nat /\ NumInodes \in Nat /\ rank[ROOT_INODE] = 0
  BY MemoryConstants DEF Tree
<1> HIDE DEF n
<1>2. 0 \in S
  BY <1>1 DEF n
<1>3. ASSUME NEW k \in 0..(n - 1), k \in S PROVE k + 1 \in S
  <2>1. PICK j \in R : rank[j] = n - k
    BY <1>3
  <2>2. j # ROOT_INODE
    BY <1>1, <2>1
  <2>3. PICK d \in R, p \in Nat : Ref(d, p, j)
    BY <2>2 DEF Tree
  <2>4. rank[j] = rank[d] + 1
    BY <2>3 DEF Tree
  <2>5. rank[d] = n - (k + 1) /\ k + 1 \in 0..n
    BY <1>1, <2>1, <2>4
  <2> QED
    BY <2>5
<1>4. \A k \in 0..n : k \in S
  <2> HIDE DEF S
  <2> QED
    BY <1>1, <1>2, <1>3, UpTo
<1>5. \A k \in 1..(n + 1) : \E j \in R : rank[j] = k - 1
  <2>1. ASSUME NEW k \in 1..(n + 1) PROVE \E j \in R : rank[j] = k - 1
    <3>1. n - (k - 1) \in 0..n /\ n - (n - (k - 1)) = k - 1
      BY <1>1
    <3> QED
      BY <1>4, <3>1
  <2> QED
    BY <2>1
<1> DEFINE f == [k \in 1..(n + 1) |-> CHOOSE j \in R : rank[j] = k - 1]
<1>6. \A k \in 1..(n + 1) : f[k] \in R /\ rank[f[k]] = k - 1
  BY <1>5
<1>7. f \in [1..(n + 1) -> 1..NumInodes]
  BY <1>6 DEF Inums
<1> HIDE DEF f
<1>8. \A j, k \in 1..(n + 1) : f[j] = f[k] => j = k
  BY <1>6
<1>9. n + 1 <= NumInodes
  <2>1. n + 1 \in Nat
    BY <1>1
  <2> QED
    BY <1>1, <1>7, <1>8, <2>1, Pigeons
<1> QED
  BY <1>1, <1>9 DEF n

\* The inodes below a live inode are the live ones that its entries, and
\* theirs, lead to, all of them: an inode is in every level from the
\* difference of the ranks on, and the levels are enough.
LEMMA BelowLive ==
  ASSUME MemoryTypes, NEW R \in SUBSET Inums, NEW rank \in [Inums -> Nat], Tree(R, rank),
         NEW i \in R
  PROVE  /\ Below(i) \subseteq R \ {i}
         /\ \A y \in Below(i) : rank[y] >= rank[i]
         /\ \A y \in Below(i) \cup {i}, k \in Nat, z \in Inums :
              Ref(y, k, z) => z \in Below(i) \cup {i}
         /\ \A z \in Below(i) : \E y \in Below(i) \cup {i}, k \in Nat : Ref(y, k, z)
<1>1. PICK L \in [0..NumInodes -> SUBSET Inums] :
           /\ L[0] = {i}
           /\ \A k \in 1..NumInodes : L[k] = Wider(L[k - 1])
           /\ Below(i) = L[NumInodes] \ {i}
  BY BelowFollows
<1>2. NumInodes \in Nat \ {0} /\ rank[i] \in Nat
  BY MemoryConstants
<1> DEFINE From(y) == rank[y] - rank[i]
           Good(k) == /\ i \in L[k] /\ L[k] \subseteq R
                      /\ \A y \in L[k] : /\ From(y) \in 0..k
                                         /\ \A j \in From(y)..k : y \in L[j]
                                         /\ y # i => \E x \in L[k], p \in Nat : Ref(x, p, y)
           S == {k \in 0..NumInodes : Good(k)}
<1>3. 0 \in S
  <2>1. \A y \in L[0] : y = i /\ From(y) = 0
    BY <1>1, <1>2
  <2>2. Good(0)
    BY <1>1, <2>1
  <2> QED
    BY <1>2, <2>2
<1>4. ASSUME NEW k \in 0..(NumInodes - 1), k \in S PROVE k + 1 \in S
  <2>1. k \in 0..NumInodes /\ k + 1 \in 1..NumInodes /\ k + 1 \in 0..NumInodes /\ (k + 1) - 1 = k
    BY <1>2
  <2>2. /\ L[k + 1] = Wider(L[k]) /\ L[k] \in SUBSET Inums /\ L[k + 1] \in SUBSET Inums
        /\ L[k] \subseteq L[k + 1]
    BY <1>1, <2>1, WiderTypes
  <2>3. i \in L[k + 1] /\ Good(k)
    BY <1>4, <2>2
  <2>4. ASSUME NEW z \in L[k + 1]
        PROVE  /\ z \in R /\ From(z) \in 0..(k + 1)
               /\ \A j \in From(z)..(k + 1) : z \in L[j]
               /\ z # i => \E x \in L[k + 1], p \in Nat : Ref(x, p, z)
    <3>1. CASE z \in L[k]
      <4>1. z \in R /\ From(z) \in 0..k
        BY <2>3, <3>1
      <4>2. \A j \in From(z)..(k + 1) : j \in From(z)..k \/ j = k + 1
        BY <4>1
      <4>3. \A j \in From(z)..k : z \in L[j]
        BY <2>3, <3>1
      <4>4. \A j \in From(z)..(k + 1) : z \in L[j]
        <5> HIDE DEF From
        <5> QED
          BY <2>4, <4>2, <4>3
      <4>5. z # i => \E x \in L[k + 1], p \in Nat : Ref(x, p, z)
        BY <2>2, <2>3, <3>1
      <4>6. From(z) \in 0..(k + 1)
        BY <4>1
      <4> QED
        BY <4>1, <4>4, <4>5, <4>6
    <3>2. CASE z \notin L[k]
      <4>1. PICK y \in L[k], p \in Nat : Ref(y, p, z)
        BY <2>2, <2>4, <3>2, WiderTypes
      <4>2. y \in R /\ From(y) \in 0..k /\ \A j \in From(y)..k : y \in L[j]
        BY <2>3
      <4>3. z \in R /\ rank[z] = rank[y] + 1
        BY <2>2, <4>1, <4>2 DEF Tree
      <4>4. From(z) = From(y) + 1 /\ From(z) \in 0..(k + 1)
        BY <1>2, <4>2, <4>3
      <4>5. ASSUME NEW j \in From(z)..(k + 1) PROVE z \in L[j]
        <5>1. /\ j - 1 \in From(y)..k /\ j \in 1..NumInodes /\ j - 1 \in 0..NumInodes
              /\ L[j] = Wider(L[j - 1]) /\ L[j - 1] \in SUBSET Inums
          BY <1>1, <1>2, <2>1, <4>2, <4>4
        <5>2. y \in L[j - 1]
          BY <4>2, <5>1
        <5> QED
          BY <2>2, <4>1, <5>1, <5>2, WiderTypes
      <4> QED
        BY <2>2, <4>1, <4>3, <4>4, <4>5
    <3> QED
      BY <3>1, <3>2
  <2>5. Good(k + 1)
    BY <2>3, <2>4
  <2> QED
    BY <2>1, <2>5
<1>5. NumInodes \in S
  <2> HIDE DEF S
  <2>1. NumInodes \in Nat /\ NumInodes \in 0..NumInodes
    BY <1>2
  <2>2. \A k \in 0..NumInodes : k \in S
    BY <1>3, <1>4, <2>1, UpTo
  <2> QED
    BY <2>1, <2>2
<1>6. Good(NumInodes)
  BY <1>5
<1>7. Below(i) \cup {i} = L[NumInodes]
  BY <1>1, <1>6
<1>8. \A y \in L[NumInodes] : y \in R /\ rank[y] >= rank[i]
  BY <1>2, <1>6
<1>9. ASSUME NEW y \in L[NumInodes], NEW k \in Nat, NEW z \in Inums, Ref(y, k, z)
      PROVE  z \in L[NumInodes]
  <2>1. y \in R /\ rank[y] < NumInodes /\ From(y) \in 0..NumInodes
    BY <1>6, RankBound
  <2>2. /\ NumInodes - 1 \in From(y)..NumInodes /\ NumInodes - 1 \in 0..NumInodes
        /\ NumInodes \in 1..NumInodes
    BY <1>2, <2>1
  <2>3. y \in L[NumInodes - 1] /\ L[NumInodes - 1] \in SUBSET Inums
    BY <1>6, <2>2
  <2> QED
    BY <1>1, <1>9, <2>2, <2>3, WiderTypes
<1> QED
  BY <1>1, <1>6, <1>7, <1>8, <1>9

\* Everything live can be reached from the root, and nothing else.
LEMMA ReachableLive ==
  ASSUME MemoryTypes, mounted, NEW R \in SUBSET Inums, NEW rank \in [Inums -> Nat],
         Tree(R, rank)
  PROVE  Reachable = R
<1> DEFINE D == Below(ROOT_INODE) \cup {ROOT_INODE}
<1>1. /\ ROOT_INODE \in R /\ D \subseteq R /\ Reachable = D
      /\ \A y \in D, k \in Nat, z \in Inums : Ref(y, k, z) => z \in D
  BY BelowLive DEF Tree, Reachable
<1> HIDE DEF D
<1>2. R \subseteq D
  <2> DEFINE T == {rank[x] : x \in R \ D}
  <2> SUFFICES ASSUME R \ D # {} PROVE FALSE
    OBVIOUS
  <2>1. T \subseteq Nat /\ T # {}
    OBVIOUS
  <2>2. PICK r \in T : \A s \in T : r <= s
    <3> HIDE DEF T
    <3> QED
      BY <2>1, LeastMember
  <2>3. PICK x \in R \ D : rank[x] = r
    OBVIOUS
  <2>4. x # ROOT_INODE
    BY <2>3 DEF D
  <2>5. PICK d \in R, k \in Nat : Ref(d, k, x)
    BY <2>3, <2>4 DEF Tree
  <2>6. rank[x] = rank[d] + 1 /\ rank[d] \in Nat
    BY <2>3, <2>5 DEF Tree
  <2>7. d \in D
    BY <2>2, <2>3, <2>6
  <2> QED
    BY <1>1, <2>3, <2>5, <2>7
<1> QED
  BY <1>1, <1>2

\* A live directory has no more entries than there are inodes.
LEMMA PlaceBound ==
  ASSUME MemoryTypes, NEW R \in SUBSET Inums, NEW rank, Tree(R, rank),
         NEW d \in R, node[d].dir, NEW k \in DOMAIN node[d].ents
  PROVE  k \in 1..NumInodes
<1> DEFINE s == node[d].ents
           f == [j \in 1..Len(s) |-> s[j].inum]
<1>1. s \in Seq(Entry)
  BY DEF MemoryTypes, Node
<1>2. DOMAIN s = 1..Len(s) /\ Len(s) \in Nat /\ NumInodes \in Nat
  BY <1>1, MemoryConstants
<1>3. \A j \in 1..Len(s) : j \in Nat /\ f[j] \in Inums /\ Ref(d, j, f[j])
  BY <1>2, RefTypes
<1>4. f \in [1..Len(s) -> 1..NumInodes]
  BY <1>3 DEF Inums
<1> HIDE DEF f
<1>5. ASSUME NEW i \in 1..Len(s), NEW j \in 1..Len(s), f[i] = f[j] PROVE i = j
  <2>1. PICK x \in Inums : x = f[i] /\ x = f[j]
    BY <1>3, <1>5
  <2>2. i \in Nat /\ j \in Nat /\ Ref(d, i, x) /\ Ref(d, j, x)
    BY <1>3, <2>1
  <2> QED
    BY <2>2 DEF Tree
<1>6. Len(s) <= NumInodes
  BY <1>2, <1>4, <1>5, Pigeons
<1>7. k \in 1..Len(s)
  BY <1>2
<1> HIDE DEF s
<1> QED
  BY <1>2, <1>6, <1>7

\* The places of a live inode's name.
LEMMA NamedOnce ==
  ASSUME MemoryTypes, mounted, NEW R \in SUBSET Inums, NEW rank \in [Inums -> Nat],
         Tree(R, rank), NEW i \in R
  PROVE  Cardinality(References(i)) = IF i = ROOT_INODE THEN 0 ELSE 1
<1>1. Reachable = R
  BY ReachableLive
<1>2. \A r \in References(i) : /\ r = <<r[1], r[2]>> /\ r[1] \in R /\ r[2] \in Nat
                               /\ Ref(r[1], r[2], i)
  BY <1>1 DEF References, Ref
<1>3. CASE i = ROOT_INODE
  <2>1. References(i) = {}
    BY <1>2, <1>3 DEF Tree
  <2> QED
    BY <1>3, <2>1, FS_EmptySet
<1>4. CASE i # ROOT_INODE
  <2>1. PICK d \in R, k \in Nat : Ref(d, k, i)
    BY <1>4 DEF Tree
  <2>2. k \in 1..NumInodes
    BY <2>1, PlaceBound DEF Ref
  <2>3. <<d, k>> \in References(i)
    BY <1>1, <2>1, <2>2 DEF References, Ref
  <2>4. \A r \in References(i) : r = <<d, k>>
    BY <1>2, <2>1 DEF Tree
  <2>5. References(i) = {<<d, k>>}
    BY <2>3, <2>4
  <2> QED
    BY <1>4, <2>5, FS_Singleton
<1> QED
  BY <1>3, <1>4

\* What the invariant says of what can be reached.
LEMMA MInvSound == MInv => TypeOK /\ ReachableSound /\ AbandonedOnlyByRmdir
<1> SUFFICES ASSUME MInv PROVE TypeOK /\ ReachableSound /\ AbandonedOnlyByRmdir
  OBVIOUS
<1>1. TypeOK
  BY RefTypes DEF MInv, MemoryTypes, TypeOK, Node
<1>2. CASE ~ mounted
  <2>1. Reachable = {} /\ dropped = {} /\ ibitmap = {}
    BY <1>2 DEF Reachable, MInv, Clean
  <2> QED
    BY <1>1, <2>1 DEF ReachableSound, AbandonedOnlyByRmdir
<1>3. CASE mounted
  <2>1. PICK R \in SUBSET Inums, rank \in [Inums -> Nat] : Tree(R, rank) /\ Accounted(R)
    BY <1>3 DEF MInv, Rooted
  <2>2. Reachable = R
    BY <1>3, <2>1, ReachableLive DEF MInv
  <2>3. ReachableSound
    BY <1>3, <2>1, <2>2, NamedOnce DEF MInv, ReachableSound, Accounted
  <2>4. AbandonedOnlyByRmdir
    BY <2>1, <2>2 DEF MInv, PendingOpen, AbandonedOnlyByRmdir, Accounted
  <2> QED
    BY <1>1, <2>3, <2>4
<1> QED
  BY <1>2, <1>3 DEF MInv, MemoryTypes

-----------------------------------------------------------------------------
(* Entries come and go *)

\* The tree is as it was when its directories are.
LEMMA TreeStays ==
  ASSUME NEW R, NEW rank, Tree(R, rank),
         \A d \in R : node'[d].dir = node[d].dir /\ node'[d].ents = node[d].ents
  PROVE  Tree(R, rank)'
<1>1. \A d \in R, k \in Nat, i \in Inums : Ref(d, k, i)' <=> Ref(d, k, i)
  BY DEF Ref
<1>2. \A d \in R, k \in Nat, i \in Inums :
        Ref(d, k, i)' => i \in R /\ i # ROOT_INODE /\ rank[i] = rank[d] + 1
  BY <1>1 DEF Tree
<1>3. \A d, e \in R, j, k \in Nat, i \in Inums :
        Ref(d, j, i)' /\ Ref(e, k, i)' => d = e /\ j = k
  BY <1>1 DEF Tree
<1>4. \A i \in R \ {ROOT_INODE} : \E d \in R, k \in Nat : Ref(d, k, i)'
  BY DEF Tree, Ref
<1> QED
  BY <1>2, <1>3, <1>4 DEF Tree

\* The last entry is in the place of the one that went.
LEMMA RemoveShifts ==
  ASSUME NEW s \in Seq(Entry), NEW x \in DOMAIN s
  PROVE  /\ remove_dirent(s, x) \in Seq(Entry)
         /\ DOMAIN remove_dirent(s, x) = 1..(Len(s) - 1)
         /\ \A k \in 1..(Len(s) - 1) :
              remove_dirent(s, x)[k] = IF k = x THEN s[Len(s)] ELSE s[k]
<1> DEFINE u == [s EXCEPT ![x] = s[Len(s)]]
           m == Len(s) - 1
<1>1. Len(s) \in Nat \ {0} /\ DOMAIN s = 1..Len(s) /\ Len(s) \in 1..Len(s)
  OBVIOUS
<1>2. u \in Seq(Entry) /\ Len(u) = Len(s)
  BY <1>1
<1>3. \A k \in 1..Len(s) : u[k] = IF k = x THEN s[Len(s)] ELSE s[k]
  BY <1>1
<1>4. m \in 0..Len(u) /\ remove_dirent(s, x) = SubSeq(u, 1, m)
  BY <1>1, <1>2 DEF remove_dirent
<1> HIDE DEF u
<1>5. SubSeq(u, 1, m) \in Seq(Entry) /\ Len(SubSeq(u, 1, m)) = m
  BY <1>1, <1>2, <1>4
<1>6. \A k \in 1..m : SubSeq(u, 1, m)[k] = u[k]
  BY <1>1, <1>2, <1>4
<1> QED
  BY <1>1, <1>3, <1>4, <1>5, <1>6

\* Where an entry was before the one at x of directory p went
Was(d, k, p, x) == IF d = p /\ k = x THEN Len(node[p].ents) ELSE k

\* The entries of all directories after one went.
LEMMA UnlinkedRefs ==
  ASSUME MemoryTypes, NEW p \in Inums, NEW x \in DOMAIN node[p].ents,
         node' = [node EXCEPT ![p].ents = remove_dirent(@, x)]
  PROVE  /\ node' \in [Inums -> Node]
         /\ \A d \in Inums : node'[d].dir = node[d].dir /\ node'[d].size = node[d].size
         /\ \A d \in Inums, k \in Nat, i \in Inums : Ref(d, k, i)' =>
              /\ Was(d, k, p, x) \in Nat /\ Ref(d, Was(d, k, p, x), i)
              /\ ~ (d = p /\ Was(d, k, p, x) = x)
         /\ \A d \in Inums, k \in Nat, i \in Inums :
              Ref(d, k, i) /\ ~ (d = p /\ k = x) => \E j \in Nat : Ref(d, j, i)'
         /\ \A d \in Inums, j, k \in Nat, i \in Inums :
              Ref(d, j, i)' /\ Ref(d, k, i)' /\ Was(d, j, p, x) = Was(d, k, p, x) => j = k
<1> DEFINE s == node[p].ents
           t == remove_dirent(s, x)
<1>1. s \in Seq(Entry) /\ node[p] \in Node
  BY DEF MemoryTypes, Node
<1>2. /\ t \in Seq(Entry) /\ DOMAIN t = 1..(Len(s) - 1)
      /\ \A k \in 1..(Len(s) - 1) : t[k] = IF k = x THEN s[Len(s)] ELSE s[k]
  BY <1>1, RemoveShifts
<1>3. /\ Len(s) \in Nat \ {0} /\ DOMAIN s = 1..Len(s) /\ Len(s) \in DOMAIN s /\ x \in 1..Len(s)
      /\ x \in Nat
  BY <1>1
<1>4. /\ node'[p] = [node[p] EXCEPT !.ents = t]
      /\ \A d \in Inums \ {p} : node'[d] = node[d]
      /\ node' = [d \in Inums |-> node'[d]]
  BY DEF MemoryTypes
<1> HIDE DEF t
<1>5. node'[p] \in Node /\ node'[p].dir = node[p].dir /\ node'[p].size = node[p].size
      /\ node'[p].ents = t
  BY <1>1, <1>2, <1>4 DEF Node
<1>6. node' \in [Inums -> Node]
  BY <1>4, <1>5 DEF MemoryTypes
<1>7. \A d \in Inums : node'[d].dir = node[d].dir /\ node'[d].size = node[d].size
  BY <1>4, <1>5
<1>8. ASSUME NEW d \in Inums, NEW k \in Nat, NEW i \in Inums, Ref(d, k, i)'
      PROVE  /\ Was(d, k, p, x) \in Nat /\ Ref(d, Was(d, k, p, x), i)
             /\ ~ (d = p /\ Was(d, k, p, x) = x)
             /\ d = p => k \in 1..(Len(s) - 1)
  <2>1. CASE d # p
    BY <1>4, <1>8, <2>1 DEF Ref, Was
  <2>2. CASE d = p
    <3>1. k \in 1..(Len(s) - 1) /\ node[p].dir /\ t[k].inum = i
      BY <1>2, <1>5, <1>8, <2>2 DEF Ref
    <3>2. CASE k = x
      BY <1>2, <1>3, <2>2, <3>1, <3>2 DEF Ref, Was
    <3>3. CASE k # x
      <4>1. k \in DOMAIN s /\ s[k] = t[k]
        BY <1>2, <1>3, <3>1, <3>3
      <4> QED
        BY <2>2, <3>1, <3>3, <4>1 DEF Ref, Was
    <3> QED
      BY <3>2, <3>3
  <2> QED
    BY <2>1, <2>2
<1>9. ASSUME NEW d \in Inums, NEW k \in Nat, NEW i \in Inums, Ref(d, k, i), ~ (d = p /\ k = x)
      PROVE  \E j \in Nat : Ref(d, j, i)'
  <2>1. CASE d # p
    BY <1>4, <1>9, <2>1 DEF Ref
  <2>2. CASE d = p
    <3>1. k \in 1..Len(s) /\ k # x /\ node[p].dir /\ s[k].inum = i
      BY <1>3, <1>9, <2>2 DEF Ref
    <3>2. CASE k = Len(s)
      <4>1. x \in 1..(Len(s) - 1) /\ t[x].inum = i
        BY <1>2, <1>3, <3>1, <3>2
      <4>2. Ref(p, x, i)'
        BY <1>2, <1>5, <3>1, <4>1 DEF Ref
      <4> QED
        BY <1>3, <2>2, <4>2
    <3>3. CASE k # Len(s)
      <4>1. k \in 1..(Len(s) - 1) /\ t[k].inum = i
        BY <1>2, <1>3, <3>1, <3>3
      <4>2. Ref(p, k, i)'
        BY <1>2, <1>5, <3>1, <4>1 DEF Ref
      <4> QED
        BY <2>2, <4>2
    <3> QED
      BY <3>2, <3>3
  <2> QED
    BY <2>1, <2>2
<1>10. ASSUME NEW d \in Inums, NEW j \in Nat, NEW k \in Nat, NEW i \in Inums,
              Ref(d, j, i)', Ref(d, k, i)', Was(d, j, p, x) = Was(d, k, p, x)
       PROVE  j = k
  <2>1. d = p => j \in 1..(Len(s) - 1) /\ k \in 1..(Len(s) - 1)
    BY <1>8, <1>10
  <2> QED
    BY <1>3, <1>10, <2>1 DEF Was
<1> QED
  BY <1>6, <1>7, <1>8, <1>9, <1>10

\* The inode i and everything that its entries, and theirs, lead to
Branch(X, i) == /\ i \in X /\ ROOT_INODE \notin X
                /\ \A y \in X, k \in Nat, z \in Inums : Ref(y, k, z) => z \in X
                /\ \A z \in X \ {i} : \E y \in X, k \in Nat : Ref(y, k, z)

\* An inode i goes with its entry at x of p, and with everything below it: the
\* rest is still a tree.
LEMMA TreeCut ==
  ASSUME MemoryTypes, NEW R \in SUBSET Inums, NEW rank, Tree(R, rank),
         NEW p \in R, NEW x \in Nat, NEW i \in R, Ref(p, x, i),
         NEW X \in SUBSET R, Branch(X, i),
         node' = [node EXCEPT ![p].ents = remove_dirent(@, x)]
  PROVE  Tree(R \ X, rank)'
<1> DEFINE Q == R \ X
           W(d, k) == Was(d, k, p, x)
<1>1. x \in DOMAIN node[p].ents
  BY DEF Ref
<1>2. /\ \A d \in Inums : node'[d].dir = node[d].dir
      /\ \A d \in Inums, k \in Nat, z \in Inums : Ref(d, k, z)' =>
              W(d, k) \in Nat /\ Ref(d, W(d, k), z) /\ ~ (d = p /\ W(d, k) = x)
      /\ \A d \in Inums, k \in Nat, z \in Inums :
              Ref(d, k, z) /\ ~ (d = p /\ k = x) => \E j \in Nat : Ref(d, j, z)'
      /\ \A d \in Inums, j, k \in Nat, z \in Inums :
              Ref(d, j, z)' /\ Ref(d, k, z)' /\ W(d, j) = W(d, k) => j = k
  BY <1>1, UnlinkedRefs
<1> HIDE DEF W
<1>3. ROOT_INODE \in Q /\ node'[ROOT_INODE].dir /\ rank[ROOT_INODE] = 0
  BY <1>2 DEF Tree, Branch
<1>4. ASSUME NEW d \in Q, NEW k \in Nat, NEW z \in Inums, Ref(d, k, z)'
      PROVE  z \in Q /\ z # ROOT_INODE /\ rank[z] = rank[d] + 1
  <2>1. PICK j \in Nat : Ref(d, j, z) /\ ~ (d = p /\ j = x)
    BY <1>2, <1>4
  <2>2. z \in R /\ z # ROOT_INODE /\ rank[z] = rank[d] + 1
    BY <2>1 DEF Tree
  <2>3. z # i
    BY <2>1 DEF Tree
  <2>4. z \notin X
    <3> SUFFICES ASSUME z \in X PROVE FALSE
      OBVIOUS
    <3>1. PICK y \in X, k2 \in Nat : Ref(y, k2, z)
      BY <2>3 DEF Branch
    <3>2. d = y
      BY <2>1, <3>1 DEF Tree
    <3> QED
      BY <3>2
  <2> QED
    BY <2>2, <2>4
<1>5. ASSUME NEW d \in Q, NEW e \in Q, NEW j \in Nat, NEW k \in Nat, NEW z \in Inums,
             Ref(d, j, z)', Ref(e, k, z)'
      PROVE  d = e /\ j = k
  <2>1. /\ W(d, j) \in Nat /\ Ref(d, W(d, j), z)
        /\ W(e, k) \in Nat /\ Ref(e, W(e, k), z)
    BY <1>2, <1>5
  <2>2. d = e /\ W(d, j) = W(e, k)
    BY <2>1 DEF Tree
  <2> QED
    BY <1>2, <1>5, <2>2
<1>6. ASSUME NEW z \in Q \ {ROOT_INODE} PROVE \E d \in Q, k \in Nat : Ref(d, k, z)'
  <2>1. PICK d \in R, k \in Nat : Ref(d, k, z)
    BY DEF Tree
  <2>2. d \in Q
    BY <2>1 DEF Branch
  <2>3. ~ (d = p /\ k = x)
    BY <2>1 DEF Ref, Branch
  <2> QED
    BY <1>2, <2>1, <2>2, <2>3
<1> HIDE DEF Q
<1>7. Tree(Q, rank)'
  BY <1>3, <1>4, <1>5, <1>6 DEF Tree
<1> QED
  BY <1>7 DEF Q

\* The first clear bit of the bitmap is clear.
LEMMA CreateFree ==
  ASSUME inode_create # INVALID_INODE
  PROVE  inode_create \in Inums \ ibitmap
<1> DEFINE T == Inums \ ibitmap
<1>1. T # {} /\ T \subseteq Nat
  BY MemoryConstants DEF inode_create, Inums
<1>2. inode_create = CHOOSE i \in T : \A j \in T : i <= j
  BY DEF inode_create
<1> HIDE DEF T
<1>3. \E i \in T : \A j \in T : i <= j
  BY <1>1, LeastMember
<1>4. inode_create \in T
  BY <1>2, <1>3
<1> QED
  BY <1>4 DEF T

\* A new inode i without entries gets a name in the live directory p.
LEMMA TreeGrows ==
  ASSUME MemoryTypes, NEW R \in SUBSET Inums, NEW rank \in [Inums -> Nat], Tree(R, rank),
         NEW p \in R, node[p].dir, NEW i \in Inums \ R, NEW name \in Names,
         NEW new \in Node, new.ents = <<>>,
         node' = [node EXCEPT ![i] = new, ![p].ents = add_dirent(@, name, i)]
  PROVE  /\ node' \in [Inums -> Node]
         /\ \A d \in Inums \ {i} : node'[d].dir = node[d].dir /\ node'[d].size = node[d].size
         /\ node'[i] = new
         /\ \E r \in [Inums -> Nat] : Tree(R \cup {i}, r)'
<1> DEFINE s == node[p].ents
           t == Append(s, [name |-> name, inum |-> i])
           Q == R \cup {i}
           r == [rank EXCEPT ![i] = rank[p] + 1]
<1>1. s \in Seq(Entry) /\ [name |-> name, inum |-> i] \in Entry /\ node[p] \in Node
  BY DEF MemoryTypes, Node, Entry
<1>0. PICK n \in Nat : n = Len(s) + 1
  BY <1>1
<1>2. /\ t \in Seq(Entry) /\ DOMAIN t = 1..n /\ DOMAIN s = 1..Len(s) /\ Len(s) \in Nat
      /\ t[n].inum = i /\ \A k \in 1..Len(s) : t[k] = s[k]
  BY <1>0, <1>1
<1>3. /\ node'[p] = [node[p] EXCEPT !.ents = t] /\ node'[i] = new
      /\ \A d \in Inums \ {p, i} : node'[d] = node[d]
      /\ node' = [d \in Inums |-> node'[d]]
  BY DEF MemoryTypes, add_dirent
<1> HIDE DEF t
<1>4. /\ node'[p] \in Node /\ node'[p].dir = node[p].dir /\ node'[p].size = node[p].size
      /\ node'[p].ents = t
  BY <1>1, <1>2, <1>3 DEF Node
<1>5. node' \in [Inums -> Node]
  BY <1>3, <1>4 DEF MemoryTypes
<1>6. \A d \in Inums \ {i} : node'[d].dir = node[d].dir /\ node'[d].size = node[d].size
  BY <1>3, <1>4
<1>7. \A d \in Q, k \in Nat, z \in Inums :
        Ref(d, k, z)' <=> \/ d # i /\ Ref(d, k, z)
                          \/ d = p /\ k = n /\ z = i
  <2>1. ASSUME NEW k \in Nat, NEW z \in Inums
        PROVE  Ref(p, k, z)' <=> Ref(p, k, z) \/ (k = n /\ z = i)
    <3>1. k \in 1..n <=> k \in 1..Len(s) \/ k = n
      BY <1>0, <1>2
    <3>2. ~ (n \in 1..Len(s))
      BY <1>0, <1>2
    <3>3. Ref(p, k, z)' <=> k \in 1..n /\ t[k].inum = z
      BY <1>2, <1>4 DEF Ref
    <3>4. Ref(p, k, z) <=> k \in 1..Len(s) /\ s[k].inum = z
      BY <1>2 DEF Ref
    <3> QED
      BY <1>2, <3>1, <3>2, <3>3, <3>4
  <2>2. \A d \in R \ {p}, k \in Nat, z \in Inums : Ref(d, k, z)' <=> Ref(d, k, z)
    BY <1>3 DEF Ref
  <2>3. \A k \in Nat, z \in Inums : ~ Ref(i, k, z)'
    BY <1>3 DEF Ref
  <2> QED
    BY <2>1, <2>2, <2>3
<1>8. \A d \in R, k \in Nat : ~ Ref(d, k, i)
  BY DEF Tree
<1>9. /\ r[i] = rank[p] + 1 /\ \A d \in R : r[d] = rank[d]
      /\ i # ROOT_INODE
  BY DEF Tree
<1>10. ROOT_INODE \in Q /\ node'[ROOT_INODE].dir /\ r[ROOT_INODE] = 0
  BY <1>6, <1>9 DEF Tree
<1> HIDE DEF r
<1>11. \A d \in Q, k \in Nat, z \in Inums :
         Ref(d, k, z)' => z \in Q /\ z # ROOT_INODE /\ r[z] = r[d] + 1
  BY <1>7, <1>9 DEF Tree
<1>12. \A d, e \in Q, j, k \in Nat, z \in Inums :
         Ref(d, j, z)' /\ Ref(e, k, z)' => d = e /\ j = k
  BY <1>7, <1>8 DEF Tree
<1>13. ASSUME NEW z \in Q \ {ROOT_INODE} PROVE \E d \in Q, k \in Nat : Ref(d, k, z)'
  <2>1. CASE z = i
    <3>1. Ref(p, n, i)'
      BY <1>7
    <3> QED
      BY <2>1, <3>1
  <2>2. CASE z # i
    <3>1. PICK d \in R, k \in Nat : Ref(d, k, z)
      BY <2>2 DEF Tree
    <3> QED
      BY <1>7, <3>1
  <2> QED
    BY <2>1, <2>2
<1> HIDE DEF Q
<1>14. Tree(Q, r)'
  BY <1>10, <1>11, <1>12, <1>13 DEF Tree
<1>15. r \in [Inums -> Nat]
  BY DEF r
<1> QED
  BY <1>3, <1>5, <1>6, <1>14, <1>15 DEF Q

-----------------------------------------------------------------------------
(* The invariant *)

\* New inodes are well formed.
LEMMA NewNodes == File \in Node /\ Directory \in Node
<1>1. 0 \in 0..(UINT - 1)
  BY MemoryConstants
<1>2. <<>> \in Seq(Entry)
  OBVIOUS
<1> QED
  BY <1>1, <1>2 DEF File, Directory, Node

\* 0 is no inode.
LEMMA NoInode == INVALID_INODE \notin Inums
  BY MemoryConstants DEF INVALID_INODE, Inums

\* What waits to be deleted is still there.
LEMMA PendingAllocated ==
  ASSUME MInv
  PROVE  pending \subseteq ibitmap
  BY NoInode DEF MInv, MemoryTypes, PendingOpen, Open, OpenStays

\* Nothing is mounted: there is no tree to speak of.
LEMMA CleanState ==
  ASSUME mounted = FALSE, ibitmap = {}, pending = {}, dropped = {},
         node = [i \in Inums |-> File], length = [i \in Inums |-> 0],
         fds = [fd \in Fds |-> INVALID_INODE]
  PROVE  MInv
<1>1. MemoryTypes
  BY NewNodes DEF MemoryTypes
<1> QED
  BY <1>1 DEF MInv, Clean, PendingOpen, OpenStays, SizesExact, Rooted

\* The same of the state after a step.
LEMMA CleanNext ==
  ( /\ mounted = FALSE /\ ibitmap = {} /\ pending = {} /\ dropped = {}
    /\ node = [i \in Inums |-> File] /\ length = [i \in Inums |-> 0]
    /\ fds = [fd \in Fds |-> INVALID_INODE] )' => MInv'
  BY CleanState, PTL

\* A call that kills the process leaves nothing.
LEMMA GoneMInv == Gone => MInv'
  BY CleanNext DEF Gone

\* A new file system has a root directory and nothing else.
LEMMA InitMInv ==
  ASSUME MInv, fs_init
  PROVE  MInv'
<1>0. ROOT_INODE \in Inums
  BY MemoryConstants DEF ROOT_INODE, Inums
<1>1. /\ ~ mounted /\ mounted' = TRUE /\ ibitmap' = {ROOT_INODE}
      /\ pending' = {} /\ dropped' = {}
      /\ fds' = fds /\ \A fd \in Fds : fds[fd] = INVALID_INODE
  BY DEF fs_init, MInv, Clean
<1>2. /\ node' \in [Inums -> Node] /\ length' \in [Inums -> Nat]
      /\ node'[ROOT_INODE] = Directory
  BY <1>0, NewNodes DEF fs_init
<1>3. MemoryTypes'
  BY <1>0, <1>1, <1>2 DEF MInv, MemoryTypes
<1>4. Clean' /\ PendingOpen' /\ OpenStays'
  BY <1>1 DEF Clean, PendingOpen, OpenStays
<1>5. SizesExact'
  BY <1>1, <1>2 DEF SizesExact, Directory
<1>6. Rooted'
  <2> DEFINE R == {ROOT_INODE}
             rank == [i \in Inums |-> 0]
  <2>1. \A k, i : ~ Ref(ROOT_INODE, k, i)'
    BY <1>2 DEF Ref, Directory
  <2>2. Tree(R, rank)'
    BY <1>0, <1>2, <2>1 DEF Tree, Directory
  <2>3. Accounted(R)'
    BY <1>1 DEF Accounted
  <2>4. R \in SUBSET Inums /\ rank \in [Inums -> Nat]
    BY <1>0
  <2> HIDE DEF R, rank
  <2> QED
    BY <2>2, <2>3, <2>4 DEF Rooted
<1> QED
  BY <1>3, <1>4, <1>5, <1>6 DEF MInv

\* mknod_fs and mkdir_fs.
LEMMA MakeMInv ==
  ASSUME MInv, NEW path \in Paths, NEW new \in {File, Directory}, Make(path, new)
  PROVE  MInv'
<1>1. mounted /\ ParentIsDir(path) /\ inode_create # INVALID_INODE
  BY DEF Make
<1>2. PICK R \in SUBSET Inums, rank \in [Inums -> Nat] : Tree(R, rank) /\ Accounted(R)
  BY <1>1 DEF MInv, Rooted
<1>3. PICK p \in R : p = Parent(path) /\ node[p].dir
  BY <1>1, <1>2, ParentLive DEF MInv, ParentIsDir
<1>4. PICK i \in Inums \ ibitmap : i = inode_create
  BY <1>1, CreateFree
<1>5. PICK name \in Names : name = Last(path)
  BY PathTypes DEF Last
<1>6. /\ node' = [node EXCEPT ![i] = new, ![p].ents = add_dirent(@, name, i)]
      /\ ibitmap' = ibitmap \cup {i} /\ length' = [length EXCEPT ![i] = 0]
      /\ UNCHANGED <<mounted, fds, pending, dropped>>
  BY <1>3, <1>4, <1>5 DEF Make
<1>7. i \in Inums \ R /\ new \in Node /\ new.ents = <<>> /\ new.size = 0
  <2>1. new.ents = <<>> /\ new.size = 0
    BY DEF File, Directory
  <2>2. new \in Node
    BY NewNodes
  <2> QED
    BY <1>2, <2>1, <2>2 DEF Accounted
<1>8. /\ node' \in [Inums -> Node] /\ node'[i] = new
      /\ \A d \in Inums \ {i} : node'[d].dir = node[d].dir /\ node'[d].size = node[d].size
      /\ \E r \in [Inums -> Nat] : Tree(R \cup {i}, r)'
  BY <1>2, <1>3, <1>6, <1>7, TreeGrows DEF MInv
<1>9. PICK r \in [Inums -> Nat] : Tree(R \cup {i}, r)'
  BY <1>8
<1>10. Rooted'
  <2>1. Accounted(R \cup {i})'
    BY <1>2, <1>4, <1>6, PendingAllocated DEF Accounted
  <2> QED
    BY <1>9, <2>1 DEF Rooted
<1>11. \A fd \in Fds : fds[fd] # i \/ i = INVALID_INODE
  BY <1>4 DEF MInv, OpenStays
<1>12. MemoryTypes'
  BY <1>6, <1>8 DEF MInv, MemoryTypes
<1>13. Clean' /\ PendingOpen'
  BY <1>1, <1>6 DEF MInv, Clean, PendingOpen, Open
<1>14. OpenStays'
  BY <1>6, <1>8, <1>11 DEF MInv, OpenStays, MemoryTypes
<1>15. SizesExact'
  <2>1. length'[i] = 0 /\ \A j \in Inums \ {i} : length'[j] = length[j]
    BY <1>6 DEF MInv, MemoryTypes
  <2>2. \A j \in ibitmap : j \in Inums \ {i}
    BY <1>4 DEF MInv, MemoryTypes
  <2> QED
    BY <1>6, <1>7, <1>8, <2>1, <2>2 DEF MInv, SizesExact
<1> QED
  BY <1>10, <1>12, <1>13, <1>14, <1>15 DEF MInv

\* What both kinds of removal do to the tree: the entry goes, and the inodes X.
LEMMA Removed ==
  ASSUME MInv, mounted, NEW R \in SUBSET Inums, NEW rank \in [Inums -> Nat], Tree(R, rank),
         NEW path \in Paths, NEW i \in R, i = Target(path), i # INVALID_INODE,
         NEW X \in SUBSET R, Branch(X, i),
         node' = Unlinked(path)
  PROVE  /\ node' \in [Inums -> Node]
         /\ \A d \in Inums : node'[d].dir = node[d].dir /\ node'[d].size = node[d].size
         /\ Tree(R \ X, rank)'
<1>1. PICK p \in R : p = Parent(path)
  BY TargetLive DEF MInv
<1>2. PICK x \in Nat : x = search_by_name(Parent(path), Last(path))
  BY TargetLive DEF MInv
<1>3. Ref(p, x, i)
  BY <1>1, <1>2, TargetLive DEF MInv
<1>4. node' = [node EXCEPT ![p].ents = remove_dirent(@, x)]
  BY <1>1, <1>2 DEF Unlinked
<1>5. p \in Inums /\ x \in DOMAIN node[p].ents
  BY <1>3 DEF Ref
<1>6. /\ node' \in [Inums -> Node]
      /\ \A d \in Inums : node'[d].dir = node[d].dir /\ node'[d].size = node[d].size
  BY <1>4, <1>5, UnlinkedRefs DEF MInv
<1>7. Tree(R \ X, rank)'
  BY <1>3, <1>4, TreeCut DEF MInv
<1> QED
  BY <1>6, <1>7

\* fs_unlink.
LEMMA UnlinkMInv ==
  ASSUME MInv, NEW path \in Paths, fs_unlink(path)
  PROVE  MInv'
<1>1. CASE Gone
  BY <1>1, GoneMInv
<1>2. CASE ~ Gone
  <2>1. mounted /\ Target(path) # INVALID_INODE /\ ~ node[Target(path)].dir
    BY DEF fs_unlink
  <2>2. PICK R \in SUBSET Inums, rank \in [Inums -> Nat] : Tree(R, rank) /\ Accounted(R)
    BY <2>1 DEF MInv, Rooted
  <2>3. PICK i \in R : i = Target(path) /\ i # ROOT_INODE /\ i # INVALID_INODE /\ ~ node[i].dir
    BY <2>1, <2>2, TargetLive DEF MInv
  <2>4. /\ \/ Open(i) /\ pending' = pending \cup {i} /\ ibitmap' = ibitmap
           \/ ~ Open(i) /\ pending' = pending /\ ibitmap' = ibitmap \ {i}
        /\ node' = Unlinked(path)
        /\ UNCHANGED <<mounted, fds, length, dropped>>
    BY <1>2, <2>3 DEF fs_unlink, del, Die
  <2>5. PICK X \in SUBSET R : X = {i}
    OBVIOUS
  <2>6. Branch(X, i)
    BY <2>3, <2>5 DEF Ref, Branch
  <2>7. /\ node' \in [Inums -> Node]
        /\ \A d \in Inums : node'[d].dir = node[d].dir /\ node'[d].size = node[d].size
        /\ Tree(R \ X, rank)'
    BY <2>1, <2>2, <2>3, <2>4, <2>6, Removed
  <2>8. MemoryTypes'
    BY <2>4, <2>7 DEF MInv, MemoryTypes
  <2>9. Clean' /\ PendingOpen'
    BY <2>1, <2>2, <2>3, <2>4 DEF MInv, Clean, PendingOpen, Open, Accounted
  <2>10. OpenStays'
    BY <2>4, <2>7, NoInode DEF MInv, OpenStays, MemoryTypes, Open
  <2>11. SizesExact'
    BY <2>4, <2>7 DEF MInv, SizesExact, MemoryTypes
  <2>12. Rooted'
    <3>1. Accounted(R \ X)'
      BY <2>2, <2>4, <2>5 DEF Accounted
    <3>2. R \ X \in SUBSET Inums
      OBVIOUS
    <3> QED
      BY <2>7, <3>1, <3>2 DEF Rooted
  <2> QED
    BY <2>8, <2>9, <2>10, <2>11, <2>12 DEF MInv
<1> QED
  BY <1>1, <1>2

\* fs_rmdir: the inodes below the directory are neither live nor free.
LEMMA RmdirMInv ==
  ASSUME MInv, NEW path \in Paths, fs_rmdir(path)
  PROVE  MInv'
<1>1. mounted /\ Target(path) # INVALID_INODE /\ node[Target(path)].dir
  BY DEF fs_rmdir
<1>2. PICK R \in SUBSET Inums, rank \in [Inums -> Nat] : Tree(R, rank) /\ Accounted(R)
  BY <1>1 DEF MInv, Rooted
<1>3. PICK i \in R : i = Target(path) /\ i # ROOT_INODE /\ i # INVALID_INODE /\ node[i].dir
  BY <1>1, <1>2, TargetLive DEF MInv
<1>4. /\ node' = Unlinked(path) /\ ibitmap' = ibitmap \ {i} /\ dropped' = dropped \cup Below(i)
      /\ UNCHANGED <<mounted, fds, pending, length>>
  BY <1>3 DEF fs_rmdir, del
<1>5. /\ Below(i) \subseteq R \ {i}
      /\ \A y \in Below(i) : rank[y] >= rank[i]
      /\ \A y \in Below(i) \cup {i}, k \in Nat, z \in Inums :
           Ref(y, k, z) => z \in Below(i) \cup {i}
      /\ \A z \in Below(i) : \E y \in Below(i) \cup {i}, k \in Nat : Ref(y, k, z)
  BY <1>2, BelowLive DEF MInv
<1>6. PICK X \in SUBSET R : X = Below(i) \cup {i}
  BY <1>5
<1>7. ROOT_INODE \notin X
  <2>1. PICK d \in R, k \in Nat : Ref(d, k, i)
    BY <1>2, <1>3 DEF Tree
  <2>2. rank[i] = rank[d] + 1 /\ rank[d] \in Nat /\ rank[ROOT_INODE] = 0
    BY <1>2, <2>1 DEF Tree
  <2>3. \A y \in X : rank[y] >= rank[i]
    BY <1>5, <1>6, <2>2
  <2>4. ~ (rank[ROOT_INODE] >= rank[i])
    BY <2>2
  <2> QED
    BY <2>3, <2>4
<1>8. Branch(X, i)
  BY <1>5, <1>6, <1>7 DEF Branch
<1>9. /\ node' \in [Inums -> Node]
      /\ \A d \in Inums : node'[d].dir = node[d].dir /\ node'[d].size = node[d].size
      /\ Tree(R \ X, rank)'
  BY <1>1, <1>2, <1>3, <1>4, <1>8, Removed
<1>10. MemoryTypes'
  BY <1>4, <1>5, <1>9 DEF MInv, MemoryTypes
<1>11. Clean' /\ PendingOpen'
  BY <1>1, <1>2, <1>4, <1>5 DEF MInv, Clean, PendingOpen, Open, Accounted
<1>12. OpenStays'
  BY <1>3, <1>4, <1>9 DEF MInv, OpenStays, MemoryTypes
<1>13. SizesExact'
  BY <1>4, <1>9 DEF MInv, SizesExact, MemoryTypes
<1>14. Rooted'
  <2>1. Accounted(R \ X)'
    BY <1>2, <1>3, <1>4, <1>5, <1>6 DEF Accounted
  <2>2. R \ X \in SUBSET Inums
    OBVIOUS
  <2> QED
    BY <1>9, <2>1, <2>2 DEF Rooted
<1> QED
  BY <1>10, <1>11, <1>12, <1>13, <1>14 DEF MInv

\* A step that leaves directories and bitmap alone leaves the tree alone.
LEMMA RootedStays ==
  ASSUME Rooted, UNCHANGED <<mounted, ibitmap, pending, dropped>>,
         \A d \in Inums : node'[d].dir = node[d].dir /\ node'[d].ents = node[d].ents
  PROVE  Rooted'
<1> SUFFICES ASSUME mounted PROVE Rooted'
  BY DEF Rooted
<1>1. PICK R \in SUBSET Inums, rank \in [Inums -> Nat] : Tree(R, rank) /\ Accounted(R)
  BY DEF Rooted
<1>2. Tree(R, rank)'
  BY <1>1, TreeStays
<1>3. Accounted(R)'
  BY <1>1 DEF Accounted
<1> QED
  BY <1>2, <1>3 DEF Rooted

\* A size changes, of a file whose name and entry stay.
LEMMA Resized ==
  ASSUME MInv, NEW i \in Inums, NEW size \in 0..(UINT - 1), NEW len \in Nat,
         node' = [node EXCEPT ![i].size = size], length' = [length EXCEPT ![i] = len],
         UNCHANGED <<mounted, ibitmap, fds, pending, dropped>>,
         i \in ibitmap /\ ~ node[i].dir /\ len < INT => size = len
  PROVE  MInv'
<1>1. /\ node'[i] = [node[i] EXCEPT !.size = size]
      /\ \A d \in Inums \ {i} : node'[d] = node[d]
      /\ node' = [d \in Inums |-> node'[d]]
      /\ node[i] \in Node
  BY DEF MInv, MemoryTypes
<1>2. /\ node'[i] \in Node /\ node'[i].size = size
      /\ node'[i].dir = node[i].dir /\ node'[i].ents = node[i].ents
  BY <1>1 DEF Node
<1>3. \A d \in Inums : node'[d].dir = node[d].dir /\ node'[d].ents = node[d].ents
  BY <1>1, <1>2
<1>4. MemoryTypes'
  BY <1>1, <1>2 DEF MInv, MemoryTypes
<1>5. Clean' /\ PendingOpen' /\ OpenStays'
  BY <1>3 DEF MInv, Clean, PendingOpen, Open, OpenStays, MemoryTypes
<1>6. SizesExact'
  <2>1. length'[i] = len /\ \A j \in Inums \ {i} : length'[j] = length[j]
    BY DEF MInv, MemoryTypes
  <2> QED
    BY <1>1, <1>2, <2>1 DEF MInv, MemoryTypes, SizesExact
<1>7. Rooted'
  BY <1>3, RootedStays DEF MInv
<1> QED
  BY <1>4, <1>5, <1>6, <1>7 DEF MInv

\* A number modulo UINT fits, and is itself if it is less than INT.
LEMMA Wraps ==
  ASSUME NEW n \in Nat
  PROVE  n % UINT \in 0..(UINT - 1) /\ (n < INT => n % UINT = n)
<1>1. UINT \in Nat \ {0} /\ INT \in Nat /\ INT <= UINT
  BY MemoryConstants
<1>2. n % UINT \in 0..(UINT - 1)
  BY <1>1
<1>3. n < UINT => n % UINT = n
  BY <1>1
<1> QED
  BY <1>1, <1>2, <1>3

\* fs_truncate.
LEMMA TruncateMInv ==
  ASSUME MInv, NEW path \in Paths, NEW offset \in Offsets, fs_truncate(path, offset)
  PROVE  MInv'
<1>1. CASE Gone
  BY <1>1, GoneMInv
<1>2. CASE ~ Gone
  <2>1. mounted /\ Target(path) # INVALID_INODE /\ ~ node[Target(path)].dir
    BY DEF fs_truncate
  <2>2. PICK R \in SUBSET Inums, rank \in [Inums -> Nat] : Tree(R, rank) /\ Accounted(R)
    BY <2>1 DEF MInv, Rooted
  <2>3. PICK i \in Inums : i = Target(path)
    BY <2>1, <2>2, TargetLive DEF MInv
  <2>4. PICK size : size = Truncated(offset)
    OBVIOUS
  <2>5. size \in 0..(UINT - 1) /\ offset \in Nat /\ (offset < INT => size = offset)
    BY <2>4, Wraps, MemoryConstants DEF Truncated
  <2>6. /\ node' = [node EXCEPT ![i].size = size] /\ length' = [length EXCEPT ![i] = offset]
        /\ UNCHANGED <<mounted, ibitmap, fds, pending, dropped>>
    BY <1>2, <2>3, <2>4 DEF fs_truncate, Die
  <2> QED
    BY <2>5, <2>6, Resized
<1> QED
  BY <1>1, <1>2

\* fs_write.
LEMMA WriteMInv ==
  ASSUME MInv, NEW fd \in Fds, NEW end \in Writes, fs_write(fd, end)
  PROVE  MInv'
<1>1. PICK i \in Inums : i = fds[fd]
  BY DEF fs_write, MInv, MemoryTypes
<1>2. i \in ibitmap /\ ~ node[i].dir
  BY <1>1 DEF fs_write, MInv, OpenStays
<1>3. PICK old \in 0..(UINT - 1) : old = node[i].size
  BY DEF MInv, MemoryTypes, Node
<1>4. PICK len \in Nat : len = length[i]
  BY DEF MInv, MemoryTypes
<1>5. PICK size : size = SizeAfter(old, end)
  OBVIOUS
<1>6. end \in Nat /\ UINT \in Nat /\ INT \in Nat
  BY MemoryConstants
<1>7. PICK new \in Nat : new = IF len >= end THEN len ELSE end
  BY <1>6
<1>8. /\ node' = [node EXCEPT ![i].size = size] /\ length' = [length EXCEPT ![i] = new]
      /\ UNCHANGED <<mounted, ibitmap, fds, pending, dropped>>
  BY <1>1, <1>3, <1>4, <1>5, <1>7 DEF fs_write
<1>9. size \in 0..(UINT - 1)
  BY <1>3, <1>5, <1>6, Wraps DEF SizeAfter
<1>10. new < INT => size = new
  <2> SUFFICES ASSUME new < INT PROVE size = new
    OBVIOUS
  <2>1. len < INT /\ end < INT
    BY <1>6, <1>7
  <2>2. old = len
    BY <1>2, <1>3, <1>4, <2>1 DEF MInv, SizesExact
  <2>3. end % UINT = end
    BY <1>6, <2>1, Wraps
  <2>4. size = IF old >= end THEN old ELSE end
    BY <1>3, <1>5, <1>6, <2>1, <2>2, <2>3 DEF SizeAfter
  <2> QED
    BY <1>7, <2>2, <2>4
<1> QED
  BY <1>8, <1>9, <1>10, Resized

\* fs_open.
LEMMA OpenMInv ==
  ASSUME MInv, NEW path \in Paths, NEW fd \in Fds, fs_open(path, fd)
  PROVE  MInv'
<1>1. /\ mounted /\ Target(path) # INVALID_INODE /\ ~ node[Target(path)].dir
      /\ fds[fd] = INVALID_INODE
  BY DEF fs_open
<1>2. PICK R \in SUBSET Inums, rank \in [Inums -> Nat] : Tree(R, rank) /\ Accounted(R)
  BY <1>1 DEF MInv, Rooted
<1>3. PICK i \in Inums : i = Target(path) /\ i \in ibitmap /\ ~ node[i].dir
  BY <1>1, <1>2, TargetLive DEF MInv, Accounted
<1>4. fds' = [fds EXCEPT ![fd] = i] /\ UNCHANGED <<mounted, ibitmap, node, pending, length, dropped>>
  BY <1>3 DEF fs_open
<1>5. fds'[fd] = i /\ \A other \in Fds \ {fd} : fds'[other] = fds[other]
  BY <1>4 DEF MInv, MemoryTypes
<1>6. MemoryTypes' /\ Clean'
  BY <1>1, <1>4 DEF MInv, MemoryTypes, Clean
<1>7. PendingOpen'
  <2>1. \A j \in pending : Open(j)'
    BY <1>1, <1>5, NoInode DEF MInv, MemoryTypes, PendingOpen, Open
  <2> QED
    BY <1>4, <2>1 DEF MInv, PendingOpen
<1>8. OpenStays' /\ SizesExact'
  BY <1>3, <1>4, <1>5 DEF MInv, OpenStays, SizesExact
<1>9. Rooted'
  BY <1>4, RootedStays DEF MInv
<1> QED
  BY <1>6, <1>7, <1>8, <1>9 DEF MInv

\* fs_release.
LEMMA ReleaseMInv ==
  ASSUME MInv, NEW fd \in Fds, fs_release(fd)
  PROVE  MInv'
<1>1. CASE Gone
  BY <1>1, GoneMInv
<1>2. CASE ~ Gone
  <2>1. PICK i \in Inums : i = fds[fd] /\ i \in ibitmap
    BY DEF fs_release, MInv, MemoryTypes, OpenStays
  <2>2. mounted
    BY <2>1, NoInode DEF MInv, Clean
  <2> DEFINE last == ~ \E other \in Fds \ {fd} : fds[other] = i
  <2>3. /\ fds' = [fds EXCEPT ![fd] = INVALID_INODE]
        /\ pending' = IF last THEN pending \ {i} ELSE pending
        /\ ibitmap' = IF last /\ i \in pending THEN ibitmap \ {i} ELSE ibitmap
        /\ UNCHANGED <<mounted, node, length, dropped>>
    BY <1>2, <2>1 DEF fs_release, Die, del
  <2>4. fds'[fd] = INVALID_INODE /\ \A other \in Fds \ {fd} : fds'[other] = fds[other]
    BY <2>3 DEF MInv, MemoryTypes
  <2>5. MemoryTypes' /\ Clean'
    BY <2>2, <2>3 DEF MInv, MemoryTypes, Clean
  <2>6. PendingOpen'
    <3>1. ASSUME NEW j \in pending' PROVE Open(j)' /\ j \notin dropped
      <4>1. j \in pending /\ (j = i => ~ last)
        BY <2>3
      <4>2. PICK other \in Fds : fds[other] = j /\ (j = i => other # fd)
        BY <4>1 DEF MInv, PendingOpen, Open
      <4>3. other # fd
        BY <2>1, <4>2
      <4> QED
        BY <2>4, <4>1, <4>2, <4>3 DEF Open, MInv, PendingOpen
    <3> QED
      BY <2>3, <3>1 DEF PendingOpen
  <2>7. OpenStays'
    BY <2>3, <2>4 DEF MInv, OpenStays
  <2>8. SizesExact'
    BY <2>3 DEF MInv, SizesExact
  <2>9. Rooted'
    <3>1. PICK R \in SUBSET Inums, rank \in [Inums -> Nat] : Tree(R, rank) /\ Accounted(R)
      BY <2>2 DEF MInv, Rooted
    <3>2. Tree(R, rank)'
      BY <2>3, <3>1, TreeStays
    <3>3. Accounted(R)'
      BY <2>3, <3>1 DEF Accounted, MInv, PendingOpen
    <3> QED
      BY <3>2, <3>3 DEF Rooted
  <2> QED
    BY <2>5, <2>6, <2>7, <2>8, <2>9 DEF MInv
<1> QED
  BY <1>1, <1>2

\* Every step keeps the invariant.
LEMMA NextMInv == MInv /\ [Next]_vars => MInv'
<1> SUFFICES ASSUME MInv, [Next]_vars PROVE MInv'
  OBVIOUS
<1>1. CASE fs_init
  BY <1>1, InitMInv
<1>2. CASE Unmount
  BY <1>2, GoneMInv DEF Unmount
<1>3. ASSUME NEW path \in Paths, mknod_fs(path) \/ mkdir_fs(path) PROVE MInv'
  BY <1>3, MakeMInv DEF mknod_fs, mkdir_fs
<1>4. CASE UNCHANGED vars
  BY <1>4, RootedStays DEF vars, MInv, MemoryTypes, Clean, PendingOpen, Open, OpenStays,
                           SizesExact
<1> QED
  BY <1>1, <1>2, <1>3, <1>4, UnlinkMInv, RmdirMInv, TruncateMInv, OpenMInv, ReleaseMInv,
     WriteMInv
  DEF Next

\* The invariant holds at the start.
LEMMA StartMInv == Init => MInv
  BY CleanState DEF Init

\* The invariant holds in every state of phase 1.
THEOREM MemoryInvariance == Spec => []MInv
<1> QED
  BY StartMInv, NextMInv, PTL DEF Spec

\* The disk and the tables keep their types.
THEOREM MemoryTypesKept == Spec => []TypeOK
<1> QED
  BY MemoryInvariance, MInvSound, PTL

\* For any number of inodes and any tree: what namei can reach is allocated
\* and not waiting to be deleted, and each inode but the root has one name,
\* however many directories fs_rmdir removed with their content.
THEOREM ReachedSoundly == Spec => []ReachableSound
<1> QED
  BY MemoryInvariance, MInvSound, PTL

\* What fs_rmdir leaves behind is never reached, freed or handed out again, and
\* nothing else is lost: any other allocated inode has a name or a descriptor.
THEOREM LostOnlyByRmdir == Spec => []AbandonedOnlyByRmdir
<1> QED
  BY MemoryInvariance, MInvSound, PTL

\* The file of a descriptor stays allocated, and stays a file.
THEOREM DescriptorsKeepFiles == Spec => []OpenStays
<1>1. MInv => OpenStays
  BY DEF MInv
<1> QED
  BY MemoryInvariance, <1>1, PTL

\* For any width of an int: a file whose size has not passed the largest int
\* since truncate set it has exactly the size that truncate and write_i gave it.
THEOREM SizesKept == Spec => []SizesExact
<1>1. MInv => SizesExact
  BY DEF MInv
<1> QED
  BY MemoryInvariance, <1>1, PTL
=============================================================================
