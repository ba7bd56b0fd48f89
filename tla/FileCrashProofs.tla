--------------------------- MODULE FileCrashProofs --------------------------
(***************************************************************************)
(* TreesSound, CrashReads and LeakBounded of FileCrash, for every number   *)
(* of blocks, files, addresses per block and kills, and for every set of   *)
(* jobs.                                                                   *)
(*                                                                         *)
(* The invariant is about a map r of the blocks that files hold: r[b] says *)
(* whose block b is (own), below which pointer of the inode (top), on      *)
(* which level (lev), and which one pointer leads to it (src).  The map    *)
(* exists in every state for the pointers as they would be without the one *)
(* to the block that the running call has just given back, and with the    *)
(* ones that so far are in the call's copy of the inode alone; the rest of *)
(* the invariant says how far the disk, the copy and this view differ at   *)
(* each step of the call.                                                  *)
(*                                                                         *)
(* For LeakBounded there is an account on top of it: every block is free,  *)
(* or a file's, or below an inode that nobody can delete any more, or in a *)
(* set w of blocks written off, which a kill alone lets grow.              *)
(*                                                                         *)
(* The module has the geometry of the ways to blocks, what a change of one *)
(* pointer does to ways and map, the invariant, one lemma per action, and  *)
(* the theorems; then the same for the account.                            *)
(***************************************************************************)
EXTENDS FileCrash, Induction, FiniteSetTheorems, SequenceTheorems, TLAPS

-----------------------------------------------------------------------------
(* The way to a block *)

\* Quotient and remainder of a number.
LEMMA Divided ==
  ASSUME NEW x \in Nat, NEW b \in Nat \ {0}
  PROVE  \E d \in Nat, r \in 0..(b - 1) : d = x \div b /\ r = x % b /\ x = d * b + r
<1>1. ASSUME NEW d \in Int, NEW r \in Int, d = x \div b, r = x % b
      PROVE  d \in Nat /\ r \in 0..(b - 1) /\ x = d * b + r
  BY <1>1
<1> QED
  BY <1>1

\* A quotient is below what the number has of the divisor.
LEMMA QuotientBelow ==
  ASSUME NEW x \in Nat, NEW a \in Nat \ {0}, NEW b \in Nat \ {0}, x < a * b
  PROVE  x \div b \in 0..(a - 1)
<1>1. PICK d \in Nat, r \in 0..(b - 1) : d = x \div b /\ x = d * b + r
  BY Divided
<1> SUFFICES ASSUME ~ d < a PROVE FALSE
  BY <1>1
<1>2. PICK k \in Nat : d = a + k
  <2>1. d - a \in Nat /\ d = a + (d - a)
    OBVIOUS
  <2> QED
    BY <2>1
<1>3. d * b = a * b + k * b /\ k * b \in Nat /\ a * b \in Nat
  BY <1>2
<1> QED
  BY <1>1, <1>3

\* Powers of the number of addresses in a block.
LEMMA Powers ==
  /\ intPow(0) = 1 /\ intPow(1) = ADDRESSES_PER_BLOCK
  /\ intPow(2) = ADDRESSES_PER_BLOCK * ADDRESSES_PER_BLOCK
  /\ intPow(3) = ADDRESSES_PER_BLOCK * intPow(2)
  /\ \A j \in 0..3 : intPow(j) \in Nat \ {0}
<1>1. /\ intPow(0) = 1 /\ intPow(1) = ADDRESSES_PER_BLOCK
      /\ intPow(2) = ADDRESSES_PER_BLOCK * ADDRESSES_PER_BLOCK
      /\ intPow(3) = ADDRESSES_PER_BLOCK * ADDRESSES_PER_BLOCK * ADDRESSES_PER_BLOCK
  BY DEF intPow
<1>2. ASSUME NEW a \in Nat \ {0}, NEW b \in Nat \ {0} PROVE a * b \in Nat \ {0}
  OBVIOUS
<1>3. ADDRESSES_PER_BLOCK \in Nat \ {0}
  BY PathConstants
<1>4. intPow(2) \in Nat \ {0}
  BY <1>1, <1>2, <1>3
<1>5. intPow(3) = ADDRESSES_PER_BLOCK * intPow(2)
  BY <1>1, <1>3
<1>6. intPow(3) \in Nat \ {0}
  BY <1>2, <1>3, <1>4, <1>5
<1>7. 0..3 = {0, 1, 2, 3}
  OBVIOUS
<1> QED
  BY <1>1, <1>3, <1>4, <1>5, <1>6, <1>7

\* The levels of block n, and the pointer that leads to it.
LEMMA Levels ==
  ASSUME NEW n \in Blocks
  PROVE  /\ n \in Nat /\ Level(n) \in -1..2
         /\ Pointer(n) \in Pointers /\ LevelOf(Pointer(n)) = Level(n)
         /\ Level(n) <= Level(MAX_BLOCK)
<1>1. /\ NUM_DIRECT \in Nat \ {0} /\ ADDRESSES_PER_BLOCK \in Nat \ {0} /\ MAX_BLOCK \in Nat
      /\ n \in Nat /\ n <= MAX_BLOCK
  BY PathConstants, CrashConstants DEF Blocks
<1>2. PICK s1 \in Nat, s2 \in Nat : /\ s1 = single_indirect /\ s2 = double_indirect
                                    /\ NUM_DIRECT <= s1 /\ s1 <= s2
  BY <1>1, Powers DEF single_indirect, double_indirect
<1>3. ASSUME NEW k \in Nat
      PROVE  /\ Level(k) = IF k < NUM_DIRECT THEN -1 ELSE IF k < s1 THEN 0
                           ELSE IF k < s2 THEN 1 ELSE 2
  <2>1. CASE k < NUM_DIRECT
    BY <1>1, <1>2, <2>1 DEF Level
  <2>2. CASE k >= NUM_DIRECT /\ k < s1
    BY <1>1, <1>2, <2>2 DEF Level
  <2>3. CASE k >= s1 /\ k < s2
    BY <1>1, <1>2, <2>3 DEF Level
  <2>4. CASE k >= s2
    BY <1>1, <1>2, <2>4 DEF Level
  <2> QED
    BY <1>1, <1>2, <2>1, <2>2, <2>3, <2>4
<1>4. Level(n) \in -1..2 /\ Level(n) <= Level(MAX_BLOCK)
  BY <1>1, <1>2, <1>3
<1>5. Level(n) = -1 => n < NUM_DIRECT
  BY <1>1, <1>3
<1> QED
  BY <1>1, <1>4, <1>5 DEF Pointer, Pointers, LevelOf

\* Where block n is among the blocks of its pointer.
LEMMA Offsets ==
  ASSUME NEW n \in Blocks, Level(n) >= 0, NEW o, o = n - LevelStart(Level(n))
  PROVE  o \in Nat /\ o < intPow(Level(n) + 1)
<1>1. /\ NUM_DIRECT \in Nat \ {0} /\ ADDRESSES_PER_BLOCK \in Nat \ {0} /\ MAX_BLOCK \in Nat
      /\ n \in Nat /\ n <= MAX_BLOCK /\ MAX_BLOCK < triple_indirect
  <2>1. /\ triple_indirect \in Nat
    BY Powers, PathConstants DEF triple_indirect, double_indirect, single_indirect
  <2> QED
    BY <2>1, PathConstants, CrashConstants DEF Blocks, TooLarge
<1>2. PICK p2 \in Nat, p3 \in Nat : p2 = intPow(2) /\ p3 = intPow(3)
  BY Powers
<1>3. /\ single_indirect = NUM_DIRECT + ADDRESSES_PER_BLOCK
      /\ double_indirect = single_indirect + p2 /\ triple_indirect = double_indirect + p3
  BY <1>2, Powers DEF single_indirect, double_indirect, triple_indirect
<1>4. Level(n) \in {0, 1, 2}
  BY Levels
<1>5. CASE Level(n) = 0
  <2>1. n >= NUM_DIRECT /\ n < single_indirect
    BY <1>1, <1>2, <1>3, <1>5 DEF Level
  <2> QED
    BY <2>1, <1>1, <1>3, <1>5, Powers DEF LevelStart
<1>6. CASE Level(n) = 1
  <2>1. n >= single_indirect /\ n < double_indirect
    BY <1>1, <1>2, <1>3, <1>6 DEF Level
  <2> QED
    BY <2>1, <1>1, <1>2, <1>3, <1>6 DEF LevelStart
<1>7. CASE Level(n) = 2
  <2>1. n >= double_indirect
    BY <1>1, <1>2, <1>3, <1>7 DEF Level
  <2> QED
    BY <2>1, <1>1, <1>2, <1>3, <1>7 DEF LevelStart
<1> QED
  BY <1>4, <1>5, <1>6, <1>7

\* What Index is at each level, for an offset o behind the first block.
LEMMA IndexOf ==
  ASSUME NEW n \in Blocks, Level(n) >= 0, NEW o, o = n - LevelStart(Level(n))
  PROVE  /\ Level(n) = 0 => Index(n, 0) = o
         /\ Level(n) = 1 => Index(n, 1) = o \div intPow(1) /\ Index(n, 0) = o % intPow(1)
         /\ Level(n) = 2 => /\ Index(n, 2) = o \div intPow(2)
                            /\ Index(n, 1) = (o % intPow(2)) \div intPow(1)
                            /\ Index(n, 0) = o % intPow(1)
<1>1. o \in Nat
  BY Offsets
<1>2. ASSUME NEW x \in Nat PROVE x \div 1 = x
  OBVIOUS
<1>3. intPow(0) = 1 /\ intPow(1) \in Nat \ {0} /\ intPow(2) \in Nat \ {0}
  BY Powers
<1>4. o % intPow(1) \in Nat
  <2>1. PICK d \in Nat, r \in 0..(intPow(1) - 1) : r = o % intPow(1)
    BY <1>1, <1>3, Divided
  <2> QED
    BY <2>1, <1>3
<1>5. \A j : Index(n, j) = (IF j = Level(n) THEN o ELSE o % intPow(j + 1)) \div intPow(j)
  BY DEF Index
<1>6. 0 + 1 = 1 /\ 1 + 1 = 2 /\ 0 # 1 /\ 1 # 2 /\ 0 # 2
  OBVIOUS
<1>7. CASE Level(n) = 0
  <2>1. Index(n, 0) = o \div intPow(0)
    BY <1>5, <1>7
  <2> QED
    BY <2>1, <1>1, <1>2, <1>3, <1>6, <1>7
<1>8. CASE Level(n) = 1
  <2>1. Index(n, 1) = o \div intPow(1)
    BY <1>5, <1>8
  <2>2. Index(n, 0) = (o % intPow(1)) \div intPow(0)
    BY <1>5, <1>6, <1>8
  <2>3. (o % intPow(1)) \div 1 = o % intPow(1)
    BY <1>2, <1>4
  <2> QED
    BY <2>1, <2>2, <2>3, <1>3, <1>6, <1>8
<1>9. CASE Level(n) = 2
  <2>1. Index(n, 2) = o \div intPow(2)
    BY <1>5, <1>9
  <2>2. Index(n, 1) = (o % intPow(2)) \div intPow(1)
    BY <1>5, <1>6, <1>9
  <2>3. Index(n, 0) = (o % intPow(1)) \div intPow(0)
    BY <1>5, <1>6, <1>9
  <2>4. (o % intPow(1)) \div 1 = o % intPow(1)
    BY <1>2, <1>4
  <2> QED
    BY <2>1, <2>2, <2>3, <2>4, <1>3, <1>6, <1>9
<1>10. Level(n) \in {0, 1, 2}
  BY Levels
<1> QED
  BY <1>7, <1>8, <1>9, <1>10

\* The index into an address block stays inside it.
LEMMA Indices ==
  ASSUME NEW n \in Blocks, NEW j \in 0..Level(n)
  PROVE  Index(n, j) \in Slots
<1>1. PICK o \in Nat : o = n - LevelStart(Level(n)) /\ o < intPow(Level(n) + 1)
  BY Levels, Offsets
<1>2. PICK a \in Nat \ {0}, b \in Nat \ {0} :
        a = ADDRESSES_PER_BLOCK /\ intPow(1) = a /\ b = intPow(2) /\ b = a * a /\ intPow(3) = a * b
  BY Powers, PathConstants
<1>3. /\ Level(n) = 0 => Index(n, 0) = o
      /\ Level(n) = 1 => Index(n, 1) = o \div a /\ Index(n, 0) = o % a
      /\ Level(n) = 2 => /\ Index(n, 2) = o \div b
                         /\ Index(n, 1) = (o % b) \div a /\ Index(n, 0) = o % a
  BY <1>1, <1>2, IndexOf, Levels
<1>4. o % a \in 0..(a - 1)
  BY Divided
<1>5. (o % b) \in 0..(b - 1)
  BY Divided
<1>6. (o % b) \div a \in 0..(a - 1)
  BY <1>2, <1>5, QuotientBelow
<1>7. Level(n) = 1 => o \div a \in 0..(a - 1)
  BY <1>1, <1>2, QuotientBelow
<1>8. Level(n) = 2 => o \div b \in 0..(a - 1)
  BY <1>1, <1>2, QuotientBelow
<1>9. Slots = 0..(a - 1)
  BY <1>2 DEF Slots
<1>10. Level(n) = 0 => o \in 0..(a - 1)
  BY <1>1, <1>2
<1>11. Level(n) \in {0, 1, 2}
  BY Levels
<1>12. CASE Level(n) = 0
  <2>1. j = 0
    BY <1>12
  <2> QED
    BY <2>1, <1>12, <1>3, <1>9, <1>10
<1>13. CASE Level(n) = 1
  <2>1. j = 0 \/ j = 1
    BY <1>13
  <2> QED
    BY <2>1, <1>13, <1>3, <1>9, <1>7, <1>4
<1>14. CASE Level(n) = 2
  <2>1. j = 0 \/ j = 1 \/ j = 2
    BY <1>14
  <2> QED
    BY <2>1, <1>14, <1>3, <1>9, <1>8, <1>6, <1>4
<1> QED
  BY <1>11, <1>12, <1>13, <1>14

\* Pointer and indices tell blocks apart.
LEMMA Distinct ==
  ASSUME NEW n \in Blocks, NEW m \in Blocks, Pointer(n) = Pointer(m),
         \A j \in 0..Level(n) : Index(n, j) = Index(m, j)
  PROVE  n = m
<1>1. Level(n) = Level(m) /\ Level(n) \in {-1, 0, 1, 2} /\ n \in Nat /\ m \in Nat
  BY Levels
<1>2. CASE Level(n) = -1
  BY <1>1, <1>2 DEF Pointer
<1>3. CASE Level(n) # -1
  <2>1. Level(n) >= 0
    BY <1>1, <1>3
  <2>2. PICK x \in Nat : x = n - LevelStart(Level(n))
    BY <2>1, Offsets
  <2>3. PICK y \in Nat : y = m - LevelStart(Level(m))
    BY <2>1, <1>1, Offsets
  <2>4. LevelStart(Level(n)) \in Int
    BY <1>1, <1>3, Powers, PathConstants DEF LevelStart, single_indirect, double_indirect
  <2>10. x = y => n = m
    <3>1. PICK t \in Int : t = LevelStart(Level(n))
      BY <2>4
    <3>2. x = n - t /\ y = m - t
      BY <3>1, <2>2, <2>3, <1>1
    <3> QED
      BY ONLY <3>2, <1>1, t \in Int
  <2> SUFFICES x = y
    BY <2>10
  <2>5. PICK a \in Nat \ {0}, b \in Nat \ {0} :
          a = ADDRESSES_PER_BLOCK /\ intPow(1) = a /\ b = intPow(2) /\ b = a * a
    BY Powers, PathConstants
  <2>6. /\ Level(n) = 0 => Index(n, 0) = x /\ Index(m, 0) = y
        /\ Level(n) = 1 => /\ Index(n, 1) = x \div a /\ Index(n, 0) = x % a
                           /\ Index(m, 1) = y \div a /\ Index(m, 0) = y % a
        /\ Level(n) = 2 => /\ Index(n, 2) = x \div b
                           /\ Index(n, 1) = (x % b) \div a /\ Index(n, 0) = x % a
                           /\ Index(m, 2) = y \div b
                           /\ Index(m, 1) = (y % b) \div a /\ Index(m, 0) = y % a
    BY <1>1, <2>1, <2>2, <2>3, <2>5, IndexOf
  <2>7. CASE Level(n) = 0
    <3>1. 0 \in 0..Level(n)
      BY <2>7
    <3> QED
      BY <2>6, <2>7, <3>1
  <2>8. CASE Level(n) = 1
    <3>1. 0 \in 0..Level(n) /\ 1 \in 0..Level(n)
      BY <2>8
    <3>2. x \div a = y \div a /\ x % a = y % a
      BY <2>6, <2>8, <3>1
    <3>3. PICK d \in Nat, r \in 0..(a - 1) : d = x \div a /\ r = x % a /\ x = d * a + r
      BY Divided
    <3>4. PICK e \in Nat, s \in 0..(a - 1) : e = y \div a /\ s = y % a /\ y = e * a + s
      BY Divided
    <3> QED
      BY <3>2, <3>3, <3>4
  <2>9. CASE Level(n) = 2
    <3>1. 0 \in 0..Level(n) /\ 1 \in 0..Level(n) /\ 2 \in 0..Level(n)
      BY <2>9
    <3>2. x \div b = y \div b /\ (x % b) \div a = (y % b) \div a /\ x % a = y % a
      BY <2>6, <2>9, <3>1
    <3>3. ASSUME NEW z \in Nat
          PROVE  \E d \in Nat, t \in Nat, s \in 0..(a - 1) :
                   d = z \div b /\ t = (z % b) \div a /\ s = z % a /\ z = d * b + (t * a + s)
      <4>1. PICK d \in Nat, r \in 0..(b - 1) : d = z \div b /\ r = z % b /\ z = d * b + r
        BY Divided
      <4>2. PICK t \in Nat, s \in 0..(a - 1) : t = r \div a /\ s = r % a /\ r = t * a + s
        BY Divided
      <4>3. PICK u \in Nat : u = d * a + t
        BY <4>1, <4>2
      <4>4. u * a = d * b + t * a
        <5>1. u * a = (d * a) * a + t * a
          BY <4>3
        <5>2. (d * a) * a = d * (a * a)
          BY <4>1
        <5> QED
          BY <5>1, <5>2, <2>5
      <4>5. z = u * a + s
        <5>1. d * b \in Nat /\ t * a \in Nat
          BY <4>1, <4>2
        <5> QED
          BY <4>1, <4>2, <4>4, <5>1
      <4>6. z % a = s
        BY <4>5, Divides
      <4> QED
        BY <4>1, <4>2, <4>6
    <3> QED
      BY <3>2, <3>3
  <2> QED
    BY <1>1, <1>3, <2>7, <2>8, <2>9
<1> QED
  BY <1>2, <1>3

\* What is at slot s of block x of the content c, 0 if x is no block
Down(c, x, s) == IF x \in Data THEN c[x][s] ELSE 0

\* Way for any content and any pointers of an inode
Path(c, q, n) ==
  LET way[j \in -1..Level(n)] ==
        IF j = Level(n) THEN q[Pointer(n)]
        ELSE IF way[j + 1] \in Data THEN c[way[j + 1]][Index(n, j + 1)] ELSE 0
  IN way

\* The way of the code is a path in the blocks of the device.
LEMMA WayIsPath ==
  ASSUME NEW ino, NEW n
  PROVE  Way(ino, n) = Path(blk, ino.ptr, n)
  BY Zenon DEF Way, Path

\* A path starts at a pointer of the inode and follows an index at each level.
LEMMA PathSteps ==
  ASSUME NEW c, NEW q, NEW n \in Blocks
  PROVE  /\ Path(c, q, n)[Level(n)] = q[Pointer(n)]
         /\ \A j \in -1..(Level(n) - 1) :
              Path(c, q, n)[j] = Down(c, Path(c, q, n)[j + 1], Index(n, j + 1))
<1> DEFINE Eq(w) == w = [j \in -1..Level(n) |->
                           IF j = Level(n) THEN q[Pointer(n)]
                           ELSE IF w[j + 1] \in Data THEN c[w[j + 1]][Index(n, j + 1)] ELSE 0]
<1>1. PICK L \in -1..2 : L = Level(n)
  BY Levels
<1>2. \E w : Eq(w)
  <2> DEFINE t0 == q[Pointer(n)]
             t1 == Down(c, t0, Index(n, L))
             t2 == Down(c, t1, Index(n, L - 1))
             t3 == Down(c, t2, Index(n, L - 2))
             w  == [j \in -1..L |-> IF j = L THEN t0 ELSE IF j = L - 1 THEN t1
                                    ELSE IF j = L - 2 THEN t2 ELSE t3]
  <2> HIDE DEF t0, t1, t2, t3
  <2>1. ASSUME NEW j \in -1..L
        PROVE  w[j] = IF j = L THEN t0 ELSE Down(c, w[j + 1], Index(n, j + 1))
    <3>1. CASE j = L
      BY <3>1
    <3>2. CASE j = L - 1
      <4>1. w[j] = t1 /\ w[j + 1] = t0 /\ j + 1 = L /\ j # L
        BY <3>2
      <4> QED
        BY <4>1 DEF t1
    <3>3. CASE j = L - 2
      <4>1. w[j] = t2 /\ w[j + 1] = t1 /\ j + 1 = L - 1 /\ j # L
        BY <3>3
      <4> QED
        BY <4>1 DEF t2
    <3>4. CASE j = L - 3
      <4>1. w[j] = t3 /\ w[j + 1] = t2 /\ j + 1 = L - 2 /\ j # L
        BY <3>4
      <4> QED
        BY <4>1 DEF t3
    <3> QED
      BY <3>1, <3>2, <3>3, <3>4
  <2>2. w = [j \in -1..L |-> w[j]]
    OBVIOUS
  <2> HIDE DEF w
  <2>3. w = [j \in -1..L |-> IF j = L THEN q[Pointer(n)]
                             ELSE IF w[j + 1] \in Data THEN c[w[j + 1]][Index(n, j + 1)] ELSE 0]
    BY <2>1, <2>2, Zenon DEF Down, t0
  <2> QED
    BY <2>3, <1>1
<1> DEFINE C == CHOOSE w : Eq(w)
<1>3. Eq(C)
  <2> HIDE DEF Eq
  <2> QED
    BY <1>2, Zenon
<1>4. Path(c, q, n) = C
  BY DEF Path
<1> HIDE DEF C
<1>5. ASSUME NEW j \in -1..L
      PROVE  C[j] = IF j = L THEN q[Pointer(n)] ELSE Down(c, C[j + 1], Index(n, j + 1))
  BY <1>3, <1>1 DEF Down
<1>6. L \in -1..L /\ \A j \in -1..(L - 1) : j \in -1..L /\ j # L
  BY <1>1
<1> HIDE DEF Eq
<1> QED
  BY <1>1, <1>4, <1>5, <1>6

\* What holds at the top level, and below a level where it holds, holds at
\* every level.
LEMMA Descend ==
  ASSUME NEW S, NEW L \in -1..2, L \in S, \A j \in -1..(L - 1) : j + 1 \in S => j \in S
  PROVE  \A j \in -1..L : j \in S
<1>1. L - 1 >= -1 => L - 1 \in S
  <2>1. (L - 1) + 1 = L
    OBVIOUS
  <2> QED
    BY <2>1
<1>2. L - 2 >= -1 => L - 2 \in S
  <2>1. (L - 2) + 1 = L - 1
    OBVIOUS
  <2> QED
    BY <1>1, <2>1
<1>3. L - 3 >= -1 => L - 3 \in S
  <2>1. (L - 3) + 1 = L - 2
    OBVIOUS
  <2> QED
    BY <1>2, <2>1
<1>4. \A j \in -1..L : j = L \/ j = L - 1 \/ j = L - 2 \/ j = L - 3
  OBVIOUS
<1> QED
  BY <1>1, <1>2, <1>3, <1>4

-----------------------------------------------------------------------------
(* The map of the blocks in use *)

\* The map r of the blocks in use has, for each of them, the file it belongs
\* to, the pointer of the inode that leads to it, its level, and the one place
\* that points to it.
Child(r, x, f, p, l, w) ==
  x \in DOMAIN r /\ r[x] = [own |-> f, top |-> p, lev |-> l, src |-> w]

\* r is right about the content c and the pointers q of the files fs: none
\* of these blocks is free, and every pointer is the one in the map.
Mapped(r, c, q, fr, fs) ==
  /\ DOMAIN r \subseteq Data \ fr
  /\ \A x \in DOMAIN r : r[x].own \in fs /\ r[x].lev \in -1..2
  /\ \A f \in fs, p \in Pointers :
       q[f][p] # 0 => Child(r, q[f][p], f, p, LevelOf(p), <<"inode", f, p>>)
  /\ \A a \in DOMAIN r, s \in Slots : r[a].lev >= 0 /\ c[a][s] # 0 =>
       Child(r, c[a][s], r[a].own, r[a].top, r[a].lev - 1, <<"block", a, s>>)

\* Where a path goes is where the map says.
OnMap(r, c, q, f, n, j) ==
  LET x == Path(c, q[f], n)[j]
  IN x # 0 => /\ x \in DOMAIN r /\ x \in Data /\ x # 0
              /\ r[x].own = f /\ r[x].top = Pointer(n) /\ r[x].lev = j
              /\ j = Level(n) => r[x].src = <<"inode", f, Pointer(n)>>
              /\ j # Level(n) => /\ Path(c, q[f], n)[j + 1] # 0
                                 /\ Path(c, q[f], n)[j + 1] \in Data
                                 /\ c[Path(c, q[f], n)[j + 1]][Index(n, j + 1)] = x
                                 /\ r[x].src = <<"block", Path(c, q[f], n)[j + 1], Index(n, j + 1)>>

\* A path in a sound map: what stands at step j + 1 is the block below the one at j.
LEMMA PathOnMap ==
  ASSUME NEW r, NEW c, NEW q, NEW fr, NEW fs, Mapped(r, c, q, fr, fs),
         NEW f \in fs, NEW n \in Blocks
  PROVE  \A j \in -1..Level(n) : OnMap(r, c, q, f, n, j)
<1>1. PICK L \in -1..2 : L = Level(n) /\ Pointer(n) \in Pointers /\ LevelOf(Pointer(n)) = L
  BY Levels
<1> DEFINE S == {j \in -1..L : OnMap(r, c, q, f, n, j)}
<1>2. 0 \notin Data
  BY CrashConstants
<1>3. L \in S
  <2>1. Path(c, q[f], n)[L] = q[f][Pointer(n)]
    BY <1>1, PathSteps
  <2>2. q[f][Pointer(n)] # 0 => /\ Child(r, q[f][Pointer(n)], f, Pointer(n), L, <<"inode", f, Pointer(n)>>)
                                /\ q[f][Pointer(n)] \in Data
    BY <1>1 DEF Mapped, Child
  <2>3. OnMap(r, c, q, f, n, L)
    BY <2>1, <2>2, <1>1 DEF OnMap, Child
  <2> QED
    BY <2>3
<1>4. ASSUME NEW j \in -1..(L - 1), j + 1 \in S PROVE j \in S
  <2>1. OnMap(r, c, q, f, n, j + 1)
    BY <1>4
  <2>2. PICK a, s : a = Path(c, q[f], n)[j + 1] /\ s = Index(n, j + 1)
    OBVIOUS
  <2>3. Path(c, q[f], n)[j] = Down(c, a, s)
    BY <1>1, <2>2, PathSteps
  <2>4. s \in Slots /\ j \in -1..L /\ j # L /\ j \in Int /\ j + 1 >= 0
    <3>1. j + 1 \in 0..Level(n)
      BY <1>1
    <3> QED
      BY <1>1, <2>2, <3>1, Indices
  <2>5. CASE a = 0
    <3>1. Path(c, q[f], n)[j] = 0
      BY <2>3, <2>5, <1>2 DEF Down
    <3> QED
      BY <3>1, <2>4 DEF OnMap
  <2>6. CASE a # 0
    <3>1. a \in DOMAIN r /\ a \in Data /\ r[a].own = f /\ r[a].top = Pointer(n) /\ r[a].lev = j + 1
      BY <2>1, <2>2, <2>6 DEF OnMap
    <3>2. Path(c, q[f], n)[j] = c[a][s]
      BY <2>3, <3>1 DEF Down
    <3>3. c[a][s] # 0 => Child(r, c[a][s], r[a].own, r[a].top, r[a].lev - 1, <<"block", a, s>>)
      BY <3>1, <2>4 DEF Mapped
    <3>4. r[a].lev - 1 = j
      BY <3>1, <2>4
    <3>5. c[a][s] # 0 => c[a][s] \in DOMAIN r /\ c[a][s] \in Data
      BY <3>3 DEF Child, Mapped
    <3>6. OnMap(r, c, q, f, n, j)
      BY <3>1, <3>2, <3>3, <3>4, <3>5, <2>2, <2>6, <2>4, <1>1 DEF OnMap, Child
    <3> QED
      BY <3>6, <2>4
  <2> QED
    BY <2>5, <2>6
<1> HIDE DEF S
<1>5. \A j \in -1..L : j \in S
  BY <1>3, <1>4, Descend
<1> QED
  BY <1>1, <1>5 DEF S

\* What points to a block is the place that the map has for it.
LEMMA Sources ==
  ASSUME NEW r, NEW c, NEW q, NEW fr, NEW fs, Mapped(r, c, q, fr, fs), NEW x, x # 0
  PROVE  /\ \A f \in fs, p \in Pointers : q[f][p] = x => r[x].src = <<"inode", f, p>>
         /\ \A a \in DOMAIN r, s \in Slots :
              r[a].lev >= 0 /\ c[a][s] = x => r[x].src = <<"block", a, s>>
<1>1. ASSUME NEW f, NEW p, NEW l, NEW w, Child(r, x, f, p, l, w) PROVE r[x].src = w
  BY <1>1 DEF Child
<1>2. ASSUME NEW f \in fs, NEW p \in Pointers, q[f][p] = x PROVE r[x].src = <<"inode", f, p>>
  <2>1. Child(r, x, f, p, LevelOf(p), <<"inode", f, p>>)
    BY <1>2 DEF Mapped
  <2> QED
    BY <2>1, <1>1
<1>3. ASSUME NEW a \in DOMAIN r, NEW s \in Slots, r[a].lev >= 0, c[a][s] = x
      PROVE  r[x].src = <<"block", a, s>>
  <2>1. Child(r, x, r[a].own, r[a].top, r[a].lev - 1, <<"block", a, s>>)
    BY <1>3 DEF Mapped
  <2> QED
    BY <2>1, <1>1
<1> QED
  BY <1>2, <1>3

\* Two paths that meet are one path down to where they meet.
Together(c, u, n, v, m, j) ==
  /\ Level(n) = Level(m)
  /\ \A i \in j..Level(n) : Path(c, u, n)[i] = Path(c, v, m)[i]
  /\ \A i \in (j + 1)..Level(n) : Index(n, i) = Index(m, i)

\* Two paths that meet in a block of the map run together down to it: no block is
\* reached from two places.
LEMMA PathsMeet ==
  ASSUME NEW r, NEW c, NEW q, NEW fr, NEW fs, Mapped(r, c, q, fr, fs),
         NEW f \in fs, NEW n \in Blocks, NEW g \in fs, NEW m \in Blocks,
         NEW j \in -1..Level(n), NEW k \in -1..Level(m),
         Path(c, q[f], n)[j] # 0, Path(c, q[f], n)[j] = Path(c, q[g], m)[k]
  PROVE  f = g /\ j = k /\ Pointer(n) = Pointer(m) /\ Together(c, q[f], n, q[g], m, j)
<1>1. /\ \A i \in -1..Level(n) : OnMap(r, c, q, f, n, i)
      /\ \A i \in -1..Level(m) : OnMap(r, c, q, g, m, i)
  BY PathOnMap
<1>2. f = g /\ j = k /\ Pointer(n) = Pointer(m)
  BY <1>1 DEF OnMap
<1>3. PICK L \in -1..2 : L = Level(n) /\ L = Level(m)
  BY <1>2, Levels
<1> DEFINE P == Path(c, q[f], n)
           Q == Path(c, q[f], m)
<1>4. ASSUME NEW i \in -1..(L - 1), P[i] # 0, P[i] = Q[i]
      PROVE  P[i + 1] # 0 /\ P[i + 1] = Q[i + 1] /\ Index(n, i + 1) = Index(m, i + 1)
  <2>1. OnMap(r, c, q, f, n, i) /\ OnMap(r, c, q, f, m, i) /\ i # L
    BY <1>1, <1>2, <1>3
  <2> QED
    BY <2>1, <1>3, <1>4 DEF OnMap
<1>5. P[j] # 0 /\ P[j] = Q[j]
  BY <1>2
<1> HIDE DEF P, Q
<1>6. j + 1 <= L => P[j + 1] # 0 /\ P[j + 1] = Q[j + 1] /\ Index(n, j + 1) = Index(m, j + 1)
  BY <1>3, <1>4, <1>5
<1>7. j + 2 <= L => P[j + 2] # 0 /\ P[j + 2] = Q[j + 2] /\ Index(n, j + 2) = Index(m, j + 2)
  <2>1. (j + 1) + 1 = j + 2 /\ (j + 2 <= L => j + 1 \in -1..(L - 1) /\ j + 1 <= L)
    BY <1>3
  <2> QED
    BY <2>1, <1>4, <1>6
<1>8. j + 3 <= L => P[j + 3] # 0 /\ P[j + 3] = Q[j + 3] /\ Index(n, j + 3) = Index(m, j + 3)
  <2>1. (j + 2) + 1 = j + 3 /\ (j + 3 <= L => j + 2 \in -1..(L - 1) /\ j + 2 <= L)
    BY <1>3
  <2> QED
    BY <2>1, <1>4, <1>7
<1>9. /\ \A i \in j..L : i = j \/ (i = j + 1 /\ j + 1 <= L) \/ (i = j + 2 /\ j + 2 <= L)
                         \/ (i = j + 3 /\ j + 3 <= L)
      /\ \A i \in (j + 1)..L : i \in j..L /\ i # j
  BY <1>3
<1>10. \A i \in j..L : P[i] = Q[i] /\ (i # j => Index(n, i) = Index(m, i))
  BY <1>5, <1>6, <1>7, <1>8, <1>9
<1> QED
  BY <1>2, <1>3, <1>9, <1>10 DEF Together, P, Q

\* A data block belongs to one block of one file.
LEMMA OneBlock ==
  ASSUME NEW r, NEW c, NEW q, NEW fr, NEW fs, Mapped(r, c, q, fr, fs),
         NEW f \in fs, NEW n \in Blocks, NEW g \in fs, NEW m \in Blocks,
         Path(c, q[f], n)[-1] # 0, Path(c, q[f], n)[-1] = Path(c, q[g], m)[-1]
  PROVE  f = g /\ n = m
<1>1. Level(n) \in -1..2 /\ Level(m) \in -1..2
  BY Levels
<1>2. -1 \in -1..Level(n) /\ -1 \in -1..Level(m)
  BY <1>1
<1>3. f = g /\ Pointer(n) = Pointer(m) /\ Together(c, q[f], n, q[g], m, -1)
  BY <1>2, PathsMeet
<1>4. \A j \in 0..Level(n) : Index(n, j) = Index(m, j)
  <2>1. -1 + 1 = 0
    OBVIOUS
  <2> QED
    BY <1>3, <2>1 DEF Together
<1> QED
  BY <1>3, <1>4, Distinct

-----------------------------------------------------------------------------
(* Changes of the map *)

\* The map with one more block
With(r, b, w) == [x \in DOMAIN r \cup {b} |-> IF x = b THEN w ELSE r[x]]

\* The map of the blocks in E
Only(r, E) == [x \in E |-> r[x]]

\* A new block that one pointer leads to, from where there was none, and that
\* leads nowhere
Attached(r, c, q, fs, c2, q2, b, f, p, l, w) ==
  /\ b \in Data /\ b \notin DOMAIN r /\ f \in fs /\ l \in -1..2
  /\ \A g \in fs, t \in Pointers :
       \/ q2[g][t] = q[g][t]
       \/ /\ q[g][t] = 0 /\ q2[g][t] = b
          /\ g = f /\ t = p /\ l = LevelOf(p) /\ w = <<"inode", f, p>>
  /\ \A a \in DOMAIN r, s \in Slots : r[a].lev >= 0 =>
       \/ c2[a][s] = c[a][s]
       \/ /\ c[a][s] = 0 /\ c2[a][s] = b
          /\ r[a].own = f /\ r[a].top = p /\ r[a].lev - 1 = l /\ w = <<"block", a, s>>
  /\ \A s \in Slots : c2[b][s] = 0

\* The map has one more block.
LEMMA Attach ==
  ASSUME NEW r, NEW c, NEW q, NEW fr, NEW fs, Mapped(r, c, q, fr, fs),
         NEW c2, NEW q2, NEW fr2, fr2 \subseteq fr, NEW b, b \notin fr2,
         NEW f, NEW p, NEW l, NEW w, Attached(r, c, q, fs, c2, q2, b, f, p, l, w)
  PROVE  Mapped(With(r, b, [own |-> f, top |-> p, lev |-> l, src |-> w]), c2, q2, fr2, fs)
<1> USE DEF Attached
<1> DEFINE e  == [own |-> f, top |-> p, lev |-> l, src |-> w]
           r2 == With(r, b, e)
<1>1. /\ DOMAIN r2 = DOMAIN r \cup {b} /\ r2[b] = e /\ \A x \in DOMAIN r : r2[x] = r[x]
  BY DEF With
<1>2. e.own = f /\ e.top = p /\ e.lev = l /\ e.src = w
  OBVIOUS
<1>3. ASSUME NEW x, NEW g, NEW t, NEW k, NEW u, Child(r, x, g, t, k, u) PROVE Child(r2, x, g, t, k, u)
  BY <1>3, <1>1 DEF Child
<1>4. Child(r2, b, f, p, l, w)
  BY <1>1 DEF Child
<1> HIDE DEF e, r2
<1>5. DOMAIN r2 \subseteq Data \ fr2
  BY <1>1 DEF Mapped
<1>6. \A x \in DOMAIN r2 : r2[x].own \in fs /\ r2[x].lev \in -1..2
  BY <1>1, <1>2 DEF Mapped
<1>7. ASSUME NEW g \in fs, NEW t \in Pointers, q2[g][t] # 0
      PROVE  Child(r2, q2[g][t], g, t, LevelOf(t), <<"inode", g, t>>)
  <2>1. CASE q2[g][t] = q[g][t]
    BY <2>1, <1>7, <1>3 DEF Mapped
  <2>2. CASE q2[g][t] = b /\ g = f /\ t = p /\ l = LevelOf(p) /\ w = <<"inode", f, p>>
    BY <2>2, <1>4
  <2> QED
    BY <2>1, <2>2
<1>8. ASSUME NEW a \in DOMAIN r2, NEW s \in Slots, r2[a].lev >= 0, c2[a][s] # 0
      PROVE  Child(r2, c2[a][s], r2[a].own, r2[a].top, r2[a].lev - 1, <<"block", a, s>>)
  <2>1. a # b /\ a \in DOMAIN r /\ r2[a] = r[a]
    BY <1>1, <1>8
  <2>2. CASE c2[a][s] = c[a][s]
    <3>1. Child(r, c[a][s], r[a].own, r[a].top, r[a].lev - 1, <<"block", a, s>>)
      BY <1>8, <2>1, <2>2 DEF Mapped
    <3> QED
      BY <3>1, <2>1, <2>2, <1>3
  <2>3. CASE c2[a][s] = b /\ r[a].own = f /\ r[a].top = p /\ r[a].lev - 1 = l /\ w = <<"block", a, s>>
    BY <2>1, <2>3, <1>4
  <2> QED
    BY <1>8, <2>1, <2>2, <2>3
<1>9. Mapped(r2, c2, q2, fr2, fs)
  BY <1>5, <1>6, <1>7, <1>8 DEF Mapped
<1> QED
  BY <1>9 DEF r2, e

\* A part of the map that the pointers of the files gs that are left do not
\* leave; other blocks may change, and be free.
LEMMA Detach ==
  ASSUME NEW r, NEW c, NEW q, NEW fr, NEW fs, Mapped(r, c, q, fr, fs),
         NEW c2, NEW q2, NEW fr2, NEW gs, NEW E \in SUBSET DOMAIN r,
         E \cap fr2 = {}, \A x \in E : r[x].own \in gs,
         \A g \in gs, t \in Pointers :
           q2[g][t] # 0 => g \in fs /\ q2[g][t] = q[g][t] /\ q[g][t] \in E,
         \A a \in E, s \in Slots : r[a].lev >= 0 /\ c2[a][s] # 0 =>
           c2[a][s] = c[a][s] /\ c[a][s] \in E
  PROVE  Mapped(Only(r, E), c2, q2, fr2, gs)
<1> DEFINE r2 == Only(r, E)
<1>1. DOMAIN r2 = E /\ \A x \in E : r2[x] = r[x]
  BY DEF Only
<1>2. ASSUME NEW x \in E, NEW g, NEW t, NEW k, NEW u, Child(r, x, g, t, k, u) PROVE Child(r2, x, g, t, k, u)
  BY <1>1, <1>2 DEF Child
<1> HIDE DEF r2
<1>3. DOMAIN r2 \subseteq Data \ fr2 /\ \A x \in DOMAIN r2 : r2[x].own \in gs /\ r2[x].lev \in -1..2
  BY <1>1 DEF Mapped
<1>4. ASSUME NEW g \in gs, NEW t \in Pointers, q2[g][t] # 0
      PROVE  Child(r2, q2[g][t], g, t, LevelOf(t), <<"inode", g, t>>)
  <2>1. g \in fs /\ q2[g][t] = q[g][t] /\ q[g][t] \in E
    BY <1>4
  <2>2. Child(r, q[g][t], g, t, LevelOf(t), <<"inode", g, t>>)
    BY <1>4, <2>1 DEF Mapped
  <2> QED
    BY <2>1, <2>2, <1>2
<1>5. ASSUME NEW a \in DOMAIN r2, NEW s \in Slots, r2[a].lev >= 0, c2[a][s] # 0
      PROVE  Child(r2, c2[a][s], r2[a].own, r2[a].top, r2[a].lev - 1, <<"block", a, s>>)
  <2>1. a \in E /\ a \in DOMAIN r /\ r2[a] = r[a]
    BY <1>1
  <2>2. c2[a][s] = c[a][s] /\ c[a][s] \in E
    BY <2>1, <1>5
  <2>3. Child(r, c[a][s], r[a].own, r[a].top, r[a].lev - 1, <<"block", a, s>>)
    BY <1>5, <2>1, <2>2 DEF Mapped
  <2> QED
    BY <2>1, <2>2, <2>3, <1>2
<1>6. Mapped(r2, c2, q2, fr2, gs)
  BY <1>3, <1>4, <1>5 DEF Mapped
<1> QED
  BY <1>6 DEF r2

-----------------------------------------------------------------------------
(* Changes of the paths *)

\* Whatever changes below level l and elsewhere, a path is the same down to l.
LEMMA PathSame ==
  ASSUME NEW c, NEW q, NEW c2, NEW q2, NEW n \in Blocks, NEW l \in -1..3,
         l <= Level(n) => q2[Pointer(n)] = q[Pointer(n)],
         \A j \in (l + 1)..Level(n) : Path(c, q, n)[j] \in Data
                => c2[Path(c, q, n)[j]][Index(n, j)] = c[Path(c, q, n)[j]][Index(n, j)]
  PROVE  \A j \in l..Level(n) : Path(c2, q2, n)[j] = Path(c, q, n)[j]
<1>1. PICK L \in -1..2 : L = Level(n)
  BY Levels
<1> DEFINE P == Path(c, q, n)
           Q == Path(c2, q2, n)
           S == {j \in -1..L : j >= l => Q[j] = P[j]}
<1>2. /\ P[L] = q[Pointer(n)] /\ Q[L] = q2[Pointer(n)]
      /\ \A j \in -1..(L - 1) : /\ P[j] = Down(c, P[j + 1], Index(n, j + 1))
                                /\ Q[j] = Down(c2, Q[j + 1], Index(n, j + 1))
  BY <1>1, PathSteps
<1>3. \A j \in (l + 1)..L : P[j] \in Data => c2[P[j]][Index(n, j)] = c[P[j]][Index(n, j)]
  BY <1>1
<1> HIDE DEF P, Q
<1>4. L \in S
  BY <1>1, <1>2
<1>5. ASSUME NEW j \in -1..(L - 1), j + 1 \in S PROVE j \in S
  <2>1. j \in -1..L /\ (j >= l => j + 1 >= l /\ j + 1 \in (l + 1)..L)
    BY <1>1
  <2>2. ASSUME j >= l PROVE Q[j] = P[j]
    <3>1. Q[j + 1] = P[j + 1]
      BY <1>5, <2>1, <2>2
    <3> QED
      BY <1>2, <1>3, <3>1, <2>1, <2>2 DEF Down
  <2> QED
    BY <2>1, <2>2
<1> HIDE DEF S
<1>6. \A j \in -1..L : j \in S
  BY <1>4, <1>5, Descend
<1>7. \A j \in l..L : j \in -1..L /\ j >= l
  BY <1>1
<1> QED
  BY <1>1, <1>6, <1>7 DEF S, P, Q

\* Below the end of a path there is nothing.
LEMMA NothingBelow ==
  ASSUME NEW c, NEW q, NEW n \in Blocks, NEW l \in -1..Level(n), Path(c, q, n)[l] = 0
  PROVE  \A j \in -1..l : Path(c, q, n)[j] = 0
<1>1. PICK L \in -1..2 : L = Level(n)
  BY Levels
<1> DEFINE P == Path(c, q, n)
           S == {j \in -1..L : j <= l => P[j] = 0}
<1>2. \A j \in -1..(L - 1) : P[j] = Down(c, P[j + 1], Index(n, j + 1))
  BY <1>1, PathSteps
<1>3. P[l] = 0 /\ l \in -1..L
  BY <1>1
<1> HIDE DEF P
<1>4. L \in S
  BY <1>1, <1>3
<1>5. ASSUME NEW j \in -1..(L - 1), j + 1 \in S PROVE j \in S
  <2>1. j \in -1..L /\ (j < l => j + 1 <= l) /\ (j <= l => j < l \/ j = l)
    BY <1>1, <1>3
  <2>2. ASSUME j < l PROVE P[j] = 0
    <3>1. P[j + 1] = 0
      BY <1>5, <2>1, <2>2
    <3> QED
      BY <3>1, <1>2, CrashConstants DEF Down
  <2> QED
    BY <2>1, <2>2, <1>3
<1> HIDE DEF S
<1>6. \A j \in -1..L : j \in S
  BY <1>4, <1>5, Descend
<1>7. \A j \in -1..l : j \in -1..L /\ j <= l
  BY <1>1, <1>3
<1> QED
  BY <1>6, <1>7 DEF S, P

\* The path to block n of file f depends on the blocks the map has under its
\* pointer alone.
LEMMA PathAgree ==
  ASSUME NEW r, NEW c, NEW q, NEW fr, NEW fs, Mapped(r, c, q, fr, fs),
         NEW f \in fs, NEW n \in Blocks, NEW c2, NEW u, u[Pointer(n)] = q[f][Pointer(n)],
         \A a \in DOMAIN r, s \in Slots :
           r[a].own = f /\ r[a].top = Pointer(n) /\ r[a].lev >= 0 => c2[a][s] = c[a][s]
  PROVE  \A j \in -1..Level(n) : Path(c2, u, n)[j] = Path(c, q[f], n)[j]
<1>1. PICK L \in -1..2 : L = Level(n)
  BY Levels
<1>2. ASSUME NEW j \in (-1 + 1)..Level(n), Path(c, q[f], n)[j] \in Data
      PROVE  c2[Path(c, q[f], n)[j]][Index(n, j)] = c[Path(c, q[f], n)[j]][Index(n, j)]
  <2>1. j \in 0..Level(n) /\ j \in -1..Level(n) /\ j >= 0
    BY <1>1, <1>2
  <2>2. OnMap(r, c, q, f, n, j) /\ Index(n, j) \in Slots
    BY <2>1, PathOnMap, Indices
  <2>3. Path(c, q[f], n)[j] # 0
    BY <1>2, CrashConstants
  <2> QED
    BY <2>1, <2>2, <2>3 DEF OnMap
<1>3. -1 \in -1..3
  OBVIOUS
<1> QED
  BY <1>2, <1>3, PathSame

\* Block x, which leads nowhere, and the pointer to it are taken away
CutAway(r, c, q, fs, x, c2, q2) ==
  /\ x \in DOMAIN r
  /\ r[x].lev >= 0 => \A s \in Slots : c[x][s] = 0
  /\ \A g \in fs, t \in Pointers : q2[g][t] = IF q[g][t] = x THEN 0 ELSE q[g][t]
  /\ \A a \in DOMAIN r, s \in Slots : r[a].lev >= 0 /\ a # x =>
       c2[a][s] = IF c[a][s] = x THEN 0 ELSE c[a][s]

\* The paths are as before without x.
LEMMA CutPaths ==
  ASSUME NEW r, NEW c, NEW q, NEW fr, NEW fs, Mapped(r, c, q, fr, fs),
         NEW c2, NEW q2, NEW x, CutAway(r, c, q, fs, x, c2, q2),
         NEW f \in fs, NEW n \in Blocks
  PROVE  \A j \in -1..Level(n) :
           Path(c2, q2[f], n)[j] = IF Path(c, q[f], n)[j] = x THEN 0 ELSE Path(c, q[f], n)[j]
<1> USE DEF CutAway
<1>1. PICK L \in -1..2 : L = Level(n) /\ Pointer(n) \in Pointers
  BY Levels
<1> DEFINE P == Path(c, q[f], n)
           Q == Path(c2, q2[f], n)
           S == {j \in -1..L : Q[j] = IF P[j] = x THEN 0 ELSE P[j]}
<1>2. /\ P[L] = q[f][Pointer(n)] /\ Q[L] = q2[f][Pointer(n)]
      /\ \A j \in -1..(L - 1) : /\ P[j] = Down(c, P[j + 1], Index(n, j + 1))
                                /\ Q[j] = Down(c2, Q[j + 1], Index(n, j + 1))
  BY <1>1, PathSteps
<1>3. \A j \in -1..L : P[j] # 0 => P[j] \in DOMAIN r /\ P[j] \in Data /\ r[P[j]].lev = j
  BY <1>1, PathOnMap DEF OnMap
<1> HIDE DEF P, Q
<1>4. L \in S
  BY <1>1, <1>2
<1>5. ASSUME NEW j \in -1..(L - 1), j + 1 \in S PROVE j \in S
  <2>1. j \in -1..L /\ j + 1 \in -1..L /\ j + 1 \in 0..L /\ j + 1 >= 0
    BY <1>1
  <2>2. PICK s \in Slots : s = Index(n, j + 1)
    BY <2>1, <1>1, Indices
  <2>3. PICK a : a = P[j + 1]
    OBVIOUS
  <2>4. P[j] = Down(c, a, s) /\ Q[j] = Down(c2, Q[j + 1], s) /\ Q[j + 1] = IF a = x THEN 0 ELSE a
    BY <1>2, <1>5, <2>2, <2>3
  <2>5. a # 0 => a \in DOMAIN r /\ a \in Data /\ r[a].lev >= 0
    BY <1>3, <2>1, <2>3
  <2>6. 0 \notin Data /\ x # 0 /\ x \in Data
    BY CrashConstants DEF Mapped
  <2>7. Q[j] = IF P[j] = x THEN 0 ELSE P[j]
    <3>1. CASE a = 0
      BY <3>1, <2>4, <2>6 DEF Down
    <3>2. CASE a = x
      BY <3>2, <2>4, <2>5, <2>6 DEF Down
    <3>3. CASE a # 0 /\ a # x
      BY <3>3, <2>4, <2>5, <2>6 DEF Down
    <3> QED
      BY <3>1, <3>2, <3>3
  <2> QED
    BY <2>1, <2>7
<1> HIDE DEF S
<1>6. \A j \in -1..L : j \in S
  BY <1>4, <1>5, Descend
<1> QED
  BY <1>1, <1>6 DEF S, P, Q

\* The map and the paths are as before without x.
LEMMA Cut ==
  ASSUME NEW r, NEW c, NEW q, NEW fr, NEW fs, Mapped(r, c, q, fr, fs),
         NEW c2, NEW q2, NEW fr2, NEW x, CutAway(r, c, q, fs, x, c2, q2),
         fr2 \subseteq fr \cup {x}
  PROVE  /\ Mapped(Only(r, DOMAIN r \ {x}), c2, q2, fr2, fs)
         /\ \A f \in fs, n \in Blocks : \A j \in -1..Level(n) :
              Path(c2, q2[f], n)[j] = IF Path(c, q[f], n)[j] = x THEN 0 ELSE Path(c, q[f], n)[j]
<1> USE DEF CutAway
<1> DEFINE E == DOMAIN r \ {x}
<1>1. Mapped(Only(r, E), c2, q2, fr2, fs)
  <2>1. E \cap fr2 = {} /\ E \subseteq DOMAIN r /\ \A y \in E : r[y].own \in fs
    BY DEF Mapped
  <2>2. \A g \in fs, t \in Pointers :
           q2[g][t] # 0 => g \in fs /\ q2[g][t] = q[g][t] /\ q[g][t] \in E
    <3>1. \A g \in fs, t \in Pointers : q[g][t] # 0 => q[g][t] \in DOMAIN r
      BY DEF Mapped, Child
    <3> QED
      BY <3>1
  <2>3. \A a \in E, s \in Slots : r[a].lev >= 0 /\ c2[a][s] # 0 =>
           c2[a][s] = c[a][s] /\ c[a][s] \in E
    <3>1. \A a \in DOMAIN r, s \in Slots : r[a].lev >= 0 /\ c[a][s] # 0 => c[a][s] \in DOMAIN r
      BY DEF Mapped, Child
    <3> QED
      BY <3>1
  <2> HIDE DEF E
  <2> QED
    BY <2>1, <2>2, <2>3, Detach
<1>2. \A f \in fs, n \in Blocks : \A j \in -1..Level(n) :
        Path(c2, q2[f], n)[j] = IF Path(c, q[f], n)[j] = x THEN 0 ELSE Path(c, q[f], n)[j]
  <2> HIDE DEF CutAway
  <2> QED
    BY CutPaths
<1> QED
  BY <1>1, <1>2

\* Block b is put where there was no pointer: a path goes where it went, or to
\* b where it ended.
LEMMA Grow ==
  ASSUME NEW r, NEW c, NEW q, NEW fr, NEW fs, Mapped(r, c, q, fr, fs),
         NEW c2, NEW q2, NEW b, NEW g, NEW p, NEW l, NEW w,
         Attached(r, c, q, fs, c2, q2, b, g, p, l, w),
         NEW f \in fs, NEW n \in Blocks
  PROVE  \A j \in -1..Level(n) : \/ Path(c2, q2[f], n)[j] = Path(c, q[f], n)[j]
                                 \/ Path(c2, q2[f], n)[j] = b /\ Path(c, q[f], n)[j] = 0
<1> USE DEF Attached
<1>1. PICK L \in -1..2 : L = Level(n) /\ Pointer(n) \in Pointers
  BY Levels
<1> DEFINE P == Path(c, q[f], n)
           Q == Path(c2, q2[f], n)
           S == {j \in -1..L : Q[j] = P[j] \/ (Q[j] = b /\ P[j] = 0)}
<1>2. /\ P[L] = q[f][Pointer(n)] /\ Q[L] = q2[f][Pointer(n)]
      /\ \A j \in -1..(L - 1) : /\ P[j] = Down(c, P[j + 1], Index(n, j + 1))
                                /\ Q[j] = Down(c2, Q[j + 1], Index(n, j + 1))
  BY <1>1, PathSteps
<1>3. \A j \in -1..L : P[j] # 0 => P[j] \in DOMAIN r /\ P[j] \in Data /\ r[P[j]].lev = j
  BY <1>1, PathOnMap DEF OnMap
<1> HIDE DEF P, Q
<1>4. L \in S
  BY <1>1, <1>2
<1>5. ASSUME NEW j \in -1..(L - 1), j + 1 \in S PROVE j \in S
  <2>1. j \in -1..L /\ j + 1 \in -1..L /\ j + 1 \in 0..L /\ j + 1 >= 0
    BY <1>1
  <2>2. PICK s \in Slots : s = Index(n, j + 1)
    BY <2>1, <1>1, Indices
  <2>3. PICK a : a = P[j + 1]
    OBVIOUS
  <2>4. P[j] = Down(c, a, s) /\ Q[j] = Down(c2, Q[j + 1], s) /\ (Q[j + 1] = a \/ (Q[j + 1] = b /\ a = 0))
    BY <1>2, <1>5, <2>2, <2>3
  <2>5. a # 0 => a \in DOMAIN r /\ a \in Data /\ r[a].lev >= 0
    BY <1>3, <2>1, <2>3
  <2>6. 0 \notin Data
    BY CrashConstants
  <2>7. Q[j] = P[j] \/ (Q[j] = b /\ P[j] = 0)
    <3>1. CASE a = 0
      BY <3>1, <2>4, <2>6 DEF Down
    <3>2. CASE a # 0
      BY <3>2, <2>4, <2>5, <2>6 DEF Down
    <3> QED
      BY <3>1, <3>2
  <2> QED
    BY <2>1, <2>7
<1> HIDE DEF S
<1>6. \A j \in -1..L : j \in S
  BY <1>4, <1>5, Descend
<1> QED
  BY <1>1, <1>6 DEF S, P, Q

-----------------------------------------------------------------------------
(* The invariant *)

Item  == [n : Blocks, v : Nat, whole : BOOLEAN]
Inode == [size : 0..(MAX_BLOCK + 1), ptr : [Pointers -> Data \cup {0}]]
Pcs   == {"block", "link", "rm", "give", "clear", "inode", "full"}
Call  == [pc : Pcs \cup {"bit"}, file : Files, del : BOOLEAN, todo : Seq(Item), ino : Inode,
          saved : [Pointers -> Data \cup {0}], j : 0..3, b : Data \cup {0},
          after : {"inode", "full"}]

\* The state and the record of the running call.
TypeOK == /\ free \subseteq Data /\ used \subseteq Files /\ named \subseteq used /\ hurt \subseteq used
          /\ blk \in [Data -> [Slots -> Nat \cup Data]]
          /\ inode \in [Files -> Inode]
          /\ call \in Call \cup {Idle}
          /\ kills \in 0..MAX_KILLS
          /\ want \in [Files -> [Blocks -> SUBSET Nat]]

\* A call works on the blocks of its file
Busy == call.pc \in Pcs

\* The files whose blocks are accounted for
Live == (named \ hurt) \cup (IF Busy THEN {call.file} ELSE {})

\* data_free has the block that the call gives back
Given == At("give") \/ At("clear")

\* The content of the blocks without the pointer to a block given back
Clean == IF Given /\ ~ AtRoot THEN [blk EXCEPT ![Parent][Address] = 0] ELSE blk

\* The pointers of each file: the copy's for the running call
CopyPtr == IF Given /\ AtRoot THEN [call.ino.ptr EXCEPT ![Pointer(N)] = 0] ELSE call.ino.ptr
Ptrs    == [f \in Files |-> IF Busy /\ f = call.file THEN CopyPtr ELSE inode[f].ptr]

\* The way to block n of file f, and the one of the call
CleanWay(f, n) == Path(Clean, Ptrs[f], n)

\* What the running call works on.
CallFile ==
  /\ Busy \/ At("bit") => IF call.del THEN call.file \in used \ (named \cup hurt)
                          ELSE call.file \in named \ hurt
  /\ At("bit") => call.del
  /\ Busy /\ call.todo = <<>> => call.del /\ At("block")
  /\ Busy /\ call.del => \A i \in 1..Len(call.todo) : call.todo[i].whole /\ call.todo[i].v = 0

\* The call is where its record says: what each step of get_nth_datablock and
\* rm_nth_datablock relies on.
CallStep ==
  /\ At("block") \/ At("rm") => call.b = 0
  /\ At("link") => /\ ~ call.del /\ call.b \in Data \ free /\ blk[call.b] = Zero
                   /\ call.j \in 0..Level(N) /\ Parent # 0 /\ blk[Parent][Address] = 0
  /\ At("rm") \/ Given => /\ call.j \in 0..(Level(N) + 1)
                          /\ call.j <= Level(N) => Parent # 0 /\ CleanWay(call.file, N)[call.j] = Parent
                          /\ call.after = "inode" <=> V = 0
  /\ At("rm") /\ Victim # 0 => IF call.j = 0 THEN V = 0 ELSE blk[Victim] = Zero
  /\ Given => call.b # 0 /\ call.b = Victim
  /\ At("give") => call.b \notin free
  /\ At("clear") => call.b \in free /\ ~ AtRoot
  /\ At("full") => V # 0

Running == CallFile /\ CallStep

\* What the call has done to its block before the inode is written.
Ended ==
  /\ (At("inode") /\ V = 0) \/ At("full") => CleanWay(call.file, N)[-1] = 0
  /\ At("inode") /\ V # 0 => /\ CleanWay(call.file, N)[-1] # 0
                             /\ blk[CleanWay(call.file, N)[-1]] = Fill(V)

\* The copy of the inode and the inode differ at the pointer to the block
\* alone: it is new, or it was given back.
Copies ==
  Busy => /\ call.todo = <<>> => inode[call.file].ptr = call.ino.ptr
          /\ call.todo # <<>> =>
               \A p \in Pointers :
                 \/ inode[call.file].ptr[p] = call.ino.ptr[p]
                 \/ /\ p = Pointer(N)
                    /\ \/ inode[call.file].ptr[p] = 0 /\ ~ call.del
                       \/ /\ At("inode") \/ At("full")
                          /\ call.ino.ptr[p] = 0 /\ inode[call.file].ptr[p] = call.b

\* What is under a pointer that only the copy has may read as zeros.
Fresh ==
  Busy /\ ~ call.del =>
    /\ V \in want[call.file][N]
    /\ inode[call.file].ptr[Pointer(N)] = 0 /\ call.ino.ptr[Pointer(N)] # 0 =>
         \A n \in Blocks : Pointer(n) = Pointer(N) => 0 \in want[call.file][n]

\* Block x reads as a value in vs
ReadsAs(x, vs) == \E v \in vs : IF x = 0 THEN v = 0 ELSE blk[x] = Fill(v)

\* What the running system would read.
Reads == \A f \in named \ hurt, n \in Blocks : ReadsAs(CleanWay(f, n)[-1], want[f][n])

\* The blocks in use, and the one that is coming or going
Sound(r) == /\ Mapped(r, Clean, Ptrs, free, Live)
            /\ At("link") \/ At("give") => call.b \notin DOMAIN r

Inv == TypeOK /\ Running /\ Ended /\ Copies /\ Fresh /\ Reads /\ \E r : Sound(r)

-----------------------------------------------------------------------------
(* What the invariant says of the running call *)

\* The way of the running call, before and after a step.
LEMMA CallPath ==
  /\ CallWay = Path(blk, call.ino.ptr, N)
  /\ CallWay' = Path(blk', call'.ino.ptr, N')
<1>1. CallWay = Path(blk, call.ino.ptr, N)
  BY Zenon DEF CallWay, Way, Path
<1>2. CallWay' = Path(blk', call'.ino.ptr, N')
  BY Zenon DEF CallWay, Way, Path
<1> QED
  BY <1>1, <1>2

\* The block that the call is at.
LEMMA CallBlock ==
  ASSUME TypeOK, Running, Busy, call.todo # <<>>
  PROVE  /\ call \in Call /\ call.file \in Files
         /\ N \in Blocks /\ V \in Nat /\ Head(call.todo) \in Item /\ Tail(call.todo) \in Seq(Item)
         /\ Level(N) \in -1..2 /\ Pointer(N) \in Pointers /\ LevelOf(Pointer(N)) = Level(N)
         /\ call.del => Head(call.todo).whole /\ V = 0
<1>1. call \in Call /\ call.file \in Files
  <2>1. call # Idle
    BY DEF Busy, Idle, Pcs
  <2> QED
    BY <2>1 DEF TypeOK, Call
<1>2. call.todo \in Seq(Item)
  BY <1>1 DEF Call
<1>3. Head(call.todo) \in Item /\ Tail(call.todo) \in Seq(Item)
  BY <1>2, HeadTailProperties
<1>4. N \in Blocks /\ V \in Nat
  BY <1>3 DEF N, V, Item
<1>5. call.del => Head(call.todo).whole /\ V = 0
  <2>1. Head(call.todo) = call.todo[1] /\ 1 \in 1..Len(call.todo)
    BY <1>2, HeadTailProperties, EmptySeq
  <2> QED
    BY <2>1 DEF Running, CallFile, V
<1> QED
  BY <1>1, <1>3, <1>4, <1>5, Levels

\* Where the call is not between data_free and the write that clears the
\* pointer, its view of the blocks is what is there.
LEMMA Views ==
  /\ ~ Given => Clean = blk /\ CopyPtr = call.ino.ptr
  /\ ~ Given' => Clean' = blk' /\ CopyPtr' = call'.ino.ptr
  /\ ~ AtRoot => CopyPtr = call.ino.ptr
  /\ AtRoot => Clean = blk
  BY DEF Clean, CopyPtr

-----------------------------------------------------------------------------
(* What a step does to the blocks in view *)

\* Nothing: the paths are the same
Quiet ==
  /\ Live' = Live /\ \A f \in Live : Ptrs'[f] = Ptrs[f]
  /\ \A f \in Live, n \in Blocks : \A j \in 0..Level(n), s \in Slots :
       CleanWay(f, n)[j] # 0 => Clean'[CleanWay(f, n)[j]][s] = Clean[CleanWay(f, n)[j]][s]

\* Block x is taken away
Cutting(x) ==
  /\ Live' = Live
  /\ \E r : /\ Mapped(r, Clean, Ptrs, free, Live)
            /\ CutAway(r, Clean, Ptrs, Live, x, Clean', Ptrs')

\* Block b is put on the way of the call, at level l
Growing(b, l) ==
  /\ Live' = Live /\ l \in -1..Level(N) /\ Path(Clean', Ptrs'[call.file], N)[l] = b
  /\ \E r, w : /\ Mapped(r, Clean, Ptrs, free, Live)
               /\ Attached(r, Clean, Ptrs, Live, Clean', Ptrs', b, call.file, Pointer(N), l, w)

\* The same content and the same pointers.
LEMMA SameView ==
  ASSUME Clean' = Clean, Ptrs' = Ptrs, Live' = Live
  PROVE  Quiet
  BY DEF Quiet

-----------------------------------------------------------------------------
(* The steps keep the invariant *)

\* A fresh disk: nothing is used, and every block is free.
LEMMA InitInv ==
  ASSUME Init
  PROVE  Inv
<1>1. call.pc = "idle" /\ ~ Busy
  BY DEF Init, Idle, Busy, Pcs
<1>2. TypeOK
  BY CrashConstants DEF Init, TypeOK, Inode, NewInode, Zero, Fill, Call
<1>3. Running /\ Ended /\ Copies /\ Fresh /\ Reads
  BY <1>1 DEF Running, CallFile, CallStep, Ended, Copies, Fresh, Reads, Init, At, Given
<1>4. Live = {}
  BY <1>1 DEF Live, Init
<1>5. Sound([x \in {} |-> 0])
  BY <1>1, <1>4 DEF Sound, Mapped, At
<1> QED
  BY <1>2, <1>3, <1>5 DEF Inv

\* mknod: a free inode is taken and written with no pointers.
LEMMA MknodInv ==
  ASSUME Inv, NEW f \in Files, mknod(f)
  PROVE  Inv'
<1>1. /\ call.pc = "idle" /\ ~ Busy /\ ~ Given /\ call' = call /\ ~ Busy' /\ ~ Given'
      /\ call'.pc = "idle"
  BY DEF mknod, At, Busy, Pcs, Given
<1>2. /\ blk' = blk /\ free' = free /\ hurt' = hurt /\ kills' = kills
      /\ used' = used \cup {f} /\ named' = named \cup {f}
      /\ inode' = [inode EXCEPT ![f] = NewInode]
      /\ want' = [want EXCEPT ![f] = [n \in Blocks |-> {0}]]
      /\ f \notin used
  BY DEF mknod
<1>3. TypeOK
  BY DEF Inv
<1>4. TypeOK'
  <2>1. NewInode \in Inode
    BY CrashConstants DEF NewInode, Inode
  <2>2. [n \in Blocks |-> {0}] \in [Blocks -> SUBSET Nat]
    OBVIOUS
  <2>3. inode' \in [Files -> Inode] /\ want' \in [Files -> [Blocks -> SUBSET Nat]]
    BY <1>2, <1>3, <2>1, <2>2 DEF TypeOK
  <2> QED
    BY <1>1, <1>2, <1>3, <2>3 DEF TypeOK
<1>5. Running' /\ Ended' /\ Copies' /\ Fresh'
  BY <1>1 DEF Running, CallFile, CallStep, Ended, Copies, Fresh, At
<1>6. Clean = blk /\ Clean' = blk
  BY <1>1, <1>2, Views
<1>7. f \notin Live /\ Live' = Live \cup {f} /\ Live = named \ hurt
  BY <1>1, <1>2, <1>3 DEF Live, TypeOK
<1>8. /\ \A g \in Live : Ptrs'[g] = Ptrs[g] /\ g # f
      /\ \A p \in Pointers : Ptrs'[f][p] = 0
  <2>1. Ptrs = [g \in Files |-> inode[g].ptr] /\ Ptrs' = [g \in Files |-> inode'[g].ptr]
    BY <1>1 DEF Ptrs
  <2>2. Live \subseteq Files
    BY <1>3, <1>7 DEF TypeOK
  <2>3. inode'[f] = NewInode /\ \A g \in Files \ {f} : inode'[g] = inode[g]
    BY <1>2, <1>3 DEF TypeOK
  <2> QED
    BY <2>1, <2>2, <2>3, <1>7 DEF NewInode
<1>9. PICK r : Sound(r)
  BY DEF Inv
<1>10. Sound(r)'
  <2>1. Mapped(r, blk, Ptrs, free, Live)
    BY <1>9, <1>6 DEF Sound
  <2>2. Mapped(r, blk, Ptrs', free, Live')
    BY <2>1, <1>7, <1>8 DEF Mapped
  <2> QED
    BY <2>2, <1>1, <1>2, <1>6 DEF Sound, At
<1>11. ASSUME NEW g \in named' \ hurt', NEW n \in Blocks
       PROVE  ReadsAs(CleanWay(g, n)[-1], want[g][n])'
  <2>1. CASE g = f
    <3>1. /\ Path(blk, Ptrs'[f], n)[-1] = 0
      <4>1. PICK L \in -1..2 : L = Level(n) /\ Pointer(n) \in Pointers
        BY Levels
      <4>2. L \in -1..Level(n) /\ Path(blk, Ptrs'[f], n)[L] = 0 /\ -1 \in -1..L
        BY <4>1, <1>8, PathSteps
      <4> QED
        BY <4>2, NothingBelow
    <3>2. want'[f][n] = {0}
      BY <1>2, <1>3 DEF TypeOK
    <3> QED
      BY <2>1, <3>1, <3>2, <1>6 DEF ReadsAs, CleanWay
  <2>2. CASE g # f
    <3>1. g \in named \ hurt /\ Ptrs'[g] = Ptrs[g] /\ want'[g] = want[g]
      BY <2>2, <1>2, <1>3, <1>7, <1>8 DEF TypeOK
    <3>2. ReadsAs(CleanWay(g, n)[-1], want[g][n])
      BY <3>1 DEF Inv, Reads
    <3>3. ReadsAs(Path(blk, Ptrs[g], n)[-1], want[g][n])
      BY <3>2, <1>6 DEF CleanWay
    <3> QED
      BY <3>1, <3>3, <1>2, <1>6 DEF ReadsAs, CleanWay
  <2> QED
    BY <2>1, <2>2
<1> QED
  BY <1>4, <1>5, <1>10, <1>11 DEF Inv, Reads

\* What was read is read where the view of the blocks is the same, and so is
\* what is in them.
LEMMA SameReads ==
  ASSUME Reads, Clean' = Clean,
         \A f \in named' \ hurt' : /\ f \in named \ hurt /\ Ptrs'[f] = Ptrs[f]
                                   /\ \A n \in Blocks : want[f][n] \subseteq want'[f][n],
         \A f \in named \ hurt, n \in Blocks :
           CleanWay(f, n)[-1] # 0 => blk'[CleanWay(f, n)[-1]] = blk[CleanWay(f, n)[-1]]
  PROVE  Reads'
<1> SUFFICES ASSUME NEW f \in named' \ hurt', NEW n \in Blocks
             PROVE  ReadsAs(CleanWay(f, n)[-1], want[f][n])'
  BY DEF Reads
<1>1. f \in named \ hurt /\ Ptrs'[f] = Ptrs[f] /\ want[f][n] \subseteq want'[f][n]
  OBVIOUS
<1>2. ReadsAs(CleanWay(f, n)[-1], want[f][n])
  BY <1>1 DEF Reads
<1>3. CleanWay(f, n)' = CleanWay(f, n)
  BY <1>1 DEF CleanWay
<1>4. CleanWay(f, n)[-1] # 0 => blk'[CleanWay(f, n)[-1]] = blk[CleanWay(f, n)[-1]]
  BY <1>1
<1> QED
  BY <1>1, <1>2, <1>3, <1>4 DEF ReadsAs

\* A call starts on a file that is not damaged; its copy of the inode is the
\* inode.
LEMMA StartCallInv ==
  ASSUME Inv, NEW f \in named \ hurt, NEW todo \in Seq(Item), NEW del \in BOOLEAN,
         At("idle"), StartCall(f, todo, del),
         UNCHANGED <<free, blk, inode, used, kills, hurt>>,
         IF del THEN /\ named' = named \ {f} /\ want' = want
                     /\ \A i \in 1..Len(todo) : todo[i].whole /\ todo[i].v = 0
         ELSE named' = named /\ todo # <<>> /\ Expect(f, Head(todo))
  PROVE  Inv' /\ Quiet
<1>1. TypeOK /\ Reads
  BY DEF Inv
<1>2. /\ free' = free /\ blk' = blk /\ inode' = inode /\ used' = used /\ kills' = kills
      /\ hurt' = hurt /\ named' \subseteq named /\ named \ named' \subseteq {f}
  OBVIOUS
<1>3. /\ call'.pc = "block" /\ call'.file = f /\ call'.del = del /\ call'.todo = todo
      /\ call'.ino = inode[f] /\ call'.saved = inode[f].ptr /\ call'.j = 0 /\ call'.b = 0
      /\ call'.after = "inode"
  BY DEF StartCall
<1>4. /\ ~ Busy /\ ~ Given /\ Busy' /\ ~ Given' /\ At("block")'
      /\ \A pc \in Pcs \cup {"bit"} : pc # "block" => ~ At(pc)'
  BY <1>3 DEF At, Busy, Given, Pcs
<1>5. f \in Files /\ f \in used /\ inode[f] \in Inode /\ inode[f].ptr \in [Pointers -> Data \cup {0}]
  BY <1>1 DEF TypeOK, Inode
<1>6. ~ del => /\ Head(todo) \in Item /\ N' = Head(todo).n /\ V' = Head(todo).v
               /\ N' \in Blocks /\ V' \in Nat
  <2>1. N' = Head(todo).n /\ V' = Head(todo).v
    BY <1>3 DEF N, V
  <2>2. ~ del => Head(todo) \in Item
    BY HeadTailProperties
  <2> QED
    BY <2>1, <2>2 DEF Item
<1>7. /\ want' \in [Files -> [Blocks -> SUBSET Nat]]
      /\ \A g \in Files, n \in Blocks : want[g][n] \subseteq want'[g][n]
      /\ ~ del => V' \in want'[f][N']
  <2>1. CASE del
    BY <2>1, <1>1 DEF TypeOK
  <2>2. CASE ~ del
    <3>1. want' = [want EXCEPT ![f] = [want[f] EXCEPT ![N'] = @ \cup {V'}]]
      BY <2>2, <1>6 DEF Expect
    <3>2. want[f] \in [Blocks -> SUBSET Nat]
      BY <1>1, <1>5 DEF TypeOK
    <3>3. PICK w : w = [want[f] EXCEPT ![N'] = @ \cup {V'}]
      OBVIOUS
    <3>4. w \in [Blocks -> SUBSET Nat] /\ V' \in w[N'] /\ \A n \in Blocks : want[f][n] \subseteq w[n]
      BY <2>2, <1>6, <3>2, <3>3
    <3>5. want' \in [Files -> [Blocks -> SUBSET Nat]] /\ want'[f] = w
          /\ \A g \in Files \ {f} : want'[g] = want[g]
      BY <1>1, <1>5, <3>1, <3>3, <3>4 DEF TypeOK
    <3> QED
      BY <3>4, <3>5
  <2> QED
    BY <2>1, <2>2
<1>8. TypeOK'
  <2>1. call' \in Call
    BY <1>5, CrashConstants DEF StartCall, Call, Pcs
  <2> QED
    BY <1>1, <1>2, <1>7, <2>1 DEF TypeOK
<1>9. Running'
  <2>1. ~ At("link")' /\ ~ At("rm")' /\ ~ At("give")' /\ ~ At("clear")' /\ ~ At("full")' /\ ~ At("bit")'
    BY <1>4 DEF Pcs
  <2>2. IF call'.del THEN call'.file \in used' \ (named' \cup hurt') ELSE call'.file \in named' \ hurt'
    BY <1>2, <1>3, <1>5
  <2> QED
    BY <1>3, <1>4, <2>1, <2>2 DEF Running, CallFile, CallStep
<1>10. Ended'
  BY <1>4 DEF Ended, Pcs
<1>11. Copies'
  BY <1>2, <1>3 DEF Copies
<1>12. Fresh'
  BY <1>2, <1>3, <1>6, <1>7 DEF Fresh
<1>13. Clean = blk /\ Clean' = blk /\ CopyPtr' = inode[f].ptr
  BY <1>2, <1>3, <1>4, Views
<1>14. Ptrs' = Ptrs
  <2>1. Ptrs = [g \in Files |-> inode[g].ptr]
    BY <1>4 DEF Ptrs
  <2>2. Ptrs' = [g \in Files |-> inode[g].ptr]
    BY <1>2, <1>3, <1>4, <1>13 DEF Ptrs
  <2> QED
    BY <2>1, <2>2
<1>15. Live' = Live
  BY <1>2, <1>3, <1>4 DEF Live
<1>16. Reads'
  <2>1. named' \ hurt' \subseteq named \ hurt /\ named \subseteq Files
    BY <1>1, <1>2 DEF TypeOK
  <2> QED
    BY <2>1, <1>1, <1>2, <1>7, <1>13, <1>14, SameReads
<1>17. PICK r : Sound(r)
  BY DEF Inv
<1>18. Sound(r)'
  BY <1>2, <1>4, <1>13, <1>14, <1>15, <1>17 DEF Sound, Pcs
<1>40. Quiet
  BY <1>13, <1>14, <1>15, SameView
<1> QED
  BY <1>8, <1>9, <1>10, <1>11, <1>12, <1>16, <1>18, <1>40 DEF Inv

\* write_i, up to its first block.
LEMMA WriteInv ==
  ASSUME Inv, NEW f \in Files, NEW todo \in Jobs, write_i(f, todo)
  PROVE  Inv' /\ Quiet
<1>1. todo \in Seq(Item) /\ todo # <<>>
  BY CrashConstants DEF Item, Blocks
<1>2. f \in named \ hurt /\ At("idle") /\ StartCall(f, todo, FALSE) /\ Expect(f, Head(todo))
      /\ UNCHANGED <<free, blk, inode, used, named, kills, hurt>>
  BY DEF write_i
<1> QED
  BY <1>1, <1>2, StartCallInv

\* The minimum and the maximum of some levels, or of two numbers.
LEMMA Extremes ==
  ASSUME NEW S, S \subseteq -1..3 \/ (\E a \in Int, b \in Int : S = {a, b}), S # {}
  PROVE  /\ Min(S) \in S /\ \A x \in S : Min(S) <= x
         /\ Max(S) \in S /\ \A x \in S : Max(S) >= x
<1>1. S \subseteq Int
  OBVIOUS
<1>2. \E x \in S : \A y \in S : x <= y
  <2>1. CASE \E a \in Int, b \in Int : S = {a, b}
    BY <2>1
  <2>2. CASE S \subseteq -1..3
    <3>1. \A x \in S : x \in {-1, 0, 1, 2, 3}
      BY <2>2
    <3> QED
      BY <3>1
  <2> QED
    BY <2>1, <2>2
<1>3. \E x \in S : \A y \in S : x >= y
  <2>1. CASE \E a \in Int, b \in Int : S = {a, b}
    BY <2>1
  <2>2. CASE S \subseteq -1..3
    <3>1. \A x \in S : x \in {-1, 0, 1, 2, 3}
      BY <2>2
    <3> QED
      BY <3>1
  <2> QED
    BY <2>1, <2>2
<1>4. Min(S) \in S /\ \A x \in S : Min(S) <= x
  BY <1>2, Zenon DEF Min
<1>5. Max(S) \in S /\ \A x \in S : Max(S) >= x
  BY <1>3, Zenon DEF Max
<1> QED
  BY <1>4, <1>5

\* The blocks that trunc_fs overwrites.
LEMMA OverwrittenSeq ==
  ASSUME NEW size \in 0..(MAX_BLOCK + 1)
  PROVE  /\ Overwritten(size) \in Seq(Item) /\ Len(Overwritten(size)) >= size
         /\ \A i \in 1..Len(Overwritten(size)) :
              /\ Overwritten(size)[i].whole /\ Overwritten(size)[i].v = 0
              /\ Overwritten(size)[i].n = i - 1
<1>1. TRUNC_BLOCKS \in Nat \ {0} /\ MAX_BLOCK \in Nat
  BY CrashConstants
<1>2. PICK d \in Nat : d = (size + TRUNC_BLOCKS - 1) \div TRUNC_BLOCKS
  <2>1. size + TRUNC_BLOCKS - 1 \in Nat
    BY <1>1
  <2> QED
    BY <2>1, <1>1, Divided
<1>3. PICK end \in Nat : end = d * TRUNC_BLOCKS /\ end >= size
  <2>1. PICK t \in Nat \ {0}, e \in Nat : t = TRUNC_BLOCKS /\ e = size + t - 1 /\ d = e \div t
    BY <1>1, <1>2
  <2>2. PICK m \in 0..(t - 1) : e = d * t + m
    <3>1. PICK k \in Nat, m \in 0..(t - 1) : k = e \div t /\ m = e % t /\ e = k * t + m
      BY Divided
    <3> QED
      BY <2>1, <3>1
  <2>3. PICK p \in Nat : p = d * t
    BY <2>1
  <2>4. p >= size
    BY <2>1, <2>2, <2>3
  <2> QED
    BY <2>1, <2>3, <2>4
<1>4. PICK m \in 0..(MAX_BLOCK + 1) : m = Min({end, MAX_BLOCK + 1}) /\ m >= size
  <2>1. end \in Int /\ MAX_BLOCK + 1 \in Int /\ {end, MAX_BLOCK + 1} # {}
    BY <1>1
  <2>2. PICK m : m = Min({end, MAX_BLOCK + 1})
    OBVIOUS
  <2>3. m \in {end, MAX_BLOCK + 1} /\ m <= MAX_BLOCK + 1
    BY <2>1, <2>2, Extremes
  <2>4. m >= size /\ m \in 0..(MAX_BLOCK + 1)
    BY <2>3, <1>1, <1>3
  <2> QED
    BY <2>2, <2>4
<1>5. Overwritten(size) = [k \in 1..m |-> [n |-> k - 1, v |-> 0, whole |-> TRUE]]
  BY <1>2, <1>3, <1>4 DEF Overwritten
<1>6. \A k \in 1..m : [n |-> k - 1, v |-> 0, whole |-> TRUE] \in Item
  BY <1>1 DEF Item, Blocks
<1>7. m \in Nat
  BY <1>1
<1>8. Overwritten(size) \in Seq(Item) /\ Len(Overwritten(size)) = m
  BY <1>5, <1>6, <1>7
<1> QED
  BY <1>4, <1>5, <1>8

\* unlink, up to the first block of del.
LEMMA UnlinkInv ==
  ASSUME Inv, NEW f \in Files, unlink(f)
  PROVE  Inv' /\ Quiet
<1>1. inode[f].size \in 0..(MAX_BLOCK + 1)
  BY DEF Inv, TypeOK, Inode
<1>2. PICK todo \in Seq(Item) : /\ todo = Overwritten(inode[f].size)
                                /\ \A i \in 1..Len(todo) : todo[i].whole /\ todo[i].v = 0
  BY <1>1, OverwrittenSeq
<1>3. /\ f \in named \ hurt /\ At("idle") /\ StartCall(f, todo, TRUE) /\ named' = named \ {f}
      /\ want' = want /\ UNCHANGED <<free, blk, inode, used, kills, hurt>>
  BY <1>2 DEF unlink
<1> QED
  BY <1>2, <1>3, StartCallInv

\* What a path has under level j, where level Level(n) + 1 is the inode.
LEMMA Under ==
  ASSUME NEW c, NEW q, NEW n \in Blocks, NEW j \in 0..(Level(n) + 1),
         j <= Level(n) => Path(c, q, n)[j] \in Data
  PROVE  Path(c, q, n)[j - 1] = IF j > Level(n) THEN q[Pointer(n)]
                                ELSE c[Path(c, q, n)[j]][Index(n, j)]
<1>1. PICK L \in -1..2 : L = Level(n)
  BY Levels
<1>2. CASE j > L
  <2>1. j - 1 = L
    BY <1>1, <1>2
  <2> QED
    BY <2>1, <1>1, <1>2, PathSteps
<1>3. CASE ~ j > L
  <2>1. j - 1 \in -1..(L - 1) /\ (j - 1) + 1 = j /\ j <= L
    BY <1>1, <1>3
  <2>2. Path(c, q, n)[j - 1] = Down(c, Path(c, q, n)[j], Index(n, j))
    BY <2>1, <1>1, PathSteps
  <2> QED
    BY <2>1, <2>2, <1>1, <1>3 DEF Down
<1> QED
  BY <1>1, <1>2, <1>3

\* The way of the running call consists of blocks.
LEMMA CallBlocks ==
  ASSUME Inv, Busy, call.todo # <<>>, ~ Given
  PROVE  \A j \in -1..Level(N) : /\ CallWay[j] # 0 => CallWay[j] \in Data
                                 /\ CleanWay(call.file, N)[j] = CallWay[j]
<1>1. TypeOK /\ Running
  BY DEF Inv
<1>2. N \in Blocks /\ call.file \in Files
  BY <1>1, CallBlock
<1>3. Ptrs[call.file] = call.ino.ptr /\ Clean = blk
  BY <1>2, Views DEF Ptrs
<1>4. PICK r : Mapped(r, Clean, Ptrs, free, Live)
  BY DEF Inv, Sound
<1>5. call.file \in Live
  BY DEF Live
<1>6. \A j \in -1..Level(N) : OnMap(r, Clean, Ptrs, call.file, N, j)
  BY <1>2, <1>4, <1>5, PathOnMap
<1>7. CallWay = Path(Clean, Ptrs[call.file], N)
  BY <1>3, CallPath
<1> QED
  BY <1>6, <1>7 DEF OnMap, CleanWay

\* The deleting loop starts where nothing but the block itself is below.
LEMMA StartRemoveInv ==
  ASSUME Inv, At("block"), call.todo # <<>>, NEW after \in {"inode", "full"}, StartRemove(after),
         UNCHANGED <<free, blk, inode, used, named, kills, want, hurt>>,
         after = "inode" <=> V = 0, V = 0 \/ CallWay[-1] = 0
  PROVE  Inv' /\ Quiet
<1>1. TypeOK /\ Running /\ Reads /\ Copies /\ Fresh
  BY DEF Inv
<1>2. /\ free' = free /\ blk' = blk /\ inode' = inode /\ used' = used /\ kills' = kills
      /\ hurt' = hurt /\ named' = named /\ want' = want
  OBVIOUS
<1>3. Busy /\ ~ Given /\ call.pc = "block" /\ call.b = 0
  BY <1>1 DEF At, Busy, Given, Pcs, Running, CallStep
<1>4. /\ call \in Call /\ N \in Blocks /\ V \in Nat /\ call.file \in Files
      /\ Level(N) \in -1..2 /\ Pointer(N) \in Pointers /\ call.ino \in Inode
  BY <1>1, <1>3, CallBlock DEF Call
<1> DEFINE S == {j \in 0..(Level(N) + 1) : j > Level(N) \/ CallWay[j] # 0}
<1>5. PICK i \in 0..(Level(N) + 1) : /\ i = Min(S)
                                     /\ i <= Level(N) => CallWay[i] # 0
                                     /\ \A k \in 0..(i - 1) : CallWay[k] = 0
  <2>1. S \subseteq -1..3 /\ Level(N) + 1 \in S /\ S # {}
    BY <1>4
  <2>2. Min(S) \in S /\ \A x \in S : Min(S) <= x
    BY <2>1, Extremes
  <2>3. PICK i : i = Min(S)
    OBVIOUS
  <2>4. i \in 0..(Level(N) + 1) /\ (i <= Level(N) => CallWay[i] # 0)
    BY <2>2, <2>3, <1>4
  <2>5. \A k \in 0..(i - 1) : k \in 0..(Level(N) + 1) /\ ~ i <= k
    BY <2>4, <1>4
  <2>6. \A k \in 0..(i - 1) : CallWay[k] = 0
    BY <2>2, <2>3, <2>5
  <2> QED
    BY <2>3, <2>4, <2>6
<1>6. /\ call'.pc = "rm" /\ call'.file = call.file /\ call'.del = call.del /\ call'.todo = call.todo
      /\ call'.ino = call.ino /\ call'.saved = call.saved /\ call'.j = i /\ call'.b = 0
      /\ call'.after = after /\ call' \in Call
  <2>1. call' = [call EXCEPT !.pc = "rm", !.after = after, !.j = i]
    BY <1>5 DEF StartRemove
  <2>2. i \in 0..3
    BY <1>4
  <2> QED
    BY <1>3, <1>4, <2>1, <2>2 DEF Call, Pcs
<1>7. /\ Busy' /\ ~ Given' /\ At("rm")'
      /\ ~ At("link")' /\ ~ At("give")' /\ ~ At("clear")' /\ ~ At("full")' /\ ~ At("bit")'
      /\ ~ At("inode")' /\ ~ At("block")'
  BY <1>6 DEF At, Busy, Given, Pcs
<1>8. N' = N /\ V' = V
  BY <1>6 DEF N, V
<1>9. Clean = blk /\ Clean' = blk /\ CopyPtr = call.ino.ptr /\ CopyPtr' = call.ino.ptr
  BY <1>2, <1>3, <1>6, <1>7, Views
<1>10. Ptrs' = Ptrs /\ Live' = Live
  BY <1>2, <1>3, <1>6, <1>7, <1>9 DEF Ptrs, Live
<1>11. CallWay' = CallWay /\ CallWay = Path(blk, call.ino.ptr, N)
  BY <1>2, <1>6, <1>8, CallPath
<1>12. \A k \in -1..Level(N) : (CallWay[k] # 0 => CallWay[k] \in Data) /\ CleanWay(call.file, N)[k] = CallWay[k]
  BY <1>3, CallBlocks
<1>13. CleanWay(call.file, N)' = CleanWay(call.file, N)
  BY <1>6, <1>8, <1>9, <1>10 DEF CleanWay
<1>14. TypeOK'
  BY <1>1, <1>2, <1>6 DEF TypeOK
<1>15. i <= Level(N) => /\ Parent' # 0 /\ CleanWay(call.file, N)'[call'.j] = Parent'
                        /\ Parent' = CallWay[i] /\ CallWay[i] \in Data
  <2>1. i <= Level(N) => i \in -1..Level(N)
    BY <1>4
  <2> QED
    BY <2>1, <1>5, <1>6, <1>8, <1>11, <1>12, <1>13 DEF Parent
<1>16. Victim' = CallWay[i - 1]
  <2>1. CallWay[i - 1] = IF i > Level(N) THEN call.ino.ptr[Pointer(N)]
                         ELSE blk[CallWay[i]][Index(N, i)]
    BY <1>4, <1>11, <1>15, Under
  <2> QED
    BY <2>1, <1>2, <1>6, <1>8, <1>11, <1>15 DEF Victim, AtRoot, Root, Parent, Address
<1>17. Victim' # 0 => i = 0 /\ V = 0
  <2>1. i # 0 => i - 1 \in 0..(i - 1)
    BY <1>5
  <2> QED
    BY <2>1, <1>5, <1>16
<1>18. Running'
  <2>1. CallFile'
    BY <1>1, <1>2, <1>3, <1>6, <1>7 DEF Running, CallFile
  <2>2. CallStep'
    BY <1>6, <1>7, <1>8, <1>15, <1>17 DEF CallStep
  <2> QED
    BY <2>1, <2>2 DEF Running
<1>19. Ended' /\ Copies' /\ Fresh'
  BY <1>1, <1>2, <1>3, <1>6, <1>7, <1>8 DEF Ended, Copies, Fresh, At
<1>20. Reads'
  BY <1>1, <1>2, <1>9, <1>10, SameReads
<1>21. PICK r : Sound(r)
  BY DEF Inv
<1>22. Sound(r)'
  BY <1>2, <1>7, <1>9, <1>10, <1>21 DEF Sound
<1>40. Quiet
  BY <1>9, <1>10, SameView
<1> QED
  BY <1>14, <1>18, <1>19, <1>20, <1>22, <1>40 DEF Inv

\* The three ways into rm_nth_datablock: a block all of zeros, a block zeroed in part, a full disk.
LEMMA RemoveStartsInv ==
  ASSUME Inv, RemoveWhole \/ RemovePart \/ NoRoom
  PROVE  Inv' /\ Quiet
<1>1. At("block") /\ call.todo # <<>> /\ UNCHANGED <<free, blk, inode, used, named, kills, want, hurt>>
  BY DEF RemoveWhole, RemovePart, NoRoom, Wanted
<1>2. CASE RemoveWhole \/ RemovePart
  <2>1. V = 0 /\ StartRemove("inode")
    BY <1>2 DEF RemoveWhole, RemovePart
  <2> QED
    BY <1>1, <2>1, StartRemoveInv
<1>3. CASE NoRoom
  <2>1. Missing # {} /\ StartRemove(IF V = 0 THEN "inode" ELSE "full")
    BY <1>3 DEF NoRoom
  <2>2. Busy
    BY <1>1 DEF At, Busy, Pcs
  <2>3. N \in Blocks /\ Level(N) \in -1..2
    BY <1>1, <2>2, CallBlock DEF Inv
  <2>4. PICK k \in -1..Level(N) : CallWay[k] = 0
    BY <2>1 DEF Missing
  <2>5. -1 \in -1..k
    BY <2>3
  <2>6. CallWay[-1] = 0
    BY <2>3, <2>4, <2>5, CallPath, NothingBelow
  <2> QED
    BY <1>1, <2>1, <2>6, StartRemoveInv
<1> QED
  BY <1>2, <1>3

\* Where the way of the call is below the address block it works on.
LEMMA LoopPath ==
  ASSUME Inv, At("rm") \/ Given
  PROVE  /\ TypeOK /\ Running /\ Busy /\ call.todo # <<>> /\ call \in Call
         /\ N \in Blocks /\ V \in Nat /\ call.file \in Files /\ call.file \in Live
         /\ Level(N) \in -1..2 /\ Pointer(N) \in Pointers /\ call.j \in 0..(Level(N) + 1)
         /\ Ptrs[call.file] = CopyPtr
         /\ ~ AtRoot => /\ call.j \in 0..Level(N) /\ Address \in Slots
                        /\ Parent \in Data /\ CleanWay(call.file, N)[call.j] = Parent
                        /\ CopyPtr = call.ino.ptr
                        /\ CleanWay(call.file, N)[call.j - 1] = Clean[Parent][Address]
         /\ AtRoot => /\ call.j - 1 = Level(N)
                      /\ CleanWay(call.file, N)[call.j - 1] = CopyPtr[Pointer(N)]
         /\ (At("rm") /\ Victim = 0) \/ At("clear") => CleanWay(call.file, N)[call.j - 1] = 0
<1>1. TypeOK /\ Running /\ CallFile /\ CallStep
  BY DEF Inv, Running
<1>2. Busy /\ call.todo # <<>>
  BY <1>1 DEF At, Given, Busy, Pcs, CallFile
<1>3. /\ call \in Call /\ N \in Blocks /\ V \in Nat /\ call.file \in Files
      /\ Level(N) \in -1..2 /\ Pointer(N) \in Pointers
  BY <1>1, <1>2, CallBlock
<1>4. call.j \in 0..(Level(N) + 1) /\ (call.j <= Level(N) => Parent # 0 /\ CleanWay(call.file, N)[call.j] = Parent)
  BY <1>1 DEF CallStep
<1>5. call.file \in Live /\ Ptrs[call.file] = CopyPtr
  BY <1>2, <1>3 DEF Live, Ptrs
<1>6. PICK r : Mapped(r, Clean, Ptrs, free, Live)
  BY DEF Inv, Sound
<1>7. \A j \in -1..Level(N) : CleanWay(call.file, N)[j] # 0 => CleanWay(call.file, N)[j] \in Data
  BY <1>3, <1>5, <1>6, PathOnMap DEF OnMap, CleanWay
<1>8. ~ AtRoot => call.j \in 0..Level(N) /\ call.j <= Level(N) /\ call.j \in -1..Level(N)
  BY <1>3, <1>4 DEF AtRoot
<1>9. ~ AtRoot => Parent \in Data /\ CleanWay(call.file, N)[call.j] = Parent /\ Address \in Slots
                  /\ CopyPtr = call.ino.ptr
  BY <1>3, <1>4, <1>7, <1>8, Indices, Views DEF Address
<1>10. CleanWay(call.file, N)[call.j - 1] = IF call.j > Level(N) THEN Ptrs[call.file][Pointer(N)]
                         ELSE Clean[CleanWay(call.file, N)[call.j]][Index(N, call.j)]
  <2>1. call.j <= Level(N) => Path(Clean, Ptrs[call.file], N)[call.j] \in Data
    BY <1>3, <1>4, <1>9 DEF AtRoot, CleanWay
  <2> QED
    BY <2>1, <1>3, <1>4, Under DEF CleanWay
<1>11. /\ ~ AtRoot => CleanWay(call.file, N)[call.j - 1] = Clean[Parent][Address]
       /\ AtRoot => /\ call.j - 1 = Level(N)
                    /\ CleanWay(call.file, N)[call.j - 1] = CopyPtr[Pointer(N)]
  BY <1>3, <1>4, <1>5, <1>9, <1>10 DEF AtRoot, Address
<1>12. At("rm") /\ Victim = 0 => CleanWay(call.file, N)[call.j - 1] = 0
  <2>1. At("rm") => Clean = blk /\ CopyPtr = call.ino.ptr
    BY Views DEF At, Given
  <2> QED
    BY <2>1, <1>11 DEF Victim, Root
<1>13. At("clear") => CleanWay(call.file, N)[call.j - 1] = 0
  <2>1. SUFFICES ASSUME At("clear") PROVE CleanWay(call.file, N)[call.j - 1] = 0
    OBVIOUS
  <2>2. ~ AtRoot /\ Given
    BY <1>1, <2>1 DEF CallStep, Given
  <2>3. Clean = [blk EXCEPT ![Parent][Address] = 0]
    BY <2>2 DEF Clean
  <2>4. Clean[Parent][Address] = 0
    BY <2>2, <2>3, <1>1, <1>9 DEF TypeOK
  <2> QED
    BY <2>2, <2>4, <1>11
<1> QED
  BY <1>1, <1>2, <1>3, <1>4, <1>5, <1>8, <1>9, <1>11, <1>12, <1>13

\* The view of the blocks differs from them in the address block above.
LEMMA CleanBlocks ==
  ASSUME TypeOK
  PROVE  /\ Clean \in [Data -> [Slots -> Nat \cup Data]]
         /\ \A x \in Data : ~ (Given /\ ~ AtRoot /\ x = Parent) => Clean[x] = blk[x]
         /\ \A x \in Data, s \in Slots : Clean[x][s] # blk[x][s] => s = Address /\ Clean[x][s] = 0
<1>1. blk \in [Data -> [Slots -> Nat \cup Data]]
  BY DEF TypeOK
<1>2. CASE Given /\ ~ AtRoot
  <2>1. Clean = [blk EXCEPT ![Parent] = [blk[Parent] EXCEPT ![Address] = 0]]
    BY <1>2 DEF Clean
  <2> QED
    BY <1>1, <1>2, <2>1
<1>3. CASE ~ (Given /\ ~ AtRoot)
  BY <1>1, <1>3 DEF Clean
<1> QED
  BY <1>2, <1>3

\* The address block above is as it should be: the loop goes on there, or it
\* is over.
LEMMA LoopInv ==
  ASSUME Inv, (At("rm") /\ Victim = 0) \/ At("clear"), blk' = Clean,
         call' = IF AtRoot THEN [call EXCEPT !.pc = call.after] ELSE Upwards(blk'[Parent]),
         UNCHANGED <<free, inode, used, named, kills, want, hurt>>
  PROVE  Inv' /\ Quiet
<1>1. TypeOK /\ Running /\ Reads /\ Copies /\ Fresh
  BY DEF Inv
<1>2. /\ free' = free /\ inode' = inode /\ used' = used /\ kills' = kills
      /\ hurt' = hurt /\ named' = named /\ want' = want
  OBVIOUS
<1>3. At("rm") \/ Given
  BY DEF Given
<1>4. /\ Busy /\ call.todo # <<>> /\ call \in Call
      /\ N \in Blocks /\ V \in Nat /\ call.file \in Files /\ call.file \in Live
      /\ Level(N) \in -1..2 /\ Pointer(N) \in Pointers /\ call.j \in 0..(Level(N) + 1)
      /\ Ptrs[call.file] = CopyPtr /\ CopyPtr = call.ino.ptr
      /\ CleanWay(call.file, N)[call.j - 1] = 0
  <2>1. CopyPtr = call.ino.ptr
    <3>1. ~ Given \/ ~ AtRoot
      BY <1>1 DEF Running, CallStep, At, Given
    <3> QED
      BY <3>1, Views
  <2> QED
    BY <2>1, <1>3, LoopPath
<1>5. ~ AtRoot => /\ call.j \in 0..Level(N) /\ Parent \in Data
                  /\ CleanWay(call.file, N)[call.j] = Parent
  BY <1>3, LoopPath
<1> DEFINE up == ~ AtRoot /\ blk'[Parent] = Zero
           P  == CleanWay(call.file, N)
<1>6. /\ call'.pc = IF up THEN "rm" ELSE call.after
      /\ call'.j = IF up THEN call.j + 1 ELSE call.j
      /\ call'.b = 0 \/ (AtRoot /\ call'.b = call.b)
      /\ call'.file = call.file /\ call'.del = call.del /\ call'.todo = call.todo
      /\ call'.ino = call.ino /\ call'.saved = call.saved /\ call'.after = call.after
      /\ call' \in Call
  <2>1. call.j \in 0..3 /\ (up => call.j + 1 \in 0..3)
    BY <1>4, <1>5 DEF Call
  <2>2. CASE AtRoot
    <3>1. call' = [call EXCEPT !.pc = call.after]
      BY <2>2
    <3> QED
      BY <2>2, <3>1, <1>4 DEF Call, Pcs
  <2>3. CASE up
    <3>1. call' = [call EXCEPT !.pc = "rm", !.j = @ + 1, !.b = 0]
      BY <2>3 DEF Upwards
    <3> QED
      BY <2>1, <2>3, <3>1, <1>4 DEF Call, Pcs
  <2>4. CASE ~ AtRoot /\ ~ up
    <3>1. call' = [call EXCEPT !.pc = call.after, !.b = 0]
      BY <2>4 DEF Upwards
    <3> QED
      BY <2>4, <3>1, <1>4 DEF Call, Pcs
  <2> QED
    BY <2>2, <2>3, <2>4
<1>7. call'.b = 0
  <2>1. AtRoot => At("rm")
    BY <1>1 DEF Running, CallStep
  <2> QED
    BY <2>1, <1>1, <1>6 DEF Running, CallStep
<1>8. call.after \in {"inode", "full"} /\ (call.after = "inode" <=> V = 0)
  BY <1>1, <1>3, <1>4 DEF Running, CallStep, Call
<1>9. /\ Busy' /\ ~ Given' /\ N' = N /\ V' = V
      /\ ~ At("link")' /\ ~ At("give")' /\ ~ At("clear")' /\ ~ At("bit")' /\ ~ At("block")'
      /\ At("rm")' <=> up
      /\ At("inode")' => ~ up /\ V = 0
      /\ At("full")' => ~ up /\ V # 0
  BY <1>6, <1>8 DEF At, Busy, Given, Pcs, N, V
<1>10. Clean' = Clean /\ CopyPtr' = CopyPtr
  BY <1>4, <1>6, <1>9, Views
<1>11. Ptrs' = Ptrs /\ Live' = Live
  BY <1>2, <1>4, <1>6, <1>9, <1>10 DEF Ptrs, Live
<1>12. CleanWay(call.file, N)' = P
  BY <1>6, <1>9, <1>10, <1>11 DEF CleanWay
<1>13. CallWay' = P
  BY <1>4, <1>6, <1>9, CallPath DEF CleanWay
<1>14. P[-1] = 0
  <2>1. call.j - 1 \in -1..Level(N) /\ -1 \in -1..(call.j - 1)
    BY <1>4
  <2> QED
    BY <1>4, <2>1, NothingBelow DEF CleanWay
<1>15. up => /\ call.j + 1 \in 0..(Level(N) + 1)
             /\ call.j + 1 <= Level(N) => Parent' # 0 /\ P[call'.j] = Parent' /\ P[call'.j] \in Data
             /\ Victim' = Parent
  <2> SUFFICES ASSUME up
               PROVE  /\ call.j + 1 \in 0..(Level(N) + 1)
                      /\ call.j + 1 <= Level(N) => Parent' # 0 /\ P[call'.j] = Parent' /\ P[call'.j] \in Data
                      /\ Victim' = Parent
    OBVIOUS
  <2>1. PICK i \in 0..(Level(N) + 1) : i = call.j + 1 /\ i = call'.j /\ i - 1 = call.j
    BY <1>4, <1>5, <1>6
  <2>2. P[call.j] # 0 /\ Parent \in Data /\ P[call.j] = Parent
    BY <1>5, CrashConstants
  <2>3. i <= Level(N) => P[i] # 0
    <3>1. i <= Level(N) => i \in -1..Level(N) /\ call.j \in -1..i
      BY <2>1, <1>4
    <3> QED
      BY <2>2, <3>1, <1>4, NothingBelow DEF CleanWay
  <2>4. i <= Level(N) => P[i] \in Data
    <3>1. PICK r : Mapped(r, Clean, Ptrs, free, Live)
      BY DEF Inv, Sound
    <3>2. i <= Level(N) => i \in -1..Level(N)
      BY <1>4
    <3> QED
      BY <2>3, <3>1, <3>2, <1>4, PathOnMap DEF OnMap, CleanWay
  <2>5. Parent' = P[i]
    BY <2>1, <1>13 DEF Parent
  <2>6. P[i - 1] = IF i > Level(N) THEN Ptrs[call.file][Pointer(N)] ELSE Clean[P[i]][Index(N, i)]
    BY <1>4, <2>4, Under DEF CleanWay
  <2>7. Victim' = P[i - 1]
    BY <2>1, <2>5, <2>6, <1>4, <1>6, <1>9 DEF Victim, AtRoot, Root, Address
  <2> QED
    BY <2>1, <2>2, <2>3, <2>4, <2>5, <2>7
<1>16. TypeOK'
  BY <1>1, <1>2, <1>6, CleanBlocks DEF TypeOK
<1>17. Running'
  <2>1. CallFile'
    BY <1>1, <1>2, <1>4, <1>6, <1>9 DEF Running, CallFile
  <2>2. At("rm")' /\ Victim' # 0 => blk'[Victim'] = Zero /\ call'.j # 0
    BY <1>4, <1>6, <1>9, <1>15
  <2>3. CallStep'
    BY <1>6, <1>7, <1>8, <1>9, <1>12, <1>15, <2>2 DEF CallStep
  <2> QED
    BY <2>1, <2>3 DEF Running
<1>18. Ended'
  BY <1>9, <1>12, <1>14 DEF Ended
<1>19. Copies' /\ Fresh'
  <2>1. ~ At("inode") /\ ~ At("full")
    BY <1>3 DEF At, Given
  <2> QED
    BY <2>1, <1>1, <1>2, <1>4, <1>6, <1>9 DEF Copies, Fresh
<1>20. Reads'
  <2>1. PICK r : Mapped(r, Clean, Ptrs, free, Live)
    BY DEF Inv, Sound
  <2>2. ASSUME NEW f \in named \ hurt, NEW n \in Blocks, CleanWay(f, n)[-1] # 0
        PROVE  blk'[CleanWay(f, n)[-1]] = blk[CleanWay(f, n)[-1]]
    <3>1. f \in Live /\ -1 \in -1..Level(n)
      BY Levels DEF Live
    <3>2. CleanWay(f, n)[-1] \in Data /\ r[CleanWay(f, n)[-1]].lev = -1
      BY <2>1, <2>2, <3>1, PathOnMap DEF OnMap, CleanWay
    <3>3. ~ AtRoot => CleanWay(f, n)[-1] # Parent
      <4>1. ~ AtRoot => call.j \in -1..Level(N) /\ P[call.j] = Parent /\ Parent # 0
        BY <1>4, <1>5, CrashConstants
      <4>2. ~ AtRoot => r[Parent].lev = call.j
        BY <4>1, <2>1, <1>4, PathOnMap DEF OnMap, CleanWay
      <4>3. call.j # -1
        BY <1>4
      <4> QED
        BY <4>2, <4>3, <3>2
    <3> QED
      BY <3>2, <3>3, <1>1, CleanBlocks
  <2> QED
    BY <2>2, <1>1, <1>2, <1>10, <1>11, SameReads
<1>21. PICK r : Sound(r)
  BY DEF Inv
<1>22. Sound(r)'
  BY <1>2, <1>9, <1>10, <1>11, <1>21 DEF Sound
<1>40. Quiet
  BY <1>10, <1>11, SameView
<1> QED
  BY <1>16, <1>17, <1>18, <1>19, <1>20, <1>22, <1>40 DEF Inv

\* A turn of the loop of rm_nth_datablock that has no block to give back.
LEMMA RemoveNothingInv ==
  ASSUME Inv, RemoveNothing
  PROVE  Inv' /\ Quiet
<1>1. At("rm") /\ Victim = 0 /\ UNCHANGED <<free, blk, inode, used, named, kills, want, hurt>>
      /\ call' = IF AtRoot THEN [call EXCEPT !.pc = call.after] ELSE Upwards(blk[Parent])
  BY DEF RemoveNothing
<1>2. ~ Given
  BY <1>1 DEF At, Given
<1>3. blk' = Clean /\ blk' = blk
  BY <1>1, <1>2, Views
<1> QED
  BY <1>1, <1>3, LoopInv

\* The address block is written without the address of the block just freed.
LEMMA ClearAddressInv ==
  ASSUME Inv, ClearAddress
  PROVE  Inv' /\ Quiet
<1>1. /\ At("clear") /\ Given /\ UNCHANGED <<free, inode, used, named, kills, want, hurt>>
      /\ blk' = [blk EXCEPT ![Parent][Address] = 0]
      /\ call' = Upwards([blk[Parent] EXCEPT ![Address] = 0])
  BY DEF ClearAddress, Given
<1>2. ~ AtRoot /\ TypeOK
  BY <1>1 DEF Inv, Running, CallStep
<1>3. Parent \in Data
  BY <1>1, <1>2, LoopPath
<1>4. blk' = Clean
  BY <1>1, <1>2 DEF Clean
<1>5. blk'[Parent] = [blk[Parent] EXCEPT ![Address] = 0]
  BY <1>1, <1>2, <1>3 DEF TypeOK
<1> QED
  BY <1>1, <1>2, <1>4, <1>5, LoopInv

\* Only the place the call is at points to the block it gives back, and that
\* block points to nothing.
LEMMA VictimPlace ==
  ASSUME Inv, At("rm"), Victim # 0, NEW r, Sound(r)
  PROVE  /\ Victim \in DOMAIN r /\ Victim \in Data /\ Victim \notin free
         /\ CleanWay(call.file, N)[call.j - 1] = Victim
         /\ r[Victim].lev = call.j - 1
         /\ r[Victim].lev >= 0 => blk[Victim] = Zero
         /\ \A g \in Live, t \in Pointers :
              Ptrs[g][t] = Victim <=> AtRoot /\ g = call.file /\ t = Pointer(N)
         /\ \A a \in DOMAIN r, s \in Slots : r[a].lev >= 0 =>
              (blk[a][s] = Victim <=> ~ AtRoot /\ a = Parent /\ s = Address)
         /\ ~ AtRoot => Parent \in DOMAIN r /\ r[Parent].lev = call.j /\ Parent # Victim
<1>1. /\ TypeOK /\ Running /\ Busy /\ call.todo # <<>> /\ call \in Call
      /\ N \in Blocks /\ V \in Nat /\ call.file \in Files /\ call.file \in Live
      /\ Level(N) \in -1..2 /\ Pointer(N) \in Pointers /\ call.j \in 0..(Level(N) + 1)
      /\ Ptrs[call.file] = CopyPtr
      /\ ~ AtRoot => /\ call.j \in 0..Level(N) /\ Address \in Slots
                     /\ Parent \in Data /\ CleanWay(call.file, N)[call.j] = Parent
                     /\ CleanWay(call.file, N)[call.j - 1] = Clean[Parent][Address]
      /\ AtRoot => /\ call.j - 1 = Level(N)
                   /\ CleanWay(call.file, N)[call.j - 1] = CopyPtr[Pointer(N)]
  BY LoopPath
<1>2. Clean = blk /\ CopyPtr = call.ino.ptr
  BY Views DEF At, Given
<1>3. CleanWay(call.file, N)[call.j - 1] = Victim
  BY <1>1, <1>2 DEF Victim, Root
<1>4. Mapped(r, blk, Ptrs, free, Live)
  BY <1>2 DEF Sound
<1>5. call.j - 1 \in -1..Level(N)
  BY <1>1
<1>6. OnMap(r, blk, Ptrs, call.file, N, call.j - 1)
  BY <1>1, <1>4, <1>5, PathOnMap
<1>7. /\ Victim \in DOMAIN r /\ Victim \in Data /\ r[Victim].lev = call.j - 1
      /\ AtRoot => r[Victim].src = <<"inode", call.file, Pointer(N)>>
      /\ ~ AtRoot => r[Victim].src = <<"block", Parent, Address>>
  <2>1. AtRoot <=> call.j - 1 = Level(N)
    BY <1>1 DEF AtRoot
  <2>2. (call.j - 1) + 1 = call.j
    BY <1>1
  <2>3. CleanWay(call.file, N) = Path(blk, Ptrs[call.file], N)
    BY <1>2 DEF CleanWay
  <2> QED
    BY <2>1, <2>2, <2>3, <1>1, <1>3, <1>6 DEF OnMap, Address
<1>8. r[Victim].lev >= 0 => blk[Victim] = Zero
  <2>1. call.j = 0 => ~ call.j - 1 >= 0
    OBVIOUS
  <2> QED
    BY <1>1, <1>7, <2>1 DEF Running, CallStep
<1>9. \A g \in Live, t \in Pointers : Ptrs[g][t] = Victim => r[Victim].src = <<"inode", g, t>>
  BY <1>4, Sources
<1>10. \A a \in DOMAIN r, s \in Slots : r[a].lev >= 0 /\ blk[a][s] = Victim =>
          r[Victim].src = <<"block", a, s>>
  BY <1>4, Sources
<1>11. AtRoot => Ptrs[call.file][Pointer(N)] = Victim
  BY <1>1, <1>3
<1>12. ~ AtRoot => blk[Parent][Address] = Victim
  BY <1>1, <1>2, <1>3
<1>13. ~ AtRoot => Parent \in DOMAIN r /\ r[Parent].lev = call.j /\ Parent # Victim
  <2> SUFFICES ASSUME ~ AtRoot PROVE Parent \in DOMAIN r /\ r[Parent].lev = call.j /\ Parent # Victim
    OBVIOUS
  <2>1. call.j \in -1..Level(N) /\ Parent # 0
    BY <1>1, CrashConstants
  <2>2. OnMap(r, blk, Ptrs, call.file, N, call.j)
    BY <1>1, <1>4, <2>1, PathOnMap
  <2>3. Parent \in DOMAIN r /\ r[Parent].lev = call.j
    BY <2>1, <2>2, <1>1, <1>2 DEF OnMap, CleanWay
  <2>4. call.j # call.j - 1
    BY <1>1
  <2> QED
    BY <2>3, <2>4, <1>7
<1>14. \A g \in Live, t \in Pointers :
         Ptrs[g][t] = Victim <=> AtRoot /\ g = call.file /\ t = Pointer(N)
  BY <1>7, <1>9, <1>11
<1>15. \A a \in DOMAIN r, s \in Slots : r[a].lev >= 0 =>
         (blk[a][s] = Victim <=> ~ AtRoot /\ a = Parent /\ s = Address)
  BY <1>7, <1>10, <1>12
<1>16. Victim \notin free
  BY <1>4, <1>7 DEF Mapped
<1> QED
  BY <1>3, <1>7, <1>8, <1>13, <1>14, <1>15, <1>16

\* data_free takes a block: the map and what is read are as before without it.
LEMMA GiveInv ==
  ASSUME Inv, At("rm"), Victim # 0,
         blk' \in [Data -> [Slots -> Nat \cup Data]], \A x \in Data : x # Victim => blk'[x] = blk[x],
         UNCHANGED <<inode, used, named, kills, want, hurt>>,
         \/ free' = free /\ call' = [call EXCEPT !.pc = "give", !.b = Victim]
         \/ free' = free \cup {Victim} /\ call' = AfterGive(Victim)
  PROVE  Inv' /\ Cutting(Victim)
<1>1. TypeOK /\ Running /\ Reads /\ Copies /\ Fresh
  BY DEF Inv
<1>2. /\ inode' = inode /\ used' = used /\ kills' = kills
      /\ hurt' = hurt /\ named' = named /\ want' = want
  OBVIOUS
<1>3. /\ Busy /\ call.todo # <<>> /\ call \in Call
      /\ N \in Blocks /\ V \in Nat /\ call.file \in Files /\ call.file \in Live
      /\ Level(N) \in -1..2 /\ Pointer(N) \in Pointers /\ call.j \in 0..(Level(N) + 1)
      /\ Ptrs[call.file] = CopyPtr
      /\ ~ AtRoot => /\ call.j \in 0..Level(N) /\ Address \in Slots
                     /\ Parent \in Data /\ CleanWay(call.file, N)[call.j] = Parent
      /\ AtRoot => call.j - 1 = Level(N)
  BY LoopPath
<1>4. /\ Clean = blk /\ CopyPtr = call.ino.ptr /\ CallWay = CleanWay(call.file, N)
      /\ CallWay = Path(blk, call.ino.ptr, N) /\ ~ At("inode") /\ ~ At("full")
  <2>1. ~ Given /\ ~ At("inode") /\ ~ At("full")
    BY DEF At, Given
  <2>2. Clean = blk /\ CopyPtr = call.ino.ptr
    BY <2>1, Views
  <2> QED
    BY <2>1, <2>2, <1>3, CallPath DEF CleanWay
<1>5. PICK r : Sound(r)
  BY DEF Inv
<1>6. PICK x : x = Victim
  OBVIOUS
<1>7. /\ x \in DOMAIN r /\ x \in Data /\ x \notin free
      /\ CleanWay(call.file, N)[call.j - 1] = x
      /\ r[x].lev = call.j - 1
      /\ r[x].lev >= 0 => blk[x] = Zero
      /\ \A g \in Live, t \in Pointers :
           Ptrs[g][t] = x <=> AtRoot /\ g = call.file /\ t = Pointer(N)
      /\ \A a \in DOMAIN r, s \in Slots : r[a].lev >= 0 =>
           (blk[a][s] = x <=> ~ AtRoot /\ a = Parent /\ s = Address)
      /\ ~ AtRoot => Parent \in DOMAIN r /\ r[Parent].lev = call.j /\ Parent # x
  BY <1>5, <1>6, VictimPlace
<1>8. Mapped(r, blk, Ptrs, free, Live)
  BY <1>4, <1>5 DEF Sound
<1> DEFINE over == AtRoot /\ call'.pc # "give"
<1>9. /\ call'.file = call.file /\ call'.del = call.del /\ call'.todo = call.todo
      /\ call'.saved = call.saved /\ call'.j = call.j /\ call'.b = x /\ call'.after = call.after
      /\ call'.ino = IF over THEN [call.ino EXCEPT !.ptr[Pointer(N)] = 0] ELSE call.ino
      /\ call'.pc = "give" \/ call'.pc = IF AtRoot THEN call.after ELSE "clear"
      /\ call' \in Call
      /\ call'.pc = "give" => free' = free
      /\ call'.pc # "give" => free' = free \cup {x}
  <2>1. call.after \in {"inode", "full"} /\ call.after # "give" /\ x \in Data \cup {0}
    BY <1>3, <1>7 DEF Call
  <2>2. CASE free' = free /\ call' = [call EXCEPT !.pc = "give", !.b = Victim]
    BY <2>1, <2>2, <1>3, <1>6 DEF Call, Pcs
  <2>3. CASE free' = free \cup {Victim} /\ call' = AfterGive(Victim) /\ AtRoot
    <3>1. call' = [call EXCEPT !.b = x, !.pc = call.after, !.ino.ptr[Pointer(N)] = 0]
      BY <2>3, <1>6 DEF AfterGive
    <3>2. [call.ino EXCEPT !.ptr[Pointer(N)] = 0] \in Inode
      BY <1>3 DEF Call, Inode
    <3> QED
      BY <2>1, <2>3, <3>1, <3>2, <1>3, <1>6 DEF Call, Pcs
  <2>4. CASE free' = free \cup {Victim} /\ call' = AfterGive(Victim) /\ ~ AtRoot
    <3>1. call' = [call EXCEPT !.b = x, !.pc = "clear"]
      BY <2>4, <1>6 DEF AfterGive
    <3> QED
      BY <2>1, <2>4, <3>1, <1>3, <1>6 DEF Call, Pcs
  <2> QED
    BY <2>2, <2>3, <2>4
<1>10. /\ N' = N /\ V' = V /\ Address' = Address /\ (AtRoot' <=> AtRoot)
       /\ Busy' /\ Live' = Live
  <2>1. call.after \in {"inode", "full"}
    BY <1>3 DEF Call
  <2>2. N' = N /\ V' = V
    BY <1>9 DEF N, V
  <2>3. Busy'
    BY <1>9, <2>1 DEF Busy, Pcs
  <2> QED
    BY <2>2, <2>3, <1>2, <1>3, <1>9 DEF Address, AtRoot, Live
<1>11. /\ ~ At("rm")' /\ ~ At("link")' /\ ~ At("bit")' /\ ~ At("block")'
       /\ Given' <=> ~ over
       /\ At("inode")' => over /\ call.after = "inode"
       /\ At("full")' => over /\ call.after = "full"
       /\ over => At("inode")' \/ At("full")'
       /\ At("give")' => x \notin free'
       /\ At("clear")' => x \in free' /\ ~ AtRoot
  <2>1. call.after \in {"inode", "full"}
    BY <1>3 DEF Call
  <2> QED
    BY <2>1, <1>7, <1>9 DEF At, Given
<1>12. /\ CopyPtr' = IF AtRoot THEN [call.ino.ptr EXCEPT ![Pointer(N)] = 0] ELSE call.ino.ptr
       /\ Ptrs' = [Ptrs EXCEPT ![call.file] = CopyPtr']
  <2>1. CopyPtr' = IF AtRoot THEN [call.ino.ptr EXCEPT ![Pointer(N)] = 0] ELSE call.ino.ptr
    <3>1. call.ino.ptr \in [Pointers -> Data \cup {0}] /\ call.ino \in Inode
      BY <1>3 DEF Call, Inode
    <3>2. CASE over
      <4>1. call'.ino.ptr = [call.ino.ptr EXCEPT ![Pointer(N)] = 0]
        BY <3>1, <3>2, <1>9 DEF Inode
      <4> QED
        BY <4>1, <3>2, <1>11, Views
    <3>3. CASE ~ over
      BY <3>1, <3>3, <1>9, <1>10, <1>11 DEF CopyPtr
    <3> QED
      BY <3>2, <3>3
  <2>2. Ptrs' = [f \in Files |-> IF f = call.file THEN CopyPtr' ELSE inode[f].ptr]
    BY <1>2, <1>9, <1>10 DEF Ptrs
  <2>3. Ptrs = [f \in Files |-> IF f = call.file THEN CopyPtr ELSE inode[f].ptr]
    BY <1>3 DEF Ptrs
  <2> QED
    BY <2>1, <2>2, <2>3
<1>13. \A g \in Live, t \in Pointers : Ptrs'[g][t] = IF Ptrs[g][t] = x THEN 0 ELSE Ptrs[g][t]
  <2>1. Live \subseteq Files
    BY <1>1, <1>3 DEF Live, TypeOK
  <2>2. call.ino.ptr \in [Pointers -> Data \cup {0}] /\ Ptrs[call.file] = call.ino.ptr
    BY <1>3, <1>4 DEF Call, Inode
  <2>3. Ptrs'[call.file] = IF AtRoot THEN [call.ino.ptr EXCEPT ![Pointer(N)] = 0] ELSE call.ino.ptr
    BY <1>3, <1>12 DEF Ptrs
  <2>4. \A g \in Live : g # call.file => Ptrs'[g] = Ptrs[g]
    BY <2>1, <1>12 DEF Ptrs
  <2> QED
    BY <2>2, <2>3, <2>4, <1>7
<1>14. ~ AtRoot => /\ Parent' = Parent /\ Victim' = x
                   /\ Clean' = [blk' EXCEPT ![Parent][Address] = 0]
  <2> SUFFICES ASSUME ~ AtRoot
               PROVE  /\ Parent' = Parent /\ Victim' = x
                      /\ Clean' = [blk' EXCEPT ![Parent][Address] = 0]
    OBVIOUS
  <2>1. PICK l \in -1..3 : l = call.j /\ l \in l..Level(N)
    BY <1>3
  <2>2. ASSUME NEW k \in (l + 1)..Level(N), Path(blk, call.ino.ptr, N)[k] \in Data
        PROVE  blk'[Path(blk, call.ino.ptr, N)[k]][Index(N, k)] = blk[Path(blk, call.ino.ptr, N)[k]][Index(N, k)]
    <3>1. k \in -1..Level(N) /\ k # call.j - 1
      BY <1>3, <2>1
    <3>2. OnMap(r, blk, Ptrs, call.file, N, k)
      BY <1>3, <1>8, <3>1, PathOnMap
    <3>3. Path(blk, call.ino.ptr, N)[k] # 0
      BY <2>2, CrashConstants
    <3>4. Path(blk, call.ino.ptr, N)[k] # x
      BY <3>1, <3>2, <3>3, <1>3, <1>4, <1>7 DEF OnMap
    <3> QED
      BY <2>2, <3>4, <1>6
  <2>3. Path(blk', call.ino.ptr, N)[l] = Path(blk, call.ino.ptr, N)[l]
    BY <2>1, <2>2, <1>3, PathSame
  <2>4. CallWay' = Path(blk', call.ino.ptr, N)
    BY <1>9, <1>10, CallPath
  <2>5. Parent' = Parent
    BY <2>1, <2>3, <2>4, <1>4, <1>9 DEF Parent
  <2>6. blk'[Parent] = blk[Parent]
    BY <1>3, <1>6, <1>7
  <2>7. Victim' = x
    BY <2>5, <2>6, <1>3, <1>7, <1>10 DEF Victim
  <2> QED
    BY <2>5, <2>7, <1>10, <1>11 DEF Clean
<1>15. AtRoot => Clean' = blk'
  BY <1>10 DEF Clean
<1>16. \A a \in DOMAIN r, s \in Slots : r[a].lev >= 0 /\ a # x =>
         Clean'[a][s] = IF blk[a][s] = x THEN 0 ELSE blk[a][s]
  <2>1. DOMAIN r \subseteq Data
    BY <1>8 DEF Mapped
  <2>2. CASE AtRoot
    BY <2>1, <2>2, <1>6, <1>7, <1>15
  <2>3. CASE ~ AtRoot
    <3>1. Clean' = [blk' EXCEPT ![Parent] = [blk'[Parent] EXCEPT ![Address] = 0]]
      BY <2>3, <1>14
    <3>2. \A a \in DOMAIN r, s \in Slots : a # x => blk'[a][s] = blk[a][s]
      BY <2>1, <1>6
    <3>3. \A a \in DOMAIN r, s \in Slots : Clean'[a][s] = IF a = Parent /\ s = Address THEN 0 ELSE blk'[a][s]
      BY <2>1, <3>1
    <3> QED
      BY <2>3, <3>2, <3>3, <1>7
  <2> QED
    BY <2>2, <2>3
<1>30. CutAway(r, blk, Ptrs, Live, x, Clean', Ptrs')
  <2>1. r[x].lev >= 0 => \A s \in Slots : blk[x][s] = 0
    BY <1>7 DEF Zero, Fill
  <2> QED
    BY <2>1, <1>7, <1>13, <1>16 DEF CutAway
<1> DEFINE r2 == Only(r, DOMAIN r \ {x})
<1>17. /\ Mapped(r2, Clean', Ptrs', free', Live)
       /\ \A f \in Live, n \in Blocks : \A j \in -1..Level(n) :
            Path(Clean', Ptrs'[f], n)[j] = IF Path(blk, Ptrs[f], n)[j] = x THEN 0 ELSE Path(blk, Ptrs[f], n)[j]
  <2>1. free' \subseteq free \cup {x}
    BY <1>9
  <2> HIDE DEF r2
  <2> QED
    BY <2>1, <1>8, <1>30, Cut DEF r2
<1>18. \A j \in -1..Level(N) : CleanWay(call.file, N)'[j]
            = IF CleanWay(call.file, N)[j] = x THEN 0 ELSE CleanWay(call.file, N)[j]
  BY <1>3, <1>4, <1>9, <1>10, <1>17 DEF CleanWay
<1>19. TypeOK'
  <2>1. free' \subseteq Data
    BY <1>1, <1>7, <1>9 DEF TypeOK
  <2> QED
    BY <2>1, <1>1, <1>2, <1>9 DEF TypeOK
<1>20. Running'
  <2>1. CallFile'
    BY <1>1, <1>2, <1>3, <1>9, <1>10, <1>11 DEF Running, CallFile
  <2>2. Given' => Victim' = x
    BY <1>7, <1>9, <1>10, <1>11, <1>14, <1>3, <1>4 DEF Victim, Root
  <2>3. call.j <= Level(N) => Parent' # 0 /\ CleanWay(call.file, N)'[call.j] = Parent'
    <3> SUFFICES ASSUME call.j <= Level(N)
                 PROVE  Parent' # 0 /\ CleanWay(call.file, N)'[call.j] = Parent'
      OBVIOUS
    <3>1. ~ AtRoot /\ call.j \in -1..Level(N)
      BY <1>3 DEF AtRoot
    <3> QED
      BY <3>1, <1>3, <1>7, <1>14, <1>18, CrashConstants
  <2>4. call.after = "inode" <=> V = 0
    BY <1>1 DEF Running, CallStep
  <2>5. x # 0
    BY <1>7, CrashConstants
  <2>6. CallStep'
    BY <2>2, <2>3, <2>4, <2>5, <1>3, <1>9, <1>10, <1>11 DEF CallStep
  <2> QED
    BY <2>1, <2>6 DEF Running
<1>21. Ended'
  <2>1. over => CleanWay(call.file, N)'[-1] = 0
    <3> SUFFICES ASSUME over PROVE CleanWay(call.file, N)'[-1] = 0
      OBVIOUS
    <3>1. Level(N) \in -1..Level(N) /\ -1 \in -1..Level(N) /\ CleanWay(call.file, N)[Level(N)] = x
      BY <1>3, <1>7
    <3>2. CleanWay(call.file, N)'[Level(N)] = 0
      BY <3>1, <1>18
    <3>3. CleanWay(call.file, N)' = Path(Clean', Ptrs'[call.file], N)
      BY <1>9, <1>10 DEF CleanWay
    <3>4. PICK c, q : c = Clean' /\ q = Ptrs'[call.file]
      OBVIOUS
    <3>5. Path(c, q, N)[Level(N)] = 0 /\ N \in Blocks
      BY <3>2, <3>3, <3>4, <1>3
    <3>6. Path(c, q, N)[-1] = 0
      BY ONLY <3>1, <3>5, NothingBelow
    <3> QED
      BY <3>3, <3>4, <3>6
  <2>2. call.after = "inode" <=> V = 0
    BY <1>1 DEF Running, CallStep
  <2> QED
    BY <2>1, <2>2, <1>10, <1>11 DEF Ended
<1>22. Copies'
  <2>1. SUFFICES ASSUME NEW p \in Pointers
                 PROVE  \/ inode[call.file].ptr[p] = call'.ino.ptr[p]
                        \/ /\ p = Pointer(N)
                           /\ \/ inode[call.file].ptr[p] = 0 /\ ~ call.del
                              \/ /\ At("inode")' \/ At("full")'
                                 /\ call'.ino.ptr[p] = 0 /\ inode[call.file].ptr[p] = x
    BY <1>2, <1>3, <1>9, <1>10 DEF Copies
  <2>2. \/ inode[call.file].ptr[p] = call.ino.ptr[p]
        \/ p = Pointer(N) /\ inode[call.file].ptr[p] = 0 /\ ~ call.del
    BY <1>1, <1>3, <1>4 DEF Copies
  <2>3. CASE ~ over
    BY <2>2, <2>3, <1>9
  <2>4. CASE over
    <3>1. call'.ino.ptr = [call.ino.ptr EXCEPT ![Pointer(N)] = 0] /\ call.ino.ptr \in [Pointers -> Data \cup {0}]
      BY <2>4, <1>3, <1>9 DEF Call, Inode
    <3>2. call.ino.ptr[Pointer(N)] = x
      BY <2>4, <1>3, <1>4, <1>7
    <3> QED
      BY <2>2, <2>4, <3>1, <3>2, <1>11
  <2> QED
    BY <2>3, <2>4
<1>23. Fresh'
  <2>1. call'.ino.ptr[Pointer(N)] # 0 => call'.ino = call.ino
    <3>1. call.ino \in Inode
      BY <1>3 DEF Call
    <3> QED
      BY <3>1, <1>3, <1>9 DEF Inode
  <2> QED
    BY <2>1, <1>1, <1>2, <1>3, <1>9, <1>10 DEF Fresh
<1>24. ASSUME NEW f \in named' \ hurt', NEW n \in Blocks
       PROVE  ReadsAs(CleanWay(f, n)[-1], want[f][n])'
  <2>1. f \in named \ hurt /\ f \in Live /\ -1 \in -1..Level(n) /\ -1 \in -1..Level(N)
    BY <1>2, <1>3, Levels DEF Live
  <2>2. ReadsAs(Path(blk, Ptrs[f], n)[-1], want[f][n])
    BY <2>1, <1>1, <1>4 DEF Reads, CleanWay
  <2>3. CleanWay(f, n)'[-1] = IF Path(blk, Ptrs[f], n)[-1] = x THEN 0 ELSE Path(blk, Ptrs[f], n)[-1]
    BY <2>1, <1>17 DEF CleanWay
  <2>4. CASE Path(blk, Ptrs[f], n)[-1] = x
    <3>1. OnMap(r, blk, Ptrs, f, n, -1) /\ x # 0
      BY <2>1, <1>7, <1>8, PathOnMap, CrashConstants
    <3>2. r[x].lev = -1
      BY <2>4, <3>1 DEF OnMap
    <3>3. call.j = 0
      BY <3>2, <1>3, <1>7
    <3>4. Path(blk, Ptrs[call.file], N)[-1] = x
      BY <3>3, <1>4, <1>7 DEF CleanWay
    <3>5. f = call.file /\ n = N
      BY <2>1, <2>4, <3>1, <3>4, <1>3, <1>8, OneBlock
    <3>6. V = 0 /\ ~ call.del
      BY <2>1, <3>3, <3>5, <1>1, <1>3 DEF Running, CallFile, CallStep
    <3>7. 0 \in want[f][n]
      BY <3>5, <3>6, <1>1, <1>3 DEF Fresh
    <3> QED
      BY <2>3, <2>4, <3>7, <1>2 DEF ReadsAs
  <2>5. CASE Path(blk, Ptrs[f], n)[-1] # x
    <3>1. Path(blk, Ptrs[f], n)[-1] # 0 => Path(blk, Ptrs[f], n)[-1] \in Data
      BY <2>1, <1>8, PathOnMap DEF OnMap
    <3>2. Path(blk, Ptrs[f], n)[-1] # 0 => blk'[Path(blk, Ptrs[f], n)[-1]] = blk[Path(blk, Ptrs[f], n)[-1]]
      BY <2>5, <3>1, <1>6
    <3> QED
      BY <2>2, <2>3, <2>5, <3>2, <1>2 DEF ReadsAs
  <2> QED
    BY <2>4, <2>5
<1>25. Sound(r2)'
  <2>1. x \notin DOMAIN r2
    BY DEF Only
  <2> HIDE DEF r2
  <2>2. Mapped(r2, Clean', Ptrs', free', Live')
    BY <1>10, <1>17
  <2> QED
    BY <2>1, <2>2, <1>9 DEF Sound
<1>40. Cutting(Victim)
  BY <1>4, <1>6, <1>8, <1>10, <1>30 DEF Cutting
<1> QED
  BY <1>19, <1>20, <1>21, <1>22, <1>23, <1>24, <1>25, <1>40 DEF Inv, Reads

\* data_free of a block whose number goes into a node of the free list.
LEMMA GiveToNodeInv ==
  ASSUME Inv, GiveToNode
  PROVE  Inv' /\ Cutting(Victim)
<1>1. /\ At("rm") /\ Victim # 0 /\ free' = free \cup {Victim} /\ call' = AfterGive(Victim)
      /\ blk' = blk /\ UNCHANGED <<inode, used, named, kills, want, hurt>>
  BY DEF GiveToNode
<1>2. blk \in [Data -> [Slots -> Nat \cup Data]]
  BY DEF Inv, TypeOK
<1> QED
  BY <1>1, <1>2, GiveInv

\* data_free of a block that becomes a node of the free list, and is overwritten.
LEMMA GiveAsNodeInv ==
  ASSUME Inv, NEW next \in Data \cup {0}, GiveAsNode(next)
  PROVE  Inv' /\ Cutting(Victim)
<1>1. /\ At("rm") /\ Victim # 0 /\ free' = free /\ call' = [call EXCEPT !.pc = "give", !.b = Victim]
      /\ blk' = [blk EXCEPT ![Victim] = [Zero EXCEPT ![0] = next]]
      /\ UNCHANGED <<inode, used, named, kills, want, hurt>>
  BY DEF GiveAsNode
<1>2. blk \in [Data -> [Slots -> Nat \cup Data]]
  BY DEF Inv, TypeOK
<1>3. [Zero EXCEPT ![0] = next] \in [Slots -> Nat \cup Data]
  <2>1. Zero \in [Slots -> Nat \cup Data]
    BY DEF Zero, Fill
  <2>2. next \in Nat \cup Data
    OBVIOUS
  <2> QED
    BY <2>1, <2>2
<1>4. blk' \in [Data -> [Slots -> Nat \cup Data]] /\ \A x \in Data : x # Victim => blk'[x] = blk[x]
  BY <1>1, <1>2, <1>3
<1> QED
  BY <1>1, <1>4, GiveInv

\* The head of the list is written: the block is free, and nothing else
\* changes.
LEMMA GiveHeadInv ==
  ASSUME Inv, GiveHead
  PROVE  Inv' /\ Quiet
<1>1. TypeOK /\ Running /\ Reads /\ Copies /\ Fresh
  BY DEF Inv
<1>2. /\ At("give") /\ Given /\ free' = free \cup {call.b} /\ call' = AfterGive(call.b)
      /\ blk' = blk /\ inode' = inode /\ used' = used /\ kills' = kills
      /\ hurt' = hurt /\ named' = named /\ want' = want
  BY DEF GiveHead, Given
<1>3. /\ Busy /\ call.todo # <<>> /\ call \in Call
      /\ N \in Blocks /\ V \in Nat /\ call.file \in Files /\ call.file \in Live
      /\ Level(N) \in -1..2 /\ Pointer(N) \in Pointers /\ call.j \in 0..(Level(N) + 1)
      /\ Ptrs[call.file] = CopyPtr
      /\ ~ AtRoot => /\ call.j \in 0..Level(N) /\ Parent \in Data
                     /\ CleanWay(call.file, N)[call.j] = Parent
      /\ AtRoot => /\ call.j - 1 = Level(N)
                   /\ CleanWay(call.file, N)[call.j - 1] = CopyPtr[Pointer(N)]
  BY <1>2, LoopPath
<1>4. /\ call.b \in Data \ free /\ call.b = Victim /\ ~ At("inode") /\ ~ At("full")
      /\ call.after \in {"inode", "full"} /\ (call.after = "inode" <=> V = 0)
      /\ call.ino \in Inode
  BY <1>1, <1>2, <1>3 DEF Running, CallStep, Call, At
<1>5. /\ call'.file = call.file /\ call'.del = call.del /\ call'.todo = call.todo
      /\ call'.saved = call.saved /\ call'.j = call.j /\ call'.b = call.b /\ call'.after = call.after
      /\ call'.ino = IF AtRoot THEN [call.ino EXCEPT !.ptr[Pointer(N)] = 0] ELSE call.ino
      /\ call'.pc = IF AtRoot THEN call.after ELSE "clear"
      /\ call' \in Call
  <2>1. CASE AtRoot
    <3>1. call' = [call EXCEPT !.b = call.b, !.pc = call.after, !.ino.ptr[Pointer(N)] = 0]
      BY <2>1, <1>2 DEF AfterGive
    <3>2. [call.ino EXCEPT !.ptr[Pointer(N)] = 0] \in Inode
      BY <1>3, <1>4 DEF Inode
    <3> QED
      BY <2>1, <3>1, <3>2, <1>3, <1>4 DEF Call, Pcs
  <2>2. CASE ~ AtRoot
    <3>1. call' = [call EXCEPT !.b = call.b, !.pc = "clear"]
      BY <2>2, <1>2 DEF AfterGive
    <3> QED
      BY <2>2, <3>1, <1>3, <1>4 DEF Call, Pcs
  <2> QED
    BY <2>1, <2>2
<1>6. /\ N' = N /\ V' = V /\ Address' = Address /\ (AtRoot' <=> AtRoot)
      /\ Busy' /\ Live' = Live
  <2>1. N' = N /\ V' = V
    BY <1>5 DEF N, V
  <2>2. Busy'
    BY <1>4, <1>5 DEF Busy, Pcs
  <2> QED
    BY <2>1, <2>2, <1>2, <1>3, <1>5 DEF Address, AtRoot, Live
<1>7. /\ ~ At("rm")' /\ ~ At("link")' /\ ~ At("bit")' /\ ~ At("block")' /\ ~ At("give")'
      /\ (Given' <=> ~ AtRoot) /\ (At("clear")' <=> ~ AtRoot)
      /\ At("inode")' => AtRoot /\ call.after = "inode"
      /\ At("full")' => AtRoot /\ call.after = "full"
      /\ AtRoot => At("inode")' \/ At("full")'
  BY <1>4, <1>5 DEF At, Given
<1>8. AtRoot => call'.ino.ptr = [call.ino.ptr EXCEPT ![Pointer(N)] = 0]
  BY <1>4, <1>5 DEF Inode
<1>9. CopyPtr' = CopyPtr
  <2>1. CASE AtRoot
    BY <2>1, <1>2, <1>6, <1>7, <1>8, Views DEF CopyPtr
  <2>2. CASE ~ AtRoot
    BY <2>2, <1>5, <1>6 DEF CopyPtr
  <2> QED
    BY <2>1, <2>2
<1>10. Ptrs' = Ptrs
  BY <1>2, <1>3, <1>5, <1>6, <1>9 DEF Ptrs
<1>11. ~ AtRoot => CallWay' = CallWay /\ Parent' = Parent /\ Victim' = Victim
  <2> SUFFICES ASSUME ~ AtRoot PROVE CallWay' = CallWay /\ Parent' = Parent /\ Victim' = Victim
    OBVIOUS
  <2>1. CallWay' = CallWay
    BY <1>2, <1>5, <1>6, CallPath
  <2> QED
    BY <2>1, <1>2, <1>5, <1>6 DEF Parent, Victim
<1>12. Clean' = Clean
  <2>1. CASE AtRoot
    BY <2>1, <1>2, <1>6, <1>7, Views
  <2>2. CASE ~ AtRoot
    BY <2>2, <1>2, <1>6, <1>7, <1>11 DEF Clean
  <2> QED
    BY <2>1, <2>2
<1>13. CleanWay(call.file, N)' = CleanWay(call.file, N)
  BY <1>5, <1>6, <1>10, <1>12 DEF CleanWay
<1>14. TypeOK'
  BY <1>1, <1>2, <1>4, <1>5 DEF TypeOK
<1>15. Running'
  <2>1. CallFile'
    BY <1>1, <1>2, <1>3, <1>5, <1>6, <1>7 DEF Running, CallFile
  <2>2. call.j <= Level(N) => Parent' # 0 /\ CleanWay(call.file, N)'[call.j] = Parent'
    <3>1. call.j <= Level(N) => ~ AtRoot
      BY <1>3 DEF AtRoot
    <3> QED
      BY <3>1, <1>3, <1>11, <1>13, CrashConstants
  <2>3. call.b # 0
    BY <1>4, CrashConstants
  <2>4. At("full")' => V # 0
    BY <1>4, <1>7
  <2>5. Given' => call.b = Victim'
    BY <1>4, <1>7, <1>11
  <2>6. CallStep'
    BY <2>2, <2>3, <2>4, <2>5, <1>2, <1>3, <1>4, <1>5, <1>6, <1>7 DEF CallStep
  <2> QED
    BY <2>1, <2>6 DEF Running
<1>16. Ended'
  <2>1. AtRoot => CleanWay(call.file, N)[-1] = 0
    <3> SUFFICES ASSUME AtRoot PROVE CleanWay(call.file, N)[-1] = 0
      OBVIOUS
    <3>1. CopyPtr[Pointer(N)] = 0
      <4>1. CopyPtr = [call.ino.ptr EXCEPT ![Pointer(N)] = 0]
        BY <1>2 DEF CopyPtr
      <4> QED
        BY <4>1, <1>3, <1>4 DEF Inode
    <3>2. CleanWay(call.file, N)[Level(N)] = 0 /\ Level(N) \in -1..Level(N) /\ -1 \in -1..Level(N)
      BY <3>1, <1>3
    <3> QED
      BY <3>2, <1>3, NothingBelow DEF CleanWay
  <2> QED
    BY <2>1, <1>4, <1>6, <1>7, <1>13 DEF Ended
<1>17. Copies'
  <2>1. SUFFICES ASSUME NEW p \in Pointers
                 PROVE  \/ inode[call.file].ptr[p] = call'.ino.ptr[p]
                        \/ /\ p = Pointer(N)
                           /\ \/ inode[call.file].ptr[p] = 0 /\ ~ call.del
                              \/ /\ At("inode")' \/ At("full")'
                                 /\ call'.ino.ptr[p] = 0 /\ inode[call.file].ptr[p] = call.b
    BY <1>2, <1>3, <1>5, <1>6 DEF Copies
  <2>2. \/ inode[call.file].ptr[p] = call.ino.ptr[p]
        \/ p = Pointer(N) /\ inode[call.file].ptr[p] = 0 /\ ~ call.del
    BY <1>1, <1>3, <1>4 DEF Copies
  <2>3. CASE ~ AtRoot
    BY <2>2, <2>3, <1>5
  <2>4. CASE AtRoot
    <3>1. call.ino.ptr \in [Pointers -> Data \cup {0}] /\ call.ino.ptr[Pointer(N)] = call.b
      BY <2>4, <1>4 DEF Inode, Victim, Root
    <3> QED
      BY <2>2, <2>4, <3>1, <1>7, <1>8
  <2> QED
    BY <2>3, <2>4
<1>18. Fresh'
  <2>1. call'.ino.ptr[Pointer(N)] # 0 => call'.ino = call.ino
    BY <1>3, <1>4, <1>5, <1>8 DEF Inode
  <2> QED
    BY <2>1, <1>1, <1>2, <1>3, <1>5, <1>6 DEF Fresh
<1>19. Reads'
  BY <1>1, <1>2, <1>10, <1>12, SameReads
<1>20. PICK r : Sound(r)
  BY DEF Inv
<1>21. Sound(r)'
  <2>1. call.b \notin DOMAIN r
    BY <1>2, <1>20 DEF Sound
  <2>2. Mapped(r, Clean, Ptrs, free', Live)
    BY <2>1, <1>2, <1>20 DEF Sound, Mapped
  <2> QED
    BY <2>2, <1>6, <1>7, <1>10, <1>12 DEF Sound
<1>40. Quiet
  BY <1>6, <1>10, <1>12, SameView
<1> QED
  BY <1>14, <1>15, <1>16, <1>17, <1>18, <1>19, <1>21, <1>40 DEF Inv

\* data_write: the block on the call's way, and no other, reads as written.
LEMMA StoreInv ==
  ASSUME Inv, Store
  PROVE  Inv' /\ Quiet
<1>1. TypeOK /\ Running /\ Reads /\ Copies /\ Fresh
  BY DEF Inv
<1>2. /\ At("block") /\ call.todo # <<>> /\ Missing = {} /\ V # 0
      /\ blk' = [blk EXCEPT ![CallWay[-1]] = Fill(V)] /\ call' = [call EXCEPT !.pc = "inode"]
      /\ free' = free /\ inode' = inode /\ used' = used /\ kills' = kills
      /\ hurt' = hurt /\ named' = named /\ want' = want
  BY DEF Store, Wanted, Goto
<1>3. Busy /\ ~ Given
  BY <1>2 DEF At, Busy, Given, Pcs
<1>4. /\ call \in Call /\ N \in Blocks /\ V \in Nat /\ call.file \in Files /\ call.file \in Live
      /\ Level(N) \in -1..2 /\ Pointer(N) \in Pointers /\ (call.del => V = 0)
  BY <1>1, <1>2, <1>3, CallBlock DEF Live
<1>5. /\ call'.file = call.file /\ call'.del = call.del /\ call'.todo = call.todo
      /\ call'.ino = call.ino /\ call'.b = call.b /\ call'.pc = "inode" /\ call' \in Call
  BY <1>2, <1>4 DEF Call, Pcs
<1>6. /\ N' = N /\ V' = V /\ Busy' /\ ~ Given' /\ At("inode")'
      /\ ~ At("rm")' /\ ~ At("link")' /\ ~ At("bit")' /\ ~ At("block")' /\ ~ At("give")'
      /\ ~ At("clear")' /\ ~ At("full")'
  BY <1>5 DEF At, Busy, Given, Pcs, N, V
<1>7. /\ Clean = blk /\ Clean' = blk' /\ CopyPtr' = call.ino.ptr /\ CopyPtr = call.ino.ptr
      /\ Ptrs' = Ptrs /\ Live' = Live /\ Ptrs[call.file] = call.ino.ptr
  <2>1. Clean = blk /\ Clean' = blk' /\ CopyPtr' = call.ino.ptr /\ CopyPtr = call.ino.ptr
    BY <1>3, <1>5, <1>6, Views
  <2> QED
    BY <2>1, <1>2, <1>3, <1>4, <1>5, <1>6 DEF Ptrs, Live
<1>8. PICK r : Mapped(r, blk, Ptrs, free, Live) /\ Sound(r)
  BY <1>7 DEF Inv, Sound
<1>9. PICK d : d = CallWay[-1] /\ d = Path(blk, Ptrs[call.file], N)[-1] /\ d # 0
  <2>1. -1 \in -1..Level(N)
    BY <1>4
  <2> QED
    BY <2>1, <1>2, <1>7, CallPath DEF Missing
<1>10. d \in DOMAIN r /\ d \in Data /\ r[d].lev = -1
  <2>1. -1 \in -1..Level(N)
    BY <1>4
  <2>2. OnMap(r, blk, Ptrs, call.file, N, -1)
    BY <2>1, <1>4, <1>8, PathOnMap
  <2> QED
    BY <2>2, <1>9 DEF OnMap
<1>11. /\ blk' \in [Data -> [Slots -> Nat \cup Data]] /\ blk'[d] = Fill(V)
       /\ \A x \in Data : x # d => blk'[x] = blk[x]
  <2>1. Fill(V) \in [Slots -> Nat \cup Data]
    BY <1>4 DEF Fill
  <2> QED
    BY <2>1, <1>1, <1>2, <1>9, <1>10 DEF TypeOK
<1>12. \A a \in DOMAIN r, s \in Slots : r[a].lev >= 0 => blk'[a][s] = blk[a][s]
  <2>1. DOMAIN r \subseteq Data
    BY <1>8 DEF Mapped
  <2>2. ~ r[d].lev >= 0
    BY <1>10
  <2> QED
    BY <2>1, <2>2, <1>11
<1>13. ASSUME NEW f \in Live, NEW n \in Blocks
       PROVE  \A j \in -1..Level(n) : Path(blk', Ptrs[f], n)[j] = Path(blk, Ptrs[f], n)[j]
  BY <1>8, <1>12, PathAgree
<1>14. TypeOK'
  BY <1>1, <1>2, <1>5, <1>11 DEF TypeOK
<1>15. Running'
  <2>1. CallFile'
    BY <1>1, <1>2, <1>3, <1>5, <1>6 DEF Running, CallFile
  <2>2. CallStep'
    BY <1>6 DEF CallStep
  <2> QED
    BY <2>1, <2>2 DEF Running
<1>16. CleanWay(call.file, N)'[-1] = d
  <2>1. -1 \in -1..Level(N)
    BY <1>4
  <2> QED
    BY <2>1, <1>4, <1>5, <1>6, <1>7, <1>9, <1>13 DEF CleanWay
<1>17. Ended'
  BY <1>2, <1>6, <1>9, <1>11, <1>16 DEF Ended
<1>18. Copies' /\ Fresh'
  <2>1. ~ At("inode") /\ ~ At("full")
    BY <1>2 DEF At
  <2> QED
    BY <2>1, <1>1, <1>2, <1>3, <1>5, <1>6 DEF Copies, Fresh
<1>19. ASSUME NEW f \in named' \ hurt', NEW n \in Blocks
       PROVE  ReadsAs(CleanWay(f, n)[-1], want[f][n])'
  <2>1. f \in named \ hurt /\ f \in Live /\ -1 \in -1..Level(n)
    BY <1>2, Levels DEF Live
  <2>2. ReadsAs(Path(blk, Ptrs[f], n)[-1], want[f][n])
    BY <2>1, <1>1, <1>7 DEF Reads, CleanWay
  <2>3. CleanWay(f, n)'[-1] = Path(blk, Ptrs[f], n)[-1]
    BY <2>1, <1>7, <1>13 DEF CleanWay
  <2>4. CASE Path(blk, Ptrs[f], n)[-1] = d
    <3>1. f = call.file /\ n = N
      BY <2>1, <2>4, <1>4, <1>8, <1>9, OneBlock
    <3>2. V \in want[f][n]
      BY <3>1, <1>1, <1>2, <1>3, <1>4 DEF Fresh
    <3> QED
      BY <2>3, <2>4, <3>2, <1>2, <1>9, <1>11 DEF ReadsAs
  <2>5. CASE Path(blk, Ptrs[f], n)[-1] # d
    <3>1. Path(blk, Ptrs[f], n)[-1] # 0 => Path(blk, Ptrs[f], n)[-1] \in Data
      BY <2>1, <1>8, PathOnMap DEF OnMap
    <3>2. Path(blk, Ptrs[f], n)[-1] # 0 => blk'[Path(blk, Ptrs[f], n)[-1]] = blk[Path(blk, Ptrs[f], n)[-1]]
      BY <2>5, <3>1, <1>11
    <3> QED
      BY <2>2, <2>3, <3>2, <1>2 DEF ReadsAs
  <2> QED
    BY <2>4, <2>5
<1>20. Sound(r)'
  <2>1. Mapped(r, blk', Ptrs, free, Live)
    <3>1. ASSUME NEW a \in DOMAIN r, NEW s \in Slots, r[a].lev >= 0, blk'[a][s] # 0
          PROVE  Child(r, blk'[a][s], r[a].own, r[a].top, r[a].lev - 1, <<"block", a, s>>)
      BY <3>1, <1>8, <1>12 DEF Mapped
    <3> QED
      BY <3>1, <1>8 DEF Mapped
  <2> QED
    BY <2>1, <1>2, <1>6, <1>7 DEF Sound
<1>40. Quiet
  <2>1. ASSUME NEW f \in Live, NEW n \in Blocks, NEW j \in 0..Level(n), NEW s \in Slots,
               CleanWay(f, n)[j] # 0
        PROVE  Clean'[CleanWay(f, n)[j]][s] = Clean[CleanWay(f, n)[j]][s]
    <3>1. j \in -1..Level(n) /\ j >= 0
      BY Levels
    <3>2. CleanWay(f, n)[j] \in DOMAIN r /\ r[CleanWay(f, n)[j]].lev >= 0
      BY <2>1, <3>1, <1>7, <1>8, PathOnMap DEF OnMap, CleanWay
    <3> QED
      BY <3>2, <1>7, <1>12
  <2> QED
    BY <2>1, <1>7 DEF Quiet
<1> QED
  BY <1>14, <1>15, <1>17, <1>18, <1>19, <1>20, <1>40 DEF Inv, Reads

\* What get_nth_datablock finds where it has to make a block.
LEMMA CreateFacts ==
  ASSUME Inv, Wanted, NEW b \in free
  PROVE  /\ TypeOK /\ Running /\ Reads /\ Copies /\ Fresh
         /\ At("block") /\ call.todo # <<>> /\ Busy /\ ~ Given /\ call.b = 0 /\ ~ call.del
         /\ call \in Call /\ N \in Blocks /\ V \in Nat /\ call.file \in Files
         /\ call.file \in Live /\ call.file \in named \ hurt /\ call.ino \in Inode
         /\ Level(N) \in -1..2 /\ Pointer(N) \in Pointers /\ LevelOf(Pointer(N)) = Level(N)
         /\ Clean = blk /\ CopyPtr = call.ino.ptr /\ Ptrs[call.file] = call.ino.ptr
         /\ CallWay = Path(blk, Ptrs[call.file], N) /\ b \in Data /\ b # 0
         /\ ~ At("inode") /\ ~ At("full")
<1>1. TypeOK /\ Running /\ Reads /\ Copies /\ Fresh
  BY DEF Inv
<1>2. At("block") /\ call.todo # <<>> /\ ~ (Head(call.todo).whole /\ V = 0)
  BY DEF Wanted
<1>3. Busy /\ ~ Given /\ call.b = 0 /\ ~ At("inode") /\ ~ At("full")
  BY <1>1, <1>2 DEF At, Busy, Given, Pcs, Running, CallStep
<1>4. /\ call \in Call /\ N \in Blocks /\ V \in Nat /\ call.file \in Files
      /\ Level(N) \in -1..2 /\ Pointer(N) \in Pointers /\ LevelOf(Pointer(N)) = Level(N)
      /\ ~ call.del
  BY <1>1, <1>2, <1>3, CallBlock
<1>5. call.file \in Live /\ call.file \in named \ hurt /\ call.ino \in Inode
  BY <1>1, <1>3, <1>4 DEF Live, Running, CallFile, Call
<1>6. Clean = blk /\ CopyPtr = call.ino.ptr /\ Ptrs[call.file] = call.ino.ptr
  BY <1>3, <1>4, Views DEF Ptrs
<1>7. CallWay = Path(blk, Ptrs[call.file], N)
  BY <1>6, CallPath
<1>8. b \in Data /\ b # 0
  BY <1>1, CrashConstants DEF TypeOK
<1> QED
  BY <1>1, <1>2, <1>3, <1>4, <1>5, <1>6, <1>7, <1>8

\* The topmost block is made: the copy of the inode has a new pointer.
LEMMA CreateRootInv ==
  ASSUME Inv, NEW b \in Data, CreateRoot(b)
  PROVE  Inv' /\ Growing(b, Level(N))
<1>1. /\ Wanted /\ Level(N) \in Missing /\ b \in free
      /\ free' = free \ {b} /\ blk' = [blk EXCEPT ![b] = Zero]
      /\ call' = [call EXCEPT !.ino.ptr[Pointer(N)] = b]
      /\ inode' = inode /\ used' = used /\ kills' = kills
      /\ hurt' = hurt /\ named' = named /\ want' = want
  BY DEF CreateRoot, Allocate
<1>2. /\ TypeOK /\ Running /\ Reads /\ Copies /\ Fresh
      /\ At("block") /\ call.todo # <<>> /\ Busy /\ ~ Given /\ call.b = 0 /\ ~ call.del
      /\ call \in Call /\ N \in Blocks /\ V \in Nat /\ call.file \in Files
      /\ call.file \in Live /\ call.file \in named \ hurt /\ call.ino \in Inode
      /\ Level(N) \in -1..2 /\ Pointer(N) \in Pointers /\ LevelOf(Pointer(N)) = Level(N)
      /\ Clean = blk /\ CopyPtr = call.ino.ptr /\ Ptrs[call.file] = call.ino.ptr
      /\ CallWay = Path(blk, Ptrs[call.file], N) /\ b # 0
      /\ ~ At("inode") /\ ~ At("full")
  BY <1>1, CreateFacts
<1>3. call.ino.ptr \in [Pointers -> Data \cup {0}] /\ call.ino.ptr[Pointer(N)] = 0
  <2>1. CallWay[Level(N)] = 0
    BY <1>1 DEF Missing
  <2>2. Path(blk, call.ino.ptr, N)[Level(N)] = call.ino.ptr[Pointer(N)]
    BY <1>2, PathSteps
  <2> QED
    BY <2>1, <2>2, <1>2 DEF Inode
<1>4. /\ call'.file = call.file /\ call'.del = call.del /\ call'.todo = call.todo
      /\ call'.b = 0 /\ call'.pc = "block" /\ call' \in Call
      /\ call'.ino.ptr = [call.ino.ptr EXCEPT ![Pointer(N)] = b]
  <2>1. [call.ino EXCEPT !.ptr[Pointer(N)] = b] \in Inode
    BY <1>2 DEF Inode
  <2>2. [call.ino EXCEPT !.ptr[Pointer(N)] = b].ptr = [call.ino.ptr EXCEPT ![Pointer(N)] = b]
    BY <1>2 DEF Inode
  <2>3. call'.ino = [call.ino EXCEPT !.ptr[Pointer(N)] = b] /\ call' \in Call
    BY <2>1, <1>1, <1>2 DEF Call
  <2> QED
    BY <2>2, <2>3, <1>1, <1>2 DEF Call, At
<1>5. /\ N' = N /\ V' = V /\ Busy' /\ ~ Given' /\ At("block")'
      /\ ~ At("rm")' /\ ~ At("link")' /\ ~ At("bit")' /\ ~ At("inode")' /\ ~ At("give")'
      /\ ~ At("clear")' /\ ~ At("full")'
  BY <1>4 DEF At, Busy, Given, Pcs, N, V
<1>6. /\ Clean' = blk' /\ CopyPtr' = call'.ino.ptr /\ Live' = Live
      /\ Ptrs' = [Ptrs EXCEPT ![call.file] = call'.ino.ptr]
  <2>1. Clean' = blk' /\ CopyPtr' = call'.ino.ptr
    BY <1>5, Views
  <2>2. Ptrs' = [f \in Files |-> IF f = call.file THEN call'.ino.ptr ELSE inode[f].ptr]
    BY <2>1, <1>1, <1>4, <1>5 DEF Ptrs
  <2>3. Ptrs = [f \in Files |-> IF f = call.file THEN call.ino.ptr ELSE inode[f].ptr]
    BY <1>2 DEF Ptrs
  <2>4. Live' = Live
    BY <1>1, <1>2, <1>4, <1>5 DEF Live
  <2> QED
    BY <2>1, <2>2, <2>3, <2>4
<1>7. PICK r : Mapped(r, blk, Ptrs, free, Live)
  BY <1>2 DEF Inv, Sound
<1>8. b \notin DOMAIN r /\ DOMAIN r \subseteq Data
  BY <1>1, <1>7 DEF Mapped
<1>9. /\ blk' \in [Data -> [Slots -> Nat \cup Data]] /\ blk'[b] = Zero
      /\ \A x \in Data : x # b => blk'[x] = blk[x]
  <2>1. Zero \in [Slots -> Nat \cup Data]
    BY DEF Zero, Fill
  <2> QED
    BY <2>1, <1>1, <1>2 DEF TypeOK
<1>10. \A g \in Live, t \in Pointers :
         \/ Ptrs'[g][t] = Ptrs[g][t]
         \/ Ptrs[g][t] = 0 /\ Ptrs'[g][t] = b /\ g = call.file /\ t = Pointer(N)
  <2>1. Live \subseteq Files /\ Ptrs \in [Files -> [Pointers -> Data \cup {0}]]
    BY <1>2, <1>3 DEF Live, TypeOK, Inode, Ptrs
  <2>2. Ptrs'[call.file] = [call.ino.ptr EXCEPT ![Pointer(N)] = b]
    BY <2>1, <1>2, <1>4, <1>6
  <2>3. \A g \in Live : g # call.file => Ptrs'[g] = Ptrs[g]
    BY <2>1, <1>6
  <2> QED
    BY <2>2, <2>3, <1>2, <1>3
<1>11. \A a \in DOMAIN r, s \in Slots : blk'[a][s] = blk[a][s]
  BY <1>8, <1>9
<1>12. \A s \in Slots : blk'[b][s] = 0
  BY <1>9 DEF Zero, Fill
<1>30. Attached(r, blk, Ptrs, Live, blk', Ptrs', b, call.file, Pointer(N), Level(N),
                <<"inode", call.file, Pointer(N)>>)
  BY <1>2, <1>8, <1>10, <1>11, <1>12 DEF Attached
<1>13. ASSUME NEW f \in Live, NEW n \in Blocks
       PROVE  \A j \in -1..Level(n) :
                \/ Path(blk', Ptrs'[f], n)[j] = Path(blk, Ptrs[f], n)[j]
                \/ Path(blk', Ptrs'[f], n)[j] = b /\ Path(blk, Ptrs[f], n)[j] = 0
  BY <1>7, <1>30, Grow
<1>14. TypeOK'
  BY <1>1, <1>2, <1>4, <1>9 DEF TypeOK
<1>15. Running'
  <2>1. CallFile'
    BY <1>1, <1>2, <1>4, <1>5 DEF Running, CallFile
  <2>2. CallStep'
    BY <1>4, <1>5 DEF CallStep
  <2> QED
    BY <2>1, <2>2 DEF Running
<1>16. Ended'
  BY <1>5 DEF Ended
<1>17. /\ \A p \in Pointers : p # Pointer(N) => inode[call.file].ptr[p] = call'.ino.ptr[p]
       /\ inode[call.file].ptr[Pointer(N)] = 0
  BY <1>2, <1>3, <1>4 DEF Copies
<1>18. Copies'
  BY <1>1, <1>2, <1>4, <1>5, <1>17 DEF Copies
<1>19. Fresh'
  <2>1. ASSUME NEW n \in Blocks, Pointer(n) = Pointer(N) PROVE 0 \in want[call.file][n]
    <3>1. Level(n) = Level(N)
      BY <2>1, <1>2, Levels
    <3>2. Path(blk, Ptrs[call.file], n)[Level(n)] = 0
      BY <2>1, <1>2, <1>3, PathSteps
    <3>3. Level(n) \in -1..Level(n) /\ -1 \in -1..Level(n)
      BY <3>1, <1>2
    <3>4. Path(blk, Ptrs[call.file], n)[-1] = 0
      BY <3>2, <3>3, NothingBelow
    <3>5. ReadsAs(Path(blk, Ptrs[call.file], n)[-1], want[call.file][n])
      BY <1>2 DEF Reads, CleanWay
    <3> QED
      BY <3>4, <3>5 DEF ReadsAs
  <2> QED
    BY <2>1, <1>1, <1>2, <1>4, <1>5 DEF Fresh
<1>20. ASSUME NEW f \in named' \ hurt', NEW n \in Blocks
       PROVE  ReadsAs(CleanWay(f, n)[-1], want[f][n])'
  <2>1. f \in named \ hurt /\ f \in Live /\ -1 \in -1..Level(n)
    BY <1>1, Levels DEF Live
  <2>2. ReadsAs(Path(blk, Ptrs[f], n)[-1], want[f][n])
    BY <2>1, <1>2 DEF Reads, CleanWay
  <2>3. CleanWay(f, n)' = Path(blk', Ptrs'[f], n)
    BY <1>6 DEF CleanWay
  <2>4. CASE Path(blk', Ptrs'[f], n)[-1] = b /\ Path(blk, Ptrs[f], n)[-1] = 0
    <3>1. 0 \in want[f][n]
      BY <2>2, <2>4 DEF ReadsAs
    <3> QED
      BY <2>3, <2>4, <3>1, <1>1, <1>2, <1>9 DEF ReadsAs, Zero
  <2>5. CASE Path(blk', Ptrs'[f], n)[-1] = Path(blk, Ptrs[f], n)[-1]
    <3>1. Path(blk, Ptrs[f], n)[-1] # 0 => Path(blk, Ptrs[f], n)[-1] \in DOMAIN r
      BY <2>1, <1>7, PathOnMap DEF OnMap
    <3>2. Path(blk, Ptrs[f], n)[-1] # 0 => blk'[Path(blk, Ptrs[f], n)[-1]] = blk[Path(blk, Ptrs[f], n)[-1]]
      BY <3>1, <1>8, <1>9
    <3> QED
      BY <2>2, <2>3, <2>5, <3>2, <1>1 DEF ReadsAs
  <2> QED
    BY <2>1, <2>4, <2>5, <1>13
<1>21. \E r2 : Sound(r2)'
  <2>1. free' \subseteq free /\ b \notin free'
    BY <1>1
  <2>2. Mapped(With(r, b, [own |-> call.file, top |-> Pointer(N), lev |-> Level(N),
                           src |-> <<"inode", call.file, Pointer(N)>>]), blk', Ptrs', free', Live)
    BY <2>1, <1>7, <1>30, Attach
  <2> QED
    BY <2>2, <1>5, <1>6 DEF Sound
<1>40. Growing(b, Level(N))
  <2>1. Path(Clean', Ptrs'[call.file], N)[Level(N)] = Ptrs'[call.file][Pointer(N)]
    BY <1>2, PathSteps
  <2>2. Ptrs'[call.file] = [call.ino.ptr EXCEPT ![Pointer(N)] = b]
    BY <1>2, <1>4, <1>6 DEF Ptrs
  <2>3. Path(Clean', Ptrs'[call.file], N)[Level(N)] = b /\ Level(N) \in -1..Level(N)
    BY <2>1, <2>2, <1>2, <1>3
  <2> QED
    BY <2>3, <1>2, <1>6, <1>7, <1>30 DEF Growing
<1> QED
  BY <1>14, <1>15, <1>16, <1>18, <1>19, <1>20, <1>21, <1>40 DEF Inv, Reads

\* A block further down is made: nothing leads to it yet.
LEMMA CreateChildInv ==
  ASSUME Inv, NEW b \in Data, CreateChild(b)
  PROVE  Inv' /\ Quiet
<1>1. /\ Wanted /\ Missing # {} /\ Level(N) \notin Missing /\ b \in free
      /\ free' = free \ {b} /\ blk' = [blk EXCEPT ![b] = Zero]
      /\ call' = [call EXCEPT !.pc = "link", !.b = b, !.j = Max(Missing) + 1]
      /\ inode' = inode /\ used' = used /\ kills' = kills
      /\ hurt' = hurt /\ named' = named /\ want' = want
  BY DEF CreateChild, Allocate
<1>2. /\ TypeOK /\ Running /\ Reads /\ Copies /\ Fresh
      /\ At("block") /\ call.todo # <<>> /\ Busy /\ ~ Given /\ call.b = 0 /\ ~ call.del
      /\ call \in Call /\ N \in Blocks /\ V \in Nat /\ call.file \in Files
      /\ call.file \in Live /\ call.file \in named \ hurt /\ call.ino \in Inode
      /\ Level(N) \in -1..2 /\ Pointer(N) \in Pointers
      /\ Clean = blk /\ CopyPtr = call.ino.ptr /\ Ptrs[call.file] = call.ino.ptr
      /\ CallWay = Path(blk, Ptrs[call.file], N) /\ b # 0
      /\ ~ At("inode") /\ ~ At("full")
  BY <1>1, CreateFacts
<1>3. PICK m \in -1..(Level(N) - 1) : m = Max(Missing) /\ CallWay[m] = 0 /\ CallWay[m + 1] # 0
  <2>1. Missing \subseteq -1..3 /\ \A j \in -1..Level(N) : j \in Missing <=> CallWay[j] = 0
    BY <1>2 DEF Missing
  <2>2. PICK m : m = Max(Missing) /\ m \in Missing /\ \A x \in Missing : m >= x
    BY <2>1, <1>1, Extremes
  <2>3. m \in -1..Level(N) /\ m # Level(N) /\ m \in -1..(Level(N) - 1) /\ m + 1 \in -1..Level(N) /\ ~ m >= m + 1
    BY <2>2, <1>1, <1>2 DEF Missing
  <2> QED
    BY <2>1, <2>2, <2>3
<1>4. /\ call'.file = call.file /\ call'.del = call.del /\ call'.todo = call.todo
      /\ call'.ino = call.ino /\ call'.b = b /\ call'.j = m + 1
      /\ call'.pc = "link" /\ call' \in Call
  <2>1. m + 1 \in 0..3
    BY <1>2, <1>3
  <2> QED
    BY <2>1, <1>1, <1>2, <1>3 DEF Call, Pcs
<1>5. /\ N' = N /\ V' = V /\ Busy' /\ ~ Given' /\ At("link")'
      /\ ~ At("rm")' /\ ~ At("block")' /\ ~ At("bit")' /\ ~ At("inode")' /\ ~ At("give")'
      /\ ~ At("clear")' /\ ~ At("full")'
  BY <1>4 DEF At, Busy, Given, Pcs, N, V
<1>6. Clean' = blk' /\ Ptrs' = Ptrs /\ Live' = Live
  <2>1. Clean' = blk' /\ CopyPtr' = call.ino.ptr
    BY <1>4, <1>5, Views
  <2> QED
    BY <2>1, <1>1, <1>2, <1>4, <1>5 DEF Ptrs, Live
<1>7. PICK r : Mapped(r, blk, Ptrs, free, Live)
  BY <1>2 DEF Inv, Sound
<1>8. b \notin DOMAIN r /\ DOMAIN r \subseteq Data
  BY <1>1, <1>7 DEF Mapped
<1>9. /\ blk' \in [Data -> [Slots -> Nat \cup Data]] /\ blk'[b] = Zero
      /\ \A x \in Data : x # b => blk'[x] = blk[x]
  <2>1. Zero \in [Slots -> Nat \cup Data]
    BY DEF Zero, Fill
  <2> QED
    BY <2>1, <1>1, <1>2 DEF TypeOK
<1>10. \A a \in DOMAIN r, s \in Slots : blk'[a][s] = blk[a][s]
  BY <1>8, <1>9
<1>11. ASSUME NEW f \in Live, NEW n \in Blocks
       PROVE  \A j \in -1..Level(n) : Path(blk', Ptrs[f], n)[j] = Path(blk, Ptrs[f], n)[j]
  BY <1>7, <1>10, PathAgree
<1>12. \A j \in -1..Level(N) : CallWay'[j] = CallWay[j]
  <2>1. CallWay' = Path(blk', Ptrs[call.file], N)
    BY <1>2, <1>4, <1>5, CallPath
  <2> QED
    BY <2>1, <1>2, <1>11
<1>13. Parent' = CallWay[m + 1] /\ Parent' \in Data /\ blk'[Parent'][Address'] = 0
  <2>1. m + 1 \in -1..Level(N) /\ m + 1 \in 0..Level(N) /\ m + 1 \in 0..(Level(N) + 1)
        /\ (m + 1) - 1 = m /\ ~ m + 1 > Level(N)
    BY <1>2, <1>3
  <2>2. Parent' = CallWay[m + 1]
    BY <2>1, <1>4, <1>12 DEF Parent
  <2>3. CallWay[m + 1] \in DOMAIN r /\ CallWay[m + 1] \in Data
    BY <2>1, <1>2, <1>3, <1>7, PathOnMap DEF OnMap
  <2>4. blk[CallWay[m + 1]][Index(N, m + 1)] = 0
    BY <2>1, <2>3, <1>2, <1>3, Under
  <2>5. Index(N, m + 1) \in Slots
    BY <2>1, <1>2, Indices
  <2> QED
    BY <2>2, <2>3, <2>4, <2>5, <1>4, <1>5, <1>10 DEF Address
<1>14. TypeOK'
  BY <1>1, <1>2, <1>4, <1>9 DEF TypeOK
<1>15. Running'
  <2>1. CallFile'
    BY <1>1, <1>2, <1>4, <1>5 DEF Running, CallFile
  <2>2. m + 1 \in 0..Level(N) /\ b \in Data \ free' /\ Parent' # 0
    BY <1>1, <1>2, <1>3, <1>13, CrashConstants
  <2>3. CallStep'
    BY <2>2, <1>2, <1>4, <1>5, <1>9, <1>13 DEF CallStep
  <2> QED
    BY <2>1, <2>3 DEF Running
<1>16. Ended'
  BY <1>5 DEF Ended
<1>17. Copies' /\ Fresh'
  BY <1>1, <1>2, <1>4, <1>5 DEF Copies, Fresh
<1>18. ASSUME NEW f \in named' \ hurt', NEW n \in Blocks
       PROVE  ReadsAs(CleanWay(f, n)[-1], want[f][n])'
  <2>1. f \in named \ hurt /\ f \in Live /\ -1 \in -1..Level(n)
    BY <1>1, Levels DEF Live
  <2>2. ReadsAs(Path(blk, Ptrs[f], n)[-1], want[f][n])
    BY <2>1, <1>2 DEF Reads, CleanWay
  <2>3. CleanWay(f, n)'[-1] = Path(blk, Ptrs[f], n)[-1]
    BY <2>1, <1>6, <1>11 DEF CleanWay
  <2>4. Path(blk, Ptrs[f], n)[-1] # 0 => Path(blk, Ptrs[f], n)[-1] \in DOMAIN r
    BY <2>1, <1>7, PathOnMap DEF OnMap
  <2>5. Path(blk, Ptrs[f], n)[-1] # 0 => blk'[Path(blk, Ptrs[f], n)[-1]] = blk[Path(blk, Ptrs[f], n)[-1]]
    BY <2>4, <1>8, <1>9
  <2> QED
    BY <2>2, <2>3, <2>5, <1>1 DEF ReadsAs
<1>19. Sound(r)'
  <2>1. Mapped(r, blk', Ptrs, free', Live)
    <3>1. ASSUME NEW a \in DOMAIN r, NEW s \in Slots, r[a].lev >= 0, blk'[a][s] # 0
          PROVE  Child(r, blk'[a][s], r[a].own, r[a].top, r[a].lev - 1, <<"block", a, s>>)
      BY <3>1, <1>7, <1>10 DEF Mapped
    <3>2. DOMAIN r \subseteq Data \ free'
      BY <1>1, <1>7 DEF Mapped
    <3> QED
      BY <3>1, <3>2, <1>7 DEF Mapped
  <2> QED
    BY <2>1, <1>4, <1>6, <1>8 DEF Sound
<1>40. Quiet
  <2>1. ASSUME NEW f \in Live, NEW n \in Blocks, NEW j \in 0..Level(n), NEW s \in Slots,
               CleanWay(f, n)[j] # 0
        PROVE  Clean'[CleanWay(f, n)[j]][s] = Clean[CleanWay(f, n)[j]][s]
    <3>1. j \in -1..Level(n)
      BY Levels
    <3>2. CleanWay(f, n)[j] \in DOMAIN r
      BY <2>1, <3>1, <1>2, <1>7, PathOnMap DEF OnMap, CleanWay
    <3> QED
      BY <3>2, <1>2, <1>6, <1>10
  <2> QED
    BY <2>1, <1>6 DEF Quiet
<1> QED
  BY <1>14, <1>15, <1>16, <1>17, <1>18, <1>19, <1>40 DEF Inv, Reads

\* The address block above is written: the new block is part of the file.
LEMMA LinkChildInv ==
  ASSUME Inv, LinkChild
  PROVE  Inv' /\ Growing(call.b, call.j - 1)
<1>1. /\ At("link") /\ blk' = [blk EXCEPT ![Parent][Address] = call.b]
      /\ call' = [call EXCEPT !.pc = "block", !.b = 0]
      /\ free' = free /\ inode' = inode /\ used' = used /\ kills' = kills
      /\ hurt' = hurt /\ named' = named /\ want' = want
  BY DEF LinkChild
<1>2. TypeOK /\ Running /\ Reads /\ Copies /\ Fresh
  BY DEF Inv
<1>3. Busy /\ ~ Given /\ call.todo # <<>> /\ ~ At("inode") /\ ~ At("full")
  BY <1>1, <1>2 DEF At, Busy, Given, Pcs, Running, CallFile
<1>4. /\ call \in Call /\ N \in Blocks /\ V \in Nat /\ call.file \in Files /\ call.file \in Live
      /\ Level(N) \in -1..2 /\ Pointer(N) \in Pointers
  BY <1>2, <1>3, CallBlock DEF Live
<1>5. /\ ~ call.del /\ call.b \in Data \ free /\ blk[call.b] = Zero
      /\ call.j \in 0..Level(N) /\ Parent # 0 /\ blk[Parent][Address] = 0
  BY <1>1, <1>2 DEF Running, CallStep
<1>6. Clean = blk /\ CopyPtr = call.ino.ptr /\ Ptrs[call.file] = call.ino.ptr
  BY <1>3, <1>4, Views DEF Ptrs
<1>7. /\ call'.file = call.file /\ call'.del = call.del /\ call'.todo = call.todo
      /\ call'.ino = call.ino /\ call'.b = 0 /\ call'.pc = "block" /\ call' \in Call
  BY <1>1, <1>4 DEF Call, Pcs
<1>8. /\ N' = N /\ V' = V /\ Busy' /\ ~ Given' /\ At("block")'
      /\ ~ At("rm")' /\ ~ At("link")' /\ ~ At("bit")' /\ ~ At("inode")' /\ ~ At("give")'
      /\ ~ At("clear")' /\ ~ At("full")'
  BY <1>7 DEF At, Busy, Given, Pcs, N, V
<1>9. Clean' = blk' /\ Ptrs' = Ptrs /\ Live' = Live
  <2>1. Clean' = blk' /\ CopyPtr' = call.ino.ptr
    BY <1>7, <1>8, Views
  <2> QED
    BY <2>1, <1>1, <1>3, <1>4, <1>6, <1>7, <1>8 DEF Ptrs, Live
<1>10. PICK r : Mapped(r, blk, Ptrs, free, Live) /\ call.b \notin DOMAIN r
  BY <1>1, <1>6 DEF Inv, Sound
<1>11. /\ Parent \in DOMAIN r /\ Parent \in Data /\ r[Parent].own = call.file
       /\ r[Parent].top = Pointer(N) /\ r[Parent].lev = call.j
  <2>1. Parent = Path(blk, Ptrs[call.file], N)[call.j]
    BY <1>6, CallPath DEF Parent
  <2>2. call.j \in -1..Level(N)
    BY <1>4, <1>5
  <2>3. OnMap(r, blk, Ptrs, call.file, N, call.j)
    BY <2>2, <1>4, <1>10, PathOnMap
  <2> QED
    BY <2>1, <2>3, <1>5 DEF OnMap
<1>12. PICK b \in Data : b = call.b /\ b # Parent /\ b # 0 /\ b \notin free
  BY <1>5, <1>10, <1>11, CrashConstants
<1>13. /\ blk' \in [Data -> [Slots -> Nat \cup Data]] /\ blk'[b] = Zero
       /\ \A x \in Data : x # Parent => blk'[x] = blk[x]
       /\ \A s \in Slots : blk'[Parent][s] = IF s = Address THEN b ELSE blk[Parent][s]
  <2>1. blk' = [blk EXCEPT ![Parent] = [blk[Parent] EXCEPT ![Address] = b]]
    BY <1>1, <1>12
  <2>2. blk \in [Data -> [Slots -> Nat \cup Data]]
    BY <1>2 DEF TypeOK
  <2>3. [blk[Parent] EXCEPT ![Address] = b] \in [Slots -> Nat \cup Data]
    BY <2>2, <1>11
  <2> QED
    BY <2>1, <2>2, <2>3, <1>5, <1>11, <1>12
<1>14. \A a \in DOMAIN r, s \in Slots :
         \/ blk'[a][s] = blk[a][s]
         \/ blk[a][s] = 0 /\ blk'[a][s] = b /\ a = Parent /\ s = Address
  <2>1. DOMAIN r \subseteq Data
    BY <1>10 DEF Mapped
  <2> QED
    BY <2>1, <1>5, <1>13
<1>15. \A s \in Slots : blk'[b][s] = 0
  BY <1>13 DEF Zero, Fill
<1>30. Attached(r, blk, Ptrs, Live, blk', Ptrs, b, call.file, Pointer(N), call.j - 1,
                <<"block", Parent, Address>>)
  <2>1. call.j - 1 \in -1..2
    BY <1>4, <1>5
  <2> QED
    BY <2>1, <1>4, <1>10, <1>11, <1>12, <1>14, <1>15 DEF Attached
<1>16. ASSUME NEW f \in Live, NEW n \in Blocks
       PROVE  \A j \in -1..Level(n) :
                \/ Path(blk', Ptrs[f], n)[j] = Path(blk, Ptrs[f], n)[j]
                \/ Path(blk', Ptrs[f], n)[j] = b /\ Path(blk, Ptrs[f], n)[j] = 0
  BY <1>10, <1>30, Grow
<1>17. TypeOK'
  BY <1>1, <1>2, <1>7, <1>13 DEF TypeOK
<1>18. Running'
  <2>1. CallFile'
    BY <1>1, <1>2, <1>3, <1>7, <1>8 DEF Running, CallFile
  <2>2. CallStep'
    BY <1>7, <1>8 DEF CallStep
  <2> QED
    BY <2>1, <2>2 DEF Running
<1>19. Ended'
  BY <1>8 DEF Ended
<1>20. Copies' /\ Fresh'
  BY <1>1, <1>2, <1>3, <1>7, <1>8 DEF Copies, Fresh
<1>21. ASSUME NEW f \in named' \ hurt', NEW n \in Blocks
       PROVE  ReadsAs(CleanWay(f, n)[-1], want[f][n])'
  <2>1. f \in named \ hurt /\ f \in Live /\ -1 \in -1..Level(n)
    BY <1>1, Levels DEF Live
  <2>2. ReadsAs(Path(blk, Ptrs[f], n)[-1], want[f][n])
    BY <2>1, <1>2, <1>6 DEF Reads, CleanWay
  <2>3. CleanWay(f, n)' = Path(blk', Ptrs[f], n)
    BY <1>9 DEF CleanWay
  <2>4. CASE Path(blk', Ptrs[f], n)[-1] = b /\ Path(blk, Ptrs[f], n)[-1] = 0
    <3>1. 0 \in want[f][n]
      BY <2>2, <2>4 DEF ReadsAs
    <3> QED
      BY <2>3, <2>4, <3>1, <1>1, <1>12, <1>13 DEF ReadsAs, Zero
  <2>5. CASE Path(blk', Ptrs[f], n)[-1] = Path(blk, Ptrs[f], n)[-1]
    <3>1. Path(blk, Ptrs[f], n)[-1] # 0 => /\ Path(blk, Ptrs[f], n)[-1] \in Data
                                           /\ r[Path(blk, Ptrs[f], n)[-1]].lev = -1
      BY <2>1, <1>10, PathOnMap DEF OnMap
    <3>2. r[Parent].lev # -1
      BY <1>4, <1>5, <1>11
    <3>3. Path(blk, Ptrs[f], n)[-1] # 0 => blk'[Path(blk, Ptrs[f], n)[-1]] = blk[Path(blk, Ptrs[f], n)[-1]]
      BY <3>1, <3>2, <1>13
    <3> QED
      BY <2>2, <2>3, <2>5, <3>3, <1>1 DEF ReadsAs
  <2> QED
    BY <2>1, <2>4, <2>5, <1>16
<1>22. \E r2 : Sound(r2)'
  <2>1. \E r2 : Mapped(r2, blk', Ptrs, free, Live)
    BY <1>10, <1>12, <1>30, Attach
  <2> QED
    BY <2>1, <1>1, <1>8, <1>9 DEF Sound
<1>40. Growing(call.b, call.j - 1)
  <2>1. call.j \in -1..Level(N) /\ call.j \in 0..(Level(N) + 1) /\ ~ call.j > Level(N)
        /\ call.j - 1 \in -1..Level(N)
    BY <1>4, <1>5
  <2>2. Path(blk, Ptrs[call.file], N)[call.j] = Parent
    BY <1>6, CallPath DEF Parent
  <2>3. Path(blk', Ptrs[call.file], N)[call.j] = Parent
    BY <2>1, <2>2, <1>4, <1>5, <1>16
  <2>4. Path(blk', Ptrs[call.file], N)[call.j - 1] = blk'[Parent][Index(N, call.j)]
    BY <2>1, <2>3, <1>4, <1>11, Under
  <2>5. Index(N, call.j) = Address /\ Address \in Slots
    BY <1>4, <1>5, Indices DEF Address
  <2>6. Path(blk', Ptrs[call.file], N)[call.j - 1] = call.b
    BY <2>4, <2>5, <1>12, <1>13
  <2> QED
    BY <2>1, <2>6, <1>6, <1>9, <1>10, <1>12, <1>30 DEF Growing
<1> QED
  BY <1>17, <1>18, <1>19, <1>20, <1>21, <1>22, <1>40 DEF Inv, Reads

-----------------------------------------------------------------------------
(* The disk, at any moment *)

\* The pointers in the inodes
DiskPtrs == [f \in Files |-> inode[f].ptr]

\* The file of the call is not among the files to rely on, or what the copy has
\* under the pointer to the block is not on disk
Dropped == \/ call.file \notin Whole
           \/ /\ call.todo # <<>> /\ ~ call.del /\ inode[call.file].ptr[Pointer(N)] = 0
              /\ \A t \in Pointers : t # Pointer(N) => inode[call.file].ptr[t] = call.ino.ptr[t]

\* The step between data_free and the write that clears the pointer concerns
\* blocks under the pointer of the call alone.
LEMMA Elsewhere ==
  ASSUME Inv, Busy, NEW r, Sound(r), NEW a \in DOMAIN r,
         ~ (r[a].own = call.file /\ r[a].top = Pointer(N))
  PROVE  Clean[a] = blk[a]
<1>1. TypeOK /\ Mapped(r, Clean, Ptrs, free, Live) /\ call.file \in Live
  BY DEF Inv, Sound, Live
<1>2. a \in Data
  BY <1>1 DEF Mapped
<1>3. CASE Given /\ ~ AtRoot
  <2>1. /\ N \in Blocks /\ call.j \in 0..Level(N) /\ Parent \in Data
        /\ CleanWay(call.file, N)[call.j] = Parent /\ Level(N) \in -1..2
    BY <1>3, LoopPath
  <2>2. call.j \in -1..Level(N) /\ Parent # 0
    BY <2>1, CrashConstants
  <2>3. OnMap(r, Clean, Ptrs, call.file, N, call.j)
    BY <2>1, <2>2, <1>1, PathOnMap
  <2>4. r[Parent].own = call.file /\ r[Parent].top = Pointer(N)
    BY <2>1, <2>2, <2>3 DEF OnMap, CleanWay
  <2> QED
    BY <2>4, <1>1, <1>2, CleanBlocks
<1>4. CASE ~ (Given /\ ~ AtRoot)
  BY <1>1, <1>2, <1>4, CleanBlocks
<1> QED
  BY <1>3, <1>4

\* Such a call leaves the map of the other blocks, and what is read of them.
LEMMA DroppedDisk ==
  ASSUME Inv, Busy, Dropped
  PROVE  /\ \E r : Mapped(r, blk, DiskPtrs, free, Whole)
         /\ \A f \in Whole, n \in Blocks : ReadsAs(Path(blk, DiskPtrs[f], n)[-1], want[f][n])
         /\ call.file \in Whole => Path(blk, DiskPtrs[call.file], N)[-1] = 0
<1>1. TypeOK /\ Running /\ Reads /\ Copies /\ Fresh
  BY DEF Inv
<1>2. PICK r : Sound(r)
  BY DEF Inv
<1>3. PICK f0, p, c, q : f0 = call.file /\ p = Pointer(N) /\ c = Clean /\ q = Ptrs
  OBVIOUS
<1>4. Mapped(r, c, q, free, Live)
  BY <1>2, <1>3 DEF Sound
<1>5. /\ Whole \subseteq named \ hurt /\ Whole \subseteq Live /\ Whole \subseteq Files /\ f0 \in Live
      /\ f0 \in Files
  <2>1. call # Idle
    BY DEF Busy, Idle, Pcs
  <2> QED
    BY <2>1, <1>1, <1>3 DEF Whole, Live, TypeOK, Call
<1>6. \A g \in Whole, t \in Pointers : ~ (g = f0 /\ t = p) => DiskPtrs[g][t] = q[g][t]
  <2>1. ASSUME NEW g \in Whole, NEW t \in Pointers, ~ (g = f0 /\ t = p) PROVE DiskPtrs[g][t] = q[g][t]
    <3>1. CASE g # f0
      BY <3>1, <1>3, <1>5 DEF DiskPtrs, Ptrs
    <3>2. CASE g = f0
      <4>1. /\ call.todo # <<>> /\ t # Pointer(N) /\ inode[call.file].ptr[t] = call.ino.ptr[t]
        BY <2>1, <3>2, <1>3 DEF Dropped
      <4>2. call.ino.ptr \in [Pointers -> Data \cup {0}]
        BY <4>1, <1>1, CallBlock DEF Call, Inode
      <4>3. CopyPtr[t] = call.ino.ptr[t]
        BY <4>1, <4>2 DEF CopyPtr
      <4>4. q[g] = CopyPtr
        BY <3>2, <1>3, <1>5 DEF Ptrs
      <4> QED
        BY <3>2, <4>1, <4>3, <4>4, <1>3, <1>5 DEF DiskPtrs
    <3> QED
      BY <3>1, <3>2
  <2> QED
    BY <2>1
<1>7. f0 \in Whole => DiskPtrs[f0][p] = 0
  BY <1>3, <1>5 DEF Dropped, DiskPtrs
<1>8. \A a \in DOMAIN r : ~ (r[a].own = f0 /\ r[a].top = p) => c[a] = blk[a]
  BY <1>2, <1>3, Elsewhere
<1> DEFINE E == {x \in DOMAIN r : r[x].own \in Whole /\ ~ (r[x].own = f0 /\ r[x].top = p)}
<1>9. Mapped(Only(r, E), blk, DiskPtrs, free, Whole)
  <2>1. E \subseteq DOMAIN r /\ E \cap free = {} /\ \A x \in E : r[x].own \in Whole
    BY <1>4 DEF Mapped
  <2>2. ASSUME NEW g \in Whole, NEW t \in Pointers, DiskPtrs[g][t] # 0
        PROVE  g \in Live /\ DiskPtrs[g][t] = q[g][t] /\ q[g][t] \in E
    <3>1. ~ (g = f0 /\ t = p)
      BY <2>2, <1>7
    <3>2. DiskPtrs[g][t] = q[g][t] /\ g \in Live
      BY <3>1, <1>5, <1>6
    <3>3. Child(r, q[g][t], g, t, LevelOf(t), <<"inode", g, t>>)
      BY <2>2, <3>2, <1>4 DEF Mapped
    <3>4. q[g][t] \in DOMAIN r /\ r[q[g][t]].own = g /\ r[q[g][t]].top = t
      BY <3>3 DEF Child
    <3> QED
      BY <3>1, <3>2, <3>4
  <2>3. ASSUME NEW a \in E, NEW s \in Slots, r[a].lev >= 0, blk[a][s] # 0
        PROVE  blk[a][s] = c[a][s] /\ c[a][s] \in E
    <3>1. blk[a] = c[a]
      BY <1>8
    <3>2. Child(r, c[a][s], r[a].own, r[a].top, r[a].lev - 1, <<"block", a, s>>)
      BY <2>3, <3>1, <1>4 DEF Mapped
    <3>3. c[a][s] \in DOMAIN r /\ r[c[a][s]].own = r[a].own /\ r[c[a][s]].top = r[a].top
      BY <3>2 DEF Child
    <3> QED
      BY <3>1, <3>3
  <2> HIDE DEF E
  <2> QED
    BY <2>1, <2>2, <2>3, <1>4, Detach
<1>10. ASSUME NEW f \in Whole, NEW n \in Blocks, ~ (f = f0 /\ Pointer(n) = p)
       PROVE  Path(blk, DiskPtrs[f], n)[-1] = Path(c, q[f], n)[-1]
  <2>1. DiskPtrs[f][Pointer(n)] = q[f][Pointer(n)] /\ f \in Live /\ -1 \in -1..Level(n)
    BY <1>5, <1>6, <1>10, Levels
  <2>2. \A a \in DOMAIN r, s \in Slots :
          r[a].own = f /\ r[a].top = Pointer(n) /\ r[a].lev >= 0 => blk[a][s] = c[a][s]
    BY <1>8, <1>10
  <2> QED
    BY <2>1, <2>2, <1>4, PathAgree
<1>11. ASSUME f0 \in Whole, NEW n \in Blocks, Pointer(n) = p
       PROVE  Path(blk, DiskPtrs[f0], n)[-1] = 0
  <2>1. Path(blk, DiskPtrs[f0], n)[Level(n)] = 0
    BY <1>7, <1>11, PathSteps
  <2>2. Level(n) \in -1..Level(n) /\ -1 \in -1..Level(n)
    BY Levels
  <2> QED
    BY <2>1, <2>2, NothingBelow
<1>12. ASSUME NEW f \in Whole, NEW n \in Blocks
       PROVE  ReadsAs(Path(blk, DiskPtrs[f], n)[-1], want[f][n])
  <2>1. ReadsAs(Path(c, q[f], n)[-1], want[f][n])
    BY <1>1, <1>3, <1>5 DEF Reads, CleanWay
  <2>2. CASE ~ (f = f0 /\ Pointer(n) = p)
    BY <2>1, <2>2, <1>10
  <2>3. CASE f = f0 /\ Pointer(n) = p
    <3>1. call.todo # <<>> /\ ~ call.del /\ inode[call.file].ptr[Pointer(N)] = 0
      BY <2>3, <1>3 DEF Dropped
    <3>2. 0 \in want[f][n]
      <4>1. CASE call.ino.ptr[Pointer(N)] # 0
        BY <4>1, <2>3, <3>1, <1>1, <1>3 DEF Fresh
      <4>2. CASE call.ino.ptr[Pointer(N)] = 0
        <5>1. call.ino.ptr \in [Pointers -> Data \cup {0}] /\ Pointer(N) \in Pointers
          BY <3>1, <1>1, CallBlock DEF Call, Inode
        <5>2. CopyPtr[Pointer(N)] = 0 /\ q[f0] = CopyPtr
          BY <4>2, <5>1, <1>3, <1>5 DEF CopyPtr, Ptrs
        <5>3. Path(c, q[f0], n)[Level(n)] = 0
          BY <2>3, <5>2, <1>3, PathSteps
        <5>4. Level(n) \in -1..Level(n) /\ -1 \in -1..Level(n)
          BY Levels
        <5>5. Path(c, q[f0], n)[-1] = 0
          BY <5>3, <5>4, NothingBelow
        <5> QED
          BY <2>1, <2>3, <5>5 DEF ReadsAs
      <4> QED
        BY <4>1, <4>2
    <3> QED
      BY <2>3, <3>2, <1>11 DEF ReadsAs
  <2> QED
    BY <2>2, <2>3
<1>13. f0 \in Whole => Path(blk, DiskPtrs[f0], N)[-1] = 0
  <2> SUFFICES ASSUME f0 \in Whole PROVE Path(blk, DiskPtrs[f0], N)[-1] = 0
    OBVIOUS
  <2>1. N \in Blocks
    BY <1>1, <1>3, CallBlock DEF Dropped
  <2> QED
    BY <2>1, <1>3, <1>11
<1> QED
  BY <1>3, <1>9, <1>12, <1>13

\* A block on the way of the disk is one of the file's blocks.
LEMMA OnDiskWay ==
  ASSUME NEW f, NEW n \in Blocks, NEW j \in -1..Level(n), NEW x, x # 0,
         x = Path(blk, inode[f].ptr, n)[j]
  PROVE  x \in OnDisk(f)
<1>1. j \in -1..2 /\ <<n, j>> \in Blocks \X (-1..2) /\ j <= Level(n)
  BY Levels
<1>2. <<n, j>> \in Places
  BY <1>1 DEF Places
<1>3. x = Way(inode[f], <<n, j>>[1])[<<n, j>>[2]]
  BY WayIsPath
<1> QED
  BY <1>2, <1>3 DEF OnDisk

\* Any other call has its pointers on disk.
LEMMA Undropped ==
  ASSUME Inv, Busy, ~ Dropped
  PROVE  Clean = blk /\ Ptrs = DiskPtrs /\ Live = Whole
<1>1. TypeOK /\ Running /\ CallFile /\ CallStep /\ Copies
  BY DEF Inv, Running
<1>2. Whole \subseteq named \ hurt /\ named \subseteq Files /\ Harmed \subseteq {call.file}
  BY <1>1 DEF Whole, TypeOK, Harmed
<1>3. call.file \in Whole /\ ~ call.del /\ call.todo # <<>>
  <2>1. call.file \in Whole
    BY DEF Dropped
  <2> QED
    BY <2>1, <1>1, <1>2 DEF CallFile
<1>4. /\ call \in Call /\ N \in Blocks /\ call.file \in Files /\ Level(N) \in -1..2
      /\ Pointer(N) \in Pointers /\ call.ino.ptr \in [Pointers -> Data \cup {0}]
      /\ inode[call.file].ptr \in [Pointers -> Data \cup {0}]
  BY <1>3, <1>1, CallBlock DEF Call, Inode, TypeOK
<1>5. ~ call.b \in OnDisk(call.file) \/ At("link")
  <2>1. Harmed = {}
    BY <1>3, <1>2 DEF Whole
  <2>2. ~ At("idle")
    BY DEF Busy, At, Pcs
  <2> QED
    BY <2>1, <2>2 DEF Harmed
<1>6. inode[call.file].ptr[Pointer(N)] = call.ino.ptr[Pointer(N)]
  <2>1. \/ inode[call.file].ptr[Pointer(N)] = call.ino.ptr[Pointer(N)]
        \/ inode[call.file].ptr[Pointer(N)] = 0
        \/ /\ At("inode") \/ At("full")
           /\ call.ino.ptr[Pointer(N)] = 0 /\ inode[call.file].ptr[Pointer(N)] = call.b
    BY <1>3, <1>4, <1>1 DEF Copies
  <2>2. CASE inode[call.file].ptr[Pointer(N)] = 0
    BY <2>2, <1>3, <1>4, <1>1 DEF Copies, Dropped
  <2>3. CASE /\ At("inode") \/ At("full")
             /\ call.ino.ptr[Pointer(N)] = 0 /\ inode[call.file].ptr[Pointer(N)] = call.b
    <3>1. ~ At("link")
      BY <2>3 DEF At
    <3>2. CASE call.b = 0
      BY <3>2, <2>3
    <3>3. CASE call.b # 0
      <4>1. Path(blk, inode[call.file].ptr, N)[Level(N)] = call.b /\ Level(N) \in -1..Level(N)
        BY <2>3, <1>4, PathSteps
      <4> QED
        BY <4>1, <3>1, <3>3, <1>4, <1>5, OnDiskWay
    <3> QED
      BY <3>2, <3>3
  <2> QED
    BY <2>1, <2>2, <2>3
<1>7. inode[call.file].ptr = call.ino.ptr
  <2>1. \A t \in Pointers : inode[call.file].ptr[t] = call.ino.ptr[t]
    BY <1>3, <1>6, <1>1 DEF Copies
  <2> QED
    BY <2>1, <1>4
<1>8. ~ Given
  <2> SUFFICES ASSUME Given PROVE FALSE
    OBVIOUS
  <2>1. call.j \in 0..(Level(N) + 1) /\ (~ AtRoot => Parent \in Data)
    BY LoopPath
  <2>2. CallWay = Path(blk, inode[call.file].ptr, N)
    BY <1>7, CallPath
  <2>3. CallWay[call.j - 1] = IF call.j > Level(N) THEN call.ino.ptr[Pointer(N)]
                              ELSE blk[CallWay[call.j]][Index(N, call.j)]
    BY <1>4, <1>7, <2>1, <2>2, Under DEF AtRoot, Parent
  <2>4. CallWay[call.j - 1] = Victim
    BY <2>3 DEF Victim, AtRoot, Root, Parent, Address
  <2>5. call.b = Victim /\ call.b # 0 /\ ~ At("link")
    BY <1>1 DEF CallStep, Given, At
  <2>6. call.j - 1 \in -1..Level(N)
    BY <1>4, <2>1
  <2> QED
    BY <2>2, <2>4, <2>5, <2>6, <1>4, <1>5, OnDiskWay
<1>9. Clean = blk /\ CopyPtr = call.ino.ptr
  BY <1>8, Views
<1>10. Ptrs = DiskPtrs
  BY <1>7, <1>9 DEF Ptrs, DiskPtrs
<1>11. Live = Whole
  <2>1. Harmed = {}
    BY <1>3, <1>2 DEF Whole
  <2> QED
    BY <2>1, <1>3, <1>2 DEF Live, Whole
<1> QED
  BY <1>9, <1>10, <1>11

\* Every state: the blocks of the files to rely on are mapped as the disk has
\* them, and they read as they may.
LEMMA Disk ==
  ASSUME Inv
  PROVE  /\ \E r : Mapped(r, blk, DiskPtrs, free, Whole)
         /\ \A f \in Whole, n \in Blocks : ReadsAs(Path(blk, DiskPtrs[f], n)[-1], want[f][n])
         /\ Busy /\ call.file \in Whole =>
              Path(blk, DiskPtrs[call.file], N)[-1] \in {CleanWay(call.file, N)[-1], 0}
<1>1. TypeOK /\ Running /\ CallFile /\ CallStep /\ Reads /\ Copies /\ Fresh
  BY DEF Inv, Running
<1>2. PICK r : Sound(r)
  BY DEF Inv
<1>3. Whole \subseteq named \ hurt /\ named \subseteq Files /\ Harmed \subseteq {call.file}
  BY <1>1 DEF Whole, TypeOK, Harmed
<1>4. ASSUME Clean = blk, \A f \in Whole : Ptrs[f] = DiskPtrs[f], Live = Whole
      PROVE  /\ \E r2 : Mapped(r2, blk, DiskPtrs, free, Whole)
             /\ \A f \in Whole, n \in Blocks : ReadsAs(Path(blk, DiskPtrs[f], n)[-1], want[f][n])
  <2>1. Mapped(r, blk, Ptrs, free, Whole)
    BY <1>2, <1>4 DEF Sound
  <2>2. Mapped(r, blk, DiskPtrs, free, Whole)
    BY <2>1, <1>4 DEF Mapped
  <2>3. ASSUME NEW f \in Whole, NEW n \in Blocks
        PROVE  ReadsAs(Path(blk, DiskPtrs[f], n)[-1], want[f][n])
    BY <1>1, <1>3, <1>4 DEF Reads, CleanWay
  <2> QED
    BY <2>2, <2>3
<1>5. CASE ~ Busy
  <2>1. ~ Given
    BY <1>5 DEF Busy, Given, At, Pcs
  <2>2. Ptrs = DiskPtrs
    BY <1>5 DEF Ptrs, DiskPtrs
  <2>3. Harmed \cap named = {}
    <3>1. At("idle") \/ At("bit")
      <4>1. CASE call = Idle
        BY <4>1 DEF Idle, At
      <4>2. CASE call \in Call
        BY <4>2, <1>5 DEF Call, Busy, At
      <4> QED
        BY <4>1, <4>2, <1>1 DEF TypeOK
    <3>2. CASE At("idle")
      BY <3>2 DEF Harmed
    <3>3. CASE At("bit")
      BY <3>3, <1>1, <1>3 DEF CallFile
    <3> QED
      BY <3>1, <3>2, <3>3
  <2>4. Live = Whole
    BY <2>3, <1>5 DEF Live, Whole
  <2> QED
    BY <2>1, <2>2, <2>4, <1>4, <1>5, Views
<1>6. CASE Busy /\ Dropped
  BY <1>6, DroppedDisk
<1>7. CASE Busy /\ ~ Dropped
  <2>1. Clean = blk /\ Ptrs = DiskPtrs /\ Live = Whole
    BY <1>7, Undropped
  <2>2. Path(blk, DiskPtrs[call.file], N)[-1] = CleanWay(call.file, N)[-1]
    BY <2>1 DEF CleanWay
  <2> QED
    BY <2>1, <2>2, <1>4
<1> QED
  BY <1>5, <1>6, <1>7

-----------------------------------------------------------------------------
(* The end of a call *)

\* A call ends, or only its inode is left to free: what is on disk is what
\* there is.
LEMMA EndInv ==
  ASSUME Inv, TypeOK', CallFile', At("idle")' \/ At("bit")',
         blk' = blk, free' = free, named' \ hurt' = Whole,
         \A f \in Whole : inode'[f] = inode[f],
         \A f \in Whole, n \in Blocks : ReadsAs(Path(blk, DiskPtrs[f], n)[-1], want'[f][n])
  PROVE  Inv'
<1>1. /\ ~ Busy' /\ ~ Given' /\ ~ At("rm")' /\ ~ At("link")' /\ ~ At("block")' /\ ~ At("inode")'
      /\ ~ At("give")' /\ ~ At("clear")' /\ ~ At("full")'
  BY DEF At, Busy, Given, Pcs
<1>2. Running' /\ Ended' /\ Copies' /\ Fresh'
  BY <1>1 DEF Running, CallStep, Ended, Copies, Fresh
<1>3. Whole \subseteq Files
  BY DEF Inv, TypeOK, Whole
<1>4. Clean' = blk /\ Live' = Whole /\ \A f \in Whole : Ptrs'[f] = DiskPtrs[f]
  BY <1>1, <1>3, Views DEF Live, Ptrs, DiskPtrs
<1>5. PICK r : Mapped(r, blk, DiskPtrs, free, Whole)
  BY Disk
<1>6. Mapped(r, blk, Ptrs', free, Whole)
  BY <1>4, <1>5 DEF Mapped
<1>7. Sound(r)'
  BY <1>1, <1>4, <1>6 DEF Sound
<1>8. Reads'
  <2> SUFFICES ASSUME NEW f \in named' \ hurt', NEW n \in Blocks
               PROVE  ReadsAs(CleanWay(f, n)[-1], want[f][n])'
    BY DEF Reads
  <2>1. CleanWay(f, n)' = Path(blk, DiskPtrs[f], n)
    BY <1>4 DEF CleanWay
  <2>2. ReadsAs(Path(blk, DiskPtrs[f], n)[-1], want'[f][n])
    OBVIOUS
  <2> QED
    BY <2>1, <2>2 DEF ReadsAs
<1> QED
  BY <1>2, <1>7, <1>8 DEF Inv

\* The process is killed, at any step of any call.
LEMMA KillInv ==
  ASSUME Inv, Kill
  PROVE  Inv'
<1>1. /\ ~ At("idle") /\ kills < MAX_KILLS /\ kills' = kills + 1 /\ call' = Idle
      /\ hurt' = hurt \cup Harmed /\ free' = free /\ blk' = blk /\ inode' = inode
      /\ used' = used /\ named' = named /\ want' = want
  BY DEF Kill
<1>2. TypeOK /\ CallFile
  BY DEF Inv, Running
<1>3. Harmed \subseteq used
  <2>1. call \in Call
    BY <1>1, <1>2 DEF TypeOK, Idle, At
  <2>2. Busy \/ At("bit")
    BY <2>1 DEF Call, Busy, At
  <2> QED
    BY <2>2, <1>2 DEF CallFile, TypeOK, Harmed
<1>4. TypeOK'
  <2>1. kills' \in 0..MAX_KILLS
    BY <1>1, <1>2, CrashConstants DEF TypeOK
  <2> QED
    BY <2>1, <1>1, <1>2, <1>3 DEF TypeOK
<1>5. At("idle")' /\ CallFile'
  BY <1>1 DEF At, Idle, CallFile, Busy, Pcs
<1>6. named' \ hurt' = Whole
  BY <1>1 DEF Whole
<1> QED
  BY <1>1, <1>4, <1>5, <1>6, Disk, EndInv

\* write_i returns DATA_FULL without writing the inode.
LEMMA ReturnFullInv ==
  ASSUME Inv, ReturnFull
  PROVE  Inv'
<1>1. /\ At("full") /\ call' = Idle /\ want' = [want EXCEPT ![call.file][N] = {0}]
      /\ hurt' = hurt \cup Harmed /\ free' = free /\ blk' = blk /\ inode' = inode
      /\ used' = used /\ named' = named /\ kills' = kills
  BY DEF ReturnFull
<1>2. TypeOK /\ CallFile /\ Running /\ Ended
  BY DEF Inv, Running
<1>3. Busy /\ call.todo # <<>>
  BY <1>1, <1>2 DEF At, Busy, Pcs, CallFile
<1>4. call.file \in Files /\ N \in Blocks
  BY <1>2, <1>3, CallBlock
<1>5. Harmed \subseteq used
  BY <1>2, <1>3 DEF CallFile, TypeOK, Harmed
<1>6. want \in [Files -> [Blocks -> SUBSET Nat]]
  BY <1>2 DEF TypeOK
<1>7. /\ want' \in [Files -> [Blocks -> SUBSET Nat]]
      /\ \A f \in Files, n \in Blocks :
           want'[f][n] = IF f = call.file /\ n = N THEN {0} ELSE want[f][n]
  <2>1. want' = [want EXCEPT ![call.file] = [want[call.file] EXCEPT ![N] = {0}]]
    BY <1>1
  <2>2. PICK w : w = [want[call.file] EXCEPT ![N] = {0}]
    OBVIOUS
  <2>3. /\ w \in [Blocks -> SUBSET Nat]
        /\ \A n \in Blocks : w[n] = IF n = N THEN {0} ELSE want[call.file][n]
    BY <2>2, <1>4, <1>6
  <2> QED
    BY <2>1, <2>2, <2>3, <1>4, <1>6
<1>8. TypeOK'
  BY <1>1, <1>2, <1>5, <1>7 DEF TypeOK
<1>9. At("idle")' /\ CallFile'
  BY <1>1 DEF At, Idle, CallFile, Busy, Pcs
<1>10. named' \ hurt' = Whole
  BY <1>1 DEF Whole
<1>11. ASSUME NEW f \in Whole, NEW n \in Blocks
       PROVE  ReadsAs(Path(blk, DiskPtrs[f], n)[-1], want'[f][n])
  <2>1. f \in Files
    BY <1>2 DEF Whole, TypeOK
  <2>2. CASE ~ (f = call.file /\ n = N)
    <3>1. ReadsAs(Path(blk, DiskPtrs[f], n)[-1], want[f][n])
      BY Disk
    <3> QED
      BY <2>1, <2>2, <3>1, <1>7
  <2>3. CASE f = call.file /\ n = N
    <3>1. Path(blk, DiskPtrs[f], n)[-1] \in {CleanWay(call.file, N)[-1], 0}
      BY <2>3, <1>3, Disk
    <3>2. CleanWay(call.file, N)[-1] = 0
      BY <1>1, <1>2 DEF Ended
    <3>3. want'[f][n] = {0}
      BY <2>1, <2>3, <1>7
    <3> QED
      BY <3>1, <3>2, <3>3 DEF ReadsAs
  <2> QED
    BY <2>2, <2>3
<1> QED
  BY <1>1, <1>8, <1>9, <1>10, <1>11, EndInv

\* trunc_fs writes the inode it read before, whose blocks are all free by now.
LEMMA WriteStaleInv ==
  ASSUME Inv, WriteStale
  PROVE  Inv'
<1>1. /\ At("block") /\ call.todo = <<>> /\ call' = [call EXCEPT !.pc = "bit"]
      /\ inode' = [inode EXCEPT ![call.file] = [size |-> 0, ptr |-> call.saved]]
      /\ hurt' = hurt /\ free' = free /\ blk' = blk /\ want' = want
      /\ used' = used /\ named' = named /\ kills' = kills
  BY DEF WriteStale, Goto
<1>2. TypeOK /\ CallFile /\ Running
  BY DEF Inv, Running
<1>3. Busy /\ call \in Call
  BY <1>1, <1>2 DEF At, Busy, Pcs, TypeOK, Idle
<1>4. call.del /\ call.file \in used \ (named \cup hurt) /\ call.file \in Files
  BY <1>1, <1>2, <1>3 DEF CallFile, Call
<1>5. call'.pc = "bit" /\ call'.file = call.file /\ call'.del = call.del /\ call' \in Call
  BY <1>1, <1>3 DEF Call
<1>6. TypeOK'
  <2>1. [size |-> 0, ptr |-> call.saved] \in Inode
    BY <1>3, CrashConstants DEF Call, Inode
  <2>2. inode' \in [Files -> Inode]
    BY <2>1, <1>1, <1>2, <1>4 DEF TypeOK
  <2> QED
    BY <2>2, <1>1, <1>2, <1>5 DEF TypeOK
<1>7. At("bit")' /\ CallFile'
  BY <1>1, <1>4, <1>5 DEF At, CallFile, Busy, Pcs
<1>8. named' \ hurt' = Whole /\ \A f \in Whole : inode'[f] = inode[f]
  <2>1. Harmed \cap named = {}
    BY <1>4 DEF Harmed
  <2>2. Whole = named \ hurt
    BY <2>1 DEF Whole
  <2>3. Whole \subseteq Files /\ call.file \notin Whole
    BY <2>2, <1>2, <1>4 DEF TypeOK
  <2> QED
    BY <2>2, <2>3, <1>1, <1>2 DEF TypeOK
<1> QED
  BY <1>1, <1>6, <1>7, <1>8, Disk, EndInv

\* inode_free, the end of a delete.
LEMMA InodeFreeInv ==
  ASSUME Inv, InodeFree
  PROVE  Inv'
<1>1. /\ At("bit") /\ used' = used \ {call.file} /\ call' = Idle
      /\ hurt' = hurt /\ free' = free /\ blk' = blk /\ want' = want
      /\ inode' = inode /\ named' = named /\ kills' = kills
  BY DEF InodeFree
<1>2. TypeOK /\ CallFile
  BY DEF Inv, Running
<1>3. call.file \in used \ (named \cup hurt)
  BY <1>1, <1>2 DEF CallFile
<1>4. TypeOK'
  BY <1>1, <1>2, <1>3 DEF TypeOK
<1>5. At("idle")' /\ CallFile'
  BY <1>1 DEF At, Idle, CallFile, Busy, Pcs
<1>6. named' \ hurt' = Whole
  BY <1>1, <1>3 DEF Whole, Harmed
<1> QED
  BY <1>1, <1>4, <1>5, <1>6, Disk, EndInv

\* The inode is written: it has the pointers of the copy, and the block reads
\* as written.  The next one may already read as it will.
LEMMA InodeWriteInv ==
  ASSUME Inv, InodeWrite
  PROVE  Inv' /\ Quiet
<1> DEFINE ino  == [call.ino EXCEPT !.size = Max({@, N + 1})]
           rest == Tail(call.todo)
           done == [want EXCEPT ![call.file][N] = {V}]
<1>1. /\ At("inode") /\ inode' = [inode EXCEPT ![call.file] = ino]
      /\ IF rest = <<>>
         THEN /\ call' = IF call.del THEN [call EXCEPT !.pc = "block", !.todo = rest, !.b = 0]
                         ELSE Idle
              /\ want' = done
         ELSE /\ call' = [call EXCEPT !.pc = "block", !.todo = rest, !.ino = ino, !.b = 0]
              /\ want' = [done EXCEPT ![call.file][Head(rest).n] = @ \cup {Head(rest).v}]
      /\ free' = free /\ blk' = blk /\ used' = used /\ named' = named /\ kills' = kills
      /\ hurt' = hurt
  BY DEF InodeWrite
<1>2. TypeOK /\ Running /\ CallFile /\ Reads /\ Copies /\ Fresh /\ Ended
  BY DEF Inv, Running
<1>3. Busy /\ ~ Given /\ call.todo # <<>>
  BY <1>1, <1>2 DEF At, Busy, Given, Pcs, CallFile
<1>4. /\ call \in Call /\ N \in Blocks /\ V \in Nat /\ call.file \in Files /\ call.file \in Live
      /\ rest \in Seq(Item) /\ Pointer(N) \in Pointers
  BY <1>2, <1>3, CallBlock DEF Live
<1>5. ino \in Inode /\ ino.ptr = call.ino.ptr
  <2>1. call.ino \in Inode /\ call.ino.size \in 0..(MAX_BLOCK + 1)
    BY <1>4 DEF Call, Inode
  <2>2. N + 1 \in 0..(MAX_BLOCK + 1) /\ MAX_BLOCK \in Nat
    BY <1>4, CrashConstants DEF Blocks
  <2>3. Max({call.ino.size, N + 1}) \in 0..(MAX_BLOCK + 1)
    <3>1. call.ino.size \in Int /\ N + 1 \in Int
      BY <2>1, <2>2
    <3>2. Max({call.ino.size, N + 1}) \in {call.ino.size, N + 1}
      BY <3>1, Extremes
    <3> QED
      BY <3>2, <2>1, <2>2
  <2> QED
    BY <2>1, <2>3 DEF Inode
<1> HIDE DEF ino, rest, done
<1>6. inode' \in [Files -> Inode] /\ inode'[call.file].ptr = call.ino.ptr
      /\ \A f \in Files : f # call.file => inode'[f] = inode[f]
  BY <1>1, <1>2, <1>4, <1>5 DEF TypeOK
<1>7. rest # <<>> => Head(rest) \in Item /\ Head(rest).n \in Blocks /\ Head(rest).v \in Nat
  <2>1. rest # <<>> => Head(rest) \in Item
    BY <1>4, HeadTailProperties
  <2> QED
    BY <2>1 DEF Item
<1>8. /\ want' \in [Files -> [Blocks -> SUBSET Nat]]
      /\ \A f \in Files, n \in Blocks :
           IF f = call.file /\ n = N THEN V \in want'[f][n] ELSE want[f][n] \subseteq want'[f][n]
      /\ rest # <<>> => Head(rest).v \in want'[call.file][Head(rest).n]
  <2>1. want \in [Files -> [Blocks -> SUBSET Nat]]
    BY <1>2 DEF TypeOK
  <2>2. PICK w : w = [want[call.file] EXCEPT ![N] = {V}]
    OBVIOUS
  <2>3. done = [want EXCEPT ![call.file] = w]
    BY <2>2 DEF done
  <2>4. /\ w \in [Blocks -> SUBSET Nat] /\ V \in w[N]
        /\ \A n \in Blocks : n # N => w[n] = want[call.file][n]
    BY <2>1, <2>2, <1>4
  <2>5. done \in [Files -> [Blocks -> SUBSET Nat]] /\ done[call.file] = w
        /\ \A f \in Files : f # call.file => done[f] = want[f]
    BY <2>1, <2>3, <2>4, <1>4
  <2>6. CASE rest = <<>>
    BY <2>4, <2>5, <2>6, <1>1
  <2>7. CASE rest # <<>>
    <3>1. PICK u : u = [w EXCEPT ![Head(rest).n] = @ \cup {Head(rest).v}]
      OBVIOUS
    <3>2. want' = [done EXCEPT ![call.file] = u]
      BY <2>5, <2>7, <3>1, <1>1
    <3>3. u \in [Blocks -> SUBSET Nat] /\ Head(rest).v \in u[Head(rest).n]
          /\ \A n \in Blocks : w[n] \subseteq u[n]
      BY <2>4, <2>7, <3>1, <1>7
    <3>4. want' \in [Files -> [Blocks -> SUBSET Nat]] /\ want'[call.file] = u
          /\ \A f \in Files : f # call.file => want'[f] = want[f]
      BY <2>5, <3>2, <3>3, <1>4
    <3> QED
      BY <2>4, <3>3, <3>4
  <2> QED
    BY <2>6, <2>7
<1>9. Clean = blk /\ CopyPtr = call.ino.ptr /\ Ptrs[call.file] = call.ino.ptr
  BY <1>3, <1>4, Views DEF Ptrs
<1> DEFINE idle == rest = <<>> /\ ~ call.del
<1>10. idle => call' = Idle /\ ~ Busy'
  BY <1>1 DEF Idle, Busy, Pcs
<1>11. ~ idle => /\ call' \in Call /\ call'.pc = "block" /\ call'.file = call.file
                 /\ call'.del = call.del /\ call'.todo = rest /\ call'.b = 0
                 /\ call'.ino.ptr = call.ino.ptr /\ Busy'
  <2>1. CASE rest = <<>> /\ call.del
    BY <2>1, <1>1, <1>4 DEF Call, Pcs, Busy
  <2>2. CASE rest # <<>>
    BY <2>2, <1>1, <1>4, <1>5 DEF Call, Pcs, Busy
  <2> QED
    BY <2>1, <2>2
<1>12. /\ ~ Given' /\ ~ At("rm")' /\ ~ At("link")' /\ ~ At("inode")' /\ ~ At("bit")'
       /\ ~ At("give")' /\ ~ At("clear")' /\ ~ At("full")'
  BY <1>10, <1>11 DEF At, Idle, Given
<1>13. Clean' = blk /\ Ptrs' = Ptrs /\ Live' = Live
  <2>1. Clean' = blk /\ CopyPtr' = call'.ino.ptr
    BY <1>1, <1>12, Views
  <2>2. Ptrs' = [f \in Files |-> IF f = call.file THEN call.ino.ptr ELSE inode[f].ptr]
    <3>1. CASE idle
      BY <3>1, <1>6, <1>10 DEF Ptrs
    <3>2. CASE ~ idle
      BY <2>1, <3>2, <1>6, <1>11 DEF Ptrs
    <3> QED
      BY <3>1, <3>2
  <2>3. Ptrs = [f \in Files |-> IF f = call.file THEN call.ino.ptr ELSE inode[f].ptr]
    BY <1>3, <1>9 DEF Ptrs
  <2>4. Live' = Live
    <3>1. idle => call.file \in named \ hurt
      BY <1>2, <1>3 DEF CallFile
    <3> QED
      BY <3>1, <1>1, <1>3, <1>10, <1>11 DEF Live
  <2> QED
    BY <2>1, <2>2, <2>3, <2>4
<1>14. TypeOK'
  BY <1>1, <1>2, <1>6, <1>8, <1>10, <1>11 DEF TypeOK
<1>15. Running'
  <2>1. CallFile'
    <3>1. CASE idle
      BY <3>1, <1>10, <1>12 DEF CallFile
    <3>2. CASE ~ idle
      <4>1. call.todo \in Seq(Item) /\ rest = Tail(call.todo)
        BY <1>4 DEF Call, rest
      <4>2. Len(rest) = Len(call.todo) - 1 /\ Len(call.todo) \in Nat
            /\ \A i \in 1..Len(rest) : rest[i] = call.todo[i + 1]
        BY <4>1, <1>3, HeadTailProperties
      <4>3. ASSUME call.del, NEW i \in 1..Len(rest) PROVE rest[i].whole /\ rest[i].v = 0
        <5>1. i + 1 \in 1..Len(call.todo)
          BY <4>2
        <5> QED
          BY <4>2, <4>3, <5>1, <1>2, <1>3 DEF CallFile
      <4>4. At("block")'
        BY <3>2, <1>11 DEF At
      <4>5. rest = <<>> => call.del
        BY <3>2
      <4>6. IF call.del THEN call.file \in used \ (named \cup hurt) ELSE call.file \in named \ hurt
        BY <1>2, <1>3 DEF CallFile
      <4> QED
        BY <3>2, <4>3, <4>4, <4>5, <4>6, <1>1, <1>11, <1>12 DEF CallFile
    <3> QED
      BY <3>1, <3>2
  <2>2. CallStep'
    <3>1. At("block")' => call'.b = 0
      BY <1>10, <1>11 DEF At, Idle
    <3> QED
      BY <3>1, <1>12 DEF CallStep
  <2> QED
    BY <2>1, <2>2 DEF Running
<1>16. Ended'
  BY <1>12 DEF Ended
<1>17. Copies'
  BY <1>6, <1>10, <1>11 DEF Copies
<1>18. Fresh'
  <2>1. ~ idle /\ ~ call.del => rest # <<>>
    OBVIOUS
  <2>2. Busy' /\ ~ call'.del => V' \in want'[call'.file][N']
    BY <2>1, <1>8, <1>10, <1>11 DEF N, V
  <2>3. Busy' /\ ~ call'.del => inode'[call'.file].ptr = call'.ino.ptr
    BY <1>6, <1>10, <1>11
  <2> QED
    BY <2>2, <2>3 DEF Fresh
<1>19. ASSUME NEW f \in named' \ hurt', NEW n \in Blocks
       PROVE  ReadsAs(CleanWay(f, n)[-1], want[f][n])'
  <2>1. f \in named \ hurt /\ f \in Files
    BY <1>1, <1>2 DEF TypeOK
  <2>2. CleanWay(f, n)' = CleanWay(f, n)
    BY <1>9, <1>13 DEF CleanWay
  <2>3. CASE f = call.file /\ n = N
    <3>1. V \in want'[f][n]
      BY <2>1, <2>3, <1>8
    <3>2. /\ V = 0 => CleanWay(f, n)[-1] = 0
          /\ V # 0 => CleanWay(f, n)[-1] # 0 /\ blk[CleanWay(f, n)[-1]] = Fill(V)
      BY <2>3, <1>1, <1>2 DEF Ended
    <3> QED
      BY <2>2, <3>1, <3>2, <1>1 DEF ReadsAs
  <2>4. CASE ~ (f = call.file /\ n = N)
    <3>1. want[f][n] \subseteq want'[f][n]
      BY <2>1, <2>4, <1>8
    <3>2. ReadsAs(CleanWay(f, n)[-1], want[f][n])
      BY <2>1, <1>2 DEF Reads
    <3> QED
      BY <2>2, <3>1, <3>2, <1>1 DEF ReadsAs
  <2> QED
    BY <2>3, <2>4
<1>20. PICK r : Sound(r)
  BY DEF Inv
<1>21. Sound(r)'
  BY <1>1, <1>9, <1>12, <1>13, <1>20 DEF Sound
<1>40. Quiet
  BY <1>9, <1>13, SameView
<1> QED
  BY <1>14, <1>15, <1>16, <1>17, <1>18, <1>19, <1>21, <1>40 DEF Inv, Reads

-----------------------------------------------------------------------------
(* Theorems *)

\* Every step of every call.
LEMMA NextInv ==
  ASSUME Inv, [Next]_vars
  PROVE  Inv'
<1>1. CASE UNCHANGED vars
  <2>1. /\ free' = free /\ blk' = blk /\ inode' = inode /\ used' = used /\ named' = named
        /\ call' = call /\ kills' = kills /\ want' = want /\ hurt' = hurt
    BY <1>1 DEF vars
  <2>2. /\ CallWay' = CallWay /\ N' = N /\ V' = V
    BY <2>1, CallPath DEF N, V
  <2>3. /\ Parent' = Parent /\ Address' = Address /\ Root' = Root /\ (AtRoot' <=> AtRoot)
        /\ \A pc : At(pc)' <=> At(pc)
    BY <2>1, <2>2 DEF Parent, Address, Root, AtRoot, At
  <2>4. Victim' = Victim /\ (Given' <=> Given) /\ (Busy' <=> Busy)
    BY <2>1, <2>3 DEF Victim, Given, Busy
  <2>5. Clean' = Clean /\ CopyPtr' = CopyPtr
    BY <2>1, <2>2, <2>3, <2>4 DEF Clean, CopyPtr
  <2>6. Ptrs' = Ptrs /\ Live' = Live
    BY <2>1, <2>4, <2>5 DEF Ptrs, Live
  <2>7. TypeOK' /\ CallFile'
    BY <2>1, <2>3, <2>4 DEF Inv, Running, TypeOK, CallFile
  <2>8. CallStep'
    BY <2>1, <2>2, <2>3, <2>4, <2>5, <2>6 DEF Inv, Running, CallStep, CleanWay
  <2>9. Ended' /\ Copies' /\ Fresh'
    BY <2>1, <2>2, <2>3, <2>4, <2>5, <2>6 DEF Inv, Ended, Copies, Fresh, CleanWay
  <2>10. Reads'
    BY <2>1, <2>5, <2>6, SameReads DEF Inv
  <2>11. \E r : Sound(r)'
    BY <2>1, <2>3, <2>5, <2>6 DEF Inv, Sound
  <2> QED
    BY <2>7, <2>8, <2>9, <2>10, <2>11 DEF Inv, Running
<1>2. CASE \E f \in Files : mknod(f) \/ unlink(f)
  BY <1>2, MknodInv, UnlinkInv
<1>3. CASE \E f \in Files, todo \in Jobs : write_i(f, todo)
  BY <1>3, WriteInv
<1>4. CASE \E b \in Data : CreateRoot(b) \/ CreateChild(b)
  BY <1>4, CreateRootInv, CreateChildInv
<1>5. CASE \E next \in Data \cup {0} : GiveAsNode(next)
  BY <1>5, GiveAsNodeInv
<1>6. CASE LinkChild \/ RemoveWhole \/ RemovePart \/ NoRoom \/ RemoveNothing
  BY <1>6, LinkChildInv, RemoveStartsInv, RemoveNothingInv
<1>7. CASE GiveToNode \/ GiveHead \/ ClearAddress \/ Store \/ InodeWrite
  BY <1>7, GiveToNodeInv, GiveHeadInv, ClearAddressInv, StoreInv, InodeWriteInv
<1>8. CASE ReturnFull \/ WriteStale \/ InodeFree \/ Kill
  BY <1>8, ReturnFullInv, WriteStaleInv, InodeFreeInv, KillInv
<1> QED
  BY <1>1, <1>2, <1>3, <1>4, <1>5, <1>6, <1>7, <1>8 DEF Next

\* The invariant holds in every state.
THEOREM Invariance == Spec => []Inv
<1>1. Init => Inv
  BY InitInv
<1>2. Inv /\ [Next]_vars => Inv'
  BY NextInv
<1> QED
  BY <1>1, <1>2, PTL DEF Spec

\* A file that no call left with a pointer to a freed block reads as it may,
\* wherever the process is killed.
THEOREM CrashReadsHolds == Spec => []CrashReads
<1>1. Inv => CrashReads
  <2> SUFFICES ASSUME Inv, NEW f \in Whole, NEW n \in Blocks
               PROVE  LET b == Way(inode[f], n)[-1]
                      IN \E v \in want[f][n] : IF b = 0 THEN v = 0 ELSE blk[b] = Fill(v)
    BY DEF CrashReads
  <2>1. ReadsAs(Path(blk, DiskPtrs[f], n)[-1], want[f][n])
    BY Disk
  <2>2. f \in Files
    BY DEF Inv, TypeOK, Whole
  <2>3. Way(inode[f], n) = Path(blk, DiskPtrs[f], n)
    BY <2>2, WayIsPath DEF DiskPtrs
  <2> QED
    BY <2>1, <2>3 DEF ReadsAs
<1> QED
  BY <1>1, Invariance, PTL

\* The blocks of such files are not free, and one pointer leads to each of
\* them.
THEOREM TreesSoundHolds == Spec => []TreesSound
<1>1. Inv => TreesSound
  <2> SUFFICES ASSUME Inv, NEW f \in Whole, NEW b \in OnDisk(f)
               PROVE  b \notin free /\ Cardinality(PointersTo(b, Whole)) = 1
    BY DEF TreesSound
  <2>1. PICK r : Mapped(r, blk, DiskPtrs, free, Whole)
    BY Disk
  <2>2. Whole \subseteq Files
    BY DEF Inv, TypeOK, Whole
  <2>3. ASSUME NEW g \in Whole, NEW x \in Places, NEW y, y = Way(inode[g], x[1])[x[2]], y # 0
        PROVE  /\ x[1] \in Blocks /\ x[2] \in -1..Level(x[1])
               /\ OnMap(r, blk, DiskPtrs, g, x[1], x[2])
               /\ y = Path(blk, DiskPtrs[g], x[1])[x[2]]
    <3>1. x[1] \in Blocks /\ x[2] \in -1..2 /\ x[2] <= Level(x[1])
      BY DEF Places
    <3>2. Level(x[1]) \in -1..2
      BY <3>1, Levels
    <3>3. x[2] \in -1..Level(x[1])
      BY <3>1, <3>2
    <3>4. y = Path(blk, DiskPtrs[g], x[1])[x[2]]
      BY <2>2, <2>3, WayIsPath DEF DiskPtrs
    <3> QED
      BY <3>1, <3>3, <3>4, <2>1, PathOnMap
  <2>4. PICK x \in Places : b = Way(inode[f], x[1])[x[2]] /\ b # 0
    BY DEF OnDisk
  <2>5. PICK n, j : /\ n = x[1] /\ j = x[2] /\ n \in Blocks /\ j \in -1..Level(n)
                    /\ OnMap(r, blk, DiskPtrs, f, n, j) /\ b = Path(blk, DiskPtrs[f], n)[j]
    BY <2>3, <2>4
  <2>6. b \in DOMAIN r /\ b \notin free
    BY <2>1, <2>4, <2>5 DEF OnMap, Mapped
  <2>7. ASSUME NEW z \in PointersTo(b, Whole) PROVE z = r[b].src
    <3>1. CASE z \in {<<"inode", y[1], y[2]>> : y \in {u \in Whole \X Pointers : inode[u[1]].ptr[u[2]] = b}}
      <4>1. PICK y \in Whole \X Pointers : z = <<"inode", y[1], y[2]>> /\ inode[y[1]].ptr[y[2]] = b
        BY <3>1
      <4>2. y[1] \in Whole /\ y[2] \in Pointers /\ DiskPtrs[y[1]][y[2]] = b
        BY <4>1, <2>2 DEF DiskPtrs
      <4> QED
        BY <4>1, <4>2, <2>1, <2>4, Sources
    <3>2. CASE z \in {<<"block", y[1], y[2]>> : y \in {u \in (UNION {AddressBlocks(g) : g \in Whole}) \X Slots :
                                            blk[u[1]][u[2]] = b}}
      <4>1. PICK y \in (UNION {AddressBlocks(g) : g \in Whole}) \X Slots :
              z = <<"block", y[1], y[2]>> /\ blk[y[1]][y[2]] = b
        BY <3>2
      <4>2. PICK g \in Whole : y[1] \in AddressBlocks(g) /\ y[2] \in Slots
        BY <4>1
      <4>3. PICK u \in Places : u[2] >= 0 /\ y[1] = Way(inode[g], u[1])[u[2]] /\ y[1] # 0
        BY <4>2 DEF AddressBlocks
      <4>4. y[1] \in DOMAIN r /\ r[y[1]].lev >= 0
        BY <4>3, <2>3 DEF OnMap
      <4> QED
        BY <4>1, <4>2, <4>4, <2>1, <2>4, Sources
    <3> QED
      BY <3>1, <3>2 DEF PointersTo
  <2>8. r[b].src \in PointersTo(b, Whole)
    <3>1. CASE j = Level(n)
      <4>1. r[b].src = <<"inode", f, Pointer(n)>> /\ inode[f].ptr[Pointer(n)] = b /\ Pointer(n) \in Pointers
        BY <3>1, <2>2, <2>4, <2>5, Levels, PathSteps DEF OnMap, DiskPtrs
      <4>2. <<f, Pointer(n)>> \in {u \in Whole \X Pointers : inode[u[1]].ptr[u[2]] = b}
        BY <4>1
      <4>3. r[b].src = <<"inode", <<f, Pointer(n)>>[1], <<f, Pointer(n)>>[2]>>
        BY <4>1
      <4> QED
        BY <4>2, <4>3 DEF PointersTo
    <3>2. CASE j # Level(n)
      <4>1. PICK a, s : a = Path(blk, DiskPtrs[f], n)[j + 1] /\ s = Index(n, j + 1)
        OBVIOUS
      <4>2. r[b].src = <<"block", a, s>> /\ a # 0 /\ blk[a][s] = b
        BY <3>2, <4>1, <2>4, <2>5 DEF OnMap
      <4>3. j + 1 \in 0..Level(n) /\ j + 1 \in -1..2 /\ j + 1 >= 0 /\ j + 1 <= Level(n)
        BY <3>2, <2>5, Levels
      <4>4. s \in Slots
        BY <4>1, <4>3, <2>5, Indices
      <4>5. <<n, j + 1>> \in {y \in Places : y[2] >= 0}
        BY <4>3, <2>5 DEF Places
      <4>6. a = Way(inode[f], <<n, j + 1>>[1])[<<n, j + 1>>[2]]
        BY <4>1, <2>2, WayIsPath DEF DiskPtrs
      <4>7. a \in AddressBlocks(f)
        BY <4>2, <4>5, <4>6 DEF AddressBlocks
      <4>8. <<a, s>> \in {u \in (UNION {AddressBlocks(g) : g \in Whole}) \X Slots : blk[u[1]][u[2]] = b}
        BY <4>2, <4>4, <4>7
      <4>9. r[b].src = <<"block", <<a, s>>[1], <<a, s>>[2]>>
        BY <4>2
      <4> QED
        BY <4>8, <4>9 DEF PointersTo
    <3> QED
      BY <3>1, <3>2
  <2>9. PointersTo(b, Whole) = {r[b].src}
    BY <2>7, <2>8
  <2> QED
    BY <2>6, <2>9, FS_Singleton
<1> QED
  BY <1>1, Invariance, PTL

-----------------------------------------------------------------------------
(* Which blocks a file should have *)

\* The blocks on the paths of the files fs
Hold(c, q, fs) == {x \in Data : \E f \in fs, n \in Blocks : \E j \in -1..Level(n) :
                                   Path(c, q[f], n)[j] = x}

\* Block m of file f is a reason to have what is on its path down to level l: o
\* has it, or all these blocks are written off (w)
Reason(c, q, f, m, l, o, w) ==
  <<f, m>> \in o \/ \A i \in l..Level(m) : Path(c, q[f], m)[i] \in w

\* There is a reason to have block y, on level l of file f
Justified(c, q, f, y, l, o, w) ==
  \E m \in Blocks : l \in -1..Level(m) /\ Path(c, q[f], m)[l] = y /\ Reason(c, q, f, m, l, o, w)

\* There is one for every pointer of the files fs
Tight(c, q, fs, o, w) ==
  /\ \A f \in fs, p \in Pointers : q[f][p] # 0 => Justified(c, q, f, q[f][p], LevelOf(p), o, w)
  /\ \A f \in fs, n \in Blocks : \A j \in 0..Level(n), s \in Slots :
       Path(c, q[f], n)[j] # 0 /\ c[Path(c, q[f], n)[j]][s] # 0
         => Justified(c, q, f, c[Path(c, q[f], n)[j]][s], j - 1, o, w)

\* So there is one for every block.
LEMMA BlockJustified ==
  ASSUME NEW r, NEW c, NEW q, NEW fr, NEW fs, Mapped(r, c, q, fr, fs),
         NEW o, NEW w, Tight(c, q, fs, o, w),
         NEW f \in fs, NEW n \in Blocks, NEW j \in -1..Level(n), Path(c, q[f], n)[j] # 0
  PROVE  Justified(c, q, f, Path(c, q[f], n)[j], j, o, w)
<1>1. PICK L \in -1..2 : L = Level(n) /\ Pointer(n) \in Pointers /\ LevelOf(Pointer(n)) = L
  BY Levels
<1>2. CASE j = L
  BY <1>1, <1>2, PathSteps DEF Tight
<1>3. CASE j # L
  <2>1. j + 1 \in 0..Level(n) /\ (j + 1) - 1 = j
    BY <1>1, <1>3
  <2>2. /\ Path(c, q[f], n)[j + 1] # 0 /\ Index(n, j + 1) \in Slots
        /\ c[Path(c, q[f], n)[j + 1]][Index(n, j + 1)] = Path(c, q[f], n)[j]
    BY <2>1, <1>1, <1>3, PathOnMap, Indices DEF OnMap
  <2> QED
    BY <2>1, <2>2 DEF Tight
<1> QED
  BY <1>2, <1>3

\* The pointers are the old ones, of some of the files, or gone, and where they
\* are not gone what is behind them is as it was; the reasons are as good as
\* the old ones
Kept(c, q, o, w, gs, c2, q2, o2, w2) ==
  /\ \A f \in gs, p \in Pointers : q2[f][p] = q[f][p] \/ q2[f][p] = 0
  /\ \A f \in gs, n \in Blocks : \A j \in 0..Level(n), s \in Slots :
       q2[f][Pointer(n)] # 0 /\ Path(c, q[f], n)[j] # 0
         => c2[Path(c, q[f], n)[j]][s] = c[Path(c, q[f], n)[j]][s]
  /\ w \subseteq w2
  /\ \A f \in gs, m \in Blocks : <<f, m>> \in o =>
       \/ <<f, m>> \in o2
       \/ \A i \in -1..Level(m) : Path(c, q[f], m)[i] # 0 => Path(c, q[f], m)[i] \in w2

\* The paths are as before, or gone, and there is a reason for those that are left.
LEMMA TightKept ==
  ASSUME NEW r, NEW c, NEW q, NEW fr, NEW fs, Mapped(r, c, q, fr, fs),
         NEW o, NEW w, Tight(c, q, fs, o, w), NEW gs \in SUBSET fs,
         NEW c2, NEW q2, NEW o2, NEW w2, Kept(c, q, o, w, gs, c2, q2, o2, w2)
  PROVE  /\ \A f \in gs, n \in Blocks : \A j \in -1..Level(n) :
              Path(c2, q2[f], n)[j] = IF q2[f][Pointer(n)] = 0 THEN 0 ELSE Path(c, q[f], n)[j]
         /\ Tight(c2, q2, gs, o2, w2)
<1>1. ASSUME NEW f \in gs, NEW n \in Blocks, q2[f][Pointer(n)] # 0
      PROVE  \A j \in -1..Level(n) : Path(c2, q2[f], n)[j] = Path(c, q[f], n)[j]
  <2>1. ASSUME NEW j \in (-1 + 1)..Level(n), Path(c, q[f], n)[j] \in Data
        PROVE  c2[Path(c, q[f], n)[j]][Index(n, j)] = c[Path(c, q[f], n)[j]][Index(n, j)]
    <3>1. j \in 0..Level(n) /\ Path(c, q[f], n)[j] # 0
      BY <2>1, CrashConstants
    <3> QED
      BY <1>1, <3>1, Indices DEF Kept
  <2>2. -1 \in -1..3 /\ q2[f][Pointer(n)] = q[f][Pointer(n)]
    BY <1>1, Levels DEF Kept
  <2> QED
    BY <2>1, <2>2, PathSame
<1>2. ASSUME NEW f \in gs, NEW n \in Blocks, q2[f][Pointer(n)] = 0
      PROVE  \A j \in -1..Level(n) : Path(c2, q2[f], n)[j] = 0
  <2>1. Level(n) \in -1..Level(n)
    BY Levels
  <2>2. Path(c2, q2[f], n)[Level(n)] = 0
    BY <1>2, PathSteps
  <2> QED
    BY <2>1, <2>2, NothingBelow
<1>3. \A f \in gs, n \in Blocks : \A j \in -1..Level(n) :
        Path(c2, q2[f], n)[j] = IF q2[f][Pointer(n)] = 0 THEN 0 ELSE Path(c, q[f], n)[j]
  BY <1>1, <1>2
<1>4. ASSUME NEW f \in gs, NEW y, NEW l, y # 0, Justified(c, q, f, y, l, o, w),
             \A m \in Blocks : l \in -1..Level(m) /\ Path(c, q[f], m)[l] = y => q2[f][Pointer(m)] # 0
      PROVE  Justified(c2, q2, f, y, l, o2, w2)
  <2>1. PICK m \in Blocks : l \in -1..Level(m) /\ Path(c, q[f], m)[l] = y /\ Reason(c, q, f, m, l, o, w)
    BY <1>4 DEF Justified
  <2>2. \A j \in -1..Level(m) : Path(c2, q2[f], m)[j] = Path(c, q[f], m)[j]
    BY <2>1, <1>1, <1>4
  <2>3. \A i \in l..Level(m) : i \in -1..Level(m) /\ Path(c, q[f], m)[i] # 0
    <3>1. PICK L \in -1..2 : L = Level(m)
      BY Levels
    <3>2. ASSUME NEW i \in l..L, Path(c, q[f], m)[i] = 0 PROVE FALSE
      <4>1. i \in -1..Level(m) /\ l \in -1..i
        BY <3>1, <2>1
      <4> QED
        BY <4>1, <3>2, <2>1, <1>4, NothingBelow
    <3> QED
      BY <3>1, <3>2, <2>1
  <2>4. CASE <<f, m>> \in o2
    BY <2>1, <2>2, <2>4 DEF Justified, Reason
  <2>5. CASE \A i \in l..Level(m) : Path(c, q[f], m)[i] \in w2
    <3>1. \A i \in l..Level(m) : Path(c2, q2[f], m)[i] \in w2
      BY <2>2, <2>3, <2>5
    <3> QED
      BY <2>1, <2>2, <3>1 DEF Justified, Reason
  <2>6. <<f, m>> \in o2 \/ \A i \in l..Level(m) : Path(c, q[f], m)[i] \in w2
    BY <2>1, <2>3 DEF Kept, Reason
  <2> QED
    BY <2>4, <2>5, <2>6
<1>5. ASSUME NEW f \in gs, NEW m \in Blocks, NEW l \in -1..Level(m), Path(c, q[f], m)[l] # 0
      PROVE  OnMap(r, c, q, f, m, l)
  BY PathOnMap
<1>6. ASSUME NEW f \in gs, NEW p \in Pointers, q2[f][p] # 0
      PROVE  Justified(c2, q2, f, q2[f][p], LevelOf(p), o2, w2)
  <2>1. q2[f][p] = q[f][p] /\ f \in fs
    BY <1>6 DEF Kept
  <2>2. Justified(c, q, f, q[f][p], LevelOf(p), o, w)
    BY <2>1, <1>6 DEF Tight
  <2>3. Child(r, q[f][p], f, p, LevelOf(p), <<"inode", f, p>>)
    BY <2>1, <1>6 DEF Mapped
  <2>4. ASSUME NEW m \in Blocks, NEW l \in -1..Level(m), Path(c, q[f], m)[l] = q[f][p]
        PROVE  q2[f][Pointer(m)] # 0
    <3>1. OnMap(r, c, q, f, m, l)
      BY <2>1, <2>4, <1>5, <1>6
    <3>2. r[q[f][p]].top = Pointer(m) /\ r[q[f][p]].top = p
      BY <2>1, <2>3, <2>4, <3>1, <1>6 DEF OnMap, Child
    <3> QED
      BY <3>2, <1>6
  <2> QED
    BY <2>1, <2>2, <2>4, <1>4, <1>6
<1>7. ASSUME NEW f \in gs, NEW n \in Blocks, NEW j \in 0..Level(n), NEW s \in Slots,
             Path(c2, q2[f], n)[j] # 0, c2[Path(c2, q2[f], n)[j]][s] # 0
      PROVE  Justified(c2, q2, f, c2[Path(c2, q2[f], n)[j]][s], j - 1, o2, w2)
  <2>1. j \in -1..Level(n) /\ j >= 0 /\ f \in fs
    BY Levels
  <2>2. q2[f][Pointer(n)] # 0
    BY <1>2, <1>7, <2>1
  <2>3. PICK a : a = Path(c, q[f], n)[j] /\ a = Path(c2, q2[f], n)[j] /\ a # 0
    BY <2>1, <2>2, <1>1, <1>7
  <2>4. PICK y : y = c[a][s] /\ y = c2[a][s] /\ y # 0
    <3>1. c2[a][s] = c[a][s]
      BY <2>2, <2>3 DEF Kept
    <3> QED
      BY <3>1, <2>3, <1>7
  <2>5. Justified(c, q, f, y, j - 1, o, w)
    BY <2>1, <2>3, <2>4 DEF Tight
  <2>6. OnMap(r, c, q, f, n, j)
    BY <2>1, <2>3, <1>5
  <2>7. a \in DOMAIN r /\ r[a].top = Pointer(n) /\ r[a].lev >= 0
    BY <2>1, <2>3, <2>6 DEF OnMap
  <2>8. Child(r, y, r[a].own, r[a].top, r[a].lev - 1, <<"block", a, s>>)
    BY <2>4, <2>7 DEF Mapped
  <2>9. ASSUME NEW m \in Blocks, j - 1 \in -1..Level(m), Path(c, q[f], m)[j - 1] = y
        PROVE  q2[f][Pointer(m)] # 0
    <3>1. OnMap(r, c, q, f, m, j - 1)
      BY <2>4, <2>9, <1>5
    <3>2. r[y].top = Pointer(m) /\ r[y].top = Pointer(n)
      BY <2>4, <2>7, <2>8, <2>9, <3>1 DEF OnMap, Child
    <3> QED
      BY <3>2, <2>2
  <2>10. Justified(c2, q2, f, y, j - 1, o2, w2)
    BY <2>4, <2>5, <2>9, <1>4
  <2> QED
    BY <2>3, <2>4, <2>10
<1> QED
  BY <1>3, <1>6, <1>7 DEF Tight

\* Without block x there is a reason for the others as before.
LEMMA TightCut ==
  ASSUME NEW r, NEW c, NEW q, NEW fr, NEW fs, Mapped(r, c, q, fr, fs),
         NEW o, NEW w, Tight(c, q, fs, o, w),
         NEW c2, NEW q2, NEW x, CutAway(r, c, q, fs, x, c2, q2)
  PROVE  /\ \A f \in fs, n \in Blocks : \A j \in -1..Level(n) :
              Path(c2, q2[f], n)[j] = IF Path(c, q[f], n)[j] = x THEN 0 ELSE Path(c, q[f], n)[j]
         /\ Tight(c2, q2, fs, o, w)
<1>1. \A f \in fs, n \in Blocks : \A j \in -1..Level(n) :
        Path(c2, q2[f], n)[j] = IF Path(c, q[f], n)[j] = x THEN 0 ELSE Path(c, q[f], n)[j]
  BY CutPaths
<1>2. ASSUME NEW f \in fs, NEW n \in Blocks, NEW j \in -1..Level(n), Path(c, q[f], n)[j] # 0,
             Path(c, q[f], n)[j] # x
      PROVE  \A i \in j..Level(n) : Path(c2, q2[f], n)[i] = Path(c, q[f], n)[i]
  <2>1. PICK L \in -1..2 : L = Level(n)
    BY Levels
  <2>2. ASSUME NEW i \in j..L, Path(c, q[f], n)[i] = x PROVE FALSE
    <3>1. i \in -1..Level(n) /\ j \in -1..i
      BY <2>1
    <3>2. Path(c2, q2[f], n)[i] = 0
      BY <3>1, <2>2, <1>1
    <3>3. Path(c2, q2[f], n)[j] = 0
      BY <3>1, <3>2, NothingBelow
    <3> QED
      BY <3>3, <1>1, <1>2
  <2>3. \A i \in j..L : i \in -1..Level(n)
    BY <2>1
  <2> QED
    BY <2>1, <2>2, <2>3, <1>1
<1>3. ASSUME NEW f \in fs, NEW y, NEW l, y # x, y # 0, Justified(c, q, f, y, l, o, w)
      PROVE  Justified(c2, q2, f, y, l, o, w)
  <2>1. PICK m \in Blocks : l \in -1..Level(m) /\ Path(c, q[f], m)[l] = y /\ Reason(c, q, f, m, l, o, w)
    BY <1>3 DEF Justified
  <2>2. \A i \in l..Level(m) : Path(c2, q2[f], m)[i] = Path(c, q[f], m)[i]
    BY <2>1, <1>2, <1>3
  <2>3. l \in l..Level(m)
    BY <2>1, Levels
  <2>4. Reason(c2, q2, f, m, l, o, w)
    BY <2>1, <2>2 DEF Reason
  <2> QED
    BY <2>1, <2>2, <2>3, <2>4 DEF Justified
<1>4. ASSUME NEW f \in fs, NEW p \in Pointers, q2[f][p] # 0
      PROVE  Justified(c2, q2, f, q2[f][p], LevelOf(p), o, w)
  <2>1. q2[f][p] = q[f][p] /\ q[f][p] # x
    BY <1>4 DEF CutAway
  <2> QED
    BY <2>1, <1>3, <1>4 DEF Tight
<1>5. ASSUME NEW f \in fs, NEW n \in Blocks, NEW j \in 0..Level(n), NEW s \in Slots,
             Path(c2, q2[f], n)[j] # 0, c2[Path(c2, q2[f], n)[j]][s] # 0
      PROVE  Justified(c2, q2, f, c2[Path(c2, q2[f], n)[j]][s], j - 1, o, w)
  <2>1. j \in -1..Level(n) /\ j >= 0
    BY Levels
  <2>2. PICK a : a = Path(c, q[f], n)[j] /\ a = Path(c2, q2[f], n)[j] /\ a # x /\ a # 0
    BY <2>1, <1>1, <1>5
  <2>3. OnMap(r, c, q, f, n, j)
    BY <2>1, PathOnMap
  <2>4. a \in DOMAIN r /\ r[a].lev >= 0
    BY <2>1, <2>2, <2>3 DEF OnMap
  <2>5. c2[a][s] = c[a][s] /\ c[a][s] # x /\ c[a][s] # 0
    <3>1. c2[a][s] = IF c[a][s] = x THEN 0 ELSE c[a][s]
      BY <2>2, <2>4 DEF CutAway
    <3> QED
      BY <3>1, <2>2, <1>5
  <2>6. Justified(c, q, f, c[a][s], j - 1, o, w)
    BY <2>2, <2>5 DEF Tight
  <2> QED
    BY <2>2, <2>5, <2>6, <1>3
<1> QED
  BY <1>1, <1>4, <1>5 DEF Tight

\* With a block more there is a reason for the others as before, and one for it
\* if it is on the path of a block of o.
LEMMA TightGrow ==
  ASSUME NEW r, NEW c, NEW q, NEW fr, NEW fs, Mapped(r, c, q, fr, fs),
         NEW o, NEW w, Tight(c, q, fs, o, w),
         NEW c2, NEW q2, NEW b, NEW g, NEW p, NEW l, NEW v,
         Attached(r, c, q, fs, c2, q2, b, g, p, l, v),
         NEW m0 \in Blocks, l \in -1..Level(m0), Path(c2, q2[g], m0)[l] = b, <<g, m0>> \in o
  PROVE  /\ \A f \in fs, n \in Blocks : \A j \in -1..Level(n) :
              \/ Path(c2, q2[f], n)[j] = Path(c, q[f], n)[j]
              \/ Path(c2, q2[f], n)[j] = b /\ Path(c, q[f], n)[j] = 0
         /\ Tight(c2, q2, fs, o, w)
<1>1. \A f \in fs, n \in Blocks : \A j \in -1..Level(n) :
        \/ Path(c2, q2[f], n)[j] = Path(c, q[f], n)[j]
        \/ Path(c2, q2[f], n)[j] = b /\ Path(c, q[f], n)[j] = 0
  BY Grow
<1>2. b \in Data /\ b # 0 /\ b \notin DOMAIN r /\ g \in fs /\ \A s \in Slots : c2[b][s] = 0
  BY CrashConstants DEF Attached
<1>3. ASSUME NEW f \in fs, NEW y, NEW k, y # 0, Justified(c, q, f, y, k, o, w)
      PROVE  Justified(c2, q2, f, y, k, o, w)
  <2>1. PICK m \in Blocks : k \in -1..Level(m) /\ Path(c, q[f], m)[k] = y /\ Reason(c, q, f, m, k, o, w)
    BY <1>3 DEF Justified
  <2>2. PICK L \in -1..2 : L = Level(m)
    BY Levels
  <2>3. ASSUME NEW i \in k..L PROVE Path(c2, q2[f], m)[i] = Path(c, q[f], m)[i]
    <3>1. i \in -1..Level(m) /\ k \in -1..i
      BY <2>1, <2>2
    <3>2. Path(c, q[f], m)[i] # 0
      BY <3>1, <2>1, <1>3, NothingBelow
    <3> QED
      BY <3>1, <3>2, <1>1
  <2>4. Reason(c2, q2, f, m, k, o, w)
    BY <2>1, <2>2, <2>3 DEF Reason
  <2>5. k \in k..L
    BY <2>1, <2>2
  <2>6. Path(c2, q2[f], m)[k] = y
    BY <2>1, <2>3, <2>5
  <2> QED
    BY <2>1, <2>4, <2>6 DEF Justified
<1>4. Justified(c2, q2, g, b, l, o, w)
  BY DEF Justified, Reason
<1>5. ASSUME NEW f \in fs, NEW t \in Pointers, q2[f][t] # 0
      PROVE  Justified(c2, q2, f, q2[f][t], LevelOf(t), o, w)
  <2>1. CASE q2[f][t] = q[f][t]
    BY <2>1, <1>3, <1>5 DEF Tight
  <2>2. CASE q2[f][t] = b /\ f = g /\ t = p /\ l = LevelOf(p)
    BY <2>2, <1>4
  <2> QED
    BY <2>1, <2>2 DEF Attached
<1>6. ASSUME NEW f \in fs, NEW n \in Blocks, NEW j \in 0..Level(n), NEW s \in Slots,
             Path(c2, q2[f], n)[j] # 0, c2[Path(c2, q2[f], n)[j]][s] # 0
      PROVE  Justified(c2, q2, f, c2[Path(c2, q2[f], n)[j]][s], j - 1, o, w)
  <2>1. j \in -1..Level(n) /\ j >= 0
    BY Levels
  <2>2. PICK a : a = Path(c, q[f], n)[j] /\ a = Path(c2, q2[f], n)[j] /\ a # 0
    BY <2>1, <1>1, <1>2, <1>6
  <2>3. OnMap(r, c, q, f, n, j)
    BY <2>1, PathOnMap
  <2>4. a \in DOMAIN r /\ r[a].lev >= 0 /\ r[a].lev = j /\ r[a].own = f
    BY <2>1, <2>2, <2>3 DEF OnMap
  <2>5. CASE c2[a][s] = c[a][s]
    <3>1. c[a][s] # 0
      BY <2>2, <2>5, <1>6
    <3>2. Justified(c, q, f, c[a][s], j - 1, o, w)
      BY <2>2, <3>1 DEF Tight
    <3> QED
      BY <2>2, <2>5, <3>1, <3>2, <1>3
  <2>6. CASE c2[a][s] = b /\ f = g /\ j - 1 = l
    BY <2>2, <2>6, <1>4
  <2>7. c2[a][s] = c[a][s] \/ (c2[a][s] = b /\ f = g /\ j - 1 = l)
    BY <2>4 DEF Attached
  <2> QED
    BY <2>5, <2>6, <2>7
<1> QED
  BY <1>1, <1>5, <1>6 DEF Tight

\* The way to block n has no needless end: it does not begin, or the last block on
\* it leads elsewhere
Pruned(c, u, n) ==
  \/ u[Pointer(n)] = 0
  \/ \E i \in 0..Level(n), s \in Slots :
       Path(c, u, n)[i] # 0 /\ Path(c, u, n)[i - 1] = 0 /\ c[Path(c, u, n)[i]][s] # 0

\* Then block n is not needed as a reason.
LEMMA TightDrop ==
  ASSUME NEW r, NEW c, NEW q, NEW fr, NEW fs, Mapped(r, c, q, fr, fs),
         NEW o, NEW w, Tight(c, q, fs, o, w),
         NEW f0 \in fs, NEW n0 \in Blocks, Pruned(c, q[f0], n0),
         NEW o2, \A f \in fs, m \in Blocks : <<f, m>> \in o => <<f, m>> \in o2 \/ (f = f0 /\ m = n0)
  PROVE  Tight(c, q, fs, o2, w)
<1>1. PICK L \in -1..2 : L = Level(n0) /\ Pointer(n0) \in Pointers
  BY Levels
<1>2. \A j \in -1..L : OnMap(r, c, q, f0, n0, j)
  BY <1>1, PathOnMap
<1>3. CASE q[f0][Pointer(n0)] = 0
  <2>1. \A j \in -1..L : Path(c, q[f0], n0)[j] = 0
    <3>1. Path(c, q[f0], n0)[L] = 0 /\ L \in -1..Level(n0)
      BY <1>1, <1>3, PathSteps
    <3> QED
      BY <3>1, NothingBelow
  <2>2. ASSUME NEW f \in fs, NEW y, NEW l, y # 0, Justified(c, q, f, y, l, o, w)
        PROVE  Justified(c, q, f, y, l, o2, w)
    <3>1. PICK m \in Blocks : l \in -1..Level(m) /\ Path(c, q[f], m)[l] = y /\ Reason(c, q, f, m, l, o, w)
      BY <2>2 DEF Justified
    <3>2. ~ (f = f0 /\ m = n0)
      BY <3>1, <2>1, <2>2, <1>1
    <3>3. Reason(c, q, f, m, l, o2, w)
      BY <3>1, <3>2 DEF Reason
    <3> QED
      BY <3>1, <3>3 DEF Justified
  <2> QED
    BY <2>2 DEF Tight
<1>4. CASE \E i \in 0..Level(n0), s \in Slots :
             Path(c, q[f0], n0)[i] # 0 /\ Path(c, q[f0], n0)[i - 1] = 0 /\ c[Path(c, q[f0], n0)[i]][s] # 0
  <2>1. PICK i \in 0..L, s \in Slots :
           Path(c, q[f0], n0)[i] # 0 /\ Path(c, q[f0], n0)[i - 1] = 0 /\ c[Path(c, q[f0], n0)[i]][s] # 0
    BY <1>1, <1>4
  <2>2. PICK a, y : a = Path(c, q[f0], n0)[i] /\ y = c[a][s] /\ a # 0 /\ y # 0
    BY <2>1
  <2>3. i \in -1..L /\ i - 1 \in -1..L /\ i >= 0 /\ (i - 1) + 1 = i /\ L \in -1..Level(n0)
    BY <1>1, <2>1
  <2>4. a \in DOMAIN r /\ r[a].lev = i /\ r[a].own = f0 /\ r[a].top = Pointer(n0)
    BY <1>2, <2>2, <2>3 DEF OnMap
  <2>5. Child(r, y, f0, Pointer(n0), i - 1, <<"block", a, s>>)
    BY <2>2, <2>3, <2>4 DEF Mapped
  <2>6. PICK m \in Blocks : /\ i - 1 \in -1..Level(m) /\ Path(c, q[f0], m)[i - 1] = y
                            /\ Reason(c, q, f0, m, i - 1, o, w)
    BY <1>1, <2>1, <2>2 DEF Tight, Justified
  <2>7. m # n0
    BY <2>1, <2>2, <2>6
  <2>8. OnMap(r, c, q, f0, m, i - 1)
    BY <2>6, PathOnMap
  <2>9. Level(m) = L
    <3>1. Pointer(m) = Pointer(n0)
      BY <2>2, <2>5, <2>6, <2>8 DEF OnMap, Child
    <3> QED
      BY <3>1, <1>1, Levels
  <2>10. Path(c, q[f0], m)[i] = a
    <3>1. r[y].src = <<"block", a, s>>
      BY <2>5 DEF Child
    <3>2. i - 1 # Level(m)
      BY <2>9, <2>1, <1>1
    <3>3. r[y].src = <<"block", Path(c, q[f0], m)[(i - 1) + 1], Index(m, (i - 1) + 1)>>
      BY <2>2, <2>6, <2>8, <3>2 DEF OnMap
    <3> QED
      BY <3>1, <3>3, <2>3
  <2>11. Together(c, q[f0], n0, q[f0], m, i)
    BY <2>2, <2>3, <2>9, <2>10, <1>1, PathsMeet
  <2>12. \A k \in i..L : Path(c, q[f0], n0)[k] = Path(c, q[f0], m)[k]
    BY <2>11, <1>1 DEF Together
  <2>13. ASSUME NEW k \in -1..L, Path(c, q[f0], n0)[k] # 0 PROVE k \in i..L
    <3>1. ASSUME k < i PROVE FALSE
      <4>1. k \in -1..(i - 1) /\ i - 1 \in -1..Level(n0)
        BY <3>1, <2>3, <1>1
      <4> QED
        BY <4>1, <2>1, <2>13, NothingBelow
    <3> QED
      BY <3>1, <1>1, <2>1
  <2>14. ASSUME NEW f \in fs, NEW z, NEW l, z # 0, Justified(c, q, f, z, l, o, w)
        PROVE  Justified(c, q, f, z, l, o2, w)
    <3>1. PICK d \in Blocks : l \in -1..Level(d) /\ Path(c, q[f], d)[l] = z /\ Reason(c, q, f, d, l, o, w)
      BY <2>14 DEF Justified
    <3>2. CASE ~ (f = f0 /\ d = n0)
      <4>1. Reason(c, q, f, d, l, o2, w)
        BY <3>1, <3>2 DEF Reason
      <4> QED
        BY <3>1, <4>1 DEF Justified
    <3>3. CASE f = f0 /\ d = n0
      <4>1. l \in i..L
        BY <3>1, <3>3, <2>13, <2>14, <1>1
      <4>2. l \in -1..Level(m) /\ Path(c, q[f0], m)[l] = z
        BY <4>1, <3>1, <3>3, <2>9, <2>12, <1>1
      <4>3. Reason(c, q, f0, m, l, o2, w)
        <5>1. \A k \in l..L : k \in (i - 1)..L
          BY <4>1, <1>1, <2>1
        <5> QED
          BY <5>1, <2>6, <2>7, <2>9 DEF Reason
      <4> QED
        BY <4>2, <4>3, <3>3 DEF Justified
    <3> QED
      BY <3>2, <3>3
  <2> QED
    BY <2>14 DEF Tight
<1> QED
  BY <1>3, <1>4 DEF Pruned

-----------------------------------------------------------------------------
(* The account of the blocks *)

\* The blocks of the files, as the running system sees them
Held == Hold(Clean, Ptrs, Live)

\* The block that is neither free nor part of a file yet, or any more
Moving == IF At("link") \/ At("give") THEN {call.b} ELSE {}

InUse == free \cup Held \cup Moving

\* The inodes that are in use for nothing: a kill was in the way of their deletion, or
\* they are hurt
Dead == (used \ Live) \ (IF At("bit") THEN {call.file} ELSE {})

\* Block n is a part of file f, or the running call makes it one; for a file that is
\* being deleted, it is still to come
Supports(f, n) == IF Busy /\ f = call.file
                  THEN IF call.del THEN \E i \in 1..Len(call.todo) : call.todo[i].n = n
                       ELSE n < call.ino.size \/ n = N
                  ELSE n < inode[f].size
Supported == {x \in Live \X Blocks : Supports(x[1], x[2])}

\* The inode on disk has nothing where write_i is working
Bare == call.todo # <<>> /\ ~ call.del /\ inode[call.file].ptr[Pointer(N)] = 0

\* Then nothing is there but the way to the block.
Alone == Busy /\ Bare => \A n \in Blocks : Pointer(n) = Pointer(N) =>
           \A j \in -1..Level(n) : CleanWay(call.file, n)[j] # 0
                                     => CleanWay(call.file, n)[j] = CleanWay(call.file, N)[j]

\* write_i changes the size when the block is done.
Sizes == Busy /\ ~ call.del => call.ino.size = inode[call.file].size

\* rm_nth_datablock left no address block that holds nothing.
Trimmed == (At("inode") /\ V = 0) \/ At("full") => Pruned(Clean, Ptrs[call.file], N)

\* The blocks E are on the disk below dead inodes, from there on all the way
Reachable(E) == \A x \in E : \E g \in Dead, n \in Blocks : \E j \in -1..Level(n) :
                  /\ Path(blk, inode[g].ptr, n)[j] = x
                  /\ \A i \in j..Level(n) : Path(blk, inode[g].ptr, n)[i] \in E

\* Every block is free, or part of a file, or below a dead inode (E), or written
\* off (w).  Blocks of a file for which there is no reason are written off,
\* and a kill writes off a way to a block.
Account(E, w) ==
  /\ E \subseteq Data /\ Data \subseteq InUse \cup E \cup w /\ E \cap InUse = {}
  /\ Reachable(E)
  /\ Tight(Clean, Ptrs, Live, Supported, w)
  /\ IsFiniteSet(w) /\ Cardinality(w) <= kills * (Level(MAX_BLOCK) + 2)

LeakInv == Inv /\ Alone /\ Sizes /\ Trimmed /\ \E E, w : Account(E, w)

\* A step that keeps the blocks in use, and touches no others.
LEMMA Balance ==
  ASSUME NEW E, NEW w, Account(E, w), InUse' = InUse,
         \A x \in Data \ InUse : blk'[x] = blk[x],
         Dead \subseteq Dead', \A g \in Dead : inode'[g].ptr = inode[g].ptr,
         kills' = kills, Tight(Clean', Ptrs', Live', Supported', w)
  PROVE  Account(E, w)'
<1>1. E \subseteq Data /\ E \cap InUse = {} /\ Reachable(E)
  BY DEF Account
<1>2. ASSUME NEW x \in E
      PROVE  \E g \in Dead', n \in Blocks : \E j \in -1..Level(n) :
               /\ Path(blk', inode'[g].ptr, n)[j] = x
               /\ \A i \in j..Level(n) : Path(blk', inode'[g].ptr, n)[i] \in E
  <2>1. PICK g \in Dead, n \in Blocks, j \in Int :
           /\ j \in -1..Level(n) /\ Path(blk, inode[g].ptr, n)[j] = x
           /\ \A i \in j..Level(n) : Path(blk, inode[g].ptr, n)[i] \in E
    BY <1>1 DEF Reachable
  <2>2. PICK L \in -1..2 : L = Level(n)
    BY Levels
  <2>3. PICK c2, u, c, u2 : c2 = blk' /\ u2 = inode'[g].ptr /\ c = blk /\ u = inode[g].ptr /\ u2 = u
    OBVIOUS
  <2>4. ASSUME NEW i \in (j + 1)..Level(n)
        PROVE  c2[Path(c, u, n)[i]][Index(n, i)] = c[Path(c, u, n)[i]][Index(n, i)]
    <3>1. i \in j..Level(n)
      BY <2>1, <2>2
    <3>2. Path(c, u, n)[i] \in E
      BY <2>1, <2>3, <3>1
    <3> QED
      BY <3>2, <2>3, <1>1
  <2>5. j \in -1..3 /\ j \in j..Level(n)
    BY <2>1, <2>2
  <2>6. \A i \in j..Level(n) : Path(c2, u2, n)[i] = Path(c, u, n)[i]
    BY <2>3, <2>4, <2>5, PathSame
  <2>7. Path(blk', inode'[g].ptr, n)[j] = x /\ \A i \in j..Level(n) : Path(blk', inode'[g].ptr, n)[i] \in E
    BY <2>1, <2>3, <2>5, <2>6
  <2> QED
    BY <2>1, <2>7
<1>3. Reachable(E)'
  BY <1>2 DEF Reachable
<1>4. /\ E \subseteq Data /\ Data \subseteq InUse' \cup E \cup w /\ E \cap InUse' = {}
      /\ IsFiniteSet(w) /\ Cardinality(w) <= kills' * (Level(MAX_BLOCK) + 2)
  BY DEF Account
<1> QED
  BY <1>3, <1>4 DEF Account

\* The blocks of the files are in the map.
LEMMA HeldMapped ==
  ASSUME NEW r, NEW c, NEW q, NEW fr, NEW fs, Mapped(r, c, q, fr, fs)
  PROVE  /\ Hold(c, q, fs) \subseteq DOMAIN r /\ Hold(c, q, fs) \subseteq Data
         /\ \A f \in fs, n \in Blocks : \A j \in -1..Level(n) :
              Path(c, q[f], n)[j] # 0 => Path(c, q[f], n)[j] \in Hold(c, q, fs)
<1>1. ASSUME NEW f \in fs, NEW n \in Blocks, NEW j \in -1..Level(n), Path(c, q[f], n)[j] # 0
      PROVE  Path(c, q[f], n)[j] \in DOMAIN r /\ Path(c, q[f], n)[j] \in Data
  <2>1. OnMap(r, c, q, f, n, j)
    BY PathOnMap
  <2> QED
    BY <2>1, <1>1 DEF OnMap
<1> QED
  BY <1>1, CrashConstants DEF Hold

\* A step that changes nothing in the view of the blocks.
LEMMA QuietView ==
  ASSUME Inv, Quiet, NEW o, NEW w, Tight(Clean, Ptrs, Live, o, w),
         \A x \in o : x \in Supported'
  PROVE  /\ Tight(Clean', Ptrs', Live', Supported', w) /\ Held' = Held
         /\ \A f \in Live, n \in Blocks : \A j \in -1..Level(n) : CleanWay(f, n)'[j] = CleanWay(f, n)[j]
<1>1. PICK r, c, q, c2, q2, o2, fs : /\ Mapped(r, c, q, free, fs) /\ c = Clean /\ q = Ptrs /\ fs = Live
                                     /\ c2 = Clean' /\ q2 = Ptrs' /\ o2 = Supported'
  BY DEF Inv, Sound
<1>2. /\ Live' = fs /\ \A f \in fs : q2[f] = q[f]
      /\ \A f \in fs, n \in Blocks : \A j \in 0..Level(n), s \in Slots :
           Path(c, q[f], n)[j] # 0 => c2[Path(c, q[f], n)[j]][s] = c[Path(c, q[f], n)[j]][s]
  BY <1>1 DEF Quiet, CleanWay
<1>3. Kept(c, q, o, w, fs, c2, q2, o2, w)
  BY <1>1, <1>2 DEF Kept
<1>4. /\ \A f \in fs, n \in Blocks : \A j \in -1..Level(n) :
           Path(c2, q2[f], n)[j] = IF q2[f][Pointer(n)] = 0 THEN 0 ELSE Path(c, q[f], n)[j]
      /\ Tight(c2, q2, fs, o2, w)
  <2>1. PICK gs \in SUBSET fs : gs = fs
    OBVIOUS
  <2>2. Mapped(r, c, q, free, fs) /\ Tight(c, q, fs, o, w) /\ Kept(c, q, o, w, gs, c2, q2, o2, w)
    BY <1>1, <1>3, <2>1
  <2>3. /\ \A f \in gs, n \in Blocks : \A j \in -1..Level(n) :
             Path(c2, q2[f], n)[j] = IF q2[f][Pointer(n)] = 0 THEN 0 ELSE Path(c, q[f], n)[j]
        /\ Tight(c2, q2, gs, o2, w)
    BY <2>2, TightKept
  <2> QED
    BY <2>1, <2>3
<1>5. ASSUME NEW f \in fs, NEW n \in Blocks, NEW j \in -1..Level(n)
      PROVE  Path(c2, q2[f], n)[j] = Path(c, q[f], n)[j]
  <2>1. CASE q2[f][Pointer(n)] # 0
    BY <2>1, <1>4
  <2>2. CASE q2[f][Pointer(n)] = 0
    <3>1. Level(n) \in -1..Level(n) /\ j \in -1..Level(n) /\ Path(c, q[f], n)[Level(n)] = 0
      BY <2>2, <1>2, Levels, PathSteps
    <3>2. Path(c, q[f], n)[j] = 0
      BY <3>1, NothingBelow
    <3> QED
      BY <2>2, <3>2, <1>4
  <2> QED
    BY <2>1, <2>2
<1>6. Held' = Held
  <2>1. Hold(c2, q2, fs) = Hold(c, q, fs)
    BY <1>5 DEF Hold
  <2>2. Held' = Hold(c2, q2, fs)
    BY <1>1, <1>2 DEF Held
  <2> QED
    BY <2>1, <2>2, <1>1 DEF Held
<1>7. ASSUME NEW f \in Live, NEW n \in Blocks, NEW j \in -1..Level(n)
      PROVE  CleanWay(f, n)'[j] = CleanWay(f, n)[j]
  BY <1>1, <1>5 DEF CleanWay
<1> QED
  BY <1>1, <1>2, <1>4, <1>6, <1>7

\* A step that takes a block away.
LEMMA CutView ==
  ASSUME Inv, NEW x, Cutting(x), NEW w, Tight(Clean, Ptrs, Live, Supported, w),
         Supported' = Supported
  PROVE  /\ Tight(Clean', Ptrs', Live', Supported', w) /\ Held' = Held \ {x} /\ x # 0 /\ x \in Data
         /\ \A f \in Live, n \in Blocks : \A j \in -1..Level(n) :
              CleanWay(f, n)'[j] = IF CleanWay(f, n)[j] = x THEN 0 ELSE CleanWay(f, n)[j]
<1>1. PICK r, c, q, c2, q2, o, fs :
        /\ Mapped(r, c, q, free, fs) /\ c = Clean /\ q = Ptrs /\ fs = Live /\ CutAway(r, c, q, fs, x, c2, q2)
        /\ c2 = Clean' /\ q2 = Ptrs' /\ o = Supported /\ Live' = fs /\ Supported' = o
  BY DEF Cutting
<1>2. /\ \A f \in fs, n \in Blocks : \A j \in -1..Level(n) :
           Path(c2, q2[f], n)[j] = IF Path(c, q[f], n)[j] = x THEN 0 ELSE Path(c, q[f], n)[j]
      /\ Tight(c2, q2, fs, o, w)
  <2>1. Tight(c, q, fs, o, w)
    BY <1>1
  <2> QED
    BY <1>1, <2>1, TightCut
<1>3. x # 0 /\ x \in Data
  BY <1>1, CrashConstants DEF CutAway, Mapped
<1>4. Hold(c2, q2, fs) = Hold(c, q, fs) \ {x}
  <2>1. \A y \in Data : y # 0
    BY CrashConstants
  <2> QED
    BY <2>1, <1>2 DEF Hold
<1>5. Held' = Hold(c2, q2, fs) /\ Held = Hold(c, q, fs)
  BY <1>1 DEF Held
<1>6. ASSUME NEW f \in Live, NEW n \in Blocks, NEW j \in -1..Level(n)
      PROVE  CleanWay(f, n)'[j] = IF CleanWay(f, n)[j] = x THEN 0 ELSE CleanWay(f, n)[j]
  BY <1>1, <1>2 DEF CleanWay
<1> QED
  BY <1>1, <1>2, <1>3, <1>4, <1>5, <1>6

\* A step that adds a block.
LEMMA GrowView ==
  ASSUME Inv, Busy, call.todo # <<>>, NEW b, NEW l, Growing(b, l), NEW w,
         Tight(Clean, Ptrs, Live, Supported, w),
         Supported' = Supported, <<call.file, N>> \in Supported
  PROVE  /\ Tight(Clean', Ptrs', Live', Supported', w) /\ Held' = Held \cup {b} /\ b # 0 /\ b \in Data
         /\ \A n \in Blocks : \A j \in -1..Level(n) :
              \/ Path(Clean', Ptrs'[call.file], n)[j] = CleanWay(call.file, n)[j]
              \/ Path(Clean', Ptrs'[call.file], n)[j] = b /\ j = l /\ CleanWay(call.file, n)[j] = 0
         /\ l \in -1..Level(N) /\ Path(Clean', Ptrs'[call.file], N)[l] = b
<1>1. PICK r, v, c, q, c2, q2, o, fs, g, n0, p :
        /\ Mapped(r, c, q, free, fs) /\ c = Clean /\ q = Ptrs /\ fs = Live
        /\ g = call.file /\ n0 = N /\ p = Pointer(N) /\ Attached(r, c, q, fs, c2, q2, b, g, p, l, v)
        /\ c2 = Clean' /\ q2 = Ptrs' /\ o = Supported /\ Live' = fs /\ Supported' = o
        /\ l \in -1..Level(n0) /\ Path(c2, q2[g], n0)[l] = b
  BY DEF Growing
<1>2. n0 \in Blocks /\ g \in fs /\ <<g, n0>> \in o /\ Tight(c, q, fs, o, w)
  BY <1>1, CallBlock DEF Live, Inv
<1>3. /\ \A f \in fs, n \in Blocks : \A j \in -1..Level(n) :
           \/ Path(c2, q2[f], n)[j] = Path(c, q[f], n)[j]
           \/ Path(c2, q2[f], n)[j] = b /\ Path(c, q[f], n)[j] = 0
      /\ Tight(c2, q2, fs, o, w)
  BY <1>1, <1>2, TightGrow
<1>4. b # 0 /\ b \in Data
  BY <1>1, CrashConstants DEF Attached
<1>5. Hold(c2, q2, fs) = Hold(c, q, fs) \cup {b}
  <2>1. \A y \in Data : y # 0
    BY CrashConstants
  <2>2. b \in Hold(c2, q2, fs)
    BY <1>1, <1>2, <1>4 DEF Hold
  <2>3. ASSUME NEW y \in Hold(c2, q2, fs), y # b PROVE y \in Hold(c, q, fs)
    BY <2>3, <1>3 DEF Hold
  <2>4. ASSUME NEW y \in Hold(c, q, fs) PROVE y \in Hold(c2, q2, fs)
    BY <2>1, <1>3 DEF Hold
  <2> QED
    BY <2>2, <2>3, <2>4
<1>6. Held' = Hold(c2, q2, fs) /\ Held = Hold(c, q, fs)
  BY <1>1 DEF Held
<1>7. ASSUME NEW n \in Blocks, NEW j \in -1..Level(n), Path(c2, q2[g], n)[j] = b PROVE j = l
  <2>1. PICK fr2 : fr2 = free \ {b}
    OBVIOUS
  <2>2. Mapped(With(r, b, [own |-> g, top |-> p, lev |-> l, src |-> v]), c2, q2, fr2, fs)
    <3>1. fr2 \subseteq free /\ b \notin fr2
      BY <2>1
    <3> QED
      BY <3>1, <1>1, Attach
  <2>3. PICK r2 : Mapped(r2, c2, q2, fr2, fs)
    BY <2>2
  <2>4. Path(c2, q2[g], n)[j] = Path(c2, q2[g], n0)[l]
    BY <1>1, <1>7
  <2> QED
    BY <2>3, <2>4, <1>1, <1>2, <1>4, <1>7, PathsMeet
<1>8. ASSUME NEW n \in Blocks, NEW j \in -1..Level(n)
      PROVE  \/ Path(Clean', Ptrs'[call.file], n)[j] = CleanWay(call.file, n)[j]
             \/ Path(Clean', Ptrs'[call.file], n)[j] = b /\ j = l /\ CleanWay(call.file, n)[j] = 0
  <2>1. CleanWay(call.file, n) = Path(c, q[g], n)
    BY <1>1 DEF CleanWay
  <2> QED
    BY <2>1, <1>1, <1>2, <1>3, <1>7 DEF CleanWay
<1> QED
  BY <1>1, <1>3, <1>4, <1>5, <1>6, <1>8

-----------------------------------------------------------------------------
(* The account within a call *)

\* The call goes on with the same block of the same file
Within ==
  /\ Busy /\ Busy' /\ call.todo # <<>>
  /\ call'.file = call.file /\ call'.todo = call.todo /\ call'.del = call.del
  /\ call'.ino.size = call.ino.size
  /\ UNCHANGED <<inode, used, named, hurt, kills>>

\* The files and what they should have are the same.
LEMMA WithinSame ==
  ASSUME Inv, Within
  PROVE  /\ N' = N /\ V' = V /\ Live' = Live /\ Dead' = Dead /\ Supported' = Supported
         /\ (Bare' <=> Bare) /\ (Sizes => Sizes') /\ <<call.file, N>> \in Supported
         /\ N \in Blocks /\ call.file \in Live /\ call.file \in Files
         /\ kills' = kills /\ inode' = inode
<1> USE DEF Within
<1>1. N' = N /\ V' = V /\ kills' = kills /\ inode' = inode /\ Live' = Live
  BY DEF N, V, Live
<1>2. ~ At("bit") /\ ~ At("bit")'
  BY DEF At, Busy, Pcs
<1>3. Dead' = Dead
  BY <1>1, <1>2 DEF Dead
<1>4. \A f, n : Supports(f, n)' <=> Supports(f, n)
  BY <1>1 DEF Supports
<1>5. Supported' = Supported
  <2>1. \A x : x \in Supported' <=> x \in Supported
    BY <1>1, <1>4 DEF Supported
  <2> QED
    BY <2>1
<1>6. (Bare' <=> Bare) /\ (Sizes => Sizes')
  BY <1>1 DEF Bare, Sizes
<1>7. N \in Blocks /\ call.file \in Live /\ call.file \in Files /\ call.todo \in Seq(Item)
  BY CallBlock DEF Inv, Live, Call
<1>8. Supports(call.file, N)
  <2>1. Head(call.todo) = call.todo[1] /\ 1 \in 1..Len(call.todo)
    BY <1>7, HeadTailProperties, EmptySeq
  <2> QED
    BY <2>1 DEF Supports, N
<1>9. <<call.file, N>> \in Supported
  BY <1>7, <1>8 DEF Supported
<1> QED
  BY <1>1, <1>3, <1>5, <1>6, <1>7, <1>9

\* What the call keeps besides the map
Books(E, w) == Alone /\ Sizes /\ Account(E, w)

\* The view of the blocks is the same.
LEMMA QuietStep ==
  ASSUME Inv, Within, Quiet, NEW E, NEW w, Books(E, w),
         free' \cup Moving' = free \cup Moving, \A x \in Data \ InUse : blk'[x] = blk[x]
  PROVE  /\ Books(E, w)'
         /\ \A j \in -1..Level(N) : Path(Clean', Ptrs'[call.file], N)[j] = CleanWay(call.file, N)[j]
<1>1. /\ N' = N /\ Live' = Live /\ Dead' = Dead /\ Supported' = Supported
      /\ (Bare' <=> Bare) /\ Sizes' /\ N \in Blocks /\ call.file \in Live
      /\ kills' = kills /\ inode' = inode /\ call'.file = call.file /\ Busy
  BY WithinSame DEF Books, Within
<1>2. /\ Tight(Clean', Ptrs', Live', Supported', w) /\ Held' = Held
      /\ \A f \in Live, n \in Blocks : \A j \in -1..Level(n) :
           Path(Clean', Ptrs'[f], n)[j] = CleanWay(f, n)[j]
  <2>1. Tight(Clean, Ptrs, Live, Supported, w) /\ \A x \in Supported : x \in Supported'
    BY <1>1 DEF Books, Account
  <2>2. \A f, n : CleanWay(f, n)' = Path(Clean', Ptrs'[f], n)
    BY DEF CleanWay
  <2> QED
    BY <2>1, <2>2, QuietView
<1>3. InUse' = InUse
  BY <1>2 DEF InUse
<1>4. Account(E, w)'
  BY <1>1, <1>2, <1>3, Balance DEF Books
<1>5. Alone'
  <2> SUFFICES ASSUME Bare, NEW n \in Blocks, Pointer(n) = Pointer(N), NEW j \in -1..Level(n),
                      Path(Clean', Ptrs'[call.file], n)[j] # 0
               PROVE  Path(Clean', Ptrs'[call.file], n)[j] = Path(Clean', Ptrs'[call.file], N)[j]
    BY <1>1 DEF Alone, CleanWay
  <2>1. CleanWay(call.file, n)[j] = Path(Clean', Ptrs'[call.file], n)[j] /\ CleanWay(call.file, n)[j] # 0
    BY <1>1, <1>2
  <2>2. CleanWay(call.file, N)[j] = CleanWay(call.file, n)[j] /\ j \in -1..Level(N)
    BY <2>1, <1>1, Levels DEF Books, Alone
  <2> QED
    BY <2>1, <2>2, <1>1, <1>2
<1> QED
  BY <1>1, <1>2, <1>4, <1>5 DEF Books

\* A block is taken away.
LEMMA CutStep ==
  ASSUME Inv, Within, NEW x, Cutting(x), x \in Held, NEW E, NEW w, Books(E, w),
         free' \cup Moving' = free \cup Moving \cup {x}, \A y \in Data \ InUse : blk'[y] = blk[y]
  PROVE  /\ Books(E, w)'
         /\ \A j \in -1..Level(N) : Path(Clean', Ptrs'[call.file], N)[j] =
              IF CleanWay(call.file, N)[j] = x THEN 0 ELSE CleanWay(call.file, N)[j]
<1>1. /\ N' = N /\ Live' = Live /\ Dead' = Dead /\ Supported' = Supported
      /\ (Bare' <=> Bare) /\ Sizes' /\ N \in Blocks /\ call.file \in Live
      /\ kills' = kills /\ inode' = inode /\ call'.file = call.file /\ Busy
  BY WithinSame DEF Books, Within
<1>2. /\ Tight(Clean', Ptrs', Live', Supported', w) /\ Held' = Held \ {x} /\ x # 0 /\ x \in Data
      /\ \A f \in Live, n \in Blocks : \A j \in -1..Level(n) : Path(Clean', Ptrs'[f], n)[j] =
           IF CleanWay(f, n)[j] = x THEN 0 ELSE CleanWay(f, n)[j]
  <2>1. Tight(Clean, Ptrs, Live, Supported, w)
    BY DEF Books, Account
  <2>2. \A f, n : CleanWay(f, n)' = Path(Clean', Ptrs'[f], n)
    BY DEF CleanWay
  <2> QED
    BY <1>1, <2>1, <2>2, CutView
<1>4. InUse' = InUse
  BY <1>2 DEF InUse
<1>5. Account(E, w)'
  BY <1>1, <1>2, <1>4, Balance DEF Books
<1>6. Alone'
  <2> SUFFICES ASSUME Bare, NEW n \in Blocks, Pointer(n) = Pointer(N), NEW j \in -1..Level(n),
                      Path(Clean', Ptrs'[call.file], n)[j] # 0
               PROVE  Path(Clean', Ptrs'[call.file], n)[j] = Path(Clean', Ptrs'[call.file], N)[j]
    BY <1>1 DEF Alone, CleanWay
  <2>1. CleanWay(call.file, n)[j] = Path(Clean', Ptrs'[call.file], n)[j] /\ CleanWay(call.file, n)[j] # 0
    BY <1>1, <1>2
  <2>2. CleanWay(call.file, N)[j] = CleanWay(call.file, n)[j] /\ j \in -1..Level(N)
    BY <2>1, <1>1, Levels DEF Books, Alone
  <2> QED
    BY <2>1, <2>2, <1>1, <1>2
<1> QED
  BY <1>1, <1>2, <1>5, <1>6 DEF Books

\* A block is added.
LEMMA GrowStep ==
  ASSUME Inv, Within, NEW b, NEW l, Growing(b, l), NEW E, NEW w, Books(E, w),
         free' \cup Moving' \cup {b} = free \cup Moving, \A y \in Data \ InUse : blk'[y] = blk[y]
  PROVE  Books(E, w)'
<1>1. /\ N' = N /\ Live' = Live /\ Dead' = Dead /\ Supported' = Supported
      /\ (Bare' <=> Bare) /\ Sizes' /\ N \in Blocks /\ call.file \in Live
      /\ kills' = kills /\ inode' = inode /\ call'.file = call.file /\ Busy /\ call.todo # <<>>
      /\ <<call.file, N>> \in Supported
  BY WithinSame DEF Books, Within
<1>2. /\ Tight(Clean', Ptrs', Live', Supported', w) /\ Held' = Held \cup {b} /\ b # 0
      /\ \A n \in Blocks : \A j \in -1..Level(n) :
           \/ Path(Clean', Ptrs'[call.file], n)[j] = CleanWay(call.file, n)[j]
           \/ Path(Clean', Ptrs'[call.file], n)[j] = b /\ j = l /\ CleanWay(call.file, n)[j] = 0
      /\ l \in -1..Level(N) /\ Path(Clean', Ptrs'[call.file], N)[l] = b
  <2>1. Tight(Clean, Ptrs, Live, Supported, w)
    BY DEF Books, Account
  <2> QED
    BY <1>1, <2>1, GrowView
<1>3. InUse' = InUse
  BY <1>2 DEF InUse
<1>4. Account(E, w)'
  BY <1>1, <1>2, <1>3, Balance DEF Books
<1>5. Alone'
  <2> SUFFICES ASSUME Bare, NEW n \in Blocks, Pointer(n) = Pointer(N), NEW j \in -1..Level(n),
                      Path(Clean', Ptrs'[call.file], n)[j] # 0
               PROVE  Path(Clean', Ptrs'[call.file], n)[j] = Path(Clean', Ptrs'[call.file], N)[j]
    BY <1>1 DEF Alone, CleanWay
  <2>1. CASE Path(Clean', Ptrs'[call.file], n)[j] = b /\ j = l
    BY <2>1, <1>2
  <2>2. CASE Path(Clean', Ptrs'[call.file], n)[j] = CleanWay(call.file, n)[j]
    <3>1. CleanWay(call.file, N)[j] = CleanWay(call.file, n)[j] /\ CleanWay(call.file, N)[j] # 0
      BY <1>1, <2>2 DEF Books, Alone
    <3>2. j \in -1..Level(N)
      BY <1>1, Levels
    <3> QED
      BY <3>1, <3>2, <2>2, <1>1, <1>2
  <2> QED
    BY <2>1, <2>2, <1>2
<1> QED
  BY <1>1, <1>4, <1>5 DEF Books

\* The blocks on the way of the call are held.
LEMMA WayHeld ==
  ASSUME Inv, Busy, call.todo # <<>>, NEW j \in -1..Level(N), CleanWay(call.file, N)[j] # 0
  PROVE  CleanWay(call.file, N)[j] \in Held
<1>1. PICK r : Mapped(r, Clean, Ptrs, free, Live)
  BY DEF Inv, Sound
<1>2. N \in Blocks /\ call.file \in Live
  BY CallBlock DEF Inv, Live
<1> QED
  BY <1>1, <1>2, HeldMapped DEF Held, CleanWay

\* The start of rm_nth_datablock.
LEMMA RemoveStartsBooks ==
  ASSUME Inv, RemoveWhole \/ RemovePart \/ NoRoom, NEW E, NEW w, Books(E, w)
  PROVE  Books(E, w)' /\ Trimmed'
<1>1. At("block") /\ call.todo # <<>> /\ UNCHANGED <<free, blk, inode, used, named, kills, want, hurt>>
  BY DEF RemoveWhole, RemovePart, NoRoom, Wanted
<1>2. Busy /\ call \in Call
  BY <1>1, CallBlock DEF Inv, At, Busy, Pcs
<1>3. /\ call'.pc = "rm" /\ call'.file = call.file /\ call'.todo = call.todo /\ call'.del = call.del
      /\ call'.ino = call.ino
  BY <1>2 DEF RemoveWhole, RemovePart, NoRoom, StartRemove, Call
<1>4. Within /\ Moving = {} /\ Moving' = {} /\ Trimmed'
  BY <1>1, <1>2, <1>3 DEF Within, Moving, At, Busy, Pcs, Trimmed
<1> QED
  BY <1>1, <1>4, RemoveStartsInv, QuietStep

\* A step of the deleting loop that gives no block back.
LEMMA LoopBooks ==
  ASSUME Inv, (At("rm") /\ Victim = 0) \/ At("clear"), blk' = Clean, Quiet, ~ Given',
         call' = IF AtRoot THEN [call EXCEPT !.pc = call.after] ELSE Upwards(blk'[Parent]),
         UNCHANGED <<free, inode, used, named, kills, want, hurt>>, NEW E, NEW w, Books(E, w)
  PROVE  Books(E, w)' /\ Trimmed'
<1>1. At("rm") \/ Given
  BY DEF Given
<1>2. /\ TypeOK /\ Busy /\ call.todo # <<>> /\ call \in Call
      /\ N \in Blocks /\ call.file \in Files /\ call.file \in Live
      /\ Level(N) \in -1..2 /\ Pointer(N) \in Pointers
      /\ ~ AtRoot => /\ call.j \in 0..Level(N) /\ Parent \in Data
                     /\ CleanWay(call.file, N)[call.j] = Parent
      /\ AtRoot => call.j - 1 = Level(N)
      /\ CleanWay(call.file, N)[call.j - 1] = 0 /\ call.j \in 0..(Level(N) + 1)
  BY <1>1, LoopPath
<1>3. /\ call'.pc \in {"rm", "inode", "full"} /\ call'.file = call.file /\ call'.todo = call.todo
      /\ call'.del = call.del /\ call'.ino = call.ino
      /\ call'.pc # "rm" => AtRoot \/ blk'[Parent] # Zero
  <2>1. call.after \in {"inode", "full"}
    BY <1>2 DEF Call
  <2>2. CASE AtRoot
    BY <2>1, <2>2, <1>2 DEF Call
  <2>3. CASE ~ AtRoot /\ blk'[Parent] = Zero
    BY <2>3, <1>2 DEF Call, Upwards
  <2>4. CASE ~ AtRoot /\ blk'[Parent] # Zero
    BY <2>1, <2>4, <1>2 DEF Call, Upwards
  <2> QED
    BY <2>2, <2>3, <2>4
<1>4. Within /\ Moving = {} /\ Moving' = {}
  BY <1>2, <1>3 DEF Within, Moving, At, Busy, Pcs
<1>5. ASSUME NEW x \in Data \ InUse PROVE blk'[x] = blk[x]
  <2>1. CASE ~ (Given /\ ~ AtRoot /\ x = Parent)
    BY <2>1, <1>2, CleanBlocks
  <2>2. CASE ~ AtRoot /\ x = Parent
    <3>1. call.j \in -1..Level(N) /\ Parent # 0
      BY <2>2, <1>2, CrashConstants
    <3> QED
      BY <2>2, <3>1, <1>2, WayHeld DEF InUse
  <2> QED
    BY <2>1, <2>2
<1>6. /\ Books(E, w)'
      /\ \A j \in -1..Level(N) : Path(Clean', Ptrs'[call.file], N)[j] = CleanWay(call.file, N)[j]
  BY <1>4, <1>5, QuietStep
<1>7. N' = N
  BY <1>3 DEF N
<1>8. ASSUME call'.pc # "rm" PROVE Pruned(Clean', Ptrs'[call.file], N)
  <2>1. CASE AtRoot
    <3>1. Path(Clean', Ptrs'[call.file], N)[Level(N)] = 0
      <4>1. Level(N) \in -1..Level(N)
        BY <1>2
      <4> QED
        BY <4>1, <2>1, <1>2, <1>6
    <3> QED
      BY <3>1, <1>2, PathSteps DEF Pruned
  <2>2. CASE ~ AtRoot
    <3>1. blk'[Parent] # Zero /\ blk'[Parent] \in [Slots -> Nat \cup Data]
      BY <2>2, <1>2, <1>3, <1>8, CleanBlocks
    <3>2. PICK s \in Slots : blk'[Parent][s] # 0
      BY <3>1 DEF Zero, Fill
    <3>3. Clean' = blk'
      BY Views
    <3>4. call.j \in -1..Level(N) /\ call.j - 1 \in -1..Level(N) /\ Parent # 0 /\ call.j \in 0..Level(N)
      BY <2>2, <1>2, CrashConstants
    <3>5. /\ Path(Clean', Ptrs'[call.file], N)[call.j] = Parent
          /\ Path(Clean', Ptrs'[call.file], N)[call.j - 1] = 0
      BY <3>4, <2>2, <1>2, <1>6
    <3> QED
      BY <3>2, <3>3, <3>4, <3>5 DEF Pruned
  <2> QED
    BY <2>1, <2>2
<1>9. Trimmed'
  BY <1>3, <1>7, <1>8 DEF Trimmed, At
<1> QED
  BY <1>6, <1>9

\* There is nothing to give back at this level.
LEMMA RemoveNothingBooks ==
  ASSUME Inv, RemoveNothing, NEW E, NEW w, Books(E, w)
  PROVE  Books(E, w)' /\ Trimmed'
<1>1. At("rm") /\ Victim = 0 /\ UNCHANGED <<free, blk, inode, used, named, kills, want, hurt>>
      /\ call' = IF AtRoot THEN [call EXCEPT !.pc = call.after] ELSE Upwards(blk[Parent])
  BY DEF RemoveNothing
<1>2. ~ Given /\ call \in Call
  BY <1>1, LoopPath DEF At, Given
<1>3. blk' = Clean /\ blk' = blk
  BY <1>1, <1>2, Views
<1>4. ~ Given'
  BY <1>1, <1>2 DEF Upwards, Call, Given, At
<1> QED
  BY <1>1, <1>3, <1>4, RemoveNothingInv, LoopBooks

\* The address is cleared.
LEMMA ClearAddressBooks ==
  ASSUME Inv, ClearAddress, NEW E, NEW w, Books(E, w)
  PROVE  Books(E, w)' /\ Trimmed'
<1>1. /\ At("clear") /\ Given /\ UNCHANGED <<free, inode, used, named, kills, want, hurt>>
      /\ blk' = [blk EXCEPT ![Parent][Address] = 0]
      /\ call' = Upwards([blk[Parent] EXCEPT ![Address] = 0])
  BY DEF ClearAddress, Given
<1>2. ~ AtRoot /\ TypeOK
  BY <1>1 DEF Inv, Running, CallStep
<1>3. Parent \in Data /\ call \in Call
  BY <1>1, <1>2, LoopPath
<1>4. blk' = Clean
  BY <1>1, <1>2 DEF Clean
<1>5. blk'[Parent] = [blk[Parent] EXCEPT ![Address] = 0]
  BY <1>1, <1>2, <1>3 DEF TypeOK
<1>6. ~ Given'
  BY <1>1, <1>3 DEF Upwards, Call, Given, At
<1>7. call' = IF AtRoot THEN [call EXCEPT !.pc = call.after] ELSE Upwards(blk'[Parent])
  BY <1>1, <1>2, <1>5
<1> QED
  BY <1>1, <1>4, <1>6, <1>7, ClearAddressInv, LoopBooks

\* What data_free leaves of the record of the call.
LEMMA AfterGiveCall ==
  ASSUME Inv, At("rm") \/ Given, NEW b \in Data \cup {0}, call' = AfterGive(b)
  PROVE  /\ call'.file = call.file /\ call'.todo = call.todo /\ call'.del = call.del
         /\ call'.ino.size = call.ino.size /\ call'.pc \in {"clear", "inode", "full"}
         /\ call'.pc # "clear" => AtRoot
<1>1. call \in Call /\ call.ino \in Inode /\ call.after \in {"inode", "full"}
  BY LoopPath DEF Call
<1>2. CASE AtRoot
  <2>1. call' = [call EXCEPT !.b = b, !.pc = call.after,
                             !.ino = [call.ino EXCEPT !.ptr = [call.ino.ptr EXCEPT ![Pointer(N)] = 0]]]
    BY <1>2 DEF AfterGive
  <2>2. PICK ino : /\ ino = [call.ino EXCEPT !.ptr = [call.ino.ptr EXCEPT ![Pointer(N)] = 0]]
                   /\ ino.size = call.ino.size
    <3>1. PICK i0, z : i0 \in Inode /\ i0 = call.ino /\ z = [call.ino.ptr EXCEPT ![Pointer(N)] = 0]
      BY <1>1
    <3>2. [i0 EXCEPT !.ptr = z].size = i0.size
      BY DEF Inode
    <3> QED
      BY <3>1, <3>2
  <2>3. call' = [call EXCEPT !.b = b, !.pc = call.after, !.ino = ino]
    BY <2>1, <2>2
  <2> QED
    BY <1>1, <1>2, <2>2, <2>3 DEF Call
<1>3. CASE ~ AtRoot
  BY <1>1, <1>3 DEF AfterGive, Call
<1> QED
  BY <1>2, <1>3

\* A block goes to a node of the free list.
LEMMA GiveToNodeBooks ==
  ASSUME Inv, GiveToNode, NEW E, NEW w, Books(E, w)
  PROVE  Books(E, w)' /\ Trimmed'
<1>1. /\ At("rm") /\ Victim # 0 /\ free' = free \cup {Victim} /\ call' = AfterGive(Victim)
      /\ blk' = blk /\ UNCHANGED <<inode, used, named, kills, want, hurt>>
  BY DEF GiveToNode
<1>2. /\ Busy /\ call.todo # <<>> /\ call \in Call /\ N \in Blocks /\ Level(N) \in -1..2
      /\ call.j \in 0..(Level(N) + 1) /\ Pointer(N) \in Pointers
  BY <1>1, LoopPath
<1>3. Victim \in Data /\ CleanWay(call.file, N)[call.j - 1] = Victim
  <2>1. PICK r : Sound(r)
    BY DEF Inv
  <2> QED
    BY <1>1, <2>1, VictimPlace
<1>4. Victim \in Held
  <2>1. call.j - 1 \in -1..Level(N)
    BY <1>2
  <2> QED
    BY <2>1, <1>1, <1>2, <1>3, WayHeld
<1>5. /\ call'.file = call.file /\ call'.todo = call.todo /\ call'.del = call.del
      /\ call'.ino.size = call.ino.size /\ call'.pc \in {"clear", "inode", "full"}
      /\ call'.pc # "clear" => AtRoot
  BY <1>1, <1>3, AfterGiveCall
<1>6. Within /\ Moving = {} /\ Moving' = {}
  BY <1>1, <1>2, <1>5 DEF Within, Moving, At, Busy, Pcs
<1>7. /\ Books(E, w)'
      /\ \A j \in -1..Level(N) : Path(Clean', Ptrs'[call.file], N)[j] =
           IF CleanWay(call.file, N)[j] = Victim THEN 0 ELSE CleanWay(call.file, N)[j]
  <2>1. Cutting(Victim)
    BY GiveToNodeInv
  <2>2. PICK x : x = Victim
    OBVIOUS
  <2>3. /\ Cutting(x) /\ x \in Held /\ free' \cup Moving' = free \cup Moving \cup {x}
        /\ \A y \in Data \ InUse : blk'[y] = blk[y]
    BY <2>1, <2>2, <1>1, <1>4, <1>6
  <2> QED
    BY <2>2, <2>3, <1>6, CutStep
<1>8. N' = N
  BY <1>5 DEF N
<1>9. AtRoot => Pruned(Clean', Ptrs'[call.file], N)
  <2> SUFFICES ASSUME AtRoot PROVE Ptrs'[call.file][Pointer(N)] = 0
    BY DEF Pruned
  <2>1. call.j - 1 = Level(N) /\ Level(N) \in -1..Level(N)
    BY <1>1, <1>2, LoopPath
  <2>2. Path(Clean', Ptrs'[call.file], N)[Level(N)] = 0
    BY <2>1, <1>3, <1>7
  <2> QED
    BY <2>2, <1>2, PathSteps
<1>10. Trimmed'
  BY <1>5, <1>8, <1>9 DEF Trimmed, At
<1> QED
  BY <1>7, <1>10

\* A block becomes a node of the free list.
LEMMA GiveAsNodeBooks ==
  ASSUME Inv, NEW next \in Data \cup {0}, GiveAsNode(next), NEW E, NEW w, Books(E, w)
  PROVE  Books(E, w)' /\ Trimmed'
<1>1. /\ At("rm") /\ Victim # 0 /\ free' = free /\ call' = [call EXCEPT !.pc = "give", !.b = Victim]
      /\ blk' = [blk EXCEPT ![Victim] = [Zero EXCEPT ![0] = next]]
      /\ UNCHANGED <<inode, used, named, kills, want, hurt>>
  BY DEF GiveAsNode
<1>2. /\ Busy /\ call.todo # <<>> /\ call \in Call /\ N \in Blocks /\ Level(N) \in -1..2
      /\ call.j \in 0..(Level(N) + 1)
  BY <1>1, LoopPath
<1>3. Victim \in Data /\ CleanWay(call.file, N)[call.j - 1] = Victim
  <2>1. PICK r : Sound(r)
    BY DEF Inv
  <2> QED
    BY <1>1, <2>1, VictimPlace
<1>4. Victim \in Held
  <2>1. call.j - 1 \in -1..Level(N)
    BY <1>2
  <2> QED
    BY <2>1, <1>1, <1>2, <1>3, WayHeld
<1>5. /\ call'.file = call.file /\ call'.todo = call.todo /\ call'.del = call.del
      /\ call'.ino = call.ino /\ call'.pc = "give" /\ call'.b = Victim
  BY <1>1, <1>2 DEF Call
<1>6. Within /\ Moving = {} /\ Moving' = {Victim} /\ Trimmed'
  BY <1>1, <1>2, <1>5 DEF Within, Moving, At, Busy, Pcs, Trimmed
<1>7. \A y \in Data \ InUse : blk'[y] = blk[y]
  BY <1>1, <1>4 DEF InUse, Inv, TypeOK
<1>8. Books(E, w)'
  <2>1. PICK x : x = Victim
    OBVIOUS
  <2>2. Cutting(x) /\ x \in Held /\ free' \cup Moving' = free \cup Moving \cup {x}
    BY <2>1, <1>1, <1>4, <1>6, GiveAsNodeInv
  <2> QED
    BY <2>2, <1>6, <1>7, CutStep
<1> QED
  BY <1>6, <1>8

\* The new node becomes the head of the list.
LEMMA GiveHeadBooks ==
  ASSUME Inv, GiveHead, NEW E, NEW w, Books(E, w)
  PROVE  Books(E, w)' /\ Trimmed'
<1>1. /\ At("give") /\ Given /\ free' = free \cup {call.b} /\ call' = AfterGive(call.b)
      /\ blk' = blk /\ UNCHANGED <<inode, used, named, kills, want, hurt>>
  BY DEF GiveHead, Given
<1>2. /\ Busy /\ call.todo # <<>> /\ call \in Call /\ N \in Blocks /\ Level(N) \in -1..2
      /\ call.j \in 0..(Level(N) + 1) /\ Pointer(N) \in Pointers
  BY <1>1, LoopPath
<1>3. /\ call'.file = call.file /\ call'.todo = call.todo /\ call'.del = call.del
      /\ call'.ino.size = call.ino.size /\ call'.pc \in {"clear", "inode", "full"}
      /\ call'.pc # "clear" => AtRoot
  <2>1. call.b \in Data \cup {0}
    BY <1>2 DEF Call
  <2> QED
    BY <1>1, <2>1, AfterGiveCall
<1>4. Within /\ Moving = {call.b} /\ Moving' = {}
  BY <1>1, <1>2, <1>3 DEF Within, Moving, At, Busy, Pcs
<1>5. /\ Books(E, w)'
      /\ \A j \in -1..Level(N) : Path(Clean', Ptrs'[call.file], N)[j] = CleanWay(call.file, N)[j]
  BY <1>1, <1>4, GiveHeadInv, QuietStep
<1>6. N' = N
  BY <1>3 DEF N
<1>7. AtRoot => Pruned(Clean', Ptrs'[call.file], N)
  <2> SUFFICES ASSUME AtRoot PROVE Ptrs'[call.file][Pointer(N)] = 0
    BY DEF Pruned
  <2>1. /\ call.j - 1 = Level(N) /\ Level(N) \in -1..Level(N)
        /\ CleanWay(call.file, N)[call.j - 1] = CopyPtr[Pointer(N)]
    BY <1>1, <1>2, LoopPath
  <2>2. CopyPtr[Pointer(N)] = 0
    BY <1>1, <1>2 DEF CopyPtr, Call, Inode
  <2>3. Path(Clean', Ptrs'[call.file], N)[Level(N)] = 0
    BY <2>1, <2>2, <1>5
  <2> QED
    BY <2>3, <1>2, PathSteps
<1>8. Trimmed'
  BY <1>3, <1>6, <1>7 DEF Trimmed, At
<1> QED
  BY <1>5, <1>8

\* The block is written.
LEMMA StoreBooks ==
  ASSUME Inv, Store, NEW E, NEW w, Books(E, w)
  PROVE  Books(E, w)' /\ Trimmed'
<1>1. /\ At("block") /\ call.todo # <<>> /\ Missing = {} /\ V # 0
      /\ blk' = [blk EXCEPT ![CallWay[-1]] = Fill(V)] /\ call' = [call EXCEPT !.pc = "inode"]
      /\ free' = free /\ UNCHANGED <<inode, used, named, kills, want, hurt>>
  BY DEF Store, Wanted, Goto
<1>2. Busy /\ ~ Given
  BY <1>1 DEF At, Busy, Given, Pcs
<1>3. call \in Call /\ N \in Blocks /\ Level(N) \in -1..2
  BY <1>1, <1>2, CallBlock DEF Inv
<1>4. /\ call'.file = call.file /\ call'.todo = call.todo /\ call'.del = call.del
      /\ call'.ino = call.ino /\ call'.pc = "inode"
  BY <1>1, <1>3 DEF Call
<1>5. Within /\ Moving = {} /\ Moving' = {} /\ Trimmed'
  BY <1>1, <1>2, <1>4 DEF Within, Moving, At, Busy, Pcs, Trimmed, V
<1>6. CallWay[-1] \in Held
  <2>1. -1 \in -1..Level(N)
    BY <1>3
  <2>2. CallWay[-1] # 0
    BY <1>1, <2>1 DEF Missing
  <2>3. CleanWay(call.file, N)[-1] = CallWay[-1]
    BY <2>1, <1>1, <1>2, CallBlocks
  <2> QED
    BY <2>1, <2>2, <2>3, <1>1, <1>2, WayHeld
<1>7. \A y \in Data \ InUse : blk'[y] = blk[y]
  BY <1>1, <1>6 DEF InUse, Inv, TypeOK
<1> QED
  BY <1>1, <1>5, <1>7, StoreInv, QuietStep

\* A block is allocated for the copy of the inode.
LEMMA CreateRootBooks ==
  ASSUME Inv, NEW b \in Data, CreateRoot(b), NEW E, NEW w, Books(E, w)
  PROVE  Books(E, w)' /\ Trimmed'
<1>1. /\ Wanted /\ b \in free
      /\ free' = free \ {b} /\ blk' = [blk EXCEPT ![b] = Zero]
      /\ call' = [call EXCEPT !.ino.ptr[Pointer(N)] = b]
      /\ UNCHANGED <<inode, used, named, kills, want, hurt>>
  BY DEF CreateRoot, Allocate
<1>2. At("block") /\ call.todo # <<>> /\ Busy /\ call \in Call /\ call.ino \in Inode
  BY <1>1, CreateFacts
<1>3. /\ call'.file = call.file /\ call'.todo = call.todo /\ call'.del = call.del
      /\ call'.ino.size = call.ino.size /\ call'.pc = "block"
  <2>1. call' = [call EXCEPT !.ino = [call.ino EXCEPT !.ptr = [call.ino.ptr EXCEPT ![Pointer(N)] = b]]]
    BY <1>1
  <2>2. PICK ino : /\ ino = [call.ino EXCEPT !.ptr = [call.ino.ptr EXCEPT ![Pointer(N)] = b]]
                   /\ ino.size = call.ino.size
    <3>1. PICK i0, z : i0 \in Inode /\ i0 = call.ino /\ z = [call.ino.ptr EXCEPT ![Pointer(N)] = b]
      BY <1>2
    <3>2. [i0 EXCEPT !.ptr = z].size = i0.size
      BY DEF Inode
    <3> QED
      BY <3>1, <3>2
  <2>3. call' = [call EXCEPT !.ino = ino]
    BY <2>1, <2>2
  <2> QED
    BY <1>2, <2>2, <2>3 DEF Call, At
<1>4. Within /\ Moving = {} /\ Moving' = {} /\ Trimmed'
  BY <1>1, <1>2, <1>3 DEF Within, Moving, At, Busy, Pcs, Trimmed
<1>5. \A y \in Data \ InUse : blk'[y] = blk[y]
  BY <1>1 DEF InUse, Inv, TypeOK
<1>6. free' \cup Moving' \cup {b} = free \cup Moving
  BY <1>1, <1>4
<1>7. PICK l : Growing(b, l)
  BY CreateRootInv
<1> QED
  BY <1>4, <1>5, <1>6, <1>7, GrowStep

\* A block is allocated that nothing points to yet.
LEMMA CreateChildBooks ==
  ASSUME Inv, NEW b \in Data, CreateChild(b), NEW E, NEW w, Books(E, w)
  PROVE  Books(E, w)' /\ Trimmed'
<1>1. /\ Wanted /\ b \in free
      /\ free' = free \ {b} /\ blk' = [blk EXCEPT ![b] = Zero]
      /\ call' = [call EXCEPT !.pc = "link", !.b = b, !.j = Max(Missing) + 1]
      /\ UNCHANGED <<inode, used, named, kills, want, hurt>>
  BY DEF CreateChild, Allocate
<1>2. At("block") /\ call.todo # <<>> /\ Busy /\ call \in Call
  BY <1>1, CreateFacts
<1>3. /\ call'.file = call.file /\ call'.todo = call.todo /\ call'.del = call.del
      /\ call'.ino = call.ino /\ call'.pc = "link" /\ call'.b = b
  BY <1>1, <1>2 DEF Call
<1>4. Within /\ Moving = {} /\ Moving' = {b} /\ Trimmed'
  BY <1>1, <1>2, <1>3 DEF Within, Moving, At, Busy, Pcs, Trimmed
<1>5. \A y \in Data \ InUse : blk'[y] = blk[y]
  BY <1>1 DEF InUse, Inv, TypeOK
<1>6. free' \cup Moving' = free \cup Moving
  BY <1>1, <1>4
<1> QED
  BY <1>4, <1>5, <1>6, CreateChildInv, QuietStep

\* The address block above it is written.
LEMMA LinkChildBooks ==
  ASSUME Inv, LinkChild, NEW E, NEW w, Books(E, w)
  PROVE  Books(E, w)' /\ Trimmed'
<1>1. /\ At("link") /\ blk' = [blk EXCEPT ![Parent][Address] = call.b]
      /\ call' = [call EXCEPT !.pc = "block", !.b = 0]
      /\ free' = free /\ UNCHANGED <<inode, used, named, kills, want, hurt>>
  BY DEF LinkChild
<1>2. Busy /\ ~ Given /\ call.todo # <<>>
  BY <1>1 DEF At, Busy, Given, Pcs, Inv, Running, CallFile
<1>3. call \in Call /\ N \in Blocks /\ Level(N) \in -1..2
  BY <1>2, CallBlock DEF Inv
<1>4. call.j \in 0..Level(N) /\ Parent # 0
  BY <1>1 DEF Inv, Running, CallStep
<1>5. Parent \in Held
  <2>1. call.j \in -1..Level(N)
    BY <1>3, <1>4
  <2>2. CleanWay(call.file, N)[call.j] = Parent
    BY <2>1, <1>2, CallBlocks DEF Parent
  <2> QED
    BY <2>1, <2>2, <1>2, <1>4, WayHeld
<1>6. /\ call'.file = call.file /\ call'.todo = call.todo /\ call'.del = call.del
      /\ call'.ino = call.ino /\ call'.pc = "block"
  BY <1>1, <1>3 DEF Call
<1>7. Within /\ Moving = {call.b} /\ Moving' = {} /\ Trimmed'
  BY <1>1, <1>2, <1>6 DEF Within, Moving, At, Busy, Pcs, Trimmed
<1>8. \A y \in Data \ InUse : blk'[y] = blk[y]
  BY <1>1, <1>5 DEF InUse, Inv, TypeOK
<1>9. PICK b, l : Growing(b, l) /\ b = call.b
  BY LinkChildInv
<1>10. free' \cup Moving' \cup {b} = free \cup Moving
  BY <1>1, <1>7, <1>9
<1> QED
  BY <1>7, <1>8, <1>9, <1>10, GrowStep

-----------------------------------------------------------------------------
(* The account where calls begin, and between the blocks of a call *)

\* A fresh disk has every block on the free list.
LEMMA InitLeak ==
  ASSUME Init
  PROVE  LeakInv
<1>1. call.pc = "idle" /\ ~ Busy /\ free = Data /\ kills = 0
  BY DEF Init, Idle, Busy, Pcs
<1>2. Alone /\ Sizes /\ Trimmed
  BY <1>1 DEF Alone, Sizes, Trimmed, At
<1>3. Live = {}
  BY <1>1 DEF Live, Init
<1>4. Tight(Clean, Ptrs, Live, Supported, {})
  BY <1>3 DEF Tight
<1>5. IsFiniteSet({}) /\ Cardinality({}) <= kills * (Level(MAX_BLOCK) + 2)
  <2>1. MAX_BLOCK \in Blocks
    BY CrashConstants DEF Blocks
  <2>2. PICK l \in -1..2 : l = Level(MAX_BLOCK)
    BY <2>1, Levels
  <2>3. 0 <= 0 * (l + 2)
    OBVIOUS
  <2> QED
    BY <2>2, <2>3, <1>1, FS_EmptySet
<1>6. Account({}, {})
  BY <1>1, <1>4, <1>5 DEF Account, Reachable, InUse
<1> QED
  BY <1>2, <1>6, InitInv DEF LeakInv

\* mknod: the new file has no blocks.
LEMMA MknodBooks ==
  ASSUME Inv, NEW f \in Files, mknod(f), NEW E, NEW w, Account(E, w)
  PROVE  Books(E, w)' /\ Trimmed'
<1>1. /\ call.pc = "idle" /\ ~ Busy /\ ~ Given /\ call' = call /\ ~ Busy' /\ ~ Given'
      /\ call'.pc = "idle"
  BY DEF mknod, At, Busy, Pcs, Given
<1>2. /\ blk' = blk /\ free' = free /\ hurt' = hurt /\ kills' = kills
      /\ used' = used \cup {f} /\ named' = named \cup {f}
      /\ inode' = [inode EXCEPT ![f] = NewInode] /\ f \notin used
  BY DEF mknod
<1>3. TypeOK
  BY DEF Inv
<1>4. Alone' /\ Sizes' /\ Trimmed'
  BY <1>1 DEF Alone, Sizes, Trimmed, At
<1>5. PICK r, c, q, q2, o, o2, fs :
        /\ Mapped(r, c, q, free, fs) /\ c = Clean /\ q = Ptrs /\ fs = Live /\ c = Clean'
        /\ q2 = Ptrs' /\ o = Supported /\ o2 = Supported'
  BY <1>1, <1>2, Views DEF Inv, Sound
<1>6. f \notin fs /\ Live' = fs \cup {f} /\ fs \subseteq Files
  BY <1>1, <1>2, <1>3, <1>5 DEF Live, TypeOK
<1>7. inode'[f] = NewInode /\ \A g \in Files \ {f} : inode'[g] = inode[g]
  BY <1>2, <1>3 DEF TypeOK
<1>8. (\A g \in fs : q2[g] = q[g]) /\ \A p \in Pointers : q2[f][p] = 0
  <2>1. q = [g \in Files |-> inode[g].ptr] /\ q2 = [g \in Files |-> inode'[g].ptr]
    BY <1>1, <1>5 DEF Ptrs
  <2> QED
    BY <2>1, <1>6, <1>7 DEF NewInode
<1>9. \A g \in fs, n \in Blocks : <<g, n>> \in o => <<g, n>> \in o2
  <2> SUFFICES ASSUME NEW g \in fs, NEW n \in Blocks, <<g, n>> \in o PROVE <<g, n>> \in o2
    OBVIOUS
  <2>1. n < inode'[g].size
    BY <1>1, <1>5, <1>6, <1>7 DEF Supported, Supports
  <2> QED
    BY <2>1, <1>1, <1>5, <1>6 DEF Supported, Supports
<1>10. Kept(c, q, o, w, fs, c, q2, o2, w)
  BY <1>8, <1>9 DEF Kept
<1>11. /\ Tight(c, q2, fs, o2, w)
       /\ \A g \in fs, n \in Blocks : \A j \in -1..Level(n) : Path(c, q2[g], n)[j] = Path(c, q[g], n)[j]
  <2>1. PICK gs \in SUBSET fs : gs = fs
    OBVIOUS
  <2>2. Tight(c, q, fs, o, w) /\ Kept(c, q, o, w, gs, c, q2, o2, w)
    BY <1>5, <1>10, <2>1 DEF Account
  <2>3. Tight(c, q2, gs, o2, w)
    BY <2>2, <1>5, TightKept
  <2> QED
    BY <2>1, <2>3, <1>8
<1>12. ASSUME NEW n \in Blocks, NEW j \in -1..Level(n) PROVE Path(c, q2[f], n)[j] = 0
  <2>1. Path(c, q2[f], n)[Level(n)] = 0 /\ Level(n) \in -1..Level(n)
    BY <1>8, PathSteps, Levels
  <2> QED
    BY <2>1, NothingBelow
<1>13. Tight(c, q2, fs \cup {f}, o2, w)
  <2>1. ASSUME NEW g \in fs \cup {f}, NEW p \in Pointers, q2[g][p] # 0
        PROVE  Justified(c, q2, g, q2[g][p], LevelOf(p), o2, w)
    BY <2>1, <1>8, <1>11 DEF Tight
  <2>2. ASSUME NEW g \in fs \cup {f}, NEW n \in Blocks, NEW j \in 0..Level(n), NEW s \in Slots,
               Path(c, q2[g], n)[j] # 0, c[Path(c, q2[g], n)[j]][s] # 0
        PROVE  Justified(c, q2, g, c[Path(c, q2[g], n)[j]][s], j - 1, o2, w)
    <3>1. j \in -1..Level(n)
      BY Levels
    <3>2. g \in fs
      BY <2>2, <3>1, <1>12
    <3> QED
      BY <2>2, <3>2, <1>11 DEF Tight
  <2> QED
    BY <2>1, <2>2 DEF Tight
<1>14. Hold(c, q2, fs \cup {f}) = Hold(c, q, fs)
  <2>1. \A x \in Data : x # 0
    BY CrashConstants
  <2> QED
    BY <2>1, <1>11, <1>12 DEF Hold
<1>15. Held' = Held /\ Tight(Clean', Ptrs', Live', Supported', w)
  <2>1. Held = Hold(c, q, fs) /\ Held' = Hold(c, q2, fs \cup {f})
    BY <1>5, <1>6 DEF Held
  <2> QED
    BY <2>1, <1>5, <1>6, <1>13, <1>14
<1>16. InUse' = InUse
  <2>1. Moving = {} /\ Moving' = {}
    BY <1>1 DEF Moving, At
  <2> QED
    BY <2>1, <1>2, <1>15 DEF InUse
<1>17. Dead' = Dead /\ \A g \in Dead : inode'[g].ptr = inode[g].ptr
  <2>1. Dead = used \ fs /\ Dead' = (used \cup {f}) \ (fs \cup {f})
    BY <1>1, <1>2, <1>5, <1>6 DEF Dead, At
  <2>2. \A g \in Dead : g \in Files \ {f}
    BY <2>1, <1>2, <1>3 DEF TypeOK
  <2> QED
    BY <2>1, <2>2, <1>2, <1>7
<1>18. Account(E, w)'
  BY <1>2, <1>15, <1>16, <1>17, Balance
<1> QED
  BY <1>4, <1>18 DEF Books

\* The copy of the inode is as good as the inode: nothing is where the inode has nothing.
LEMMA CopyAlone ==
  ASSUME ~ Given', Busy' => call'.file \in Files /\ call'.ino.ptr = inode'[call'.file].ptr
  PROVE  Alone'
<1>1. SUFFICES ASSUME Busy', Bare', NEW n \in Blocks, Pointer(n) = Pointer(N'), NEW j \in -1..Level(n)
               PROVE  Path(Clean', Ptrs'[call'.file], n)[j] = 0
  BY DEF Alone, CleanWay
<1>2. Ptrs'[call'.file][Pointer(n)] = 0
  BY <1>1, Views DEF Ptrs, Bare
<1>3. Path(Clean', Ptrs'[call'.file], n)[Level(n)] = 0 /\ Level(n) \in -1..Level(n)
  BY <1>2, PathSteps, Levels
<1> QED
  BY <1>3, NothingBelow

\* A step that keeps the view, and the reasons.
LEMMA QuietAccount ==
  ASSUME Inv, Quiet, NEW E, NEW w, Account(E, w), NEW o, Tight(Clean, Ptrs, Live, o, w),
         \A x \in o : x \in Supported', free' = free, blk' = blk, Moving = {}, Moving' = {},
         used' = used, ~ At("bit"), ~ At("bit")', \A g \in Dead : inode'[g].ptr = inode[g].ptr,
         kills' = kills
  PROVE  Account(E, w)'
<1>1. Tight(Clean', Ptrs', Live', Supported', w) /\ Held' = Held
  BY QuietView
<1>2. InUse' = InUse
  BY <1>1 DEF InUse
<1>3. Dead \subseteq Dead'
  BY DEF Dead, Quiet
<1> QED
  BY <1>1, <1>2, <1>3, Balance

\* A call starts: what the file has is what the call knows of, or is to free.
LEMMA StartBooks ==
  ASSUME Inv, NEW f \in named \ hurt, NEW todo, NEW del \in BOOLEAN,
         At("idle"), StartCall(f, todo, del), Quiet,
         UNCHANGED <<free, blk, inode, used, kills, hurt>>,
         del => \A n \in Blocks : n < inode[f].size => \E i \in 1..Len(todo) : todo[i].n = n,
         NEW E, NEW w, Account(E, w)
  PROVE  Books(E, w)' /\ Trimmed'
<1>1. /\ call'.pc = "block" /\ call'.file = f /\ call'.del = del /\ call'.todo = todo
      /\ call'.ino = inode[f] /\ inode' = inode /\ Live' = Live
  BY DEF StartCall, Quiet
<1>2. /\ ~ Busy /\ Busy' /\ ~ Given' /\ Moving = {} /\ Moving' = {} /\ ~ At("bit") /\ ~ At("bit")'
      /\ ~ At("inode")' /\ ~ At("full")'
  BY <1>1 DEF At, Busy, Given, Pcs, Moving
<1>3. f \in Files
  BY DEF Inv, TypeOK
<1>4. Alone' /\ Sizes' /\ Trimmed'
  BY <1>1, <1>2, <1>3, CopyAlone DEF Sizes, Trimmed
<1>5. ASSUME NEW x \in Supported PROVE x \in Supported'
  <2>1. PICK g \in Live, n \in Blocks : x = <<g, n>> /\ Supports(g, n)
    BY DEF Supported
  <2>2. n < inode[g].size
    BY <2>1, <1>2 DEF Supports
  <2>3. Supports(g, n)'
    <3>1. CASE g = f
      BY <3>1, <2>2, <1>1, <1>2 DEF Supports
    <3>2. CASE g # f
      BY <3>2, <2>2, <1>1 DEF Supports
    <3> QED
      BY <3>1, <3>2
  <2> QED
    BY <2>1, <2>3, <1>1 DEF Supported
<1>6. Tight(Clean, Ptrs, Live, Supported, w)
  BY DEF Account
<1>7. Account(E, w)'
  BY <1>1, <1>2, <1>5, <1>6, QuietAccount
<1> QED
  BY <1>4, <1>7 DEF Books

\* write_i, up to its first block.
LEMMA WriteBooks ==
  ASSUME Inv, NEW f \in Files, NEW todo \in Jobs, write_i(f, todo), NEW E, NEW w, Account(E, w)
  PROVE  Books(E, w)' /\ Trimmed'
<1>1. f \in named \ hurt /\ At("idle") /\ StartCall(f, todo, FALSE)
      /\ UNCHANGED <<free, blk, inode, used, kills, hurt>>
  BY DEF write_i
<1> QED
  BY <1>1, WriteInv, StartBooks

\* unlink, up to the first block of del.
LEMMA UnlinkBooks ==
  ASSUME Inv, NEW f \in Files, unlink(f), NEW E, NEW w, Account(E, w)
  PROVE  Books(E, w)' /\ Trimmed'
<1>1. PICK size \in 0..(MAX_BLOCK + 1) : size = inode[f].size
  BY DEF Inv, TypeOK, Inode
<1>2. PICK todo \in Seq(Item) : /\ todo = Overwritten(size) /\ Len(todo) >= size
                                /\ \A i \in 1..Len(todo) : todo[i].n = i - 1
  BY OverwrittenSeq
<1>3. f \in named \ hurt /\ At("idle") /\ StartCall(f, todo, TRUE)
      /\ UNCHANGED <<free, blk, inode, used, kills, hurt>>
  BY <1>1, <1>2 DEF unlink
<1>4. ASSUME NEW n \in Blocks, n < size PROVE \E i \in 1..Len(todo) : todo[i].n = n
  <2>1. Len(todo) \in Nat /\ n \in Nat /\ size \in Nat
    BY CrashConstants, LenProperties DEF Blocks
  <2>2. n + 1 \in 1..Len(todo) /\ (n + 1) - 1 = n
    BY <2>1, <1>2, <1>4
  <2> QED
    BY <2>2, <1>2
<1> QED
  BY <1>1, <1>3, <1>4, UnlinkInv, StartBooks

\* The inode is written, and the call goes on with the next block: the one it
\* is done with is part of the file, or, when the file is being deleted, not needed.
LEMMA InodeWriteBooks ==
  ASSUME Inv, InodeWrite, Trimmed, NEW E, NEW w, Books(E, w)
  PROVE  Books(E, w)' /\ Trimmed'
<1> DEFINE ino  == [call.ino EXCEPT !.size = Max({@, N + 1})]
           rest == Tail(call.todo)
           idle == rest = <<>> /\ ~ call.del
<1>1. /\ At("inode") /\ inode' = [inode EXCEPT ![call.file] = ino]
      /\ call' = IF rest = <<>>
                 THEN IF call.del THEN [call EXCEPT !.pc = "block", !.todo = rest, !.b = 0] ELSE Idle
                 ELSE [call EXCEPT !.pc = "block", !.todo = rest, !.ino = ino, !.b = 0]
      /\ free' = free /\ blk' = blk /\ used' = used /\ named' = named /\ kills' = kills
      /\ hurt' = hurt
  BY DEF InodeWrite
<1>2. TypeOK /\ Running /\ CallFile
  BY DEF Inv, Running
<1>3. Busy /\ ~ Given /\ call.todo # <<>>
  BY <1>1, <1>2 DEF At, Busy, Given, Pcs, CallFile
<1>4. /\ call \in Call /\ N \in Blocks /\ call.file \in Files /\ call.file \in Live
      /\ call.del => V = 0
  BY <1>2, <1>3, CallBlock DEF Live
<1>5. ino.ptr = call.ino.ptr /\ ino.size \in Int /\ ino.size >= call.ino.size /\ N < ino.size
  <2>1. call.ino \in Inode /\ call.ino.size \in Int
    BY <1>4 DEF Call, Inode
  <2>2. N \in Int
    BY <1>4 DEF Blocks
  <2>3. PICK m : m = Max({call.ino.size, N + 1})
    OBVIOUS
  <2>4. m \in Int /\ m >= call.ino.size /\ m >= N + 1
    <3>1. N + 1 \in Int /\ {call.ino.size, N + 1} # {}
      BY <2>2
    <3>2. m \in {call.ino.size, N + 1} /\ m >= call.ino.size /\ m >= N + 1
      BY <2>1, <2>3, <3>1, Extremes
    <3> QED
      BY <3>1, <3>2, <2>1
  <2>5. ino = [call.ino EXCEPT !.size = m]
    BY <2>3
  <2>6. ino.ptr = call.ino.ptr /\ ino.size = m
    BY <2>1, <2>5 DEF Inode
  <2> QED
    BY <2>2, <2>4, <2>6
<1>6. /\ rest = Tail(call.todo) /\ call.todo \in Seq(Item)
      /\ inode'[call.file] = ino /\ \A f \in Files \ {call.file} : inode'[f] = inode[f]
  BY <1>1, <1>2, <1>4 DEF TypeOK, Call
<1> HIDE DEF ino, rest
<1>7. idle => ~ Busy' /\ ~ Given' /\ call'.pc = "idle"
  BY <1>1 DEF Idle, Busy, Pcs, Given, At
<1>8. ~ idle => /\ call'.pc = "block" /\ call'.file = call.file /\ call'.del = call.del
                /\ call'.todo = rest /\ call'.ino.ptr = call.ino.ptr /\ Busy' /\ ~ Given'
                /\ ~ call.del => call'.ino = ino
  <2>1. CASE rest = <<>> /\ call.del
    BY <2>1, <1>1, <1>4 DEF Call, Pcs, Busy, Given, At
  <2>2. CASE rest # <<>>
    BY <2>2, <1>1, <1>4, <1>5 DEF Call, Pcs, Busy, Given, At
  <2> QED
    BY <2>1, <2>2
<1>9. /\ Moving = {} /\ Moving' = {} /\ ~ At("bit") /\ ~ At("bit")' /\ Trimmed'
  BY <1>1, <1>7, <1>8 DEF Moving, At, Trimmed
<1>10. Alone'
  <2>1. ~ Given' /\ (Busy' => call'.file \in Files /\ call'.ino.ptr = inode'[call'.file].ptr)
    BY <1>4, <1>5, <1>6, <1>7, <1>8
  <2> QED
    BY <2>1, CopyAlone
<1>11. Sizes'
  BY <1>6, <1>7, <1>8 DEF Sizes
<1>12. Quiet /\ Live' = Live
  BY InodeWriteInv DEF Quiet
<1>13. \A g \in Dead : inode'[g].ptr = inode[g].ptr
  <2>1. \A g \in Dead : g \in Files \ {call.file}
    BY <1>2, <1>4 DEF Dead, TypeOK
  <2> QED
    BY <2>1, <1>6
<1>14. ASSUME NEW g \in Live, NEW n \in Blocks, Supports(g, n), ~ (call.del /\ g = call.file /\ n = N)
       PROVE  Supports(g, n)'
  <2>1. g \in Files
    BY <1>2, <1>4 DEF Live, TypeOK
  <2>2. CASE g # call.file
    <3>1. n < inode'[g].size
      BY <2>1, <2>2, <1>6, <1>14 DEF Supports
    <3> QED
      BY <2>2, <3>1, <1>7, <1>8 DEF Supports
  <2>3. CASE g = call.file /\ ~ call.del
    <3>1. n \in Int /\ call.ino.size \in Int
      BY <1>4 DEF Blocks, Call, Inode
    <3>2. n < ino.size
      BY <3>1, <2>3, <1>3, <1>5, <1>14 DEF Supports
    <3> QED
      BY <3>2, <2>3, <1>6, <1>7, <1>8 DEF Supports
  <2>4. CASE g = call.file /\ call.del
    <3>1. PICK i \in 1..Len(call.todo) : call.todo[i].n = n
      BY <2>4, <1>3, <1>14 DEF Supports
    <3>2. Len(rest) = Len(call.todo) - 1 /\ Len(call.todo) \in Nat
          /\ \A k \in 1..Len(rest) : rest[k] = call.todo[k + 1]
      BY <1>3, <1>6, HeadTailProperties
    <3>3. i # 1
      <4>1. Head(call.todo) = call.todo[1]
        BY <1>3, <1>6, HeadTailProperties
      <4> QED
        BY <4>1, <3>1, <2>4, <1>14 DEF N
    <3>4. i - 1 \in 1..Len(rest) /\ (i - 1) + 1 = i
      BY <3>1, <3>2, <3>3
    <3>5. rest[i - 1].n = n
      BY <3>1, <3>2, <3>4
    <3> QED
      BY <3>4, <3>5, <2>4, <1>7, <1>8 DEF Supports
  <2> QED
    BY <2>2, <2>3, <2>4
<1>15. PICK o : o = {x \in Supported : ~ (call.del /\ x = <<call.file, N>>)}
  OBVIOUS
<1>16. ASSUME NEW x \in o PROVE x \in Supported'
  <2>1. PICK g \in Live, n \in Blocks : x = <<g, n>> /\ Supports(g, n)
    BY <1>15 DEF Supported
  <2>2. ~ (call.del /\ g = call.file /\ n = N)
    BY <2>1, <1>15
  <2>3. Supports(g, n)'
    BY <2>1, <2>2, <1>14
  <2> QED
    BY <2>1, <2>3, <1>12 DEF Supported
<1>17. Tight(Clean, Ptrs, Live, o, w)
  <2>1. Tight(Clean, Ptrs, Live, Supported, w)
    BY DEF Books, Account
  <2>2. CASE ~ call.del
    BY <2>1, <2>2, <1>15
  <2>3. CASE call.del
    <3>1. Pruned(Clean, Ptrs[call.file], N)
      BY <2>3, <1>1, <1>4 DEF Trimmed
    <3>2. PICK r, f0, n0, s : /\ Mapped(r, Clean, Ptrs, free, Live) /\ f0 = call.file /\ n0 = N
                              /\ s = Supported
      BY DEF Inv, Sound
    <3>3. \A f \in Live, m \in Blocks : <<f, m>> \in s => <<f, m>> \in o \/ (f = f0 /\ m = n0)
      BY <3>2, <1>15
    <3>4. f0 \in Live /\ n0 \in Blocks /\ Pruned(Clean, Ptrs[f0], n0) /\ Tight(Clean, Ptrs, Live, s, w)
      BY <2>1, <3>1, <3>2, <1>4
    <3> QED
      BY <3>2, <3>3, <3>4, TightDrop
  <2> QED
    BY <2>2, <2>3
<1>18. Account(E, w)'
  <2>1. Account(E, w) /\ free' = free /\ blk' = blk /\ used' = used /\ kills' = kills
    BY <1>1 DEF Books
  <2> QED
    BY <2>1, <1>9, <1>12, <1>13, <1>16, <1>17, QuietAccount
<1> QED
  BY <1>9, <1>10, <1>11, <1>18 DEF Books

-----------------------------------------------------------------------------
(* The account where calls end *)

\* Blocks in use are found below a dead inode (X), or are written off.
LEMMA Settle ==
  ASSUME NEW E, NEW w, Account(E, w), NEW X, NEW w2, blk' = blk, Dead \subseteq Dead',
         \A g \in Dead : inode'[g].ptr = inode[g].ptr,
         X \subseteq Data, Reachable(X)', X \cap InUse' = {}, InUse' \subseteq InUse,
         InUse \subseteq InUse' \cup X \cup w2, w \subseteq w2,
         Tight(Clean', Ptrs', Live', Supported', w2),
         IsFiniteSet(w2), Cardinality(w2) <= kills' * (Level(MAX_BLOCK) + 2)
  PROVE  Account(E \cup X, w2)'
<1>1. E \subseteq Data /\ Data \subseteq InUse \cup E \cup w /\ E \cap InUse = {} /\ Reachable(E)
  BY DEF Account
<1>2. PICK Y : Y = E \cup X
  OBVIOUS
<1>3. ASSUME NEW x \in Y
      PROVE  \E g \in Dead', n \in Blocks : \E j \in -1..Level(n) :
               /\ Path(blk', inode'[g].ptr, n)[j] = x
               /\ \A i \in j..Level(n) : Path(blk', inode'[g].ptr, n)[i] \in Y
  <2>1. CASE x \in E
    <3>1. PICK g \in Dead, n \in Blocks, j \in Int :
             /\ j \in -1..Level(n) /\ Path(blk, inode[g].ptr, n)[j] = x
             /\ \A i \in j..Level(n) : Path(blk, inode[g].ptr, n)[i] \in E
      BY <2>1, <1>1 DEF Reachable
    <3>2. g \in Dead' /\ blk' = blk /\ inode'[g].ptr = inode[g].ptr
      OBVIOUS
    <3> QED
      BY <3>1, <3>2, <1>2
  <2>2. CASE x \in X
    <3>1. PICK g \in Dead', n \in Blocks, j \in Int :
             /\ j \in -1..Level(n) /\ Path(blk', inode'[g].ptr, n)[j] = x
             /\ \A i \in j..Level(n) : Path(blk', inode'[g].ptr, n)[i] \in X
      BY <2>2 DEF Reachable
    <3> QED
      BY <3>1, <1>2
  <2> QED
    BY <2>1, <2>2, <1>2
<1>4. Reachable(Y)'
  BY <1>3 DEF Reachable
<1>5. /\ Y \subseteq Data /\ Data \subseteq InUse' \cup Y \cup w2 /\ Y \cap InUse' = {}
      /\ IsFiniteSet(w2) /\ Cardinality(w2) <= kills' * (Level(MAX_BLOCK) + 2)
  BY <1>1, <1>2
<1>6. Account(Y, w2)'
  BY <1>4, <1>5 DEF Account
<1> QED
  BY <1>2, <1>6

\* The last write of a delete: nothing is left of the file that was not written
\* off before.
LEMMA WriteStaleBooks ==
  ASSUME Inv, WriteStale, NEW E, NEW w, Account(E, w)
  PROVE  Books(E, w)' /\ Trimmed'
<1>1. /\ At("block") /\ call.todo = <<>> /\ call' = [call EXCEPT !.pc = "bit"]
      /\ inode' = [inode EXCEPT ![call.file] = [size |-> 0, ptr |-> call.saved]]
      /\ hurt' = hurt /\ free' = free /\ blk' = blk
      /\ used' = used /\ named' = named /\ kills' = kills
  BY DEF WriteStale, Goto
<1>2. TypeOK /\ CallFile
  BY DEF Inv, Running
<1>3. Busy /\ ~ Given /\ call \in Call
  BY <1>1, <1>2 DEF At, Busy, Pcs, TypeOK, Idle, Given
<1>4. call.del /\ call.file \in used \ (named \cup hurt) /\ call.file \in Files
  BY <1>1, <1>2, <1>3 DEF CallFile, Call
<1>5. call'.pc = "bit" /\ call'.file = call.file /\ ~ Busy' /\ ~ Given'
  BY <1>1, <1>3 DEF Call, Busy, Pcs, Given, At
<1>6. Alone' /\ Sizes' /\ Trimmed' /\ Moving = {} /\ Moving' = {}
  BY <1>1, <1>5 DEF Alone, Sizes, Trimmed, At, Moving
<1>7. PICK r, c, q, q2, o, o2, fs, gs :
        /\ Mapped(r, c, q, free, fs) /\ c = Clean /\ c = Clean' /\ q = Ptrs /\ q2 = Ptrs'
        /\ o = Supported /\ o2 = Supported' /\ fs = Live /\ gs = Live'
  BY <1>1, <1>3, <1>5, Views DEF Inv, Sound
<1>8. gs = named \ hurt /\ fs = gs \cup {call.file} /\ gs \subseteq Files /\ call.file \notin gs
  BY <1>1, <1>2, <1>3, <1>4, <1>5, <1>7 DEF Live, TypeOK
<1>9. \A f \in Files \ {call.file} : inode'[f] = inode[f]
  BY <1>1, <1>2 DEF TypeOK
<1>10. \A f \in gs : q2[f] = q[f]
  BY <1>3, <1>5, <1>7, <1>8, <1>9 DEF Ptrs
<1>11. \A f \in gs, m \in Blocks : <<f, m>> \in o => <<f, m>> \in o2
  <2> SUFFICES ASSUME NEW f \in gs, NEW m \in Blocks, <<f, m>> \in o PROVE <<f, m>> \in o2
    OBVIOUS
  <2>1. f # call.file /\ inode'[f] = inode[f]
    BY <1>8, <1>9
  <2>2. m < inode'[f].size
    BY <2>1, <1>7 DEF Supported, Supports
  <2> QED
    BY <2>2, <1>5, <1>7 DEF Supported, Supports
<1>12. Kept(c, q, o, w, gs, c, q2, o2, w)
  BY <1>10, <1>11 DEF Kept
<1>13. Tight(c, q, fs, o, w) /\ gs \in SUBSET fs
  BY <1>7, <1>8 DEF Account
<1>14. Tight(c, q2, gs, o2, w)
  BY <1>7, <1>12, <1>13, TightKept
<1>15. \A f \in gs, n \in Blocks : \A j \in -1..Level(n) : Path(c, q2[f], n)[j] = Path(c, q[f], n)[j]
  BY <1>10
<1>16. Hold(c, q2, gs) \subseteq Hold(c, q, fs) /\ Hold(c, q, fs) \subseteq Hold(c, q2, gs) \cup w
  <2>1. Hold(c, q2, gs) \subseteq Hold(c, q, fs)
    BY <1>8, <1>15 DEF Hold
  <2>2. ASSUME NEW x \in Hold(c, q, fs), x \notin Hold(c, q2, gs) PROVE x \in w
    <3>1. PICK f \in fs, n \in Blocks, j \in Int : j \in -1..Level(n) /\ Path(c, q[f], n)[j] = x /\ x \in Data
      BY DEF Hold
    <3>2. f = call.file
      BY <3>1, <2>2, <1>8, <1>15 DEF Hold
    <3>3. x # 0
      BY <3>1, CrashConstants
    <3>4. Justified(c, q, f, x, j, o, w)
      BY <3>1, <3>3, <1>7, <1>13, BlockJustified
    <3>5. PICK m \in Blocks : /\ j \in -1..Level(m) /\ Path(c, q[f], m)[j] = x
                              /\ Reason(c, q, f, m, j, o, w)
      BY <3>4 DEF Justified
    <3>6. <<f, m>> \notin o
      <4>1. Len(call.todo) = 0
        BY <1>1
      <4>2. ~ Supports(f, m)
        BY <4>1, <3>2, <1>3, <1>4 DEF Supports
      <4> QED
        BY <4>2, <1>7 DEF Supported
    <3>7. j \in j..Level(m)
      BY <3>5, Levels
    <3> QED
      BY <3>5, <3>6, <3>7 DEF Reason
  <2> QED
    BY <2>1, <2>2
<1>17. InUse' \subseteq InUse /\ InUse \subseteq InUse' \cup w
  <2>1. Held = Hold(c, q, fs) /\ Held' = Hold(c, q2, gs)
    BY <1>7 DEF Held
  <2> QED
    BY <2>1, <1>1, <1>6, <1>16 DEF InUse
<1>18. Dead \subseteq Dead' /\ \A g \in Dead : inode'[g].ptr = inode[g].ptr
  <2>1. Dead = used \ fs /\ Dead' = (used \ gs) \ {call.file}
    BY <1>1, <1>5, <1>7 DEF Dead, At
  <2>2. \A g \in Dead : g \in Files \ {call.file}
    BY <2>1, <1>2, <1>8 DEF TypeOK
  <2> QED
    BY <2>1, <2>2, <1>8, <1>9
<1>19. Account(E, w)'
  <2>1. PICK X, w2 : X = {} /\ w2 = w
    OBVIOUS
  <2>2. /\ X \subseteq Data /\ X \cap InUse' = {} /\ InUse \subseteq InUse' \cup X \cup w2
        /\ w \subseteq w2 /\ Reachable(X)'
    BY <2>1, <1>17 DEF Reachable
  <2>3. /\ Tight(Clean', Ptrs', Live', Supported', w2) /\ IsFiniteSet(w2)
        /\ Cardinality(w2) <= kills' * (Level(MAX_BLOCK) + 2) /\ blk' = blk
    BY <2>1, <1>1, <1>7, <1>14 DEF Account
  <2>4. Account(E \cup X, w2)'
    BY <2>2, <2>3, <1>17, <1>18, Settle
  <2>5. E \cup X = E
    BY <2>1
  <2> QED
    BY <2>1, <2>4, <2>5
<1> QED
  BY <1>6, <1>19 DEF Books

\* The end of a delete, or a kill just before it.
LEMMA RestBooks ==
  ASSUME Inv, At("bit"), call' = Idle, free' = free, blk' = blk, inode' = inode,
         named' \ hurt' = named \ hurt, used \ {call.file} \subseteq used',
         kills' = kills \/ kills' = kills + 1, NEW E, NEW w, Account(E, w)
  PROVE  Books(E, w)' /\ Trimmed'
<1>1. ~ Busy /\ ~ Given /\ ~ Busy' /\ ~ Given' /\ call'.pc = "idle" /\ call.pc = "bit"
  BY DEF At, Busy, Pcs, Given, Idle
<1>2. Alone' /\ Sizes' /\ Trimmed' /\ Moving = {} /\ Moving' = {}
  BY <1>1 DEF Alone, Sizes, Trimmed, At, Moving
<1>3. Clean' = Clean /\ Ptrs' = Ptrs /\ Live' = Live
  BY <1>1, Views DEF Ptrs, Live
<1>4. Supported' = Supported
  <2>1. \A f, n : Supports(f, n)' <=> Supports(f, n)
    BY <1>1 DEF Supports
  <2>2. \A x : x \in Supported' <=> x \in Supported
    BY <2>1, <1>3 DEF Supported
  <2> QED
    BY <2>2
<1>5. InUse' = InUse
  BY <1>2, <1>3 DEF InUse, Held
<1>6. Dead \subseteq Dead'
  BY <1>1, <1>3 DEF Dead, At
<1>7. IsFiniteSet(w) /\ Cardinality(w) <= kills' * (Level(MAX_BLOCK) + 2)
  <2>1. PICK k \in Nat : k = kills
    BY DEF Inv, TypeOK
  <2>2. PICK l \in 1..4 : l = Level(MAX_BLOCK) + 2
    <3>1. MAX_BLOCK \in Blocks
      BY CrashConstants DEF Blocks
    <3> QED
      BY <3>1, Levels
  <2>3. IsFiniteSet(w) /\ Cardinality(w) <= k * l
    BY <2>1, <2>2 DEF Account
  <2>4. PICK m \in Nat : m = Cardinality(w)
    BY <2>3, FS_CardinalityType
  <2>5. k * l <= (k + 1) * l
    OBVIOUS
  <2>6. m <= k * l /\ m <= (k + 1) * l
    BY <2>3, <2>4, <2>5
  <2> QED
    BY <2>1, <2>2, <2>3, <2>4, <2>6
<1>8. Account(E, w)'
  <2>1. PICK X, w2 : X = {} /\ w2 = w
    OBVIOUS
  <2>2. /\ X \subseteq Data /\ X \cap InUse' = {} /\ InUse \subseteq InUse' \cup X \cup w2
        /\ InUse' \subseteq InUse /\ w \subseteq w2 /\ Reachable(X)'
    BY <2>1, <1>5 DEF Reachable
  <2>3. /\ Tight(Clean', Ptrs', Live', Supported', w2) /\ IsFiniteSet(w2)
        /\ Cardinality(w2) <= kills' * (Level(MAX_BLOCK) + 2)
        /\ \A g \in Dead : inode'[g].ptr = inode[g].ptr
    BY <2>1, <1>3, <1>4, <1>7 DEF Account
  <2>4. Account(E \cup X, w2)'
    BY <2>2, <2>3, <1>6, Settle
  <2>5. E \cup X = E
    BY <2>1
  <2> QED
    BY <2>1, <2>4, <2>5
<1> QED
  BY <1>2, <1>8 DEF Books

\* The files to rely on have on disk what the running system sees, except under a
\* pointer that only the copy has.
LEMMA EndView ==
  ASSUME Inv, Busy
  PROVE  /\ Whole \subseteq Live /\ Live \subseteq Whole \cup {call.file} /\ call.file \in Live
         /\ \A f \in Whole, p \in Pointers :
              \/ DiskPtrs[f][p] = Ptrs[f][p]
              \/ DiskPtrs[f][p] = 0 /\ Bare /\ f = call.file /\ p = Pointer(N)
         /\ \A f \in Whole, n \in Blocks : \A j \in 0..Level(n), s \in Slots :
              DiskPtrs[f][Pointer(n)] # 0 /\ CleanWay(f, n)[j] # 0
                => blk[CleanWay(f, n)[j]][s] = Clean[CleanWay(f, n)[j]][s]
<1>1. TypeOK /\ Running /\ Copies
  BY DEF Inv
<1>2. PICK r : Sound(r) /\ Mapped(r, Clean, Ptrs, free, Live)
  BY DEF Inv, Sound
<1>3. /\ Whole \subseteq Live /\ Live \subseteq Whole \cup {call.file} /\ call.file \in Live
      /\ Whole \subseteq Files
  BY <1>1 DEF Whole, Live, Harmed, TypeOK
<1>4. CASE call.file \in Whole /\ ~ Bare
  <2>1. ~ Dropped
    BY <1>4 DEF Dropped, Bare
  <2> QED
    BY <2>1, <1>3, Undropped
<1>5. CASE call.file \notin Whole \/ Bare
  <2>1. ASSUME NEW f \in Whole, NEW p \in Pointers
        PROVE  \/ DiskPtrs[f][p] = Ptrs[f][p]
               \/ DiskPtrs[f][p] = 0 /\ Bare /\ f = call.file /\ p = Pointer(N)
    <3>1. CASE f # call.file
      BY <3>1, <1>3 DEF DiskPtrs, Ptrs
    <3>2. CASE f = call.file /\ p = Pointer(N)
      BY <3>2, <1>3, <1>5 DEF DiskPtrs, Bare
    <3>3. CASE f = call.file /\ p # Pointer(N)
      <4>1. Bare /\ call.todo # <<>>
        BY <3>3, <1>5 DEF Bare
      <4>2. call.ino.ptr \in [Pointers -> Data \cup {0}]
        BY <4>1, <1>1, CallBlock DEF Call, Inode
      <4>3. inode[call.file].ptr[p] = call.ino.ptr[p] /\ CopyPtr[p] = call.ino.ptr[p]
        BY <4>1, <4>2, <3>3, <1>1 DEF Copies, CopyPtr
      <4> QED
        BY <4>3, <3>3, <1>3 DEF DiskPtrs, Ptrs
    <3> QED
      BY <3>1, <3>2, <3>3
  <2>2. ASSUME NEW f \in Whole, NEW n \in Blocks, NEW j \in 0..Level(n), NEW s \in Slots,
               DiskPtrs[f][Pointer(n)] # 0, CleanWay(f, n)[j] # 0
        PROVE  blk[CleanWay(f, n)[j]][s] = Clean[CleanWay(f, n)[j]][s]
    <3>1. ~ (f = call.file /\ Pointer(n) = Pointer(N))
      BY <2>2, <1>3, <1>5 DEF DiskPtrs, Bare
    <3>2. j \in -1..Level(n) /\ f \in Live
      BY <1>3, Levels
    <3>3. OnMap(r, Clean, Ptrs, f, n, j)
      BY <3>2, <1>2, PathOnMap
    <3>4. PICK a : a = CleanWay(f, n)[j] /\ a \in DOMAIN r /\ r[a].own = f /\ r[a].top = Pointer(n)
      BY <3>3, <2>2 DEF OnMap, CleanWay
    <3>5. Clean[a] = blk[a]
      BY <3>1, <3>4, <1>2, Elsewhere
    <3> QED
      BY <3>4, <3>5
  <2> QED
    BY <2>1, <2>2, <1>3
<1> QED
  BY <1>4, <1>5

\* And so has the inode of the call, whatever becomes of the file.
LEMMA DeadView ==
  ASSUME Inv, Busy, NEW n \in Blocks, NEW j \in -1..Level(n), CleanWay(call.file, n)[j] # 0,
         ~ (Bare /\ Pointer(n) = Pointer(N))
  PROVE  \A i \in j..Level(n) : /\ Path(blk, inode[call.file].ptr, n)[i] = CleanWay(call.file, n)[i]
                                /\ CleanWay(call.file, n)[i] # 0
<1>1. TypeOK /\ Copies /\ call \in Call
  BY DEF Inv, TypeOK, Busy, Pcs, Idle
<1>2. PICK c, q, c2, q2 : /\ c = Clean /\ q = Ptrs[call.file] /\ c2 = blk /\ q2 = inode[call.file].ptr
                          /\ CleanWay(call.file, n) = Path(c, q, n)
  BY DEF CleanWay
<1>3. PICK L \in -1..2 : L = Level(n) /\ Pointer(n) \in Pointers
  BY Levels
<1>4. ASSUME NEW i \in j..L PROVE Path(c, q, n)[i] # 0
  <2>1. i \in -1..Level(n) /\ j \in -1..i
    BY <1>3
  <2> QED
    BY <2>1, <1>2, NothingBelow
<1>5. q2[Pointer(n)] = q[Pointer(n)]
  <2>1. q = CopyPtr /\ call.ino.ptr \in [Pointers -> Data \cup {0}]
    BY <1>1, <1>2 DEF Ptrs, Call, Inode
  <2>2. q[Pointer(n)] # 0
    <3>1. L \in j..L
      BY <1>3
    <3> QED
      BY <3>1, <1>3, <1>4, PathSteps
  <2>3. call.ino.ptr[Pointer(n)] = q[Pointer(n)]
    BY <2>1, <2>2, <1>3 DEF CopyPtr
  <2>4. CASE call.todo = <<>>
    BY <2>3, <2>4, <1>1, <1>2 DEF Copies
  <2>5. CASE call.todo # <<>>
    BY <2>2, <2>3, <2>5, <1>1, <1>2, <1>3 DEF Copies, Bare
  <2> QED
    BY <2>4, <2>5
<1>6. ASSUME NEW i \in (j + 1)..Level(n), Path(c, q, n)[i] \in Data
      PROVE  c2[Path(c, q, n)[i]][Index(n, i)] = c[Path(c, q, n)[i]][Index(n, i)]
  <2>1. PICK k : k = i - 1 /\ k \in j..L /\ k \in -1..(Level(n) - 1) /\ k + 1 = i
    BY <1>3
  <2>2. Path(c, q, n)[k] = Down(c, Path(c, q, n)[i], Index(n, i))
    BY <2>1, PathSteps
  <2>3. c[Path(c, q, n)[i]][Index(n, i)] # 0
    BY <2>1, <2>2, <1>4, <1>6 DEF Down
  <2>4. Index(n, i) \in Slots
    <3>1. i \in 0..Level(n)
      BY <2>1, <1>3
    <3> QED
      BY <3>1, Indices
  <2> QED
    BY <2>3, <2>4, <1>1, <1>2, <1>6, CleanBlocks
<1>7. j \in -1..3
  BY <1>3
<1>8. \A i \in j..Level(n) : Path(c2, q2, n)[i] = Path(c, q, n)[i]
  BY <1>5, <1>6, <1>7, PathSame
<1> QED
  BY <1>2, <1>3, <1>4, <1>8

\* The way to the block of the call is written off, where it is not on disk or is
\* behind the size of the file
Excused(o, w2) ==
  Bare \/ (call.todo # <<>> /\ <<call.file, N>> \in o /\ ~ N < inode[call.file].size) =>
    \A i \in -1..Level(N) : CleanWay(call.file, N)[i] # 0 => CleanWay(call.file, N)[i] \in w2

\* The call ends before it is done.
LEMMA EndBooks ==
  ASSUME Inv, Busy, NEW E, NEW w, Books(E, w), call' = Idle, free' = free, blk' = blk,
         inode' = inode, used' = used, named' = named, hurt' = hurt \cup Harmed,
         NEW o, Tight(Clean, Ptrs, Live, o, w), \A x \in o : x \in Supported,
         NEW w2, w \subseteq w2, Moving \subseteq w2, Excused(o, w2),
         IsFiniteSet(w2), Cardinality(w2) <= kills' * (Level(MAX_BLOCK) + 2)
  PROVE  (\E Y : Books(Y, w2)') /\ Trimmed'
<1>1. TypeOK /\ CallFile /\ Running
  BY DEF Inv, Running
<1>2. ~ Busy' /\ ~ Given' /\ call'.pc = "idle" /\ ~ At("bit")
  BY DEF Busy, Given, At, Pcs, Idle
<1>3. Alone' /\ Sizes' /\ Trimmed' /\ Moving' = {} /\ ~ At("bit")'
  BY <1>2 DEF Alone, Sizes, Trimmed, At, Moving
<1>4. Clean' = blk /\ Ptrs' = DiskPtrs /\ Live' = Whole
  BY <1>2, Views DEF Ptrs, DiskPtrs, Live, Whole
<1>5. PICK r, c, q, c2, q2, o2, fs, gs, f0 :
        /\ Mapped(r, c, q, free, fs) /\ c = Clean /\ q = Ptrs /\ fs = Live /\ f0 = call.file
        /\ c2 = blk /\ q2 = DiskPtrs /\ gs = Whole /\ o2 = Supported'
  BY DEF Inv, Sound
<1>6. gs \in SUBSET fs /\ fs \subseteq gs \cup {f0} /\ f0 \in fs
  BY <1>5, EndView
<1>7. \A f \in gs, p \in Pointers : \/ q2[f][p] = q[f][p]
                                    \/ q2[f][p] = 0 /\ Bare /\ f = f0 /\ p = Pointer(N)
  BY <1>5, EndView
<1>8. \A f \in gs, n \in Blocks : \A j \in 0..Level(n), s \in Slots :
        q2[f][Pointer(n)] # 0 /\ Path(c, q[f], n)[j] # 0
          => c2[Path(c, q[f], n)[j]][s] = c[Path(c, q[f], n)[j]][s]
  BY <1>5, EndView DEF CleanWay
<1>9. ASSUME NEW f \in gs, NEW m \in Blocks, <<f, m>> \in o
      PROVE  \/ <<f, m>> \in o2
             \/ \A i \in -1..Level(m) : Path(c, q[f], m)[i] # 0 => Path(c, q[f], m)[i] \in w2
  <2>1. Supports(f, m)
    BY <1>9 DEF Supported
  <2>2. CASE m < inode[f].size
    BY <2>2, <1>2, <1>4, <1>5 DEF Supported, Supports
  <2>3. CASE ~ m < inode[f].size
    <3>1. f = f0
      BY <2>1, <2>3, <1>5 DEF Supports
    <3>2. ~ call.del /\ call.todo # <<>>
      BY <3>1, <1>1, <1>5 DEF CallFile, Whole
    <3>3. m = N
      BY <3>1, <3>2, <2>1, <2>3, <1>5 DEF Supports, Books, Sizes
    <3>4. \A i \in -1..Level(N) : CleanWay(call.file, N)[i] # 0 => CleanWay(call.file, N)[i] \in w2
      BY <3>1, <3>2, <3>3, <2>3, <1>5, <1>9 DEF Excused
    <3> QED
      BY <3>1, <3>3, <3>4, <1>5 DEF CleanWay
  <2> QED
    BY <2>2, <2>3
<1>10. Kept(c, q, o, w, gs, c2, q2, o2, w2)
  BY <1>7, <1>8, <1>9 DEF Kept
<1>11. /\ \A f \in gs, n \in Blocks : \A j \in -1..Level(n) :
            Path(c2, q2[f], n)[j] = IF q2[f][Pointer(n)] = 0 THEN 0 ELSE Path(c, q[f], n)[j]
       /\ Tight(c2, q2, gs, o2, w2)
  <2>1. Tight(c, q, fs, o, w) /\ Mapped(r, c, q, free, fs) /\ gs \in SUBSET fs
    BY <1>5, <1>6
  <2>2. PICK fr : Mapped(r, c, q, fr, fs)
    BY <2>1
  <2> QED
    BY ONLY <2>1, <2>2, <1>10, TightKept
<1>12. PICK X : X = {x \in Data : /\ f0 \notin gs
                                  /\ \E n \in Blocks : \E j \in -1..Level(n) :
                                       /\ Path(c, q[f0], n)[j] = x
                                       /\ ~ (Bare /\ Pointer(n) = Pointer(N))}
  OBVIOUS
<1>13. \A x \in Data : x # 0
  BY CrashConstants
<1>14. ASSUME NEW x \in X
       PROVE  \E g \in Dead', n \in Blocks : \E j \in -1..Level(n) :
                /\ Path(blk', inode'[g].ptr, n)[j] = x
                /\ \A i \in j..Level(n) : Path(blk', inode'[g].ptr, n)[i] \in X
  <2>1. PICK n \in Blocks, j \in Int : /\ j \in -1..Level(n) /\ Path(c, q[f0], n)[j] = x
                                      /\ ~ (Bare /\ Pointer(n) = Pointer(N)) /\ f0 \notin gs /\ x \in Data
    BY <1>12
  <2>2. CleanWay(call.file, n) = Path(c, q[f0], n) /\ x # 0
    BY <2>1, <1>5, <1>13 DEF CleanWay
  <2>3. \A i \in j..Level(n) : /\ Path(blk, inode[f0].ptr, n)[i] = Path(c, q[f0], n)[i]
                               /\ Path(c, q[f0], n)[i] # 0
    BY <2>1, <2>2, <1>5, DeadView
  <2>4. PICK L \in -1..2 : L = Level(n)
    BY Levels
  <2>5. ASSUME NEW i \in j..L PROVE Path(c, q[f0], n)[i] \in X
    <3>1. i \in -1..Level(n)
      BY <2>1, <2>4
    <3>2. Path(c, q[f0], n)[i] \in Data
      BY <3>1, <2>3, <2>4, <1>5, <1>6, HeldMapped
    <3> QED
      BY <3>1, <3>2, <2>1, <1>12
  <2>6. f0 \in Dead'
    <3>1. f0 \in used
      BY <1>1, <1>5 DEF CallFile, TypeOK
    <3> QED
      BY <3>1, <2>1, <1>3, <1>4, <1>5 DEF Dead
  <2>7. j \in j..Level(n) /\ blk' = blk /\ inode' = inode
    BY <2>1, <2>4
  <2>8. /\ Path(blk', inode'[f0].ptr, n)[j] = x
        /\ \A i \in j..Level(n) : Path(blk', inode'[f0].ptr, n)[i] \in X
    BY <2>1, <2>3, <2>4, <2>5, <2>7
  <2> QED
    BY <2>1, <2>6, <2>8
<1>15. Reachable(X)'
  BY <1>14 DEF Reachable
<1>16. InUse' = free \cup Hold(c2, q2, gs) /\ InUse = free \cup Hold(c, q, fs) \cup Moving
  BY <1>3, <1>4, <1>5 DEF InUse, Held
<1>17. InUse' \subseteq InUse
  <2>1. Hold(c2, q2, gs) \subseteq Hold(c, q, fs)
    BY <1>6, <1>11, <1>13 DEF Hold
  <2> QED
    BY <2>1, <1>16
<1>18. X \cap InUse' = {}
  <2> SUFFICES ASSUME NEW x \in X, x \in InUse' PROVE FALSE
    OBVIOUS
  <2>1. PICK n \in Blocks, j \in Int : /\ j \in -1..Level(n) /\ Path(c, q[f0], n)[j] = x
                                      /\ f0 \notin gs /\ x \in Data /\ x # 0
    BY <1>12, <1>13
  <2>2. x \notin free
    <3>1. x \in DOMAIN r
      BY <2>1, <1>5, <1>6, HeldMapped
    <3> QED
      BY <3>1, <1>5 DEF Mapped
  <2>3. PICK f \in gs, m \in Blocks, k \in Int : k \in -1..Level(m) /\ Path(c2, q2[f], m)[k] = x
    BY <2>2, <1>16 DEF Hold
  <2>4. Path(c, q[f], m)[k] = x
    BY <2>1, <2>3, <1>11
  <2>5. Path(c, q[f0], n)[j] # 0 /\ Path(c, q[f0], n)[j] = Path(c, q[f], m)[k] /\ f \in fs
    BY <2>1, <2>4, <1>6
  <2>6. f0 = f
    BY <2>1, <2>3, <2>5, <1>5, <1>6, PathsMeet
  <2> QED
    BY <2>1, <2>6
<1>19. ASSUME NEW x \in Hold(c, q, fs) PROVE x \in InUse' \cup X \cup w2
  <2>1. PICK f \in fs, n \in Blocks, j \in Int : /\ j \in -1..Level(n) /\ Path(c, q[f], n)[j] = x
                                                /\ x \in Data /\ x # 0
    BY <1>13 DEF Hold
  <2>2. CASE f = f0 /\ Bare /\ Pointer(n) = Pointer(N)
    <3>1. Level(n) = Level(N)
      <4>1. N \in Blocks
        BY <2>2, <1>1, CallBlock DEF Bare
      <4> QED
        BY <4>1, <2>2, Levels
    <3>2. CleanWay(call.file, n)[j] = x
      BY <2>1, <2>2, <1>5 DEF CleanWay
    <3>3. CleanWay(call.file, N)[j] = x
      BY <3>2, <2>1, <2>2 DEF Books, Alone
    <3> QED
      BY <3>1, <3>3, <2>1, <2>2 DEF Excused
  <2>3. CASE ~ (f = f0 /\ Bare /\ Pointer(n) = Pointer(N)) /\ f \notin gs
    BY <2>1, <2>3, <1>6, <1>12
  <2>4. CASE ~ (f = f0 /\ Bare /\ Pointer(n) = Pointer(N)) /\ f \in gs
    <3>1. PICK L \in -1..2 : L = Level(n) /\ Pointer(n) \in Pointers
      BY Levels
    <3>2. q[f][Pointer(n)] # 0
      <4>1. L \in -1..Level(n) /\ j \in -1..L
        BY <3>1, <2>1
      <4>2. Path(c, q[f], n)[L] # 0
        BY <4>1, <2>1, NothingBelow
      <4> QED
        BY <4>2, <3>1, PathSteps
    <3>3. q2[f][Pointer(n)] # 0
      BY <3>1, <3>2, <2>4, <1>7
    <3>4. Path(c2, q2[f], n)[j] = x
      BY <3>3, <2>1, <2>4, <1>11
    <3> QED
      BY <3>4, <2>1, <2>4, <1>16 DEF Hold
  <2> QED
    BY <2>2, <2>3, <2>4
<1>20. InUse \subseteq InUse' \cup X \cup w2
  BY <1>16, <1>19
<1>21. Dead \subseteq Dead'
  BY <1>2, <1>3, <1>4, <1>5, <1>6 DEF Dead
<1>22. Account(E \cup X, w2)'
  <2>1. /\ Account(E, w) /\ X \subseteq Data /\ Tight(Clean', Ptrs', Live', Supported', w2)
        /\ \A g \in Dead : inode'[g].ptr = inode[g].ptr
    BY <1>4, <1>5, <1>11, <1>12 DEF Books
  <2> QED
    BY <2>1, <1>15, <1>17, <1>18, <1>20, <1>21, Settle
<1> QED
  BY <1>3, <1>22 DEF Books

\* DATA_FULL where the inode has nothing: the copy has nothing there either.
LEMMA FullBare ==
  ASSUME Inv, At("full"), Trimmed, Bare, NEW E, NEW w, Books(E, w)
  PROVE  \A i \in -1..Level(N) : CleanWay(call.file, N)[i] = 0
<1>1. Busy /\ call.todo # <<>>
  BY DEF At, Busy, Pcs, Bare
<1>2. /\ N \in Blocks /\ Level(N) \in -1..2 /\ Pointer(N) \in Pointers /\ call.file \in Live
      /\ Pruned(Clean, Ptrs[call.file], N)
  BY <1>1, CallBlock DEF Inv, Live, Trimmed
<1>3. PICK r, c, q, fs, f0, n0, o :
        /\ Mapped(r, c, q, free, fs) /\ c = Clean /\ q = Ptrs /\ fs = Live /\ f0 = call.file
        /\ n0 = N /\ o = Supported
  BY DEF Inv, Sound
<1>4. n0 \in Blocks /\ f0 \in fs /\ Tight(c, q, fs, o, w) /\ Pruned(c, q[f0], n0)
  BY <1>2, <1>3 DEF Books, Account
<1>5. \A n \in Blocks : Pointer(n) = Pointer(n0) => \A j \in -1..Level(n) :
        Path(c, q[f0], n)[j] # 0 => Path(c, q[f0], n)[j] = Path(c, q[f0], n0)[j]
  BY <1>1, <1>3 DEF Books, Alone, CleanWay
<1>6. CASE q[f0][Pointer(n0)] = 0
  <2>1. Path(c, q[f0], n0)[Level(n0)] = 0 /\ Level(n0) \in -1..Level(n0)
    BY <1>4, <1>6, PathSteps, Levels
  <2>2. \A i \in -1..Level(n0) : Path(c, q[f0], n0)[i] = 0
    BY <2>1, <1>4, NothingBelow
  <2> QED
    BY <2>2, <1>3 DEF CleanWay
<1>7. CASE \E i \in 0..Level(n0), s \in Slots :
             Path(c, q[f0], n0)[i] # 0 /\ Path(c, q[f0], n0)[i - 1] = 0 /\ c[Path(c, q[f0], n0)[i]][s] # 0
  <2>1. PICK i \in 0..Level(n0), s \in Slots :
           Path(c, q[f0], n0)[i] # 0 /\ Path(c, q[f0], n0)[i - 1] = 0 /\ c[Path(c, q[f0], n0)[i]][s] # 0
    BY <1>7
  <2>2. PICK a, y : a = Path(c, q[f0], n0)[i] /\ y = c[a][s] /\ a # 0 /\ y # 0
    BY <2>1
  <2>3. i \in -1..Level(n0) /\ i >= 0
    BY <1>4, Levels
  <2>4. OnMap(r, c, q, f0, n0, i)
    BY <2>3, <1>3, <1>4, PathOnMap
  <2>5. a \in DOMAIN r /\ r[a].lev = i /\ r[a].own = f0 /\ r[a].top = Pointer(n0)
    BY <2>2, <2>4 DEF OnMap
  <2>6. Child(r, y, f0, Pointer(n0), i - 1, <<"block", a, s>>)
    BY <2>2, <2>3, <2>5, <1>3 DEF Mapped
  <2>7. PICK m \in Blocks : i - 1 \in -1..Level(m) /\ Path(c, q[f0], m)[i - 1] = y
    BY <2>1, <2>2, <1>4 DEF Tight, Justified
  <2>8. OnMap(r, c, q, f0, m, i - 1)
    BY <2>7, <1>3, <1>4, PathOnMap
  <2>9. Pointer(m) = Pointer(n0)
    BY <2>2, <2>6, <2>7, <2>8 DEF OnMap, Child
  <2> QED
    BY <2>1, <2>2, <2>7, <2>9, <1>5
<1> QED
  BY <1>4, <1>6, <1>7 DEF Pruned

\* DATA_FULL loses nothing.
LEMMA ReturnFullBooks ==
  ASSUME Inv, ReturnFull, Trimmed, NEW E, NEW w, Books(E, w)
  PROVE  (\E Y : Books(Y, w)') /\ Trimmed'
<1>1. /\ At("full") /\ call' = Idle /\ hurt' = hurt \cup Harmed /\ free' = free /\ blk' = blk
      /\ inode' = inode /\ used' = used /\ named' = named /\ kills' = kills
  BY DEF ReturnFull
<1>2. Busy /\ call.todo # <<>> /\ Moving = {}
  BY <1>1 DEF At, Busy, Pcs, Inv, Running, CallFile, Moving
<1>3. PICK r, c, q, fs, f0, n0, s, o :
        /\ Mapped(r, c, q, free, fs) /\ c = Clean /\ q = Ptrs /\ fs = Live /\ f0 = call.file
        /\ n0 = N /\ s = Supported /\ o = {x \in Supported : x # <<call.file, N>>}
  BY DEF Inv, Sound
<1>4. /\ n0 \in Blocks /\ f0 \in fs /\ Tight(c, q, fs, s, w) /\ Pruned(c, q[f0], n0)
      /\ \A f \in fs, m \in Blocks : <<f, m>> \in s => <<f, m>> \in o \/ (f = f0 /\ m = n0)
  <2>1. n0 \in Blocks /\ f0 \in fs
    BY <1>2, <1>3, CallBlock DEF Inv, Live
  <2>2. Tight(c, q, fs, s, w) /\ Pruned(c, q[f0], n0)
    BY <1>1, <1>3 DEF Books, Account, Trimmed
  <2> QED
    BY <2>1, <2>2, <1>3
<1>5. Tight(c, q, fs, o, w)
  <2>1. PICK fr : Mapped(r, c, q, fr, fs)
    BY <1>3
  <2> QED
    BY ONLY <2>1, <1>4, TightDrop
<1>6. Excused(o, w)
  <2>1. <<call.file, N>> \notin o
    BY <1>3
  <2>2. ASSUME Bare PROVE \A i \in -1..Level(N) : CleanWay(call.file, N)[i] = 0
    BY <2>2, <1>1, FullBare
  <2> QED
    BY <2>1, <2>2 DEF Excused
<1>7. PICK w2 : w2 = w
  OBVIOUS
<1>8. /\ Tight(Clean, Ptrs, Live, o, w) /\ (\A x \in o : x \in Supported) /\ w \subseteq w2
      /\ Moving \subseteq w2 /\ Excused(o, w2) /\ IsFiniteSet(w2)
      /\ Cardinality(w2) <= kills' * (Level(MAX_BLOCK) + 2)
  BY <1>1, <1>2, <1>3, <1>5, <1>6, <1>7 DEF Books, Account
<1>9. (\E Y : Books(Y, w2)') /\ Trimmed'
  BY <1>1, <1>2, <1>8, EndBooks
<1> QED
  BY <1>7, <1>9

\* As many blocks as levels, at most.
LEMMA Few ==
  ASSUME NEW L \in -1..2, NEW g
  PROVE  /\ IsFiniteSet({g[i] : i \in -1..L} \ {0})
         /\ Cardinality({g[i] : i \in -1..L} \ {0}) <= L + 2
<1>1. PICK S, T, h : S = -1..L /\ T = {g[i] : i \in -1..L} /\ h = [i \in S |-> g[i]]
  OBVIOUS
<1>2. IsFiniteSet(S) /\ Cardinality(S) = L + 2
  <2>1. -1 \in Int /\ L \in Int /\ ~ -1 > L
    OBVIOUS
  <2>2. IsFiniteSet(-1..L) /\ Cardinality(-1..L) = L - (-1) + 1
    BY <2>1, FS_Interval
  <2> QED
    BY <2>2, <1>1
<1>3. h \in Surjection(S, T)
  BY <1>1 DEF Surjection
<1>4. IsFiniteSet(T) /\ Cardinality(T) <= Cardinality(S)
  BY <1>2, <1>3, FS_Surjection
<1>5. PICK U \in SUBSET T : U = T \ {0}
  OBVIOUS
<1>6. IsFiniteSet(U) /\ Cardinality(U) <= Cardinality(T)
  BY <1>4, FS_Subset
<1>7. Cardinality(U) \in Nat /\ Cardinality(T) \in Nat
  BY <1>4, <1>6, FS_CardinalityType
<1>8. Cardinality(U) <= L + 2
  BY <1>2, <1>4, <1>6, <1>7
<1> QED
  BY <1>1, <1>5, <1>6, <1>8

\* Where a block is coming or going, there is none on the way yet, or any more.
LEMMA MovingPlace ==
  ASSUME Inv, Moving # {}
  PROVE  /\ Moving = {call.b} /\ call.b # 0 /\ call.j - 1 \in -1..Level(N)
         /\ CleanWay(call.file, N)[call.j - 1] = 0
<1>1. At("link") \/ At("give")
  BY DEF Moving
<1>2. Busy /\ call.todo # <<>> /\ CallStep /\ TypeOK /\ Running /\ Moving = {call.b}
  BY <1>1 DEF At, Busy, Pcs, Inv, Running, CallFile, Moving
<1>3. /\ call \in Call /\ N \in Blocks /\ Level(N) \in -1..2 /\ Pointer(N) \in Pointers
  BY <1>2, CallBlock
<1>4. CASE At("link")
  <2>1. /\ call.b # 0 /\ call.j \in 0..Level(N) /\ Parent # 0 /\ blk[Parent][Address] = 0
    BY <1>2, <1>4, CrashConstants DEF CallStep
  <2>2. ~ Given
    BY <1>4 DEF Given, At
  <2>3. call.j \in -1..Level(N) /\ call.j - 1 \in -1..Level(N) /\ call.j - 1 \in -1..(Level(N) - 1)
        /\ (call.j - 1) + 1 = call.j
    BY <2>1, <1>3
  <2>4. Parent \in Data
    BY <2>1, <2>2, <2>3, <1>2, CallBlocks DEF Parent
  <2>5. CallWay[call.j - 1] = Down(blk, CallWay[(call.j - 1) + 1], Index(N, (call.j - 1) + 1))
    BY <2>3, <1>3, CallPath, PathSteps
  <2>6. CallWay[call.j - 1] = 0
    BY <2>1, <2>3, <2>4, <2>5 DEF Down, Parent, Address
  <2>7. CleanWay(call.file, N)[call.j - 1] = CallWay[call.j - 1]
    BY <2>2, <2>3, <1>2, CallBlocks
  <2> QED
    BY <2>1, <2>3, <2>6, <2>7, <1>2
<1>5. CASE At("give")
  <2>1. Given /\ call.b # 0
    BY <1>2, <1>5 DEF Given, CallStep
  <2>2. call.j - 1 \in -1..Level(N)
    <3>1. call.j \in 0..(Level(N) + 1)
      BY <2>1, LoopPath
    <3> QED
      BY <3>1, <1>3
  <2>3. CASE AtRoot
    <3>1. CleanWay(call.file, N)[call.j - 1] = CopyPtr[Pointer(N)]
      BY <2>1, <2>3, LoopPath
    <3>2. CopyPtr[Pointer(N)] = 0
      BY <2>1, <2>3, <1>3 DEF CopyPtr, Call, Inode
    <3> QED
      BY <3>1, <3>2, <2>1, <2>2, <1>2
  <2>4. CASE ~ AtRoot
    <3>1. /\ CleanWay(call.file, N)[call.j - 1] = Clean[Parent][Address]
          /\ Parent \in Data /\ Address \in Slots
      BY <2>1, <2>4, LoopPath
    <3>2. Clean[Parent][Address] = 0
      BY <2>1, <2>4, <3>1, <1>2 DEF Clean, TypeOK
    <3> QED
      BY <3>1, <3>2, <2>1, <2>2, <1>2
  <2> QED
    BY <2>3, <2>4
<1> QED
  BY <1>1, <1>4, <1>5

\* A kill loses the way to one block, at most.
LEMMA KillBooks ==
  ASSUME Inv, Busy, Kill, NEW E, NEW w, Books(E, w)
  PROVE  (\E Y, v : Books(Y, v)') /\ Trimmed'
<1>1. /\ kills' = kills + 1 /\ call' = Idle /\ hurt' = hurt \cup Harmed /\ free' = free
      /\ blk' = blk /\ inode' = inode /\ used' = used /\ named' = named
  BY DEF Kill
<1>2. PICK k \in Nat, l \in 1..4 : k = kills /\ l = Level(MAX_BLOCK) + 2
  <2>1. MAX_BLOCK \in Blocks
    BY CrashConstants DEF Blocks
  <2>2. Level(MAX_BLOCK) + 2 \in 1..4
    BY <2>1, Levels
  <2>3. kills \in Nat
    BY DEF Inv, TypeOK
  <2> QED
    BY <2>2, <2>3
<1>3. /\ IsFiniteSet(w) /\ Cardinality(w) <= k * l /\ Tight(Clean, Ptrs, Live, Supported, w)
  BY <1>2 DEF Books, Account
<1>4. PICK Z : /\ IsFiniteSet(Z) /\ Cardinality(Z) <= l /\ Moving \subseteq Z
               /\ call.todo # <<>> => \A i \in -1..Level(N) : CleanWay(call.file, N)[i] # 0
                                                    => CleanWay(call.file, N)[i] \in Z
  <2>1. CASE call.todo = <<>>
    <3>1. Moving = {}
      BY <2>1 DEF Inv, Running, CallFile, Moving, At
    <3>2. IsFiniteSet({}) /\ Cardinality({}) <= l
      BY FS_EmptySet
    <3> QED
      BY <2>1, <3>1, <3>2
  <2>2. CASE call.todo # <<>>
    <3>1. PICK L \in -1..2 : L = Level(N) /\ L + 2 <= l
      <4>1. N \in Blocks
        BY <2>2, CallBlock DEF Inv
      <4>2. Level(N) \in -1..2 /\ Level(N) <= Level(MAX_BLOCK)
        BY <4>1, Levels
      <4>3. MAX_BLOCK \in Blocks
        BY CrashConstants DEF Blocks
      <4>4. Level(MAX_BLOCK) \in -1..2
        BY <4>3, Levels
      <4> QED
        BY <4>2, <4>4, <1>2
    <3>2. PICK g : g = [i \in -1..L |-> IF Moving # {} /\ i = call.j - 1 THEN call.b
                                        ELSE CleanWay(call.file, N)[i]]
      OBVIOUS
    <3>3. PICK Z : Z = {g[i] : i \in -1..L} \ {0}
      OBVIOUS
    <3>4. IsFiniteSet(Z) /\ Cardinality(Z) <= l
      <4>1. IsFiniteSet(Z) /\ Cardinality(Z) <= L + 2
        BY <3>3, Few
      <4>2. Cardinality(Z) \in Nat
        BY <4>1, FS_CardinalityType
      <4> QED
        BY <4>1, <4>2, <3>1
    <3>5. Moving \subseteq Z
      <4> SUFFICES ASSUME Moving # {} PROVE Moving \subseteq Z
        OBVIOUS
      <4>1. Moving = {call.b} /\ call.b # 0 /\ call.j - 1 \in -1..L
        BY <3>1, MovingPlace
      <4>2. g[call.j - 1] = call.b
        BY <4>1, <3>2
      <4> QED
        BY <4>1, <4>2, <3>3
    <3>6. ASSUME NEW i \in -1..L, CleanWay(call.file, N)[i] # 0 PROVE CleanWay(call.file, N)[i] \in Z
      <4>1. ~ (Moving # {} /\ i = call.j - 1)
        BY <3>6, MovingPlace
      <4>2. g[i] = CleanWay(call.file, N)[i]
        BY <4>1, <3>2
      <4> QED
        BY <4>2, <3>3, <3>6
    <3> QED
      BY <3>1, <3>4, <3>5, <3>6
  <2> QED
    BY <2>1, <2>2
<1>5. PICK w2 : w2 = w \cup Z
  OBVIOUS
<1>6. IsFiniteSet(w2) /\ Cardinality(w2) <= kills' * (Level(MAX_BLOCK) + 2)
  <2>1. /\ IsFiniteSet(w2)
        /\ Cardinality(w2) = Cardinality(w) + Cardinality(Z) - Cardinality(w \cap Z)
    BY <1>3, <1>4, <1>5, FS_Union
  <2>2. PICK D \in SUBSET w : D = w \cap Z
    OBVIOUS
  <2>3. IsFiniteSet(D)
    BY <1>3, FS_Subset
  <2>4. PICK a \in Nat, b \in Nat, d \in Nat : a = Cardinality(w) /\ b = Cardinality(Z) /\ d = Cardinality(D)
    BY <2>3, <1>3, <1>4, FS_CardinalityType
  <2>5. PICK p \in Nat : p = k * l
    OBVIOUS
  <2>6. (k + 1) * l = p + l
    BY <2>5
  <2>7. a + b - d <= (k + 1) * l
    BY <2>4, <2>5, <2>6, <1>3, <1>4
  <2> QED
    BY <2>1, <2>2, <2>4, <2>7, <1>1, <1>2
<1>7. PICK o : o = Supported
  OBVIOUS
<1>8. /\ Tight(Clean, Ptrs, Live, o, w) /\ (\A x \in o : x \in Supported) /\ w \subseteq w2
      /\ Moving \subseteq w2 /\ Excused(o, w2)
  BY <1>3, <1>4, <1>5, <1>7 DEF Excused, Bare
<1>9. (\E Y : Books(Y, w2)') /\ Trimmed'
  BY <1>1, <1>6, <1>8, EndBooks
<1> QED
  BY <1>9

-----------------------------------------------------------------------------
(* Theorems on the account *)

\* Every step of every call keeps an account of the blocks.
LEMMA NextLeak ==
  ASSUME LeakInv, [Next]_vars
  PROVE  LeakInv'
<1>1. Inv /\ Inv' /\ Trimmed
  BY NextInv DEF LeakInv
<1>2. PICK E, w : Books(E, w) /\ Account(E, w)
  BY DEF LeakInv, Books
<1>3. SUFFICES (\E Y, v : Books(Y, v)') /\ Trimmed'
  BY <1>1 DEF LeakInv, Books
<1>4. CASE UNCHANGED vars
  <2>1. /\ free' = free /\ blk' = blk /\ inode' = inode /\ used' = used /\ named' = named
        /\ call' = call /\ kills' = kills /\ want' = want /\ hurt' = hurt
    BY <1>4 DEF vars
  <2>2. /\ CallWay' = CallWay /\ N' = N /\ V' = V
    BY <2>1, CallPath DEF N, V
  <2>3. /\ Parent' = Parent /\ Address' = Address /\ (AtRoot' <=> AtRoot)
        /\ \A pc : At(pc)' <=> At(pc)
    BY <2>1, <2>2 DEF Parent, Address, AtRoot, At
  <2>4. (Given' <=> Given) /\ (Busy' <=> Busy)
    BY <2>1, <2>3 DEF Given, Busy
  <2>5. Clean' = Clean /\ CopyPtr' = CopyPtr
    BY <2>1, <2>2, <2>3, <2>4 DEF Clean, CopyPtr
  <2>6. Ptrs' = Ptrs /\ Live' = Live
    BY <2>1, <2>4, <2>5 DEF Ptrs, Live
  <2>7. \A f, n : CleanWay(f, n)' = CleanWay(f, n)
    BY <2>5, <2>6 DEF CleanWay
  <2>8. (Bare' <=> Bare) /\ Trimmed' /\ Sizes'
    BY <2>1, <2>2, <2>3, <2>4, <2>5, <2>6, <1>1, <1>2 DEF Bare, Trimmed, Sizes, Books
  <2>9. Alone'
    BY <2>1, <2>2, <2>4, <2>7, <2>8, <1>2 DEF Alone, Books
  <2>10. Supported' = Supported
    <3>1. \A f, n : Supports(f, n)' <=> Supports(f, n)
      BY <2>1, <2>2, <2>4 DEF Supports
    <3>2. \A x : x \in Supported' <=> x \in Supported
      BY <3>1, <2>6 DEF Supported
    <3> QED
      BY <3>2
  <2>11. InUse' = InUse
    BY <2>1, <2>3, <2>5, <2>6 DEF InUse, Held, Moving
  <2>12. Dead' = Dead
    BY <2>1, <2>3, <2>6 DEF Dead
  <2>13. Account(E, w)'
    <3>1. Tight(Clean', Ptrs', Live', Supported', w)
      BY <2>5, <2>6, <2>10, <1>2 DEF Account
    <3> QED
      BY <3>1, <2>1, <2>11, <2>12, <1>2, Balance
  <2> QED
    BY <2>8, <2>9, <2>13 DEF Books
<1>5. CASE \E f \in Files : mknod(f) \/ unlink(f)
  BY <1>1, <1>2, <1>5, MknodBooks, UnlinkBooks
<1>6. CASE \E f \in Files, todo \in Jobs : write_i(f, todo)
  BY <1>1, <1>2, <1>6, WriteBooks
<1>7. CASE \E b \in Data : CreateRoot(b) \/ CreateChild(b)
  BY <1>1, <1>2, <1>7, CreateRootBooks, CreateChildBooks
<1>8. CASE \E next \in Data \cup {0} : GiveAsNode(next)
  BY <1>1, <1>2, <1>8, GiveAsNodeBooks
<1>9. CASE LinkChild \/ RemoveWhole \/ RemovePart \/ NoRoom \/ RemoveNothing
  BY <1>1, <1>2, <1>9, LinkChildBooks, RemoveStartsBooks, RemoveNothingBooks
<1>10. CASE GiveToNode \/ GiveHead \/ ClearAddress \/ Store
  BY <1>1, <1>2, <1>10, GiveToNodeBooks, GiveHeadBooks, ClearAddressBooks, StoreBooks
<1>11. CASE InodeWrite \/ ReturnFull \/ WriteStale
  BY <1>1, <1>2, <1>11, InodeWriteBooks, ReturnFullBooks, WriteStaleBooks
<1>12. CASE InodeFree
  <2>1. /\ At("bit") /\ call' = Idle /\ free' = free /\ blk' = blk /\ inode' = inode
        /\ named' \ hurt' = named \ hurt /\ used \ {call.file} \subseteq used' /\ kills' = kills
    BY <1>12 DEF InodeFree
  <2> QED
    BY <2>1, <1>1, <1>2, RestBooks
<1>13. CASE Kill
  <2>1. CASE Busy
    BY <2>1, <1>1, <1>2, <1>13, KillBooks
  <2>2. CASE ~ Busy
    <3>1. At("bit")
      <4>1. call \in Call
        BY <1>1, <1>13 DEF Kill, Inv, TypeOK, Idle, At
      <4> QED
        BY <4>1, <2>2 DEF Call, Busy, At
    <3>2. call.file \notin named
      BY <3>1, <1>1 DEF Inv, Running, CallFile
    <3>3. /\ call' = Idle /\ free' = free /\ blk' = blk /\ inode' = inode
          /\ named' \ hurt' = named \ hurt /\ used \ {call.file} \subseteq used' /\ kills' = kills + 1
      BY <3>2, <1>13 DEF Kill, Harmed
    <3> QED
      BY <3>1, <3>3, <1>1, <1>2, RestBooks
  <2> QED
    BY <2>1, <2>2
<1> QED
  BY <1>4, <1>5, <1>6, <1>7, <1>8, <1>9, <1>10, <1>11, <1>12, <1>13 DEF Next

\* In every state there is an account of the blocks.
THEOREM LeakInvariance == Spec => []LeakInv
<1>1. Init => LeakInv
  BY InitLeak
<1>2. LeakInv /\ [Next]_vars => LeakInv'
  BY NextLeak
<1> QED
  BY <1>1, <1>2, PTL DEF Spec

\* Only a kill loses blocks, each time those on the way to one block of a file
\* at most; DATA_FULL and a delete lose none.
THEOREM LeakBoundedHolds == Spec => []LeakBounded
<1>1. LeakInv => LeakBounded
  <2> SUFFICES ASSUME LeakInv, At("idle")
               PROVE  Cardinality(Lost) <= kills * (Level(MAX_BLOCK) + 2)
    BY DEF LeakBounded
  <2>1. PICK E, w : Account(E, w)
    BY DEF LeakInv
  <2>2. Inv /\ ~ Busy /\ ~ Given /\ ~ At("bit") /\ Moving = {}
    BY DEF LeakInv, At, Busy, Pcs, Given, Moving
  <2>3. Clean = blk /\ Ptrs = [f \in Files |-> inode[f].ptr] /\ Live = named \ hurt
    BY <2>2, Views DEF Ptrs, Live
  <2>4. named \subseteq used /\ used \subseteq Files
    BY <2>2 DEF Inv, TypeOK
  <2>5. ASSUME NEW x \in Lost PROVE x \in w
    <3>1. x \in Data /\ x \notin free /\ (\A f \in used : x \notin OnDisk(f)) /\ x # 0
      BY CrashConstants DEF Lost
    <3>2. x \notin Held
      <4> SUFFICES ASSUME x \in Held PROVE FALSE
        OBVIOUS
      <4>1. PICK f \in Live, n \in Blocks, j \in Int : j \in -1..Level(n) /\ Path(Clean, Ptrs[f], n)[j] = x
        BY DEF Held, Hold
      <4>2. f \in used /\ x = Path(blk, inode[f].ptr, n)[j]
        BY <4>1, <2>3, <2>4
      <4> QED
        BY <4>1, <4>2, <3>1, OnDiskWay
    <3>3. x \notin E
      <4> SUFFICES ASSUME x \in E PROVE FALSE
        OBVIOUS
      <4>1. PICK g \in Dead, n \in Blocks, j \in Int : j \in -1..Level(n) /\ Path(blk, inode[g].ptr, n)[j] = x
        BY <2>1 DEF Account, Reachable
      <4>2. g \in used
        BY DEF Dead
      <4> QED
        BY <4>1, <4>2, <3>1, OnDiskWay
    <3> QED
      BY <3>1, <3>2, <3>3, <2>1, <2>2 DEF Account, InUse
  <2>6. IsFiniteSet(w) /\ Cardinality(w) <= kills * (Level(MAX_BLOCK) + 2)
    BY <2>1 DEF Account
  <2>7. PICK T \in SUBSET w : T = Lost
    BY <2>5
  <2>8. Cardinality(T) <= Cardinality(w) /\ IsFiniteSet(T)
    BY <2>6, FS_Subset
  <2>9. PICK a \in Nat, b \in Nat : a = Cardinality(T) /\ b = Cardinality(w)
    BY <2>6, <2>8, FS_CardinalityType
  <2>10. PICK m \in Nat : m = kills * (Level(MAX_BLOCK) + 2)
    <3>1. MAX_BLOCK \in Blocks
      BY CrashConstants DEF Blocks
    <3>2. PICK l \in 1..4 : l = Level(MAX_BLOCK) + 2
      BY <3>1, Levels
    <3>3. PICK k \in Nat : k = kills
      BY <2>2 DEF Inv, TypeOK
    <3>4. k * l \in Nat
      OBVIOUS
    <3> QED
      BY <3>2, <3>3, <3>4
  <2> QED
    BY <2>6, <2>7, <2>8, <2>9, <2>10
<1> QED
  BY <1>1, LeakInvariance, PTL
=============================================================================
