-------------------------- MODULE DirectoriesProofs -------------------------
(***************************************************************************)
(* Directories, paths and permissions (Directories), for any sizes of      *)
(* blocks and entries, any number of inodes, any names, paths, users and   *)
(* modes.                                                                  *)
(*                                                                         *)
(* An entry is found by its number: OffsetOf(k) is where entry k starts,   *)
(* and the first part shows that AddOffset, LastOffset, ShrunkSize and     *)
(* PageEntries agree with it.  The invariant DirInv then speaks of entries *)
(* and names only.  Paths are followed by recursive functions; what they   *)
(* compute is shown by induction along the path, with the lemmas of        *)
(* Induction.                                                              *)
(***************************************************************************)
EXTENDS Directories, Induction, SequenceTheorems, FunctionTheorems

-----------------------------------------------------------------------------
(* Where the entries are *)

\* A block holds at least two entries, and less than one more.
LEMMA Block ==
  /\ DIRENTS_PER_BLOCK \in Nat /\ DIRENTS_PER_BLOCK >= 2
  /\ DIRENTS_REMAINDER \in 0..(ENT - 1)
  /\ BLOCK_SIZE = DIRENTS_PER_BLOCK * ENT + DIRENTS_REMAINDER
<1>1. ASSUME NEW b \in Nat, NEW e \in Nat \ {0}, 2 * e <= b, NEW d \in Int, NEW r \in Int,
             d = b \div e, r = b % e
      PROVE  d \in Nat /\ d >= 2 /\ r \in 0..(e - 1) /\ b = d * e + r
  <2>1. d \in Nat /\ r \in 0..(e - 1) /\ b = d * e + r
    BY <1>1
  <2>2. d = 0 \/ d = 1 \/ d >= 2
    BY <2>1
  <2> QED
    BY <1>1, <2>1, <2>2
<1>2. BLOCK_SIZE \in Nat /\ ENT \in Nat \ {0} /\ 2 * ENT <= BLOCK_SIZE
  BY DirConstants
<1>3. PICK d \in Int, r \in Int : d = BLOCK_SIZE \div ENT /\ r = BLOCK_SIZE % ENT
  <2>1. BLOCK_SIZE \div ENT \in Int /\ BLOCK_SIZE % ENT \in Int
    BY <1>2
  <2> QED
    BY <2>1
<1>4. d \in Nat /\ d >= 2 /\ r \in 0..(ENT - 1) /\ BLOCK_SIZE = d * ENT + r
  BY <1>1, <1>2, <1>3
<1> QED
  BY <1>3, <1>4 DEF DIRENTS_PER_BLOCK, DIRENTS_REMAINDER

\* The same without the product.
LEMMA Units ==
  /\ BLOCK_SIZE \in Nat \ {0} /\ ENT \in Nat \ {0} /\ ENT + ENT <= BLOCK_SIZE
  /\ DIRENTS_PER_BLOCK \in Nat \ {0} /\ DIRENTS_PER_BLOCK >= 2
  /\ DIRENTS_REMAINDER \in Nat /\ DIRENTS_REMAINDER < ENT
<1>1. BLOCK_SIZE \in Nat \ {0} /\ ENT \in Nat \ {0} /\ ENT + ENT <= BLOCK_SIZE
  <2>1. BLOCK_SIZE \in Nat /\ ENT \in Nat \ {0} /\ 2 * ENT <= BLOCK_SIZE
    BY DirConstants
  <2> QED
    BY ONLY <2>1
<1>2. /\ DIRENTS_PER_BLOCK \in Nat /\ DIRENTS_PER_BLOCK >= 2
      /\ DIRENTS_REMAINDER \in 0..(ENT - 1)
  BY Block
<1> QED
  BY <1>1, <1>2

\* The offset of an entry, and the page and the place in it.
LEMMA Places ==
  ASSUME NEW n \in Nat
  PROVE  \E m \in Nat, k \in 0..(DIRENTS_PER_BLOCK - 1) :
           /\ n = m * DIRENTS_PER_BLOCK + k
           /\ OffsetOf(n) = m * BLOCK_SIZE + k * ENT
<1>1. PICK p \in Nat \ {0} : p = DIRENTS_PER_BLOCK
  BY Block
<1>2. ASSUME NEW d \in Int, NEW r \in Int, d = n \div p, r = n % p
      PROVE  d \in Nat /\ r \in 0..(p - 1) /\ n = d * p + r
  BY <1>2
<1>3. n \div p \in Int /\ n % p \in Int
  OBVIOUS
<1>4. PICK m \in Nat, k \in 0..(p - 1) : m = n \div p /\ k = n % p /\ n = m * p + k
  BY <1>2, <1>3
<1> QED
  BY <1>1, <1>4 DEF OffsetOf

\* Multiples of e up to p times e.
LEMMA Multiples ==
  ASSUME NEW p \in Nat, NEW e \in Nat \ {0}, NEW k \in 0..p
  PROVE  /\ k * e \in Nat /\ k * e <= p * e /\ p * e \in Nat
         /\ k # p => k * e + e <= p * e
         /\ (k + 1) * e = k * e + e
         /\ (k * e) % e = 0 /\ (k * e) \div e = k
<1>1. PICK d \in Nat : p = k + d
  <2>1. p - k \in Nat /\ p = k + (p - k)
    OBVIOUS
  <2> QED
    BY <2>1
<1>2. p * e = k * e + d * e /\ d * e \in Nat /\ k * e \in Nat /\ p * e \in Nat
  BY <1>1
<1>3. d # 0 => d * e >= e
  OBVIOUS
<1>4. (k * e) % e = 0 /\ (k * e) \div e = k
  <2>1. PICK y \in 0..(e - 1) : y = 0
    OBVIOUS
  <2>2. PICK x : x = k * e /\ x = k * e + y
    BY <1>2, <2>1
  <2>3. k \in Nat
    OBVIOUS
  <2>4. x \div e = k /\ x % e = y
    BY ONLY e \in Nat \ {0}, <2>2, <2>3, Divides
  <2> QED
    BY <2>1, <2>2, <2>4
<1>5. (k + 1) * e = k * e + e
  OBVIOUS
<1> QED
  BY <1>1, <1>2, <1>3, <1>4, <1>5

\* The entries of a block, and the block.
LEMMA Lengths ==
  ASSUME NEW k \in 0..DIRENTS_PER_BLOCK
  PROVE  /\ k * ENT \in Nat /\ k * ENT <= DIRENTS_PER_BLOCK * ENT
         /\ k # DIRENTS_PER_BLOCK => k * ENT + ENT <= DIRENTS_PER_BLOCK * ENT
         /\ DIRENTS_PER_BLOCK * ENT <= BLOCK_SIZE /\ DIRENTS_PER_BLOCK * ENT \in Nat
         /\ (k + 1) * ENT = k * ENT + ENT
         /\ (k * ENT) % ENT = 0 /\ (k * ENT) \div ENT = k
<1>1. DIRENTS_PER_BLOCK \in Nat /\ ENT \in Nat \ {0}
  BY Block, DirConstants
<1>2. /\ k * ENT \in Nat /\ k * ENT <= DIRENTS_PER_BLOCK * ENT /\ DIRENTS_PER_BLOCK * ENT \in Nat
      /\ k # DIRENTS_PER_BLOCK => k * ENT + ENT <= DIRENTS_PER_BLOCK * ENT
      /\ (k + 1) * ENT = k * ENT + ENT
      /\ (k * ENT) % ENT = 0 /\ (k * ENT) \div ENT = k
  BY <1>1, Multiples
<1>3. DIRENTS_PER_BLOCK * ENT <= BLOCK_SIZE
  <2>1. PICK x \in Nat : x = DIRENTS_PER_BLOCK * ENT
    BY <1>2
  <2> QED
    BY <2>1, Block
<1> QED
  BY <1>2, <1>3

\* Where the first entry behind n entries begins, and how long these are
Size(n) == IF n = 0 THEN 0 ELSE OffsetOf(n - 1) + ENT

\* The size of n entries: full blocks, and the entries of the last one, which
\* may be full too.
LEMMA SizeForm ==
  ASSUME NEW n \in Nat \ {0}
  PROVE  \E m \in Nat, k \in 1..DIRENTS_PER_BLOCK :
           /\ n = m * DIRENTS_PER_BLOCK + k
           /\ Size(n) = m * BLOCK_SIZE + k * ENT
<1>1. n - 1 \in Nat
  OBVIOUS
<1>2. PICK m \in Nat, j \in 0..(DIRENTS_PER_BLOCK - 1) :
           /\ n - 1 = m * DIRENTS_PER_BLOCK + j
           /\ OffsetOf(n - 1) = m * BLOCK_SIZE + j * ENT
  BY <1>1, Places
<1>3. j \in 0..DIRENTS_PER_BLOCK /\ j + 1 \in 1..DIRENTS_PER_BLOCK /\ j \in Nat
  BY Block
<1>4. (j + 1) * ENT = j * ENT + ENT /\ j * ENT \in Nat
  BY <1>3, Lengths
<1>5. /\ m * DIRENTS_PER_BLOCK \in Nat /\ m * BLOCK_SIZE \in Nat /\ ENT \in Nat
  <2>1. DIRENTS_PER_BLOCK \in Nat /\ BLOCK_SIZE \in Nat /\ ENT \in Nat
    BY Block, DirConstants
  <2> QED
    BY <2>1
<1>6. n = m * DIRENTS_PER_BLOCK + (j + 1)
  <2>1. PICK a \in Nat : a = m * DIRENTS_PER_BLOCK
    BY <1>5
  <2> QED
    BY <1>2, <1>3, <2>1
<1>7. Size(n) = m * BLOCK_SIZE + (j + 1) * ENT
  BY <1>2, <1>4, <1>5 DEF Size
<1> QED
  BY <1>3, <1>6, <1>7

\* The offset of the k-th entry of a block.
LEMMA OffsetForm ==
  ASSUME NEW m \in Nat, NEW k \in 0..(DIRENTS_PER_BLOCK - 1)
  PROVE  OffsetOf(m * DIRENTS_PER_BLOCK + k) = m * BLOCK_SIZE + k * ENT
<1>1. PICK p \in Nat \ {0} : p = DIRENTS_PER_BLOCK
  BY Block
<1>2. PICK x : x = m * p + k
  OBVIOUS
<1>3. k \in 0..(p - 1)
  BY <1>1
<1>4. x \div p = m /\ x % p = k
  BY ONLY <1>2, <1>3, Divides, m \in Nat, p \in Nat \ {0}
<1> QED
  BY <1>1, <1>2, <1>4 DEF OffsetOf

\* The size of full blocks and k entries.
LEMMA SizeOf ==
  ASSUME NEW m \in Nat, NEW k \in 1..DIRENTS_PER_BLOCK
  PROVE  Size(m * DIRENTS_PER_BLOCK + k) = m * BLOCK_SIZE + k * ENT
<1>1. DIRENTS_PER_BLOCK \in Nat /\ BLOCK_SIZE \in Nat /\ ENT \in Nat
  BY Block, DirConstants
<1>2. PICK j \in 0..(DIRENTS_PER_BLOCK - 1) : k = j + 1
  <2>1. k - 1 \in 0..(DIRENTS_PER_BLOCK - 1) /\ k = (k - 1) + 1
    BY <1>1
  <2> QED
    BY <2>1
<1>3. PICK a \in Nat, b \in Nat : a = m * DIRENTS_PER_BLOCK /\ b = m * BLOCK_SIZE
  <2>1. m * DIRENTS_PER_BLOCK \in Nat /\ m * BLOCK_SIZE \in Nat
    BY <1>1
  <2> QED
    BY <2>1
<1>4. j \in Nat /\ j \in 0..DIRENTS_PER_BLOCK
  BY <1>1
<1>5. (j + 1) * ENT = j * ENT + ENT /\ j * ENT \in Nat
  BY <1>4, Lengths
<1>6. OffsetOf(a + j) = b + j * ENT
  BY <1>3, OffsetForm
<1>7. (a + k) - 1 = a + j /\ a + k # 0
  BY <1>2, <1>4
<1>8. Size(a + k) = OffsetOf(a + j) + ENT
  BY <1>7 DEF Size
<1> QED
  BY <1>1, <1>2, <1>3, <1>5, <1>6, <1>8

\* Full blocks and the rest, as the code computes them from the size: a block
\* that is full to the last byte already counts as a full one.
LEMMA SizeParts ==
  ASSUME NEW m \in Nat, NEW k \in 1..DIRENTS_PER_BLOCK, NEW x, x = m * BLOCK_SIZE + k * ENT
  PROVE  /\ x \in Nat
         /\ k # DIRENTS_PER_BLOCK \/ DIRENTS_REMAINDER # 0 =>
              x \div BLOCK_SIZE = m /\ x % BLOCK_SIZE = k * ENT
         /\ k = DIRENTS_PER_BLOCK /\ DIRENTS_REMAINDER = 0 =>
              /\ x = (m + 1) * BLOCK_SIZE
              /\ x \div BLOCK_SIZE = m + 1 /\ x % BLOCK_SIZE = 0
<1>1. BLOCK_SIZE \in Nat \ {0} /\ ENT \in Nat \ {0} /\ DIRENTS_PER_BLOCK \in Nat
  BY ONLY Units
<1>2. k \in 0..DIRENTS_PER_BLOCK
  BY <1>1
<1>3. PICK y \in Nat, z \in Nat : y = k * ENT /\ z = DIRENTS_PER_BLOCK * ENT
  BY <1>2, Lengths
<1>4. y <= z /\ (k # DIRENTS_PER_BLOCK => y + ENT <= z)
  BY <1>2, <1>3, Lengths
<1>5. BLOCK_SIZE = z + DIRENTS_REMAINDER /\ DIRENTS_REMAINDER \in Nat
  BY <1>3, Block
<1>6. m * BLOCK_SIZE \in Nat /\ (m + 1) * BLOCK_SIZE = m * BLOCK_SIZE + BLOCK_SIZE
  BY <1>1
<1>7. ASSUME k # DIRENTS_PER_BLOCK \/ DIRENTS_REMAINDER # 0
      PROVE  x \div BLOCK_SIZE = m /\ x % BLOCK_SIZE = y
  <2>1. y \in 0..(BLOCK_SIZE - 1)
    BY <1>1, <1>4, <1>5, <1>7
  <2>2. x = m * BLOCK_SIZE + y
    BY <1>3
  <2> QED
    BY ONLY <1>1, <2>1, <2>2, Divides, m \in Nat
<1>8. ASSUME k = DIRENTS_PER_BLOCK, DIRENTS_REMAINDER = 0
      PROVE  x = (m + 1) * BLOCK_SIZE /\ x \div BLOCK_SIZE = m + 1 /\ x % BLOCK_SIZE = 0
  <2>1. x = (m + 1) * BLOCK_SIZE
    BY <1>1, <1>3, <1>5, <1>6, <1>8
  <2>2. PICK o \in 0..(BLOCK_SIZE - 1) : o = 0
    BY <1>1
  <2>3. PICK q \in Nat : q = m + 1 /\ q * BLOCK_SIZE \in Nat
    BY <1>1
  <2>4. x = q * BLOCK_SIZE + o
    BY <2>1, <2>2, <2>3
  <2>5. x \div BLOCK_SIZE = q /\ x % BLOCK_SIZE = o
    BY ONLY <1>1, <2>4, Divides, q \in Nat, o \in 0..(BLOCK_SIZE - 1)
  <2> QED
    BY <2>1, <2>2, <2>3, <2>5
<1>9. x \in Nat
  BY <1>3, <1>6
<1> QED
  BY <1>3, <1>7, <1>8, <1>9

\* Entries lie one behind the other.
LEMMA Apart ==
  ASSUME NEW i \in Nat, NEW j \in Nat, i < j
  PROVE  OffsetOf(i) \in Nat /\ OffsetOf(j) \in Nat /\ OffsetOf(i) + ENT <= OffsetOf(j)
<1>1. PICK m \in Nat, k \in 0..(DIRENTS_PER_BLOCK - 1) :
        i = m * DIRENTS_PER_BLOCK + k /\ OffsetOf(i) = m * BLOCK_SIZE + k * ENT
  BY Places
<1>2. PICK n \in Nat, l \in 0..(DIRENTS_PER_BLOCK - 1) :
        j = n * DIRENTS_PER_BLOCK + l /\ OffsetOf(j) = n * BLOCK_SIZE + l * ENT
  BY Places
<1>3. k \in 0..DIRENTS_PER_BLOCK /\ l \in 0..DIRENTS_PER_BLOCK
  BY ONLY Units, k \in 0..(DIRENTS_PER_BLOCK - 1), l \in 0..(DIRENTS_PER_BLOCK - 1)
<1>4. PICK y \in Nat, z \in Nat, w \in Nat : y = k * ENT /\ z = DIRENTS_PER_BLOCK * ENT /\ w = l * ENT
  BY <1>3, Lengths
<1>5. y + ENT <= z /\ z <= BLOCK_SIZE
  <2>1. k # DIRENTS_PER_BLOCK
    BY ONLY Units, k \in 0..(DIRENTS_PER_BLOCK - 1)
  <2> QED
    BY <1>3, <1>4, <2>1, Lengths
<1>6. /\ m * DIRENTS_PER_BLOCK \in Nat /\ m * BLOCK_SIZE \in Nat
      /\ n * DIRENTS_PER_BLOCK \in Nat /\ n * BLOCK_SIZE \in Nat
  BY ONLY Units, m \in Nat, n \in Nat
<1>7. m <= n
  <2>1. SUFFICES ASSUME n < m PROVE FALSE
    OBVIOUS
  <2>2. PICK d \in Nat : m = n + 1 + d
    <3>1. m - n - 1 \in Nat /\ m = n + 1 + (m - n - 1)
      BY ONLY <2>1, m \in Nat, n \in Nat
    <3> QED
      BY <3>1
  <2>3. m * DIRENTS_PER_BLOCK = n * DIRENTS_PER_BLOCK + DIRENTS_PER_BLOCK + d * DIRENTS_PER_BLOCK
    BY ONLY <2>2, Units, d \in Nat, n \in Nat
  <2>4. d * DIRENTS_PER_BLOCK \in Nat
    BY ONLY Units, d \in Nat
  <2> QED
    BY ONLY <1>1, <1>2, <1>6, <2>3, <2>4, Units, i < j, k \in 0..(DIRENTS_PER_BLOCK - 1),
            l \in 0..(DIRENTS_PER_BLOCK - 1)
<1>8. CASE m = n
  <2>1. k < l
    BY ONLY <1>1, <1>2, <1>6, <1>8, Units, i < j, k \in 0..(DIRENTS_PER_BLOCK - 1),
            l \in 0..(DIRENTS_PER_BLOCK - 1)
  <2>2. y + ENT <= w
    <3>1. PICK e \in Nat \ {0} : e = ENT
      BY Units
    <3>2. k \in 0..l /\ l \in Nat /\ k # l
      BY ONLY <2>1, k \in 0..(DIRENTS_PER_BLOCK - 1), l \in 0..(DIRENTS_PER_BLOCK - 1), Units
    <3>3. k * e + e <= l * e
      BY ONLY <3>2, e \in Nat \ {0}, Multiples
    <3> QED
      BY <1>4, <3>1, <3>3
  <2> QED
    BY ONLY <1>1, <1>2, <1>4, <1>6, <1>8, <2>2, Units, y \in Nat, w \in Nat
<1>9. CASE m < n
  <2>2. PICK d \in Nat : n = m + 1 + d
    <3>1. n - m - 1 \in Nat /\ n = m + 1 + (n - m - 1)
      BY ONLY <1>9, m \in Nat, n \in Nat
    <3> QED
      BY <3>1
  <2>3. n * BLOCK_SIZE = m * BLOCK_SIZE + BLOCK_SIZE + d * BLOCK_SIZE
    BY ONLY <2>2, Units, d \in Nat, m \in Nat
  <2>4. d * BLOCK_SIZE \in Nat
    BY ONLY Units, d \in Nat
  <2> QED
    BY ONLY <1>1, <1>2, <1>4, <1>5, <1>6, <2>3, <2>4, Units, y \in Nat, w \in Nat, z \in Nat
<1> QED
  BY ONLY <1>7, <1>8, <1>9, m \in Nat, n \in Nat

\* The first two entries and the sizes with none, one and two of them.
LEMMA FirstTwo ==
  /\ OffsetOf(0) = 0 /\ OffsetOf(1) = ENT
  /\ Size(1) = ENT /\ Size(2) = ENT + ENT
<1>1. PICK o \in Nat : o = 0
  OBVIOUS
<1>2. o \in 0..(DIRENTS_PER_BLOCK - 1) /\ 1 \in 0..(DIRENTS_PER_BLOCK - 1)
  BY ONLY Units, <1>1
<1>3. OffsetOf(o * DIRENTS_PER_BLOCK + o) = o * BLOCK_SIZE + o * ENT
  BY <1>2, OffsetForm
<1>4. OffsetOf(o * DIRENTS_PER_BLOCK + 1) = o * BLOCK_SIZE + 1 * ENT
  BY <1>2, OffsetForm
<1>5. o * DIRENTS_PER_BLOCK = 0 /\ o * BLOCK_SIZE = 0 /\ o * ENT = 0 /\ 1 * ENT = ENT
  BY ONLY Units, <1>1
<1>6. OffsetOf(0) = 0 /\ OffsetOf(1) = ENT
  BY ONLY <1>1, <1>3, <1>4, <1>5, Units
<1>7. Size(1) = OffsetOf(0) + ENT /\ Size(2) = OffsetOf(1) + ENT
  BY DEF Size
<1> QED
  BY ONLY <1>6, <1>7, Units

\* Every number of entries takes at least one byte each, more entries take
\* more, and a directory of three entries or more is longer than two.
LEMMA Growth ==
  ASSUME NEW n \in Nat \ {0}
  PROVE  /\ OffsetOf(n) \in Nat /\ Size(n) \in Nat /\ Size(n) >= ENT
         /\ Size(n) <= OffsetOf(n)
         /\ Size(n + 1) = OffsetOf(n) + ENT
         /\ Size(n) = OffsetOf(n - 1) + ENT /\ OffsetOf(n - 1) \in Nat
         /\ n > 2 => Size(n) > ENT + ENT
         /\ \A j \in 0..(n - 1) : OffsetOf(j) \in Nat /\ OffsetOf(j) + ENT <= Size(n)
<1>1. n - 1 \in Nat /\ n - 1 < n /\ n \in Nat /\ n # 0
  OBVIOUS
<1>2. /\ OffsetOf(n - 1) \in Nat /\ OffsetOf(n) \in Nat
      /\ OffsetOf(n - 1) + ENT <= OffsetOf(n)
  BY <1>1, Apart
<1>3. Size(n) = OffsetOf(n - 1) + ENT
  BY <1>1 DEF Size
<1>4. Size(n + 1) = OffsetOf(n) + ENT
  <2>1. n + 1 # 0 /\ (n + 1) - 1 = n
    BY <1>1
  <2> QED
    BY <2>1 DEF Size
<1>5. ASSUME NEW j \in 0..(n - 1)
      PROVE  OffsetOf(j) \in Nat /\ OffsetOf(j) + ENT <= Size(n)
  <2>1. CASE j = n - 1
    BY ONLY <1>2, <1>3, <2>1, Units
  <2>2. CASE j # n - 1
    <3>1. j \in Nat /\ j < n - 1
      BY ONLY <2>2, <1>1, j \in 0..(n - 1)
    <3>2. OffsetOf(j) \in Nat /\ OffsetOf(j) + ENT <= OffsetOf(n - 1)
      BY ONLY <1>1, <3>1, Apart
    <3> QED
      BY ONLY <1>2, <1>3, <3>2, Units
  <2> QED
    BY <2>1, <2>2
<1>6. n > 2 => Size(n) > ENT + ENT
  <2>1. SUFFICES ASSUME n > 2 PROVE Size(n) > ENT + ENT
    OBVIOUS
  <2>2. 1 \in Nat /\ 1 < n - 1
    BY ONLY <2>1, <1>1
  <2>3. OffsetOf(1) + ENT <= OffsetOf(n - 1)
    BY ONLY <1>1, <2>2, Apart
  <2> QED
    BY ONLY <1>2, <1>3, <2>3, FirstTwo, Units
<1> QED
  BY ONLY <1>2, <1>3, <1>4, <1>5, <1>6, Units

\* add_dirent puts the next entry where it belongs, in the next block when this
\* one has no room for it.
LEMMA AddPlace ==
  ASSUME NEW n \in Nat \ {0}
  PROVE  AddOffset(Size(n)) = OffsetOf(n)
<1>1. PICK m \in Nat, k \in 1..DIRENTS_PER_BLOCK :
        n = m * DIRENTS_PER_BLOCK + k /\ Size(n) = m * BLOCK_SIZE + k * ENT
  BY SizeForm
<1>2. PICK p \in Nat \ {0} : p = DIRENTS_PER_BLOCK /\ p >= 2
  BY Units
<1>3. PICK x : x = m * BLOCK_SIZE + k * ENT
  OBVIOUS
<1>4. k \in 0..DIRENTS_PER_BLOCK
  BY ONLY Units, k \in 1..DIRENTS_PER_BLOCK
<1>5. PICK y \in Nat, z \in Nat : /\ y = k * ENT /\ z = DIRENTS_PER_BLOCK * ENT
                                  /\ (k + 1) * ENT = y + ENT
  BY <1>4, Lengths
<1>6. BLOCK_SIZE = z + DIRENTS_REMAINDER
  BY <1>5, Block
<1>7. PICK a \in Nat : a = m * BLOCK_SIZE /\ (m + 1) * BLOCK_SIZE = a + BLOCK_SIZE
  BY ONLY Units, m \in Nat
<1>8. x = a + y /\ Size(n) = x
  BY ONLY <1>1, <1>3, <1>5, <1>7
<1>9. CASE k # DIRENTS_PER_BLOCK
  <2>1. k \in 0..(DIRENTS_PER_BLOCK - 1) /\ k + 1 \in 1..DIRENTS_PER_BLOCK
    BY ONLY <1>9, Units, k \in 1..DIRENTS_PER_BLOCK
  <2>2. OffsetOf(n) = x
    BY <1>1, <1>3, <2>1, OffsetForm
  <2>3. x \div BLOCK_SIZE = m
    BY ONLY <1>3, <1>9, SizeParts, m \in Nat, k \in 1..DIRENTS_PER_BLOCK
  <2>4. PICK c \in 1..DIRENTS_PER_BLOCK, v \in Nat : c = k + 1 /\ v = x + ENT
    <3>1. x + ENT \in Nat
      BY ONLY <1>8, Units, a \in Nat, y \in Nat
    <3> QED
      BY <2>1, <3>1
  <2>5. v = m * BLOCK_SIZE + c * ENT
    BY ONLY <1>5, <1>7, <1>8, <2>4, Units, y \in Nat
  <2>6. CASE c # DIRENTS_PER_BLOCK \/ DIRENTS_REMAINDER # 0
    <3>1. v \div BLOCK_SIZE = m
      BY ONLY <2>5, <2>6, SizeParts, m \in Nat, c \in 1..DIRENTS_PER_BLOCK
    <3>2. ~ (v \div BLOCK_SIZE > x \div BLOCK_SIZE)
      BY ONLY <2>3, <3>1, m \in Nat
    <3>3. AddOffset(x) = x
      BY <2>4, <3>2 DEF AddOffset
    <3> QED
      BY <1>8, <2>2, <3>3
  <2>7. CASE DIRENTS_REMAINDER = 0
    <3>1. x + DIRENTS_REMAINDER = x
      BY ONLY <1>8, <2>7, a \in Nat, y \in Nat
    <3>2. AddOffset(x) = x
      BY <3>1 DEF AddOffset
    <3> QED
      BY <1>8, <2>2, <3>2
  <2> QED
    BY <2>6, <2>7
<1>10. CASE k = DIRENTS_PER_BLOCK
  <2>1. PICK q \in Nat, o \in 0..(DIRENTS_PER_BLOCK - 1) : q = m + 1 /\ o = 0
    BY ONLY Units, m \in Nat
  <2>2. n = q * DIRENTS_PER_BLOCK + o
    <3>1. q * DIRENTS_PER_BLOCK = m * DIRENTS_PER_BLOCK + DIRENTS_PER_BLOCK
      BY ONLY Units, <2>1, m \in Nat
    <3>2. m * DIRENTS_PER_BLOCK \in Nat
      BY ONLY Units, m \in Nat
    <3> QED
      BY ONLY <1>1, <1>10, <2>1, <3>1, <3>2, Units
  <2>3. OffsetOf(n) = q * BLOCK_SIZE + o * ENT
    BY <2>2, OffsetForm
  <2>4. q * BLOCK_SIZE = a + BLOCK_SIZE /\ o * ENT = 0
    BY ONLY <1>7, <2>1, Units
  <2>5. OffsetOf(n) = a + BLOCK_SIZE
    BY ONLY <2>3, <2>4, Units, a \in Nat
  <2>6. y = z
    BY <1>5, <1>10
  <2>7. x + DIRENTS_REMAINDER = OffsetOf(n)
    BY ONLY <1>6, <1>8, <2>5, <2>6, Units, a \in Nat, y \in Nat
  <2>8. CASE DIRENTS_REMAINDER = 0
    <3>1. x + DIRENTS_REMAINDER = x
      BY ONLY <1>8, <2>8, a \in Nat, y \in Nat
    <3>2. AddOffset(x) = x
      BY <3>1 DEF AddOffset
    <3> QED
      BY <1>8, <2>7, <3>1, <3>2
  <2>9. CASE DIRENTS_REMAINDER # 0
    <3>1. x \div BLOCK_SIZE = m
      BY ONLY <1>3, <2>9, SizeParts, m \in Nat, k \in 1..DIRENTS_PER_BLOCK
    <3>2. PICK r \in 0..(BLOCK_SIZE - 1), v \in Nat : v = x + ENT /\ r = ENT - DIRENTS_REMAINDER
      <4>1. ENT - DIRENTS_REMAINDER \in 0..(BLOCK_SIZE - 1) /\ x + ENT \in Nat
        BY ONLY <1>8, Units, a \in Nat, y \in Nat
      <4> QED
        BY ONLY <4>1
    <3>3. v = q * BLOCK_SIZE + r
      BY ONLY <1>6, <1>8, <2>4, <2>6, <3>2, Units, a \in Nat, y \in Nat
    <3>4. v \div BLOCK_SIZE = q
      <4>1. BLOCK_SIZE \in Nat \ {0}
        BY Units
      <4> QED
        BY ONLY <3>3, <4>1, Divides, q \in Nat, r \in 0..(BLOCK_SIZE - 1)
    <3>5. v \div BLOCK_SIZE > x \div BLOCK_SIZE
      BY ONLY <2>1, <3>1, <3>4, m \in Nat
    <3>6. AddOffset(x) = x + DIRENTS_REMAINDER
      BY <3>2, <3>5 DEF AddOffset
    <3> QED
      BY <1>8, <2>7, <3>6
  <2> QED
    BY <2>8, <2>9
<1> QED
  BY <1>9, <1>10

\* remove_dirent takes the last entry from where it is.
LEMMA LastPlace ==
  ASSUME NEW n \in Nat \ {0}
  PROVE  LastOffset(Size(n)) = OffsetOf(n - 1)
<1>1. PICK x \in Nat, b \in Nat \ {0}, e \in Nat, o \in Nat :
        /\ x = Size(n) /\ b = BLOCK_SIZE /\ e = ENT /\ o = OffsetOf(n - 1) /\ x = o + e
  BY Growth, Units
<1>2. (x \div b) * b + (x % b) - e = o
  <2>1. ASSUME NEW d \in Int, NEW r \in Int, d = x \div b, r = x % b
        PROVE  d * b + r - e = o
    <3>1. x = d * b + r /\ d * b \in Int
      BY ONLY <2>1, x \in Nat, b \in Nat \ {0}
    <3> QED
      BY ONLY <1>1, <3>1, x \in Nat, e \in Nat, o \in Nat, r \in Int
  <2>2. x \div b \in Int /\ x % b \in Int
    BY ONLY x \in Nat, b \in Nat \ {0}
  <2> QED
    BY ONLY <2>1, <2>2
<1> QED
  BY <1>1, <1>2 DEF LastOffset

\* remove_dirent shrinks the directory to the size of one entry less.
LEMMA ShrinkSize ==
  ASSUME NEW n \in Nat, n > 1
  PROVE  ShrunkSize(Size(n)) = Size(n - 1)
<1>1. n - 1 \in Nat \ {0} /\ n \in Nat \ {0}
  OBVIOUS
<1>2. PICK m \in Nat, k \in 1..DIRENTS_PER_BLOCK :
        n - 1 = m * DIRENTS_PER_BLOCK + k /\ Size(n - 1) = m * BLOCK_SIZE + k * ENT
  BY <1>1, SizeForm
<1>3. PICK x \in Nat, s \in Nat, o \in Nat :
        /\ x = Size(n) /\ s = Size(n - 1) /\ o = OffsetOf(n - 1)
        /\ x = o + ENT /\ s >= ENT /\ s <= o
  BY <1>1, Growth
<1>4. s = m * BLOCK_SIZE + k * ENT
  BY <1>2, <1>3
<1>5. k \in 0..DIRENTS_PER_BLOCK
  BY ONLY Units, k \in 1..DIRENTS_PER_BLOCK
<1>6. PICK y \in Nat, z \in Nat, a \in Nat :
        /\ y = k * ENT /\ z = DIRENTS_PER_BLOCK * ENT /\ a = m * BLOCK_SIZE
        /\ (m + 1) * BLOCK_SIZE = a + BLOCK_SIZE
  <2>1. m * BLOCK_SIZE \in Nat /\ (m + 1) * BLOCK_SIZE = m * BLOCK_SIZE + BLOCK_SIZE
    BY ONLY Units, m \in Nat
  <2> QED
    BY <1>5, <2>1, Lengths
<1>7. BLOCK_SIZE = z + DIRENTS_REMAINDER
  BY <1>6, Block
<1>8. x - ENT = o
  BY ONLY <1>3, Units, o \in Nat
<1>9. CASE k # DIRENTS_PER_BLOCK
  <2>1. k \in 0..(DIRENTS_PER_BLOCK - 1)
    BY ONLY <1>9, Units, k \in 1..DIRENTS_PER_BLOCK
  <2>2. o = s
    BY <1>2, <1>3, <2>1, OffsetForm
  <2>3. s % BLOCK_SIZE = k * ENT
    BY ONLY <1>4, <1>9, SizeParts, m \in Nat, k \in 1..DIRENTS_PER_BLOCK
  <2>4. k * ENT # 0
    BY ONLY Units, k \in 1..DIRENTS_PER_BLOCK
  <2> QED
    BY <1>3, <1>8, <2>2, <2>3, <2>4 DEF ShrunkSize
<1>10. CASE k = DIRENTS_PER_BLOCK
  <2>1. PICK q \in Nat, c \in 0..(DIRENTS_PER_BLOCK - 1) : q = m + 1 /\ c = 0
    BY ONLY Units, m \in Nat
  <2>2. n - 1 = q * DIRENTS_PER_BLOCK + c
    <3>1. q * DIRENTS_PER_BLOCK = m * DIRENTS_PER_BLOCK + DIRENTS_PER_BLOCK
      BY ONLY Units, <2>1, m \in Nat
    <3>2. m * DIRENTS_PER_BLOCK \in Nat
      BY ONLY Units, m \in Nat
    <3> QED
      BY ONLY <1>2, <1>10, <2>1, <3>1, <3>2, Units
  <2>3. OffsetOf(n - 1) = q * BLOCK_SIZE + c * ENT
    BY <2>2, OffsetForm
  <2>4. q * BLOCK_SIZE = a + BLOCK_SIZE /\ c * ENT = 0
    BY ONLY <1>6, <2>1, Units
  <2>5. o = a + BLOCK_SIZE
    BY ONLY <1>3, <2>3, <2>4, Units, a \in Nat
  <2>6. o % BLOCK_SIZE = 0
    <3>1. PICK r \in 0..(BLOCK_SIZE - 1) : r = 0
      BY ONLY Units
    <3>2. o = q * BLOCK_SIZE + r
      BY ONLY <2>4, <2>5, <3>1, Units, a \in Nat
    <3>3. BLOCK_SIZE \in Nat \ {0}
      BY Units
    <3>4. o % BLOCK_SIZE = r
      BY ONLY <3>2, <3>3, Divides, q \in Nat, r \in 0..(BLOCK_SIZE - 1)
    <3> QED
      BY <3>1, <3>4
  <2>7. x # ENT
    BY ONLY <1>3, <2>5, Units, a \in Nat
  <2>8. ShrunkSize(x) = x - ENT - DIRENTS_REMAINDER
    BY <1>8, <2>6, <2>7 DEF ShrunkSize
  <2>9. s = a + z
    BY <1>4, <1>6, <1>10
  <2>10. x - ENT - DIRENTS_REMAINDER = s
    BY ONLY <1>3, <1>7, <2>5, <2>9, Units, a \in Nat, z \in Nat, o \in Nat
  <2> QED
    BY <1>3, <2>8, <2>10
<1> QED
  BY <1>9, <1>10

\* The full pages of a directory of n entries, and the entries of the last one.
LEMMA Pages ==
  ASSUME NEW n \in Nat \ {0}
  PROVE  \E top \in Nat, rest \in 0..DIRENTS_PER_BLOCK :
           /\ Size(n) \div BLOCK_SIZE = top /\ Size(n) % BLOCK_SIZE = rest * ENT
           /\ (rest * ENT) % ENT = 0 /\ (rest * ENT) \div ENT = rest
           /\ top * DIRENTS_PER_BLOCK + rest = n
<1>1. PICK m \in Nat, k \in 1..DIRENTS_PER_BLOCK :
        n = m * DIRENTS_PER_BLOCK + k /\ Size(n) = m * BLOCK_SIZE + k * ENT
  BY SizeForm
<1>2. PICK x \in Nat : x = Size(n) /\ x = m * BLOCK_SIZE + k * ENT
  BY <1>1, Growth
<1>3. k \in 0..DIRENTS_PER_BLOCK /\ DIRENTS_PER_BLOCK \in Nat
  BY ONLY Units, k \in 1..DIRENTS_PER_BLOCK
<1>4. PICK top \in Nat, rest \in 0..DIRENTS_PER_BLOCK :
        /\ x \div BLOCK_SIZE = top /\ x % BLOCK_SIZE = rest * ENT
        /\ (rest * ENT) % ENT = 0 /\ (rest * ENT) \div ENT = rest
        /\ top * DIRENTS_PER_BLOCK + rest = n
  <2>1. CASE k # DIRENTS_PER_BLOCK \/ DIRENTS_REMAINDER # 0
    <3>1. x \div BLOCK_SIZE = m /\ x % BLOCK_SIZE = k * ENT
      BY ONLY <1>2, <2>1, SizeParts, m \in Nat, k \in 1..DIRENTS_PER_BLOCK
    <3>2. (k * ENT) % ENT = 0 /\ (k * ENT) \div ENT = k
      BY <1>3, Lengths
    <3> QED
      BY ONLY <1>1, <1>3, <3>1, <3>2, m \in Nat
  <2>2. CASE k = DIRENTS_PER_BLOCK /\ DIRENTS_REMAINDER = 0
    <3>1. x \div BLOCK_SIZE = m + 1 /\ x % BLOCK_SIZE = 0
      BY ONLY <1>2, <2>2, SizeParts, m \in Nat, k \in 1..DIRENTS_PER_BLOCK
    <3>2. PICK o \in 0..DIRENTS_PER_BLOCK : o = 0
      BY <1>3
    <3>3. (o * ENT) % ENT = 0 /\ (o * ENT) \div ENT = o
      BY Lengths
    <3>4. o * ENT = 0
      BY ONLY <3>2, Units
    <3>5. (m + 1) * DIRENTS_PER_BLOCK + o = n
      <4>1. m * DIRENTS_PER_BLOCK \in Nat /\ (m + 1) * DIRENTS_PER_BLOCK = m * DIRENTS_PER_BLOCK + DIRENTS_PER_BLOCK
        BY ONLY Units, m \in Nat
      <4> QED
        BY ONLY <1>1, <2>2, <3>2, <4>1, Units
    <3>6. PICK q \in Nat : q = m + 1
      OBVIOUS
    <3> QED
      BY ONLY <3>1, <3>2, <3>3, <3>4, <3>5, <3>6, q \in Nat, o \in 0..DIRENTS_PER_BLOCK
  <2> QED
    BY <2>1, <2>2
<1> QED
  BY <1>2, <1>4

\* read_dir_page finds the entries of a directory of n entries at the indices
\* 0 to n - 1, on its pages together, and no page is malformed.
LEMMA Listed ==
  ASSUME NEW i, NEW n \in Nat \ {0}, dir[i].size = Size(n)
  PROVE  ~ Malformed(i) /\ Indices(i) = 0..(n - 1)
<1>2. PICK x \in Nat : x = dir[i].size /\ x = Size(n)
  BY Growth
<1>4. PICK top \in Nat, rest \in 0..DIRENTS_PER_BLOCK :
        /\ x \div BLOCK_SIZE = top /\ (x % BLOCK_SIZE) % ENT = 0
        /\ (x % BLOCK_SIZE) \div ENT = rest
        /\ top * DIRENTS_PER_BLOCK + rest = n
  BY <1>2, Pages
<1>5. ~ Malformed(i)
  BY <1>2, <1>4 DEF Malformed
<1>6. ASSUME NEW page \in 0..top
      PROVE  PageEntries(i, page) = IF page = top THEN rest ELSE DIRENTS_PER_BLOCK
  BY <1>2, <1>4 DEF PageEntries
<1>7. ASSUME NEW j PROVE j \in Indices(i) <=>
        \E page \in 0..top : \E c \in 0..(PageEntries(i, page) - 1) :
          j = page * DIRENTS_PER_BLOCK + c
  BY <1>2, <1>4 DEF Indices
<1>8. ASSUME NEW j \in Indices(i) PROVE j \in 0..(n - 1)
  <2>1. PICK page \in 0..top : \E c \in 0..(PageEntries(i, page) - 1) :
          j = page * DIRENTS_PER_BLOCK + c
    BY <1>7
  <2>2. PICK c \in 0..(PageEntries(i, page) - 1) : j = page * DIRENTS_PER_BLOCK + c
    BY <2>1
  <2>3. CASE page = top
    <3>1. c \in 0..(rest - 1)
      BY <1>6, <2>3
    <3>2. top * DIRENTS_PER_BLOCK \in Nat
      BY ONLY Units, top \in Nat
    <3> QED
      BY ONLY <1>4, <2>2, <2>3, <3>1, <3>2, Units, rest \in 0..DIRENTS_PER_BLOCK
  <2>4. CASE page # top
    <3>1. c \in 0..(DIRENTS_PER_BLOCK - 1)
      BY <1>6, <2>4
    <3>2. PICK d \in Nat : top = page + 1 + d /\ page \in Nat
      <4>1. top - page - 1 \in Nat /\ top = page + 1 + (top - page - 1) /\ page \in Nat
        BY ONLY <2>4, page \in 0..top, top \in Nat
      <4> QED
        BY <4>1
    <3>3. top * DIRENTS_PER_BLOCK = page * DIRENTS_PER_BLOCK + DIRENTS_PER_BLOCK + d * DIRENTS_PER_BLOCK
      BY ONLY <3>2, Units, d \in Nat
    <3>4. d * DIRENTS_PER_BLOCK \in Nat /\ page * DIRENTS_PER_BLOCK \in Nat
      BY ONLY <3>2, Units, d \in Nat
    <3> QED
      BY ONLY <1>4, <2>2, <3>1, <3>3, <3>4, Units, rest \in 0..DIRENTS_PER_BLOCK
  <2> QED
    BY <2>3, <2>4
<1>9. ASSUME NEW j \in 0..(n - 1) PROVE j \in Indices(i)
  <2>1. PICK page \in Nat, c \in 0..(DIRENTS_PER_BLOCK - 1) : j = page * DIRENTS_PER_BLOCK + c
    BY Places
  <2>2. page <= top
    <3> SUFFICES ASSUME ~ (page <= top) PROVE FALSE
      OBVIOUS
    <3>1. top < page
      BY ONLY ~ (page <= top), page \in Nat, top \in Nat
    <3>2. PICK d \in Nat : page = top + 1 + d
      <4>1. page - top - 1 \in Nat /\ page = top + 1 + (page - top - 1)
        BY ONLY <3>1, page \in Nat, top \in Nat
      <4> QED
        BY <4>1
    <3>3. page * DIRENTS_PER_BLOCK = top * DIRENTS_PER_BLOCK + DIRENTS_PER_BLOCK + d * DIRENTS_PER_BLOCK
      BY ONLY <3>2, Units, d \in Nat, top \in Nat
    <3>4. d * DIRENTS_PER_BLOCK \in Nat /\ top * DIRENTS_PER_BLOCK \in Nat
      BY ONLY Units, d \in Nat, top \in Nat
    <3> QED
      BY ONLY <1>4, <2>1, <3>3, <3>4, Units, rest \in 0..DIRENTS_PER_BLOCK, j \in 0..(n - 1),
              c \in 0..(DIRENTS_PER_BLOCK - 1), n \in Nat \ {0}
  <2>3. page \in 0..top
    BY ONLY <2>2, page \in Nat, top \in Nat
  <2>4. c \in 0..(PageEntries(i, page) - 1)
    <3>1. CASE page = top
      <4>1. top * DIRENTS_PER_BLOCK \in Nat
        BY ONLY Units, top \in Nat
      <4>2. c \in 0..(rest - 1)
        BY ONLY <1>4, <2>1, <3>1, <4>1, Units, rest \in 0..DIRENTS_PER_BLOCK, j \in 0..(n - 1),
              c \in 0..(DIRENTS_PER_BLOCK - 1), n \in Nat \ {0}
      <4>3. PageEntries(i, page) = rest
        BY <1>6, <2>3, <3>1
      <4> QED
        BY ONLY <4>2, <4>3
    <3>2. CASE page # top
      <4>1. PageEntries(i, page) = DIRENTS_PER_BLOCK
        BY <1>6, <2>3, <3>2
      <4> QED
        BY ONLY <4>1, c \in 0..(DIRENTS_PER_BLOCK - 1)
    <3> QED
      BY <3>1, <3>2
  <2> QED
    BY <1>7, <2>1, <2>3, <2>4
<1> QED
  BY <1>5, <1>8, <1>9

\* There are no more entries than bytes.
LEMMA Sparse ==
  ASSUME NEW n \in Nat \ {0}
  PROVE  n <= Size(n)
<1>1. PICK m \in Nat, k \in 1..DIRENTS_PER_BLOCK :
        n = m * DIRENTS_PER_BLOCK + k /\ Size(n) = m * BLOCK_SIZE + k * ENT
  BY SizeForm
<1>2. DIRENTS_PER_BLOCK <= BLOCK_SIZE
  <2>1. DIRENTS_PER_BLOCK * ENT >= DIRENTS_PER_BLOCK /\ DIRENTS_PER_BLOCK * ENT \in Nat
    <3>1. ASSUME NEW p \in Nat, NEW e \in Nat \ {0} PROVE p * e >= p /\ p * e \in Nat
      <4>1. PICK f \in Nat : e = f + 1
        <5>1. e - 1 \in Nat /\ e = (e - 1) + 1
          OBVIOUS
        <5> QED
          BY <5>1
      <4>2. p * e = p * f + p /\ p * f \in Nat
        BY ONLY <4>1, p \in Nat, f \in Nat
      <4> QED
        BY ONLY <4>2, p \in Nat
    <3> QED
      BY ONLY <3>1, Units
  <2> QED
    BY ONLY <2>1, Block, Units
<1>3. PICK d \in Nat : BLOCK_SIZE = DIRENTS_PER_BLOCK + d
  <2>1. BLOCK_SIZE - DIRENTS_PER_BLOCK \in Nat /\ BLOCK_SIZE = DIRENTS_PER_BLOCK + (BLOCK_SIZE - DIRENTS_PER_BLOCK)
    BY ONLY <1>2, Units
  <2> QED
    BY <2>1
<1>4. m * BLOCK_SIZE = m * DIRENTS_PER_BLOCK + m * d /\ m * d \in Nat /\ m * DIRENTS_PER_BLOCK \in Nat
  BY ONLY <1>3, Units, m \in Nat, d \in Nat
<1>5. PICK f \in Nat : ENT = f + 1
  <2>1. ENT - 1 \in Nat /\ ENT = (ENT - 1) + 1
    BY ONLY Units
  <2> QED
    BY <2>1
<1>6. k * ENT = k * f + k /\ k * f \in Nat /\ k \in Nat
  BY ONLY <1>5, Units, k \in 1..DIRENTS_PER_BLOCK, f \in Nat
<1> QED
  BY ONLY <1>1, <1>4, <1>6

-----------------------------------------------------------------------------
(* What the operations do to the entries of a directory *)

\* The entries that are ever written, and the contents of directories
EntryType == {NoEntry} \cup {Entry(x, i) : x \in Names \cup {".", ".."}, i \in Inums}
Content == [size : 0..MAX_SIZE, at : [0..MAX_SIZE -> EntryType]]

\* Max of two numbers.
LEMMA MaxOfTwo ==
  ASSUME NEW a \in Nat, NEW b \in Nat
  PROVE  Max({a, b}) = IF a >= b THEN a ELSE b
<1>1. \A y \in {a, b} : (IF a >= b THEN a ELSE b) >= y
  OBVIOUS
<1>2. ASSUME NEW x \in {a, b}, \A y \in {a, b} : x >= y
      PROVE  x = IF a >= b THEN a ELSE b
  BY <1>2
<1> QED
  BY <1>1, <1>2 DEF Max

\* write_i of one entry.
LEMMA Written ==
  ASSUME NEW d \in Content, NEW o \in Nat, NEW e \in EntryType, o + ENT <= MAX_SIZE
  PROVE  /\ WriteEntry(d, o, e) \in Content
         /\ WriteEntry(d, o, e).size = IF d.size >= o + ENT THEN d.size ELSE o + ENT
         /\ \A p \in 0..MAX_SIZE :
              WriteEntry(d, o, e).at[p] = IF p = o THEN e ELSE d.at[p]
<1>1. d.size \in 0..MAX_SIZE /\ d.at \in [0..MAX_SIZE -> EntryType]
  BY DEF Content
<1>2. ENT \in Nat \ {0} /\ MAX_SIZE \in Nat
  BY DirConstants
<1>3. PICK a \in Nat, b \in Nat : a = d.size /\ b = o + ENT
  BY <1>1, <1>2
<1>4. Max({d.size, o + ENT}) = IF d.size >= o + ENT THEN d.size ELSE o + ENT
  BY ONLY <1>3, MaxOfTwo, a \in Nat, b \in Nat
<1>5. PICK m \in 0..MAX_SIZE : /\ m = Max({d.size, o + ENT})
                               /\ m = IF d.size >= o + ENT THEN d.size ELSE o + ENT
  BY <1>1, <1>2, <1>4
<1>6. [d.at EXCEPT ![o] = e] \in [0..MAX_SIZE -> EntryType]
  BY <1>1
<1>7. WriteEntry(d, o, e) = [size |-> m, at |-> [d.at EXCEPT ![o] = e]]
  BY <1>5 DEF WriteEntry
<1>8. WriteEntry(d, o, e) \in Content
  BY <1>6, <1>7 DEF Content
<1>9. o \in 0..MAX_SIZE
  BY <1>2
<1>10. ASSUME NEW p \in 0..MAX_SIZE
       PROVE  WriteEntry(d, o, e).at[p] = IF p = o THEN e ELSE d.at[p]
  <2>1. PICK f \in [0..MAX_SIZE -> EntryType] : f = d.at
    BY <1>1
  <2>2. [f EXCEPT ![o] = e][p] = IF p = o THEN e ELSE f[p]
    OBVIOUS
  <2>3. WriteEntry(d, o, e).at = [d.at EXCEPT ![o] = e]
    BY <1>7
  <2> QED
    BY <2>1, <2>2, <2>3
<1>11. WriteEntry(d, o, e).size = m
  BY <1>7
<1> QED
  BY <1>5, <1>8, <1>10, <1>11

\* trunc_fs keeps the entries before the new end.
LEMMA Truncated ==
  ASSUME NEW d \in Content, NEW size \in 0..MAX_SIZE
  PROVE  /\ trunc_fs(d, size) \in Content
         /\ trunc_fs(d, size).size = size
         /\ \A p \in 0..MAX_SIZE : p + ENT <= size => trunc_fs(d, size).at[p] = d.at[p]
<1>1. NoEntry \in EntryType
  BY DEF EntryType
<1> QED
  BY <1>1 DEF Content, trunc_fs

\* d holds n entries, and entry k is at its place
At(d, k) == d.at[OffsetOf(k)]

\* add_dirent leaves the entries there are and puts the new one behind them.
LEMMA Added ==
  ASSUME NEW d \in Content, NEW n \in Nat \ {0}, d.size = Size(n), NEW e \in EntryType,
         AddOffset(d.size) + ENT <= MAX_SIZE
  PROVE  /\ add_dirent(d, e) \in Content
         /\ add_dirent(d, e).size = Size(n + 1)
         /\ At(add_dirent(d, e), n) = e
         /\ \A k \in 0..(n - 1) : At(add_dirent(d, e), k) = At(d, k)
<1>1. AddOffset(d.size) = OffsetOf(n)
  BY AddPlace
<1>2. /\ OffsetOf(n) \in Nat /\ Size(n) \in Nat /\ Size(n) <= OffsetOf(n)
      /\ Size(n + 1) = OffsetOf(n) + ENT
      /\ \A j \in 0..(n - 1) : OffsetOf(j) \in Nat /\ OffsetOf(j) + ENT <= Size(n)
  BY Growth
<1>3. PICK o \in Nat, c \in {add_dirent(d, e)} :
        /\ o = OffsetOf(n) /\ o + ENT <= MAX_SIZE
        /\ c = add_dirent(d, e) /\ c = WriteEntry(d, o, e)
  BY <1>1, <1>2 DEF add_dirent
<1>4. /\ c \in Content
      /\ c.size = IF d.size >= o + ENT THEN d.size ELSE o + ENT
      /\ \A p \in 0..MAX_SIZE : c.at[p] = IF p = o THEN e ELSE d.at[p]
  BY <1>3, Written
<1>5. MAX_SIZE \in Nat
  BY DirConstants
<1>6. c.size = Size(n + 1)
  BY ONLY <1>2, <1>3, <1>4, Units, d.size = Size(n)
<1>7. At(c, n) = e
  <2>1. o \in 0..MAX_SIZE
    BY ONLY <1>3, <1>5, Units, o \in Nat
  <2> QED
    BY <1>3, <1>4, <2>1 DEF At
<1>8. ASSUME NEW k \in 0..(n - 1) PROVE At(c, k) = At(d, k)
  <2>1. OffsetOf(k) \in Nat /\ OffsetOf(k) + ENT <= Size(n)
    BY <1>2
  <2>2. OffsetOf(k) \in 0..MAX_SIZE /\ OffsetOf(k) # o
    BY ONLY <1>2, <1>3, <1>5, <2>1, Units, o \in Nat
  <2> QED
    BY <1>4, <2>2 DEF At
<1> QED
  BY <1>3, <1>4, <1>6, <1>7, <1>8

\* remove_dirent takes an entry out: the last one comes in its place.
LEMMA Removed ==
  ASSUME NEW d \in Content, NEW n \in Nat, n > 1, d.size = Size(n), NEW j \in 0..(n - 1)
  PROVE  /\ remove_dirent(d, j) \in Content
         /\ remove_dirent(d, j).size = Size(n - 1)
         /\ \A k \in 0..(n - 2) :
              At(remove_dirent(d, j), k) = IF k = j THEN At(d, n - 1) ELSE At(d, k)
<1>1. n \in Nat \ {0} /\ n - 1 \in Nat \ {0} /\ j \in Nat /\ (n - 1) - 1 = n - 2 /\ n - 1 \in 0..(n - 1)
  OBVIOUS
<1>2. LastOffset(d.size) = OffsetOf(n - 1) /\ ShrunkSize(d.size) = Size(n - 1)
  BY <1>1, LastPlace, ShrinkSize
<1>3. /\ Size(n) \in Nat /\ OffsetOf(n - 1) \in Nat
      /\ \A k \in 0..(n - 1) : OffsetOf(k) \in Nat /\ OffsetOf(k) + ENT <= Size(n)
      /\ Size(n) = OffsetOf(n - 1) + ENT
  BY <1>1, Growth
<1>4. /\ Size(n - 1) \in Nat /\ Size(n - 1) <= OffsetOf(n - 1)
      /\ \A k \in 0..(n - 2) : OffsetOf(k) \in Nat /\ OffsetOf(k) + ENT <= Size(n - 1)
  BY ONLY <1>1, Growth
<1>5. d.size \in 0..MAX_SIZE /\ d.at \in [0..MAX_SIZE -> EntryType] /\ MAX_SIZE \in Nat
  BY DirConstants DEF Content
<1>6. PICK o \in Nat : o = OffsetOf(j) /\ o + ENT <= MAX_SIZE /\ d.size >= o + ENT
  <2>1. OffsetOf(j) \in Nat /\ OffsetOf(j) + ENT <= Size(n)
    BY <1>3
  <2>2. OffsetOf(j) + ENT <= MAX_SIZE
    BY ONLY <1>5, <2>1, Units, d.size = Size(n)
  <2> QED
    BY ONLY <1>3, <2>1, <2>2, Units, d.size = Size(n)
<1>7. PICK e \in EntryType : e = d.at[OffsetOf(n - 1)]
  <2>1. OffsetOf(n - 1) \in 0..MAX_SIZE
    BY ONLY <1>3, <1>5, Units, d.size = Size(n)
  <2> QED
    BY <1>5, <2>1
<1>8. PICK c \in Content : /\ c = WriteEntry(d, o, e)
                           /\ \A p \in 0..MAX_SIZE : c.at[p] = IF p = o THEN e ELSE d.at[p]
  BY <1>6, Written
<1>9. PICK size \in 0..MAX_SIZE : size = Size(n - 1)
  BY ONLY <1>3, <1>4, <1>5, Units, d.size = Size(n)
<1>10. remove_dirent(d, j) = trunc_fs(c, size)
  BY <1>2, <1>6, <1>7, <1>8, <1>9 DEF remove_dirent
<1>11. /\ trunc_fs(c, size) \in Content
       /\ trunc_fs(c, size).size = size
       /\ \A p \in 0..MAX_SIZE : p + ENT <= size => trunc_fs(c, size).at[p] = c.at[p]
  BY Truncated
<1>12. ASSUME NEW k \in 0..(n - 2)
       PROVE  At(trunc_fs(c, size), k) = IF k = j THEN At(d, n - 1) ELSE At(d, k)
  <2>1. OffsetOf(k) \in Nat /\ OffsetOf(k) + ENT <= Size(n - 1)
    BY <1>4
  <2>2. OffsetOf(k) \in 0..MAX_SIZE
    BY ONLY <1>5, <1>9, <2>1, Units, size \in 0..MAX_SIZE
  <2>3. At(trunc_fs(c, size), k) = IF OffsetOf(k) = o THEN e ELSE d.at[OffsetOf(k)]
    BY <1>8, <1>9, <1>11, <2>1, <2>2 DEF At
  <2>4. OffsetOf(k) = o <=> k = j
    <3>1. k \in Nat /\ (k # j => k < j \/ j < k)
      BY <1>1
    <3>2. k < j => OffsetOf(k) + ENT <= OffsetOf(j)
      BY ONLY <1>1, <3>1, Apart
    <3>3. j < k => OffsetOf(j) + ENT <= OffsetOf(k)
      BY ONLY <1>1, <3>1, Apart
    <3> QED
      BY ONLY <1>6, <2>1, <3>1, <3>2, <3>3, Units, o \in Nat
  <2> QED
    BY <1>7, <2>3, <2>4 DEF At
<1> QED
  BY <1>9, <1>10, <1>11, <1>12

\* A file without bytes.
LEMMA Nothing ==
  EmptyDir \in Content /\ EmptyDir.size = 0 /\ MAX_SIZE \in Nat /\ ENT + ENT <= MAX_SIZE
<1>1. MAX_SIZE \in Nat
  BY DirConstants
<1>2. ENT + ENT <= MAX_SIZE
  <2>1. 2 * ENT <= MAX_SIZE /\ ENT \in Nat
    BY DirConstants
  <2> QED
    BY ONLY <1>1, <2>1
<1>3. NoEntry \in EntryType
  BY DEF EntryType
<1>4. 0 \in 0..MAX_SIZE
  BY <1>1
<1>5. [o \in 0..MAX_SIZE |-> NoEntry] \in [0..MAX_SIZE -> EntryType]
  BY <1>3
<1> QED
  BY <1>1, <1>2, <1>4, <1>5 DEF EmptyDir, Content

\* create_dir_base makes a directory of two entries.
LEMMA Based ==
  ASSUME NEW i \in Inums, NEW p \in Inums
  PROVE  /\ create_dir_base(i, p) \in Content
         /\ create_dir_base(i, p).size = Size(2)
         /\ At(create_dir_base(i, p), 0) = Entry(".", i)
         /\ At(create_dir_base(i, p), 1) = Entry("..", p)
<1>1. EmptyDir \in Content /\ EmptyDir.size = 0
  BY Nothing
<1>2. PICK d \in Content, a \in EntryType, b \in EntryType :
        d = EmptyDir /\ a = Entry(".", i) /\ b = Entry("..", p)
  <2>1. Entry(".", i) \in EntryType /\ Entry("..", p) \in EntryType
    BY DEF EntryType
  <2> QED
    BY <1>1, <2>1
<1>3. ENT + ENT <= MAX_SIZE /\ MAX_SIZE \in Nat
  BY Nothing
<1>4. PICK o \in Nat : o = 0 /\ o + ENT <= MAX_SIZE /\ o + ENT = ENT
  BY ONLY <1>3, Units
<1>5. PICK c \in Content : /\ c = WriteEntry(d, o, a)
                           /\ c.size = IF d.size >= o + ENT THEN d.size ELSE o + ENT
                           /\ \A q \in 0..MAX_SIZE : c.at[q] = IF q = o THEN a ELSE d.at[q]
  BY <1>4, Written
<1>6. PICK w \in Nat : w = ENT /\ w + ENT <= MAX_SIZE
  BY ONLY <1>3, Units
<1>7. PICK f \in Content : /\ f = WriteEntry(c, w, b)
                           /\ f.size = IF c.size >= w + ENT THEN c.size ELSE w + ENT
                           /\ \A q \in 0..MAX_SIZE : f.at[q] = IF q = w THEN b ELSE c.at[q]
  BY <1>6, Written
<1>8. f = create_dir_base(i, p)
  BY <1>2, <1>4, <1>5, <1>6, <1>7 DEF create_dir_base
<1>9. f.size = ENT + ENT
  <2>1. d.size = 0
    BY <1>1, <1>2
  <2>2. c.size = ENT
    BY ONLY <2>1, <1>4, <1>5, Units
  <2> QED
    BY ONLY <2>2, <1>6, <1>7, Units
<1>10. f.at[0] = a /\ f.at[ENT] = b
  <2>1. 0 \in 0..MAX_SIZE /\ ENT \in 0..MAX_SIZE /\ ENT # 0
    BY ONLY <1>3, Units
  <2> QED
    BY <1>4, <1>5, <1>6, <1>7, <2>1
<1> QED
  BY <1>2, <1>8, <1>9, <1>10, FirstTwo DEF At

-----------------------------------------------------------------------------
(* The invariant *)

\* The types of the variables
Types ==
  /\ node \in [Inums -> NodeType]
  /\ dir \in [Inums -> Content]
  /\ want \in [Inums -> [Names -> Inums \cup {0}]]
  /\ pending \subseteq opened /\ opened \subseteq Inums \ {ROOT_INODE}
  /\ caller \in Users

\* d is a directory of n entries, and behind the first two come exactly the
\* names of w, once each and with their inodes
Holds(d, w, n) ==
  /\ n > 1 /\ d.size = Size(n)
  /\ \A k \in 2..(n - 1) : \E x \in Names : w[x] # 0 /\ At(d, k) = Entry(x, w[x])
  /\ \A x \in Names : w[x] # 0 => \E k \in 2..(n - 1) : At(d, k).name = x
  /\ \A j, k \in 2..(n - 1) : At(d, j).name = At(d, k).name => j = k

\* The first two entries of directory i, below p
Starts(d, i, p) == At(d, 0) = Entry(".", i) /\ At(d, 1) = Entry("..", p)

\* Every directory is well formed and lists its names
Listings == \A i \in Dirs : /\ \E p \in Inums : Starts(dir[i], i, p)
                            /\ \E n \in Nat : Holds(dir[i], want[i], n)

\* Only directories have names in them
Bare == \A i \in Inums \ Dirs, x \in Names : want[i][x] = 0

\* A name leads to an inode in use that no descriptor holds alone, never to
\* the root, and the way up from a directory is the way down to it
Used == \A i \in Inums, x \in Names : want[i][x] # 0 =>
          /\ want[i][x] # ROOT_INODE /\ want[i][x] \notin pending
          /\ node[want[i][x]].kind # "free"
          /\ want[i][x] \in Dirs => At(dir[want[i][x]], 1).inode_num = i

\* No inode has two names
Unique == \A i, j \in Inums, x, y \in Names :
            want[i][x] # 0 /\ want[i][x] = want[j][y] => i = j /\ x = y

\* Every inode in use has a name, unless it is the root or only waits for its
\* last descriptor
Named == \A c \in Inums \ {ROOT_INODE} : node[c].kind # "free" /\ c \notin pending =>
           \E i \in Inums, x \in Names : want[i][x] = c

Rooted == ROOT_INODE \in Dirs /\ At(dir[ROOT_INODE], 1).inode_num = ROOT_INODE

\* Names lead downwards, so that no directory is below itself
Below(rank) == \A i \in Inums, x \in Names : want[i][x] # 0 => rank[i] < rank[want[i][x]]
Ranked == \E rank \in [Inums -> Nat] : Below(rank)

\* Descriptors are open on files
Held == \A i \in opened : node[i].kind = "reg"

DirInv == Types /\ Listings /\ Bare /\ Used /\ Unique /\ Named /\ Rooted /\ Ranked
          /\ Held

-----------------------------------------------------------------------------
(* Listings *)

\* The root directory's inode is an inode, and 0 is none.
LEMMA RootInum ==
  ROOT_INODE \in Inums /\ 0 \notin Inums /\ Inums \subseteq Nat
<1>1. NumInodes \in Nat \ {0}
  BY DirConstants
<1> QED
  BY <1>1 DEF Inums, ROOT_INODE

\* The names of entries are not among the special ones.
LEMMA NameKinds ==
  ASSUME NEW x \in Names
  PROVE  x # "" /\ x # "." /\ x # ".."
<1>1. {"", ".", ".."} \cap Names = {}
  BY DirConstants
<1> QED
  BY <1>1

\* The fields of an entry.
LEMMA EntryFields ==
  ASSUME NEW x, NEW i
  PROVE  Entry(x, i).name = x /\ Entry(x, i).inode_num = i
BY DEF Entry

\* Every entry behind the first two carries a name of w and its inode.
LEMMA HoldsEach ==
  ASSUME NEW d, NEW w, NEW n \in Nat, Holds(d, w, n), NEW k \in 2..(n - 1)
  PROVE  /\ At(d, k).name \in Names /\ w[At(d, k).name] # 0
         /\ At(d, k) = Entry(At(d, k).name, w[At(d, k).name])
         /\ At(d, k).inode_num = w[At(d, k).name]
<1>1. PICK x \in Names : w[x] # 0 /\ At(d, k) = Entry(x, w[x])
  BY DEF Holds
<1>2. At(d, k).name = x /\ At(d, k).inode_num = w[x]
  BY <1>1, EntryFields
<1> QED
  BY <1>1, <1>2

\* add_dirent of a name that is not there yet.
LEMMA HoldsAdded ==
  ASSUME NEW d \in Content, NEW w \in [Names -> Inums \cup {0}], NEW n \in Nat, Holds(d, w, n),
         NEW x \in Names, w[x] = 0, NEW c \in Inums, AddOffset(d.size) + ENT <= MAX_SIZE,
         NEW i, NEW p, Starts(d, i, p)
  PROVE  \E e \in Content, v \in [Names -> Inums \cup {0}], m \in Nat :
           /\ e = add_dirent(d, Entry(x, c)) /\ v = [w EXCEPT ![x] = c]
           /\ Holds(e, v, m) /\ Starts(e, i, p)
<1>1. n > 1 /\ n \in Nat \ {0} /\ d.size = Size(n) /\ c # 0
  BY DEF Holds, Inums, ROOT_INODE
<1>2. PICK a \in EntryType : a = Entry(x, c) /\ a.name = x
  <2>1. Entry(x, c) \in EntryType
    BY DEF EntryType
  <2> QED
    BY <2>1, EntryFields
<1>3. PICK e \in Content : /\ e = add_dirent(d, a) /\ e.size = Size(n + 1) /\ At(e, n) = a
                           /\ \A k \in 0..(n - 1) : At(e, k) = At(d, k)
  BY <1>1, Added
<1>4. PICK v \in [Names -> Inums \cup {0}] : v = [w EXCEPT ![x] = c]
  OBVIOUS
<1>5. \A y \in Names : v[y] = IF y = x THEN c ELSE w[y]
  BY <1>4
<1>6. PICK m \in Nat : m = n + 1 /\ m - 1 = n
  OBVIOUS
<1>7. \A k \in 2..(m - 1) : k = n \/ k \in 2..(n - 1)
  BY <1>6
<1>8. \A k \in 2..(n - 1) : At(e, k) = At(d, k) /\ At(d, k).name # x
  <2>1. ASSUME NEW k \in 2..(n - 1) PROVE At(e, k) = At(d, k) /\ At(d, k).name # x
    <3>1. k \in 0..(n - 1)
      OBVIOUS
    <3>2. w[At(d, k).name] # 0
      BY HoldsEach
    <3> QED
      BY <1>3, <3>1, <3>2
  <2> QED
    BY <2>1
<1>9. ASSUME NEW k \in 2..(m - 1)
      PROVE  \E y \in Names : v[y] # 0 /\ At(e, k) = Entry(y, v[y])
  <2>1. CASE k = n
    <3>1. v[x] # 0 /\ At(e, k) = Entry(x, v[x])
      BY <1>1, <1>2, <1>3, <1>5, <2>1
    <3> QED
      BY <3>1
  <2>2. CASE k \in 2..(n - 1)
    <3>1. PICK y \in Names : w[y] # 0 /\ At(d, k) = Entry(y, w[y])
      BY <2>2 DEF Holds
    <3>2. y # x
      BY <3>1
    <3>3. v[y] # 0 /\ At(e, k) = Entry(y, v[y])
      BY <1>5, <1>8, <2>2, <3>1, <3>2
    <3> QED
      BY <3>3
  <2> QED
    BY <1>7, <2>1, <2>2
<1>10. ASSUME NEW y \in Names, v[y] # 0 PROVE \E k \in 2..(m - 1) : At(e, k).name = y
  <2>1. CASE y = x
    <3>1. n \in 2..(m - 1)
      BY <1>1, <1>6
    <3> QED
      BY <1>2, <1>3, <2>1, <3>1
  <2>2. CASE y # x
    <3>1. w[y] # 0
      BY <1>5, <1>10, <2>2
    <3>2. PICK k \in 2..(n - 1) : At(d, k).name = y
      BY <3>1 DEF Holds
    <3>3. k \in 2..(m - 1)
      BY <1>6
    <3> QED
      BY <1>8, <3>2, <3>3
  <2> QED
    BY <2>1, <2>2
<1>11. ASSUME NEW j \in 2..(m - 1), NEW k \in 2..(m - 1), At(e, j).name = At(e, k).name
       PROVE  j = k
  <2>1. CASE j = n /\ k = n
    BY <2>1
  <2>2. CASE j = n /\ k \in 2..(n - 1)
    BY <1>2, <1>3, <1>8, <1>11, <2>2
  <2>3. CASE j \in 2..(n - 1) /\ k = n
    BY <1>2, <1>3, <1>8, <1>11, <2>3
  <2>4. CASE j \in 2..(n - 1) /\ k \in 2..(n - 1)
    <3>1. At(d, j).name = At(d, k).name
      BY <1>8, <1>11, <2>4
    <3> QED
      BY <2>4, <3>1 DEF Holds
  <2> QED
    BY <1>7, <2>1, <2>2, <2>3, <2>4
<1>12. Holds(e, v, m)
  <2>1. m > 1 /\ e.size = Size(m)
    BY <1>1, <1>3, <1>6
  <2> QED
    BY <1>9, <1>10, <1>11, <2>1 DEF Holds
<1>13. Starts(e, i, p)
  <2>1. 0 \in 0..(n - 1) /\ 1 \in 0..(n - 1)
    BY <1>1
  <2> QED
    BY <1>3, <2>1 DEF Starts
<1> QED
  BY <1>2, <1>3, <1>4, <1>12, <1>13

\* remove_dirent of the entry of a name: the name goes, and only it.
LEMMA HoldsRemoved ==
  ASSUME NEW d \in Content, NEW w \in [Names -> Inums \cup {0}], NEW n \in Nat, Holds(d, w, n),
         \A x, y \in Names : w[x] # 0 /\ w[x] = w[y] => x = y,
         NEW j \in 2..(n - 1), NEW c, c = w[At(d, j).name],
         NEW i, NEW p, Starts(d, i, p)
  PROVE  \E e \in Content, v \in [Names -> Inums \cup {0}], m \in Nat :
           /\ e = remove_dirent(d, j) /\ v = [x \in Names |-> IF w[x] = c THEN 0 ELSE w[x]]
           /\ Holds(e, v, m) /\ Starts(e, i, p)
<1>1. n > 1 /\ d.size = Size(n) /\ j \in 0..(n - 1)
  BY DEF Holds
<1>2. PICK e \in Content : /\ e = remove_dirent(d, j) /\ e.size = Size(n - 1)
                           /\ \A k \in 0..(n - 2) :
                                At(e, k) = IF k = j THEN At(d, n - 1) ELSE At(d, k)
  BY <1>1, Removed
<1>3. PICK v \in [Names -> Inums \cup {0}] : v = [x \in Names |-> IF w[x] = c THEN 0 ELSE w[x]]
  OBVIOUS
<1>4. PICK z \in Names : z = At(d, j).name /\ w[z] # 0 /\ c = w[z]
  BY HoldsEach
<1>5. \A x \in Names : v[x] = IF x = z THEN 0 ELSE w[x]
  BY <1>3, <1>4
<1>6. PICK m \in Nat : m = n - 1 /\ m - 1 = n - 2
  BY <1>1
<1>7. n - 1 \in 2..(n - 1) /\ n > 2
  OBVIOUS
<1>8. ASSUME NEW k \in 2..(m - 1)
      PROVE  \E l \in 2..(n - 1) : /\ At(e, k) = At(d, l) /\ l # j
                                   /\ l = IF k = j THEN n - 1 ELSE k
  <2>1. k \in 0..(n - 2) /\ k \in 2..(n - 1) /\ k # n - 1
    BY <1>6
  <2>2. PICK l \in 2..(n - 1) : l = IF k = j THEN n - 1 ELSE k
    BY <1>7, <2>1
  <2>3. l # j
    BY <2>1, <2>2
  <2> QED
    BY <1>2, <2>1, <2>2, <2>3
<1>9. ASSUME NEW l \in 2..(n - 1), l # j PROVE At(d, l).name # z
  BY <1>4, <1>9 DEF Holds
<1>10. ASSUME NEW k \in 2..(m - 1)
       PROVE  \E y \in Names : v[y] # 0 /\ At(e, k) = Entry(y, v[y])
  <2>1. PICK l \in 2..(n - 1) : At(e, k) = At(d, l) /\ l # j
    BY <1>8
  <2>2. PICK y \in Names : y = At(d, l).name /\ w[y] # 0 /\ At(d, l) = Entry(y, w[y])
    BY HoldsEach
  <2>3. y # z
    BY <1>9, <2>1, <2>2
  <2> QED
    BY <1>5, <2>1, <2>2, <2>3
<1>11. ASSUME NEW y \in Names, v[y] # 0 PROVE \E k \in 2..(m - 1) : At(e, k).name = y
  <2>1. y # z /\ w[y] # 0
    BY <1>5, <1>11
  <2>2. PICK l \in 2..(n - 1) : At(d, l).name = y
    BY <2>1 DEF Holds
  <2>3. l # j
    BY <1>4, <2>1, <2>2
  <2>4. CASE l = n - 1
    <3>1. j \in 2..(m - 1) /\ j \in 0..(n - 2)
      BY <1>6, <2>3, <2>4
    <3>2. At(e, j) = At(d, l)
      BY <1>2, <2>4, <3>1
    <3> QED
      BY <2>2, <3>1, <3>2
  <2>5. CASE l # n - 1
    <3>1. l \in 2..(m - 1) /\ l \in 0..(n - 2)
      BY <1>6, <2>5
    <3>2. At(e, l) = At(d, l)
      BY <1>2, <2>3, <3>1
    <3> QED
      BY <2>2, <3>1, <3>2
  <2> QED
    BY <2>4, <2>5
<1>12. ASSUME NEW k \in 2..(m - 1), NEW l \in 2..(m - 1), At(e, k).name = At(e, l).name
       PROVE  k = l
  <2>1. PICK a \in 2..(n - 1) : At(e, k) = At(d, a) /\ a = IF k = j THEN n - 1 ELSE k
    BY <1>8
  <2>2. PICK b \in 2..(n - 1) : At(e, l) = At(d, b) /\ b = IF l = j THEN n - 1 ELSE l
    BY <1>8
  <2>3. a = b
    BY <1>12, <2>1, <2>2 DEF Holds
  <2>4. k # n - 1 /\ l # n - 1
    BY <1>6
  <2> QED
    BY <2>1, <2>2, <2>3, <2>4
<1>13. Holds(e, v, m)
  <2>1. m > 1 /\ e.size = Size(m)
    BY <1>2, <1>6, <1>7
  <2> QED
    BY <1>10, <1>11, <1>12, <2>1 DEF Holds
<1>14. Starts(e, i, p)
  <2>1. 0 \in 0..(n - 2) /\ 1 \in 0..(n - 2) /\ 0 # j /\ 1 # j
    BY <1>7
  <2> QED
    BY <1>2, <2>1 DEF Starts
<1> QED
  BY <1>2, <1>3, <1>13, <1>14

\* A directory with its first two entries only holds no names.
LEMMA HoldsBase ==
  ASSUME NEW i \in Inums, NEW p \in Inums, NEW w \in [Names -> Inums \cup {0}],
         \A x \in Names : w[x] = 0
  PROVE  \E e \in Content : /\ e = create_dir_base(i, p)
                            /\ Holds(e, w, 2) /\ Starts(e, i, p)
<1>1. PICK e \in Content : /\ e = create_dir_base(i, p) /\ e.size = Size(2)
                           /\ At(e, 0) = Entry(".", i) /\ At(e, 1) = Entry("..", p)
  BY Based
<1>2. 2..(2 - 1) = {}
  OBVIOUS
<1>3. Holds(e, w, 2)
  BY <1>1, <1>2 DEF Holds
<1> QED
  BY <1>1, <1>3 DEF Starts

\* Entry j of directory i carries the name x
Hit(i, x, j) == \E n \in Nat : /\ j \in 2..(n - 1) /\ Holds(dir[i], want[i], n)
                               /\ At(dir[i], j).name = x

\* search_by_name finds the entry of a name that was made, and nothing for
\* another name.
LEMMA Searched ==
  ASSUME Listings, NEW i \in Dirs, NEW x \in Names
  PROVE  /\ ~ Unreadable(i)
         /\ want[i][x] = 0 => Matches(i, x) = {}
         /\ want[i][x] # 0 => /\ Matches(i, x) # {} /\ Min(Matches(i, x)) \in Nat
                              /\ Hit(i, x, Min(Matches(i, x)))
                              /\ Matches(i, x) = {Min(Matches(i, x))}
                              /\ EntryAt(i, Min(Matches(i, x))).inode_num = want[i][x]
<1>1. PICK p \in Inums : Starts(dir[i], i, p)
  BY DEF Listings
<1>2. PICK n \in Nat : Holds(dir[i], want[i], n)
  BY DEF Listings
<1>3. n > 1 /\ n \in Nat \ {0} /\ dir[i].size = Size(n)
  BY <1>2 DEF Holds
<1>4. ~ Malformed(i) /\ Indices(i) = 0..(n - 1)
  BY <1>3, Listed
<1>5. ~ Unreadable(i)
  <2>1. dir[i].size \in Nat /\ dir[i].size >= ENT
    BY <1>3, Growth
  <2>2. dir[i].size # 0
    BY ONLY <2>1, Units
  <2> QED
    BY <1>4, <2>2 DEF Unreadable, Dirs
<1>6. x # "." /\ x # ".."
  BY NameKinds
<1>7. At(dir[i], 0).name = "." /\ At(dir[i], 1).name = ".."
  BY <1>1, EntryFields DEF Starts
<1>8. ASSUME NEW k PROVE k \in Matches(i, x) <=> k \in 0..(n - 1) /\ At(dir[i], k).name = x
  BY <1>4 DEF Matches, EntryAt, At
<1>9. ASSUME NEW k \in Matches(i, x) PROVE k \in 2..(n - 1) /\ At(dir[i], k).name = x
  <2>1. k \in 0..(n - 1) /\ At(dir[i], k).name = x
    BY <1>8
  <2>2. k # 0 /\ k # 1
    BY <1>6, <1>7, <2>1
  <2> QED
    BY <2>1, <2>2
<1>10. want[i][x] = 0 => Matches(i, x) = {}
  <2>1. ASSUME NEW k \in Matches(i, x) PROVE want[i][x] # 0
    <3>1. k \in 2..(n - 1) /\ At(dir[i], k).name = x
      BY <1>9
    <3> QED
      BY <1>2, <3>1, HoldsEach
  <2> QED
    BY <2>1
<1>11. ASSUME want[i][x] # 0
       PROVE  \E j \in 2..(n - 1) : Matches(i, x) = {j} /\ At(dir[i], j).name = x
  <2>1. PICK j \in 2..(n - 1) : At(dir[i], j).name = x
    BY <1>2, <1>11 DEF Holds
  <2>2. j \in 0..(n - 1)
    OBVIOUS
  <2>3. j \in Matches(i, x)
    BY <1>8, <2>1, <2>2
  <2>4. ASSUME NEW k \in Matches(i, x) PROVE k = j
    BY <1>2, <1>9, <2>1 DEF Holds
  <2> QED
    BY <2>1, <2>3, <2>4
<1>12. ASSUME NEW j \in Nat PROVE Min({j}) = j
  BY DEF Min
<1>13. ASSUME want[i][x] # 0
       PROVE  /\ Matches(i, x) # {} /\ Min(Matches(i, x)) \in Nat
              /\ Hit(i, x, Min(Matches(i, x)))
              /\ Matches(i, x) = {Min(Matches(i, x))}
              /\ EntryAt(i, Min(Matches(i, x))).inode_num = want[i][x]
  <2>1. PICK j \in 2..(n - 1) : Matches(i, x) = {j} /\ At(dir[i], j).name = x
    BY <1>11, <1>13
  <2>2. j \in Nat
    OBVIOUS
  <2>3. Min(Matches(i, x)) = j
    BY <1>12, <2>1, <2>2
  <2>4. At(dir[i], j).inode_num = want[i][x]
    BY <1>2, <2>1, HoldsEach
  <2>5. Hit(i, x, j)
    BY <1>2, <2>1 DEF Hit
  <2> QED
    BY <2>1, <2>2, <2>3, <2>4, <2>5 DEF EntryAt, At
<1> QED
  BY <1>5, <1>10, <1>13

-----------------------------------------------------------------------------
(* Path lookup *)

\* The states of namei's loop
Lookups == [ret : Int, parent : Inums, target : Inums \cup {0}, index : Nat]

\* The caller may read and search directory i
Passable(i, u) == i \in Dirs /\ {"r", "x"} \subseteq check_permissions(i, u)

\* One component: namei goes on to the inode of the name when the target so far
\* is a directory that the caller may read and search, and fails otherwise.
LEMMA ComponentFollows ==
  ASSUME DirInv, NEW s \in Lookups, NEW x \in Names, NEW u
  PROVE  /\ Component(s, x, u) \in Lookups
         /\ s.ret # SUCCESS => Component(s, x, u).ret # SUCCESS
         /\ s.ret = SUCCESS /\ ~ (s.target # 0 /\ Passable(s.target, u)) =>
              Component(s, x, u).ret # SUCCESS
         /\ s.ret = SUCCESS /\ s.target # 0 /\ Passable(s.target, u) =>
              /\ Component(s, x, u).ret = SUCCESS
              /\ Component(s, x, u).parent = s.target
              /\ Component(s, x, u).target = want[s.target][x]
              /\ want[s.target][x] # 0 => Hit(s.target, x, Component(s, x, u).index)
<1>1. PICK t \in Inums \cup {0} : t = s.target
  BY DEF Lookups
<1> DEFINE C == Component(s, x, u)
           allowed == {"r", "x"} \subseteq check_permissions(t, u)
<1>2. CASE s.ret # SUCCESS
  <2>1. C = s
    BY <1>2 DEF Component
  <2> QED
    BY <1>2, <2>1
<1>3. CASE s.ret = SUCCESS /\ t = 0
  <2>1. C = [s EXCEPT !.ret = ENOENT]
    BY <1>1, <1>3 DEF Component
  <2>2. C \in Lookups /\ C.ret # SUCCESS
    BY <2>1 DEF Lookups, ENOENT, SUCCESS
  <2> QED
    BY <1>1, <1>3, <2>2
<1>4. CASE s.ret = SUCCESS /\ t # 0 /\ ~ allowed
  <2>1. C = [s EXCEPT !.ret = EACCES]
    BY <1>1, <1>4 DEF Component
  <2>2. C \in Lookups /\ C.ret # SUCCESS
    BY <2>1 DEF Lookups, EACCES, SUCCESS
  <2> QED
    BY <1>1, <1>4, <2>2 DEF Passable
<1>5. CASE s.ret = SUCCESS /\ t # 0 /\ allowed /\ t \notin Dirs
  <2>1. Unreadable(t)
    BY <1>5 DEF Unreadable, Dirs
  <2>2. C = [s EXCEPT !.ret = ENOTDIR]
    BY <1>1, <1>5, <2>1 DEF Component
  <2>3. C \in Lookups /\ C.ret # SUCCESS
    BY <2>2 DEF Lookups, ENOTDIR, SUCCESS
  <2> QED
    BY <1>1, <1>5, <2>3 DEF Passable
<1>6. CASE s.ret = SUCCESS /\ t # 0 /\ allowed /\ t \in Dirs
  <2>1. /\ ~ Unreadable(t)
        /\ want[t][x] = 0 => Matches(t, x) = {}
        /\ want[t][x] # 0 => /\ Matches(t, x) # {} /\ Min(Matches(t, x)) \in Nat
                             /\ Hit(t, x, Min(Matches(t, x)))
                             /\ EntryAt(t, Min(Matches(t, x))).inode_num = want[t][x]
    BY <1>6, Searched DEF DirInv
  <2>2. t \in Inums /\ want[t][x] \in Inums \cup {0}
    BY <1>6 DEF DirInv, Types
  <2>3. C = [s EXCEPT !.parent = t,
                      !.target = IF Matches(t, x) = {} THEN 0
                                 ELSE EntryAt(t, Min(Matches(t, x))).inode_num,
                      !.index  = IF Matches(t, x) = {} THEN s.index ELSE Min(Matches(t, x))]
    BY <1>1, <1>6, <2>1 DEF Component
  <2>4. PICK y \in Inums \cup {0} : y = want[t][x]
    BY <2>2
  <2>5. PICK c \in Nat : /\ y # 0 => c = Min(Matches(t, x))
                         /\ y = 0 => c = s.index
    BY <2>1, <2>4 DEF Lookups
  <2>6. C = [s EXCEPT !.parent = t, !.target = y, !.index = c]
    BY <2>1, <2>3, <2>4, <2>5
  <2>7. C \in Lookups /\ C.ret = SUCCESS /\ C.parent = t /\ C.target = y /\ C.index = c
    BY <1>6, <2>2, <2>6 DEF Lookups
  <2> QED
    BY <1>1, <1>6, <2>1, <2>4, <2>5, <2>7 DEF Passable
<1> QED
  BY <1>1, <1>2, <1>3, <1>4, <1>5, <1>6

\* Paths have a component, and components are names.
LEMMA PathTypes ==
  ASSUME NEW path \in Paths
  PROVE  Len(path) \in Nat /\ Len(path) > 0 /\ \A k \in 1..Len(path) : path[k] \in Names
<1>1. path \in Seq(Names) /\ path # <<>>
  BY DirConstants
<1> QED
  BY <1>1

\* Leads follows the names from the root.
LEMMA LeadsFollows ==
  ASSUME DirInv, NEW path \in Paths
  PROVE  /\ Leads(path) \in [0..Len(path) -> Inums \cup {0}]
         /\ Leads(path)[0] = ROOT_INODE
         /\ \A k \in 1..Len(path) :
              Leads(path)[k] = IF Leads(path)[k - 1] = 0 THEN 0
                               ELSE want[Leads(path)[k - 1]][path[k]]
<1> DEFINE D == Inums \cup {0}
           n == Len(path)
           Go(t, k) == IF t = 0 THEN 0 ELSE want[t][path[k]]
           Eq(c) == c = [k \in 0..n |-> IF k = 0 THEN ROOT_INODE ELSE Go(c[k - 1], k)]
           g == [z \in (1..n) \X D |-> Go(z[2], z[1])]
<1>1. n \in Nat /\ ROOT_INODE \in D /\ \A k \in 1..n : path[k] \in Names
  BY PathTypes, RootInum
<1>2. ASSUME NEW k \in 1..n, NEW t \in D PROVE Go(t, k) \in D
  BY <1>1 DEF DirInv, Types
<1>3. g \in [(1..n) \X D -> D]
  <2> HIDE DEF Go, D
  <2>1. \A z \in (1..n) \X D : Go(z[2], z[1]) \in D
    BY <1>2
  <2> QED
    BY <2>1
<1>4. PICK f \in [0..n -> D] : Iterates(f, n, ROOT_INODE, g)
  <2> HIDE DEF D, n, g
  <2> QED
    BY <1>1, <1>3, Recursion
<1>5. Eq(f)
  <2>1. ASSUME NEW k \in 1..n PROVE f[k] = Go(f[k - 1], k)
    <3> HIDE DEF Go
    <3>1. k - 1 \in 0..n /\ <<k, f[k - 1]>> \in (1..n) \X D
      BY <1>1
    <3>2. g[<<k, f[k - 1]>>] = Go(f[k - 1], k)
      BY <3>1
    <3> QED
      BY <1>4, <3>2 DEF Iterates
  <2> HIDE DEF Go
  <2>2. \A k \in 0..n : f[k] = IF k = 0 THEN ROOT_INODE ELSE Go(f[k - 1], k)
    <3>1. \A k \in 0..n : k # 0 => k \in 1..n
      BY <1>1
    <3> QED
      BY <1>4, <2>1, <3>1 DEF Iterates
  <2>3. f = [k \in 0..n |-> f[k]]
    OBVIOUS
  <2> HIDE DEF n
  <2> QED
    BY <2>2, <2>3, Zenon
<1> DEFINE C == CHOOSE c : Eq(c)
<1>6. Eq(C)
  <2> HIDE DEF Eq
  <2> QED
    BY <1>5, Zenon
<1>7. Leads(path) = C
  BY DEF Leads
<1> HIDE DEF C
<1>8. C[0] = ROOT_INODE /\ \A k \in 1..n : C[k] = Go(C[k - 1], k)
  <2> HIDE DEF Go
  <2> QED
    BY <1>1, <1>6
<1>9. \A k \in 0..n : C[k] \in D
  <2> HIDE DEF Go
  <2> DEFINE S == {k \in 0..n : C[k] \in D}
  <2>1. 0 \in S
    BY <1>1, <1>8
  <2>2. ASSUME NEW k \in 0..(n - 1), k \in S PROVE k + 1 \in S
    <3> HIDE DEF D
    <3>1. k + 1 \in 1..n /\ (k + 1) - 1 = k
      BY <1>1
    <3>2. C[k + 1] = Go(C[k], k + 1)
      BY <1>8, <3>1
    <3> QED
      BY <1>2, <2>2, <3>1, <3>2
  <2> HIDE DEF S
  <2>3. \A k \in 0..n : k \in S
    BY <1>1, <2>1, <2>2, UpTo
  <2> QED
    BY <2>3 DEF S
<1> QED
  BY <1>6, <1>7, <1>8, <1>9

\* namei walks along the components.
LEMMA NameiWalks ==
  ASSUME DirInv, NEW path \in Paths, NEW u
  PROVE  \E W \in [0..Len(path) -> Lookups] :
           /\ namei(path, u) = W[Len(path)]
           /\ W[0] = [ret |-> SUCCESS, parent |-> ROOT_INODE, target |-> ROOT_INODE, index |-> 0]
           /\ \A k \in 1..Len(path) : W[k] = Component(W[k - 1], path[k], u)
<1> DEFINE n == Len(path)
           first == [ret |-> SUCCESS, parent |-> ROOT_INODE, target |-> ROOT_INODE, index |-> 0]
           Eq(c) == c = [k \in 0..n |-> IF k = 0 THEN first ELSE Component(c[k - 1], path[k], u)]
           g == [z \in (1..n) \X Lookups |-> Component(z[2], path[z[1]], u)]
<1>1. n \in Nat /\ first \in Lookups /\ \A k \in 1..n : path[k] \in Names
  <2>1. first \in Lookups
    BY RootInum DEF Lookups, SUCCESS
  <2> QED
    BY <2>1, PathTypes
<1>2. ASSUME NEW k \in 1..n, NEW t \in Lookups PROVE Component(t, path[k], u) \in Lookups
  BY <1>1, ComponentFollows
<1>3. g \in [(1..n) \X Lookups -> Lookups]
  <2>1. \A z \in (1..n) \X Lookups : Component(z[2], path[z[1]], u) \in Lookups
    BY <1>2
  <2> QED
    BY <2>1
<1> HIDE DEF first
<1>4. PICK f \in [0..n -> Lookups] : Iterates(f, n, first, g)
  <2> HIDE DEF n, g
  <2> QED
    BY <1>1, <1>3, Recursion
<1>5. Eq(f)
  <2>1. ASSUME NEW k \in 1..n PROVE f[k] = Component(f[k - 1], path[k], u)
    <3>1. k - 1 \in 0..n /\ <<k, f[k - 1]>> \in (1..n) \X Lookups
      BY <1>1
    <3>2. g[<<k, f[k - 1]>>] = Component(f[k - 1], path[k], u)
      BY <3>1
    <3> QED
      BY <1>4, <3>2 DEF Iterates
  <2>2. \A k \in 0..n : f[k] = IF k = 0 THEN first ELSE Component(f[k - 1], path[k], u)
    <3>1. \A k \in 0..n : k # 0 => k \in 1..n
      BY <1>1
    <3> QED
      BY <1>4, <2>1, <3>1 DEF Iterates
  <2>3. f = [k \in 0..n |-> f[k]]
    OBVIOUS
  <2> HIDE DEF n
  <2> QED
    BY <2>2, <2>3, Zenon
<1> DEFINE C == CHOOSE c : Eq(c)
<1>6. Eq(C)
  <2> HIDE DEF Eq
  <2> QED
    BY <1>5, Zenon
<1>7. namei(path, u) = C[n]
  BY DEF namei, first
<1> HIDE DEF C
<1>8. C[0] = first /\ \A k \in 1..n : C[k] = Component(C[k - 1], path[k], u)
  BY <1>1, <1>6
<1>9. \A k \in 0..n : C[k] \in Lookups
  <2> DEFINE S == {k \in 0..n : C[k] \in Lookups}
  <2>1. 0 \in S
    BY <1>1, <1>8
  <2>2. ASSUME NEW k \in 0..(n - 1), k \in S PROVE k + 1 \in S
    <3>1. k + 1 \in 1..n /\ (k + 1) - 1 = k
      BY <1>1
    <3>2. C[k + 1] = Component(C[k], path[k + 1], u)
      BY <1>8, <3>1
    <3> QED
      BY <1>2, <2>2, <3>1, <3>2
  <2> HIDE DEF S
  <2>3. \A k \in 0..n : k \in S
    BY <1>1, <2>1, <2>2, UpTo
  <2> QED
    BY <2>3 DEF S
<1>10. C \in [0..n -> Lookups]
  BY <1>6, <1>9
<1> QED
  BY <1>7, <1>8, <1>10 DEF first

\* namei succeeds exactly when every component before the last is a directory
\* that the caller may read and search, and then finds the inode of the path,
\* or none, the directory before it, and the entry.
LEMMA NameiExact ==
  ASSUME DirInv, NEW path \in Paths, NEW u
  PROVE  /\ namei(path, u) \in Lookups
         /\ namei(path, u).ret = SUCCESS <=>
              \A k \in 0..(Len(path) - 1) : Leads(path)[k] # 0 /\ Passable(Leads(path)[k], u)
         /\ namei(path, u).ret = SUCCESS =>
              /\ namei(path, u).target = Leads(path)[Len(path)]
              /\ namei(path, u).parent = Leads(path)[Len(path) - 1]
              /\ namei(path, u).target # 0 =>
                   Hit(namei(path, u).parent, path[Len(path)], namei(path, u).index)
<1> DEFINE n == Len(path)
           to == Leads(path)
           Free(k) == \A j \in 0..(k - 1) : to[j] # 0 /\ Passable(to[j], u)
<1>1. n \in Nat /\ n > 0 /\ \A k \in 1..n : path[k] \in Names
  BY PathTypes
<1>2. /\ to \in [0..n -> Inums \cup {0}] /\ to[0] = ROOT_INODE
      /\ \A k \in 1..n : to[k] = IF to[k - 1] = 0 THEN 0 ELSE want[to[k - 1]][path[k]]
  BY LeadsFollows
<1>3. PICK W \in [0..n -> Lookups] :
        /\ namei(path, u) = W[n]
        /\ W[0] = [ret |-> SUCCESS, parent |-> ROOT_INODE, target |-> ROOT_INODE, index |-> 0]
        /\ \A k \in 1..n : W[k] = Component(W[k - 1], path[k], u)
  BY NameiWalks
<1> DEFINE Fits(k) == /\ W[k].ret = SUCCESS <=> Free(k)
                      /\ W[k].ret = SUCCESS =>
                           /\ W[k].target = to[k]
                           /\ k # 0 => /\ W[k].parent = to[k - 1]
                                       /\ to[k] # 0 => Hit(to[k - 1], path[k], W[k].index)
           S == {k \in 0..n : Fits(k)}
<1> HIDE DEF n, to
<1>4. 0 \in S
  <2>1. Free(0)
    OBVIOUS
  <2> QED
    BY <1>1, <1>2, <1>3, <2>1
<1>5. ASSUME NEW k \in 0..(n - 1), k \in S PROVE k + 1 \in S
  <2>1. k + 1 \in 1..n /\ (k + 1) - 1 = k /\ k \in 0..n /\ k + 1 \in 0..n /\ k + 1 # 0
    BY <1>1
  <2>2. PICK s \in Lookups, x \in Names :
          /\ s = W[k] /\ x = path[k + 1] /\ W[k + 1] = Component(s, x, u)
    BY <1>1, <1>3, <2>1
  <2>3. /\ s.ret # SUCCESS => Component(s, x, u).ret # SUCCESS
        /\ s.ret = SUCCESS /\ ~ (s.target # 0 /\ Passable(s.target, u)) =>
              Component(s, x, u).ret # SUCCESS
        /\ s.ret = SUCCESS /\ s.target # 0 /\ Passable(s.target, u) =>
              /\ Component(s, x, u).ret = SUCCESS
              /\ Component(s, x, u).parent = s.target
              /\ Component(s, x, u).target = want[s.target][x]
              /\ want[s.target][x] # 0 => Hit(s.target, x, Component(s, x, u).index)
    BY ComponentFollows
  <2>4. Free(k + 1) <=> Free(k) /\ to[k] # 0 /\ Passable(to[k], u)
    <3>1. 0..((k + 1) - 1) = 0..(k - 1) \cup {k}
      BY <2>1
    <3> QED
      BY <3>1
  <2>5. Fits(k)
    BY <1>5
  <2>6. to[k + 1] = IF to[k] = 0 THEN 0 ELSE want[to[k]][x]
    BY <1>2, <2>1, <2>2
  <2>7. Fits(k + 1)
    <3> HIDE DEF Free
    <3>1. CASE ~ Free(k)
      BY <2>2, <2>3, <2>4, <2>5, <3>1
    <3>2. CASE Free(k) /\ ~ (to[k] # 0 /\ Passable(to[k], u))
      BY <2>2, <2>3, <2>4, <2>5, <3>2
    <3>3. CASE Free(k) /\ to[k] # 0 /\ Passable(to[k], u)
      <4>1. s.ret = SUCCESS /\ s.target = to[k] /\ Free(k + 1)
        BY <2>2, <2>4, <2>5, <3>3
      <4>2. /\ W[k + 1].ret = SUCCESS /\ W[k + 1].parent = to[k] /\ W[k + 1].target = to[k + 1]
            /\ to[k + 1] # 0 => Hit(to[k], x, W[k + 1].index)
        BY <2>2, <2>3, <2>6, <3>3, <4>1
      <4> QED
        BY <2>1, <2>2, <4>1, <4>2
    <3> QED
      BY <3>1, <3>2, <3>3
  <2> QED
    BY <2>1, <2>7
<1>6. \A k \in 0..n : k \in S
  <2> HIDE DEF S
  <2> QED
    BY <1>1, <1>4, <1>5, UpTo
<1>7. Fits(n) /\ n # 0 /\ W[n] \in Lookups
  BY <1>1, <1>6
<1> QED
  BY <1>3, <1>7 DEF n, to

-----------------------------------------------------------------------------
(* The invariant is inductive *)

\* What namei found, when it succeeds: a directory that the caller may read
\* and search, and the inode and the entry of the last name in it
Resolved(s, x, u) ==
  /\ s.parent \in Dirs /\ Passable(s.parent, u)
  /\ s.target = want[s.parent][x] /\ s.target \in Inums \cup {0}
  /\ s.target # 0 => Hit(s.parent, x, s.index)

\* namei resolves the last name of the path.
LEMMA NameiResolves ==
  ASSUME DirInv, NEW path \in Paths, NEW u, namei(path, u).ret = SUCCESS
  PROVE  path[Len(path)] \in Names /\ Resolved(namei(path, u), path[Len(path)], u)
<1>1. PICK n \in Nat : n = Len(path) /\ n > 0 /\ path[n] \in Names
  <2>1. Len(path) \in 1..Len(path)
    BY PathTypes
  <2> QED
    BY <2>1, PathTypes
<1>2. PICK to : to = Leads(path)
  OBVIOUS
<1>3. /\ to \in [0..n -> Inums \cup {0}]
      /\ \A k \in 1..n : to[k] = IF to[k - 1] = 0 THEN 0 ELSE want[to[k - 1]][path[k]]
  BY <1>1, <1>2, LeadsFollows
<1>4. PICK s \in Lookups : s = namei(path, u)
  BY NameiExact
<1>5. /\ \A k \in 0..(n - 1) : to[k] # 0 /\ Passable(to[k], u)
      /\ s.target = to[n] /\ s.parent = to[n - 1]
      /\ s.target # 0 => Hit(s.parent, path[n], s.index)
  BY <1>1, <1>2, <1>4, NameiExact
<1>6. n - 1 \in 0..(n - 1) /\ n \in 1..n /\ n \in 0..n
  BY <1>1
<1>7. to[n - 1] # 0 /\ Passable(to[n - 1], u)
  BY <1>5, <1>6
<1>8. s.target = want[s.parent][path[n]] /\ s.target \in Inums \cup {0}
  BY <1>3, <1>5, <1>6, <1>7
<1> QED
  BY <1>1, <1>4, <1>5, <1>7, <1>8 DEF Resolved, Passable

\* The kind of a new inode, and of a free one.
LEMMA Kinds ==
  ASSUME NEW k, NEW u, NEW m
  PROVE  NewNode(k, u, m).kind = k /\ FreeNode.kind = "free" /\ RootNode.kind = "dir"
BY DEF NewNode, FreeNode, RootNode

\* The initial state satisfies the invariant.
LEMMA DirInit ==
  Init => DirInv
<1> SUFFICES ASSUME Init PROVE DirInv
  OBVIOUS
<1>1. PICK u \in Users :
          /\ node = [i \in Inums |-> IF i = ROOT_INODE THEN RootNode ELSE FreeNode]
          /\ dir = [i \in Inums |-> IF i = ROOT_INODE THEN create_dir_base(i, i) ELSE EmptyDir]
          /\ opened = {} /\ pending = {}
          /\ caller = u
          /\ want = [i \in Inums |-> [n \in Names |-> 0]]
  BY DEF Init
<1>2. PICK r \in Inums : r = ROOT_INODE
  BY RootInum
<1>3. PICK w \in [Names -> Inums \cup {0}] : w = [n \in Names |-> 0] /\ \A x \in Names : w[x] = 0
  <2>1. [n \in Names |-> 0] \in [Names -> Inums \cup {0}]
    OBVIOUS
  <2>2. \A x \in Names : [n \in Names |-> 0][x] = 0
    OBVIOUS
  <2> QED
    BY <2>1, <2>2
<1>4. PICK e \in Content : e = create_dir_base(r, r) /\ Holds(e, w, 2) /\ Starts(e, r, r)
  BY <1>3, HoldsBase
<1>5. \A i \in Inums : /\ dir[i] = IF i = r THEN e ELSE EmptyDir
                       /\ want[i] = w
                       /\ node[i] = IF i = r THEN RootNode ELSE FreeNode
  BY <1>1, <1>2, <1>3, <1>4
<1>6. dir \in [Inums -> Content]
  <2>1. EmptyDir \in Content
    BY Nothing
  <2>2. \A i \in Inums : (IF i = ROOT_INODE THEN create_dir_base(i, i) ELSE EmptyDir) \in Content
    BY <1>2, <1>4, <2>1
  <2> QED
    BY <1>1, <2>2
<1>7. want \in [Inums -> [Names -> Inums \cup {0}]]
  BY <1>1
<1>8. node \in [Inums -> NodeType]
  BY <1>1 DEF NodeType
<1>9. Types
  BY <1>1, <1>6, <1>7, <1>8 DEF Types
<1>10. Dirs = {r}
  <2>1. RootNode.kind = "dir" /\ FreeNode.kind # "dir"
    BY Kinds
  <2> QED
    BY <1>5, <2>1 DEF Dirs
<1>11. Listings
  BY <1>4, <1>5, <1>10 DEF Listings
<1>12. Bare /\ Used /\ Unique
  BY <1>3, <1>5 DEF Bare, Used, Unique
<1>13. Named
  <2>1. \A i \in Inums \ {ROOT_INODE} : node[i].kind = "free"
    BY <1>2, <1>5, Kinds
  <2> QED
    BY <2>1 DEF Named
<1>14. Rooted
  <2>1. At(e, 1).inode_num = r
    BY <1>4, EntryFields DEF Starts
  <2> QED
    BY <1>2, <1>5, <1>10, <2>1 DEF Rooted
<1>15. Held
  BY <1>1 DEF Held
<1>16. Ranked
  <2>1. PICK rank \in [Inums -> Nat] : rank = [i \in Inums |-> 0]
    OBVIOUS
  <2>2. Below(rank)
    BY <1>3, <1>5 DEF Below
  <2> QED
    BY <2>2 DEF Ranked
<1> QED
  BY <1>9, <1>11, <1>12, <1>13, <1>14, <1>15, <1>16 DEF DirInv

\* create_file hands out a free inode.
LEMMA FreshInum ==
  ASSUME FreeInums # {}
  PROVE  Min(FreeInums) \in Inums /\ node[Min(FreeInums)].kind = "free"
<1>1. FreeInums \subseteq Nat
  BY RootInum DEF FreeInums
<1>2. \E x \in FreeInums : \A y \in FreeInums : x <= y
  BY <1>1, LeastMember
<1>3. Min(FreeInums) \in FreeInums
  BY <1>2 DEF Min
<1> QED
  BY <1>3 DEF FreeInums

\* What mkdir_fs and mknod_fs write into inode c
Filled(kind, content, p) == \A i \in Inums : content[i] = IF kind = "dir" THEN create_dir_base(i, p)
                                                           ELSE EmptyDir

\* mkdir_fs and mknod_fs.
LEMMA MakeKeeps ==
  ASSUME DirInv, NEW kind \in {"dir", "reg"}, NEW s \in Lookups, NEW x \in Names, NEW u \in Users,
         NEW mode \in Modes, NEW content, s.ret = SUCCESS => Resolved(s, x, u),
         Filled(kind, content, s.parent), Make(kind, s, x, u, mode, content)
  PROVE  DirInv'
<1>1. PICK p \in Dirs : p = s.parent /\ want[p][x] = 0 /\ p \in Inums
  BY DEF Make, Resolved, Dirs
<1>2. PICK c \in Inums : c = Min(FreeInums) /\ node[c].kind = "free"
  BY FreshInum DEF Make
<1>3. c # p /\ c \notin Dirs /\ c # ROOT_INODE /\ c \notin opened /\ c # 0 /\ c \notin pending
  <2>1. c \notin Dirs
    BY <1>2 DEF Dirs
  <2>2. ROOT_INODE \in Dirs
    BY DEF DirInv, Rooted
  <2>3. c \notin opened /\ pending \subseteq opened
    BY <1>2 DEF DirInv, Held, Types
  <2> QED
    BY <2>1, <2>2, <2>3, RootInum
<1>4. /\ node \in [Inums -> NodeType] /\ dir \in [Inums -> Content]
      /\ want \in [Inums -> [Names -> Inums \cup {0}]]
      /\ pending \subseteq opened /\ opened \subseteq Inums \ {ROOT_INODE}
  BY DEF DirInv, Types
<1>5. /\ node' = [node EXCEPT ![c] = NewNode(kind, u, mode)]
      /\ dir' = [dir EXCEPT ![c] = content[c], ![p] = add_dirent(@, Entry(x, c))]
      /\ want' = [want EXCEPT ![p][x] = c]
      /\ caller' = u /\ opened' = opened /\ pending' = pending
      /\ AddOffset(dir[p].size) + ENT <= MAX_SIZE
  BY <1>1, <1>2 DEF Make
<1>6. PICK d \in Content, w \in [Names -> Inums \cup {0}] : d = dir[p] /\ w = want[p] /\ w[x] = 0
  BY <1>1, <1>4
<1>7. PICK q \in Inums, n \in Nat : Holds(d, w, n) /\ Starts(d, p, q)
  BY <1>1, <1>6 DEF DirInv, Listings
<1>8. PICK e \in Content, v \in [Names -> Inums \cup {0}], m \in Nat :
        /\ e = add_dirent(d, Entry(x, c)) /\ v = [w EXCEPT ![x] = c]
        /\ Holds(e, v, m) /\ Starts(e, p, q)
  <2>1. AddOffset(d.size) + ENT <= MAX_SIZE
    BY <1>5, <1>6
  <2> QED
    BY <1>6, <1>7, <2>1, HoldsAdded
<1>9. \A y \in Names : want[c][y] = 0
  BY <1>3 DEF DirInv, Bare
<1>10. PICK h \in Content : /\ h = content[c]
                            /\ kind = "dir" => Holds(h, want[c], 2) /\ Starts(h, c, p)
  <2>1. CASE kind = "dir"
    <3>1. PICK z \in [Names -> Inums \cup {0}] : z = want[c] /\ \A y \in Names : z[y] = 0
      BY <1>4, <1>9
    <3>2. \E h \in Content : h = create_dir_base(c, p) /\ Holds(h, z, 2) /\ Starts(h, c, p)
      BY <1>1, <3>1, HoldsBase
    <3>3. content[c] = create_dir_base(c, p)
      BY <1>1, <2>1 DEF Filled
    <3> QED
      BY <3>1, <3>2, <3>3
  <2>2. CASE kind # "dir"
    <3>1. content[c] = EmptyDir
      BY <2>2 DEF Filled
    <3> QED
      BY <2>2, <3>1, Nothing
  <2> QED
    BY <2>1, <2>2
<1>11. /\ dir' \in [Inums -> Content]
       /\ \A i \in Inums : dir'[i] = IF i = c THEN h ELSE IF i = p THEN e ELSE dir[i]
  <2>1. dir' = [dir EXCEPT ![c] = h, ![p] = e]
    BY <1>1, <1>3, <1>4, <1>5, <1>6, <1>8, <1>10
  <2> QED
    BY <1>1, <1>3, <1>4, <2>1
<1>12. /\ want' \in [Inums -> [Names -> Inums \cup {0}]]
       /\ \A i \in Inums : want'[i] = IF i = p THEN v ELSE want[i]
  <2>1. want' = [want EXCEPT ![p] = v]
    BY <1>1, <1>4, <1>5, <1>6, <1>8
  <2> QED
    BY <1>1, <1>4, <2>1
<1>13. \A i \in Inums, y \in Names : want'[i][y] = IF i = p /\ y = x THEN c ELSE want[i][y]
  BY <1>6, <1>8, <1>12
<1>14. /\ node' \in [Inums -> NodeType]
       /\ \A i \in Inums : node'[i].kind = IF i = c THEN kind ELSE node[i].kind
  <2>1. PICK t \in NodeType : t = NewNode(kind, u, mode) /\ t.kind = kind
    BY Kinds DEF NodeType
  <2>2. node' = [node EXCEPT ![c] = t]
    BY <1>5, <2>1
  <2> QED
    BY <1>4, <2>1, <2>2
<1>15. Types'
  BY <1>4, <1>5, <1>11, <1>12, <1>14 DEF Types
<1>16. \A i \in Inums : i \in Dirs' <=> i \in Dirs \/ (i = c /\ kind = "dir")
  BY <1>2, <1>14 DEF Dirs
<1>17. \A i \in Dirs : i # c /\ At(dir'[i], 1).inode_num = At(dir[i], 1).inode_num
  <2>1. ASSUME NEW i \in Dirs PROVE i # c /\ At(dir'[i], 1).inode_num = At(dir[i], 1).inode_num
    <3>1. i \in Inums /\ i # c
      BY <1>3 DEF Dirs
    <3>2. CASE i = p
      BY <1>6, <1>7, <1>8, <1>11, <3>1, <3>2 DEF Starts
    <3>3. CASE i # p
      BY <1>11, <3>1, <3>3
    <3> QED
      BY <3>1, <3>2, <3>3
  <2> QED
    BY <2>1
<1>18. Listings'
  <2>1. ASSUME NEW i \in Inums, i \in Dirs'
        PROVE  /\ \E r \in Inums : Starts(dir'[i], i, r)
               /\ \E l \in Nat : Holds(dir'[i], want'[i], l)
    <3>1. CASE i = c
      <4>1. kind = "dir" /\ dir'[i] = h /\ want'[i] = want[c]
        BY <1>3, <1>11, <1>12, <1>16, <2>1, <3>1
      <4> QED
        BY <1>1, <1>10, <3>1, <4>1
    <3>2. CASE i = p
      <4>1. dir'[i] = e /\ want'[i] = v
        BY <1>3, <1>11, <1>12, <3>2
      <4> QED
        BY <1>8, <3>2, <4>1
    <3>3. CASE i # c /\ i # p
      <4>1. i \in Dirs /\ dir'[i] = dir[i] /\ want'[i] = want[i]
        BY <1>11, <1>12, <1>16, <2>1, <3>3
      <4> QED
        BY <4>1 DEF DirInv, Listings
    <3> QED
      BY <3>1, <3>2, <3>3
  <2>2. Dirs' \subseteq Inums
    BY DEF Dirs
  <2> QED
    BY <2>1, <2>2 DEF Listings
<1>19. Bare'
  <2>1. ASSUME NEW i \in Inums, i \notin Dirs', NEW y \in Names PROVE want'[i][y] = 0
    <3>1. i \notin Dirs /\ i # p
      BY <1>1, <1>16, <2>1
    <3> QED
      BY <1>13, <3>1 DEF DirInv, Bare
  <2> QED
    BY <2>1 DEF Bare
<1>20. ASSUME NEW i \in Inums, NEW y \in Names, want[i][y] # 0
       PROVE  /\ want[i][y] \in Inums /\ want[i][y] # c
              /\ want[i][y] # ROOT_INODE /\ want[i][y] \notin pending
              /\ node[want[i][y]].kind # "free"
              /\ want[i][y] \in Dirs => At(dir[want[i][y]], 1).inode_num = i
  BY <1>2, <1>4, <1>20 DEF DirInv, Used
<1>21. Used'
  <2>1. ASSUME NEW i \in Inums, NEW y \in Names, want'[i][y] # 0
        PROVE  /\ want'[i][y] # ROOT_INODE /\ want'[i][y] \notin pending
               /\ node'[want'[i][y]].kind # "free"
               /\ want'[i][y] \in Dirs' => At(dir'[want'[i][y]], 1).inode_num = i
    <3>1. CASE i = p /\ y = x
      <4>1. want'[i][y] = c
        BY <1>13, <3>1
      <4>2. node'[c].kind = kind
        BY <1>14
      <4>3. c \in Dirs' => At(dir'[c], 1).inode_num = p
        BY <1>3, <1>10, <1>11, <1>16, EntryFields DEF Starts
      <4> QED
        BY <1>3, <3>1, <4>1, <4>2, <4>3
    <3>2. CASE ~ (i = p /\ y = x)
      <4>1. want'[i][y] = want[i][y] /\ want[i][y] # 0
        BY <1>13, <2>1, <3>2
      <4>2. PICK z \in Inums : z = want[i][y] /\ z # c
        BY <1>20, <4>1
      <4>3. z # ROOT_INODE /\ z \notin pending /\ node[z].kind # "free"
        BY <1>20, <4>1, <4>2
      <4>4. z \in Dirs => At(dir[z], 1).inode_num = i
        BY <1>20, <4>1, <4>2
      <4>5. node'[z].kind # "free" /\ (z \in Dirs' <=> z \in Dirs)
        BY <1>14, <1>16, <4>2, <4>3
      <4> QED
        BY <1>17, <4>1, <4>2, <4>3, <4>4, <4>5
    <3> QED
      BY <3>1, <3>2
  <2> QED
    BY <1>5, <2>1 DEF Used
<1>22. Unique'
  <2>1. ASSUME NEW i \in Inums, NEW j \in Inums, NEW y \in Names, NEW z \in Names,
               want'[i][y] # 0, want'[i][y] = want'[j][z]
        PROVE  i = j /\ y = z
    <3>1. CASE i = p /\ y = x
      BY <1>3, <1>13, <1>20, <2>1, <3>1
    <3>2. CASE j = p /\ z = x
      BY <1>3, <1>13, <1>20, <2>1, <3>2
    <3>3. CASE ~ (i = p /\ y = x) /\ ~ (j = p /\ z = x)
      <4>1. want[i][y] # 0 /\ want[i][y] = want[j][z]
        BY <1>13, <2>1, <3>3
      <4> QED
        BY <4>1 DEF DirInv, Unique
    <3> QED
      BY <3>1, <3>2, <3>3
  <2> QED
    BY <2>1 DEF Unique
<1>23. Named'
  <2>1. ASSUME NEW i \in Inums \ {ROOT_INODE}, node'[i].kind # "free", i \notin pending
        PROVE  \E j \in Inums, y \in Names : want'[j][y] = i
    <3>1. CASE i = c
      <4>1. want'[p][x] = i
        BY <1>1, <1>13, <3>1
      <4> QED
        BY <1>1, <4>1
    <3>2. CASE i # c
      <4>1. node[i].kind # "free"
        BY <1>14, <2>1, <3>2
      <4>2. PICK j \in Inums, y \in Names : want[j][y] = i
        BY <2>1, <4>1 DEF DirInv, Named
      <4>3. ~ (j = p /\ y = x)
        BY <1>1, <4>2, RootInum
      <4>4. want'[j][y] = i
        BY <1>13, <4>2, <4>3
      <4> QED
        BY <4>4
    <3> QED
      BY <3>1, <3>2
  <2> QED
    BY <1>5, <2>1 DEF Named
<1>24. Rooted'
  <2>1. ROOT_INODE \in Dirs /\ At(dir[ROOT_INODE], 1).inode_num = ROOT_INODE
    BY DEF DirInv, Rooted
  <2> QED
    BY <1>16, <1>17, <2>1, RootInum DEF Rooted
<1>25. Held'
  <2>1. \A i \in opened : i \in Inums /\ i # c
    BY <1>3, <1>4
  <2> QED
    BY <1>5, <1>14, <2>1 DEF DirInv, Held
<1>26. Ranked'
  <2>1. PICK rank \in [Inums -> Nat] : Below(rank)
    BY DEF DirInv, Ranked
  <2>2. rank[p] + 1 \in Nat
    BY <1>1
  <2>3. PICK over \in [Inums -> Nat] :
          \A i \in Inums : over[i] = IF i = c THEN rank[p] + 1 ELSE rank[i]
    <3>1. [i \in Inums |-> IF i = c THEN rank[p] + 1 ELSE rank[i]] \in [Inums -> Nat]
      BY <2>2
    <3> QED
      BY <3>1
  <2>4. ASSUME NEW i \in Inums, NEW y \in Names, want'[i][y] # 0
        PROVE  over[i] < over[want'[i][y]]
    <3>1. CASE i = p /\ y = x
      <4>1. want'[i][y] = c
        BY <1>13, <3>1
      <4> QED
        BY <1>1, <1>3, <2>3, <3>1, <4>1
    <3>2. CASE ~ (i = p /\ y = x)
      <4>1. want'[i][y] = want[i][y] /\ want[i][y] # 0
        BY <1>13, <2>4, <3>2
      <4>2. PICK z \in Inums : z = want[i][y] /\ z # c
        BY <1>20, <4>1
      <4>3. i # c
        BY <1>9, <4>1
      <4>4. rank[i] < rank[z]
        BY <2>1, <4>1, <4>2 DEF Below
      <4> QED
        BY <2>3, <4>1, <4>2, <4>3, <4>4
    <3> QED
      BY <3>1, <3>2
  <2>5. Below(over)'
    BY <2>4 DEF Below
  <2> QED
    BY <2>5 DEF Ranked
<1> QED
  BY <1>15, <1>18, <1>19, <1>21, <1>22, <1>23, <1>24, <1>25, <1>26 DEF DirInv

\* A name goes, and its inode t with it or, when a descriptor holds it, later.
\* The content of t may be given up in the same step.
LEMMA RemoveKeeps ==
  ASSUME DirInv, NEW s \in Lookups, NEW x \in Names, NEW u \in Users, Resolved(s, x, u),
         NEW t \in Inums, t = s.target, t # s.parent, \A y \in Names : want[t][y] = 0,
         NEW content \in [Inums -> Content], \A i \in Inums : i # t => content[i] = dir[i],
         RemoveName(s, u, content),
         \/ /\ t \in opened /\ content = dir
            /\ pending' = pending \cup {t} /\ node' = node
         \/ t \notin opened /\ del(t)
  PROVE  DirInv'
<1>1. PICK p \in Dirs, j \in Nat : /\ p = s.parent /\ p \in Inums /\ j = s.index
                                   /\ want[p][x] = t /\ Hit(p, x, j)
  <2>1. t # 0
    BY RootInum
  <2> QED
    BY <2>1 DEF Resolved, Lookups, Dirs
<1>2. t # ROOT_INODE /\ t \notin pending /\ node[t].kind # "free" /\ t # 0 /\ t # p
  BY <1>1, RootInum DEF DirInv, Used
<1>3. /\ node \in [Inums -> NodeType] /\ dir \in [Inums -> Content]
      /\ want \in [Inums -> [Names -> Inums \cup {0}]]
      /\ pending \subseteq opened /\ opened \subseteq Inums \ {ROOT_INODE}
  BY DEF DirInv, Types
<1>4. /\ dir' = [content EXCEPT ![p] = remove_dirent(@, j)]
      /\ want' = [want EXCEPT ![p] = [n \in Names |-> IF @[n] = t THEN 0 ELSE @[n]]]
      /\ caller' = u /\ opened' = opened
  BY <1>1 DEF RemoveName
<1>5. PICK d \in Content, w \in [Names -> Inums \cup {0}] : d = dir[p] /\ w = want[p]
  BY <1>1, <1>3
<1>6. PICK n \in Nat : j \in 2..(n - 1) /\ Holds(d, w, n) /\ At(d, j).name = x
  BY <1>1, <1>5 DEF Hit
<1>7. PICK q \in Inums : Starts(d, p, q)
  BY <1>1, <1>5 DEF DirInv, Listings
<1>8. PICK e \in Content, v \in [Names -> Inums \cup {0}], m \in Nat :
        /\ e = remove_dirent(d, j) /\ v = [y \in Names |-> IF w[y] = t THEN 0 ELSE w[y]]
        /\ Holds(e, v, m) /\ Starts(e, p, q)
  <2>1. \A y, z \in Names : w[y] # 0 /\ w[y] = w[z] => y = z
    BY <1>1, <1>5 DEF DirInv, Unique
  <2>2. t = w[At(d, j).name]
    BY <1>1, <1>5, <1>6
  <2>3. j \in 2..(n - 1)
    BY <1>6
  <2> QED
    BY <1>6, <1>7, <2>1, <2>2, <2>3, HoldsRemoved
<1>9. \A y \in Names : w[y] = t <=> y = x
  BY <1>1, <1>2, <1>5 DEF DirInv, Unique
<1>10. /\ dir' \in [Inums -> Content]
       /\ \A i \in Inums : dir'[i] = IF i = p THEN e ELSE content[i]
  <2>1. content[p] = d
    BY <1>1, <1>2, <1>5
  <2>2. dir' = [content EXCEPT ![p] = e]
    BY <1>1, <1>4, <1>8, <2>1
  <2> QED
    BY <1>1, <2>2
<1>11. /\ want' \in [Inums -> [Names -> Inums \cup {0}]]
       /\ \A i \in Inums : want'[i] = IF i = p THEN v ELSE want[i]
  <2>1. want' = [want EXCEPT ![p] = v]
    BY <1>1, <1>3, <1>4, <1>5, <1>8
  <2> QED
    BY <1>1, <1>3, <2>1
<1>12. \A i \in Inums, y \in Names : want'[i][y] = IF i = p /\ y = x THEN 0 ELSE want[i][y]
  BY <1>5, <1>8, <1>9, <1>11
<1>13. /\ node' \in [Inums -> NodeType]
       /\ \A i \in Inums : i # t => node'[i] = node[i]
       /\ t \in opened => node'[t] = node[t]
       /\ t \notin opened => node'[t].kind = "free"
  <2>1. CASE t \in opened
    BY <1>3, <2>1 DEF del
  <2>2. CASE t \notin opened
    <3>1. node' = [node EXCEPT ![t] = FreeNode] /\ FreeNode \in NodeType /\ FreeNode.kind = "free"
      BY <2>2, Kinds DEF del, NodeType
    <3> QED
      BY <1>3, <2>2, <3>1
  <2> QED
    BY <2>1, <2>2
<1>14. pending' = IF t \in opened THEN pending \cup {t} ELSE pending
  BY <1>2 DEF del
<1>15. Types'
  <2>1. pending' \subseteq opened' /\ opened' \subseteq Inums \ {ROOT_INODE}
    BY <1>3, <1>4, <1>14
  <2> QED
    BY <1>4, <1>10, <1>11, <1>13, <2>1 DEF Types
<1>16. ASSUME NEW i \in Inums PROVE i \in Dirs' <=> i \in Dirs /\ i # t
  <2>1. CASE i # t
    BY <1>13, <2>1 DEF Dirs
  <2>2. CASE i = t /\ t \in opened
    <3>1. node[t].kind = "reg"
      BY <2>2 DEF DirInv, Held
    <3> QED
      BY <1>13, <2>2, <3>1 DEF Dirs
  <2>3. CASE i = t /\ t \notin opened
    BY <1>13, <2>3 DEF Dirs
  <2> QED
    BY <2>1, <2>2, <2>3
<1>17. ASSUME NEW i \in Dirs, i # t
       PROVE  i \in Inums /\ At(dir'[i], 1).inode_num = At(dir[i], 1).inode_num
  <2>1. i \in Inums
    BY DEF Dirs
  <2>2. CASE i = p
    BY <1>5, <1>7, <1>8, <1>10, <2>1, <2>2 DEF Starts
  <2>3. CASE i # p
    BY <1>10, <1>17, <2>1, <2>3
  <2> QED
    BY <2>1, <2>2, <2>3
<1>18. Listings'
  <2>1. ASSUME NEW i \in Inums, i \in Dirs'
        PROVE  /\ \E r \in Inums : Starts(dir'[i], i, r)
               /\ \E l \in Nat : Holds(dir'[i], want'[i], l)
    <3>1. i \in Dirs /\ i # t
      BY <1>16, <2>1
    <3>2. CASE i = p
      <4>1. dir'[i] = e /\ want'[i] = v
        BY <1>10, <1>11, <3>2
      <4> QED
        BY <1>8, <3>2, <4>1
    <3>3. CASE i # p
      <4>1. dir'[i] = dir[i] /\ want'[i] = want[i]
        BY <1>10, <1>11, <3>1, <3>3
      <4> QED
        BY <3>1, <4>1 DEF DirInv, Listings
    <3> QED
      BY <3>2, <3>3
  <2>2. Dirs' \subseteq Inums
    BY DEF Dirs
  <2> QED
    BY <2>1, <2>2 DEF Listings
<1>19. Bare'
  <2>1. ASSUME NEW i \in Inums, i \notin Dirs', NEW y \in Names PROVE want'[i][y] = 0
    <3>1. i \notin Dirs \/ i = t
      BY <1>16, <2>1
    <3>2. want[i][y] = 0
      BY <3>1 DEF DirInv, Bare
    <3> QED
      BY <1>12, <3>2
  <2> QED
    BY <2>1 DEF Bare
<1>20. Used'
  <2>1. ASSUME NEW i \in Inums, NEW y \in Names, want'[i][y] # 0
        PROVE  /\ want'[i][y] # ROOT_INODE /\ want'[i][y] \notin pending'
               /\ node'[want'[i][y]].kind # "free"
               /\ want'[i][y] \in Dirs' => At(dir'[want'[i][y]], 1).inode_num = i
    <3>1. want'[i][y] = want[i][y] /\ ~ (i = p /\ y = x) /\ want[i][y] # 0
      BY <1>12, <2>1
    <3>2. PICK z \in Inums : z = want[i][y]
      BY <1>3, <3>1
    <3>3. z # t
      BY <1>1, <1>2, <3>1, <3>2 DEF DirInv, Unique
    <3>4. /\ z # ROOT_INODE /\ z \notin pending /\ node[z].kind # "free"
          /\ z \in Dirs => At(dir[z], 1).inode_num = i
      BY <3>1, <3>2 DEF DirInv, Used
    <3>5. z \notin pending' /\ node'[z].kind # "free"
      BY <1>13, <1>14, <3>3, <3>4
    <3> QED
      BY <1>16, <1>17, <3>1, <3>2, <3>3, <3>4, <3>5
  <2> QED
    BY <2>1 DEF Used
<1>21. Unique'
  <2>1. ASSUME NEW i \in Inums, NEW k \in Inums, NEW y \in Names, NEW z \in Names,
               want'[i][y] # 0, want'[i][y] = want'[k][z]
        PROVE  i = k /\ y = z
    <3>1. want[i][y] # 0 /\ want[i][y] = want[k][z]
      BY <1>12, <2>1
    <3> QED
      BY <3>1 DEF DirInv, Unique
  <2> QED
    BY <2>1 DEF Unique
<1>22. Named'
  <2>1. ASSUME NEW i \in Inums \ {ROOT_INODE}, node'[i].kind # "free", i \notin pending'
        PROVE  \E k \in Inums, y \in Names : want'[k][y] = i
    <3>1. i # t
      BY <1>13, <1>14, <2>1
    <3>2. node[i].kind # "free" /\ i \notin pending
      BY <1>13, <1>14, <2>1, <3>1
    <3>3. PICK k \in Inums, y \in Names : want[k][y] = i
      BY <3>2 DEF DirInv, Named
    <3>4. want'[k][y] = i
      BY <1>1, <1>12, <3>1, <3>3
    <3> QED
      BY <3>4
  <2> QED
    BY <2>1 DEF Named
<1>23. Rooted'
  <2>1. ROOT_INODE \in Dirs /\ At(dir[ROOT_INODE], 1).inode_num = ROOT_INODE
    BY DEF DirInv, Rooted
  <2> QED
    BY <1>2, <1>16, <1>17, <2>1, RootInum DEF Rooted
<1>24. Held'
  <2>1. ASSUME NEW i \in opened PROVE node'[i].kind = "reg"
    <3>1. i \in Inums /\ node[i].kind = "reg"
      BY <1>3 DEF DirInv, Held
    <3> QED
      BY <1>13, <3>1
  <2> QED
    BY <1>4, <2>1 DEF Held
<1>25. Ranked'
  <2>1. PICK rank \in [Inums -> Nat] : Below(rank)
    BY DEF DirInv, Ranked
  <2>2. \A i \in Inums, y \in Names : want'[i][y] # 0 => want'[i][y] = want[i][y]
    BY <1>12
  <2>3. Below(rank)'
    BY <2>1, <2>2 DEF Below
  <2> QED
    BY <2>3 DEF Ranked
<1> QED
  BY <1>15, <1>18, <1>19, <1>20, <1>21, <1>22, <1>23, <1>24, <1>25 DEF DirInv

\* fs_unlink: only files go this way, and they hold no names.
LEMMA UnlinkKeeps ==
  ASSUME DirInv, NEW s \in Lookups, NEW x \in Names, NEW u \in Users,
         s.ret = SUCCESS => Resolved(s, x, u), Unlink(s, u)
  PROVE  DirInv'
<1>1. Resolved(s, x, u)
  BY DEF Unlink
<1>2. PICK t \in Inums : t = s.target /\ node[t].kind # "dir"
  BY DEF Unlink, Lookups
<1>3. t # s.parent /\ \A y \in Names : want[t][y] = 0
  BY <1>1, <1>2 DEF Resolved, DirInv, Bare, Dirs
<1>4. dir \in [Inums -> Content]
  BY DEF DirInv, Types
<1>5. RemoveName(s, u, dir)
  BY DEF Unlink
<1>6. \/ t \in opened /\ pending' = pending \cup {t} /\ node' = node
      \/ t \notin opened /\ del(t)
  BY <1>2 DEF Unlink
<1> QED
  BY <1>1, <1>2, <1>3, <1>4, <1>5, <1>6, RemoveKeeps

\* fs_rmdir: a directory that goes holds no names.
LEMMA RmdirKeeps ==
  ASSUME DirInv, NEW s \in Lookups, NEW x \in Names, NEW u \in Users,
         s.ret = SUCCESS => Resolved(s, x, u), Rmdir(s, u)
  PROVE  DirInv'
<1>1. Resolved(s, x, u)
  BY DEF Rmdir
<1>2. PICK t \in Inums : t = s.target /\ t \in Dirs /\ dir[t].size <= 2 * ENT
  BY DEF Rmdir, MayRmdir, Lookups, Dirs
<1>3. PICK n \in Nat : Holds(dir[t], want[t], n)
  BY <1>2 DEF DirInv, Listings
<1>4. n \in Nat \ {0} /\ dir[t].size = Size(n) /\ n > 1
  BY <1>3 DEF Holds
<1>5. n = 2
  <2>1. n > 2 => Size(n) > ENT + ENT
    BY <1>4, Growth
  <2>2. Size(n) \in Nat
    BY <1>4, Growth
  <2>3. Size(n) <= 2 * ENT
    BY <1>2, <1>4
  <2> QED
    BY ONLY <1>4, <2>1, <2>2, <2>3, Units
<1>6. \A y \in Names : want[t][y] = 0
  <2>1. 2..(n - 1) = {}
    BY <1>5
  <2> QED
    BY <1>3, <2>1 DEF Holds
<1>7. t # s.parent
  BY <1>1, <1>2, <1>6, RootInum DEF Resolved
<1>8. PICK content \in [Inums -> Content] :
        content = [dir EXCEPT ![t] = EmptyDir] /\ \A i \in Inums : i # t => content[i] = dir[i]
  <2>1. dir \in [Inums -> Content]
    BY DEF DirInv, Types
  <2> QED
    BY <2>1, Nothing
<1>9. RemoveName(s, u, content)
  BY <1>2, <1>8 DEF Rmdir
<1>10. t \notin opened /\ del(t)
  <2>1. t \notin opened
    BY <1>2 DEF DirInv, Held, Dirs
  <2> QED
    BY <1>2, <2>1 DEF Rmdir
<1> QED
  BY <1>1, <1>2, <1>6, <1>7, <1>8, <1>9, <1>10, RemoveKeeps

\* fs_open.
LEMMA OpenKeeps ==
  ASSUME DirInv, NEW s \in Lookups, NEW u \in Users, NEW access, Open(s, u, access)
  PROVE  DirInv'
<1>1. PICK t \in Inums : t = s.target /\ node[t].kind = "reg"
  BY DEF Open, Lookups
<1>2. t # ROOT_INODE
  BY <1>1 DEF DirInv, Rooted, Dirs
<1>3. /\ opened' = opened \cup {t} /\ caller' = u
      /\ node' = node /\ dir' = dir /\ pending' = pending /\ want' = want
  BY <1>1 DEF Open
<1>4. Types'
  BY <1>2, <1>3 DEF DirInv, Types
<1>5. Dirs' = Dirs
  BY <1>3 DEF Dirs
<1>6. Listings' /\ Bare' /\ Used' /\ Unique' /\ Named' /\ Rooted' /\ Ranked'
  BY <1>3, <1>5 DEF DirInv, Listings, Bare, Used, Unique, Named, Rooted, Ranked, Below
<1>7. Held'
  BY <1>1, <1>3 DEF DirInv, Held
<1> QED
  BY <1>4, <1>6, <1>7 DEF DirInv

\* fs_release: the last descriptor of an unlinked file takes the file along.
LEMMA ReleaseKeeps ==
  ASSUME DirInv, NEW t \in Inums, fs_release(t)
  PROVE  DirInv'
<1>1. /\ t \in opened /\ opened' = opened \ {t}
      /\ dir' = dir /\ caller' = caller /\ want' = want
  BY DEF fs_release
<1>2. /\ node \in [Inums -> NodeType] /\ dir \in [Inums -> Content]
      /\ want \in [Inums -> [Names -> Inums \cup {0}]]
      /\ pending \subseteq opened /\ opened \subseteq Inums \ {ROOT_INODE}
  BY DEF DirInv, Types
<1>3. node[t].kind = "reg"
  BY <1>1 DEF DirInv, Held
<1>4. /\ node' \in [Inums -> NodeType]
      /\ \A i \in Inums : i # t => node'[i] = node[i]
      /\ IF t \in pending THEN node'[t].kind = "free" ELSE node'[t] = node[t]
      /\ pending' = pending \ {t}
  <2>1. CASE t \in pending
    <3>1. /\ node' = [node EXCEPT ![t] = FreeNode] /\ FreeNode \in NodeType
          /\ FreeNode.kind = "free" /\ pending' = pending \ {t}
      BY <2>1, Kinds DEF fs_release, del, NodeType
    <3> QED
      BY <1>2, <2>1, <3>1
  <2>2. CASE t \notin pending
    BY <1>2, <2>2 DEF fs_release
  <2> QED
    BY <2>1, <2>2
<1>5. Types'
  BY <1>1, <1>2, <1>4 DEF DirInv, Types
<1>6. Dirs' = Dirs
  <2>1. ASSUME NEW i \in Inums PROVE node'[i].kind = "dir" <=> node[i].kind = "dir"
    BY <1>3, <1>4
  <2> QED
    BY <2>1 DEF Dirs
<1>7. Listings' /\ Bare' /\ Unique' /\ Rooted' /\ Ranked'
  BY <1>1, <1>6 DEF DirInv, Listings, Bare, Unique, Rooted, Ranked, Below
<1>8. Used'
  <2>1. ASSUME NEW i \in Inums, NEW y \in Names, want[i][y] # 0
        PROVE  /\ want[i][y] # ROOT_INODE /\ want[i][y] \notin pending'
               /\ node'[want[i][y]].kind # "free"
               /\ want[i][y] \in Dirs' => At(dir'[want[i][y]], 1).inode_num = i
    <3>1. PICK z \in Inums : z = want[i][y]
      BY <1>2, <2>1
    <3>2. /\ z # ROOT_INODE /\ z \notin pending /\ node[z].kind # "free"
          /\ z \in Dirs => At(dir[z], 1).inode_num = i
      BY <2>1, <3>1 DEF DirInv, Used
    <3>3. node'[z].kind # "free"
      BY <1>4, <3>2
    <3> QED
      BY <1>1, <1>4, <1>6, <3>1, <3>2, <3>3
  <2> QED
    BY <1>1, <2>1 DEF Used
<1>9. Named'
  <2>1. ASSUME NEW i \in Inums \ {ROOT_INODE}, node'[i].kind # "free", i \notin pending'
        PROVE  \E k \in Inums, y \in Names : want[k][y] = i
    <3>1. node[i].kind # "free" /\ i \notin pending
      BY <1>3, <1>4, <2>1
    <3> QED
      BY <3>1 DEF DirInv, Named
  <2> QED
    BY <1>1, <2>1 DEF Named
<1>10. Held'
  <2>1. ASSUME NEW i \in opened \ {t} PROVE node'[i].kind = "reg"
    <3>1. i \in Inums /\ node[i].kind = "reg"
      BY <1>2 DEF DirInv, Held
    <3> QED
      BY <1>4, <3>1
  <2> QED
    BY <1>1, <2>1 DEF Held
<1> QED
  BY <1>5, <1>7, <1>8, <1>9, <1>10 DEF DirInv

\* Every step preserves the invariant.
LEMMA DirNext ==
  DirInv /\ [Next]_vars => DirInv'
<1> SUFFICES ASSUME DirInv, [Next]_vars PROVE DirInv'
  OBVIOUS
<1>1. ASSUME NEW path \in Paths, NEW u
      PROVE  \E s \in Lookups, x \in Names :
               /\ s = namei(path, u) /\ x = path[Len(path)]
               /\ s.ret = SUCCESS => Resolved(s, x, u)
  <2>1. namei(path, u) \in Lookups
    BY NameiExact
  <2>2. Len(path) \in 1..Len(path)
    BY PathTypes
  <2>3. path[Len(path)] \in Names
    BY <2>2, PathTypes
  <2> QED
    BY <2>1, <2>3, NameiResolves
<1>2. ASSUME NEW path \in Paths, NEW u \in Users, NEW mode \in Modes, mkdir_fs(path, u, mode)
      PROVE  DirInv'
  <2>1. PICK s \in Lookups, x \in Names :
               /\ s = namei(path, u) /\ x = path[Len(path)]
               /\ s.ret = SUCCESS => Resolved(s, x, u)
    BY <1>1
  <2>2. PICK content : /\ content = [i \in Inums |-> create_dir_base(i, s.parent)]
                       /\ Make("dir", s, x, u, mode, content)
    BY <1>2, <2>1 DEF mkdir_fs
  <2>3. Filled("dir", content, s.parent)
    BY <2>2 DEF Filled
  <2> QED
    BY <2>1, <2>2, <2>3, MakeKeeps
<1>3. ASSUME NEW path \in Paths, NEW u \in Users, NEW mode \in Modes, mknod_fs(path, u, mode)
      PROVE  DirInv'
  <2>1. PICK s \in Lookups, x \in Names :
               /\ s = namei(path, u) /\ x = path[Len(path)]
               /\ s.ret = SUCCESS => Resolved(s, x, u)
    BY <1>1
  <2>2. PICK content : /\ content = [i \in Inums |-> EmptyDir]
                       /\ Make("reg", s, x, u, mode, content)
    BY <1>3, <2>1 DEF mknod_fs
  <2>3. Filled("reg", content, s.parent)
    BY <2>2 DEF Filled
  <2> QED
    BY <2>1, <2>2, <2>3, MakeKeeps
<1>4. ASSUME NEW path \in Paths, NEW u \in Users, fs_unlink(path, u) PROVE DirInv'
  BY <1>1, <1>4, UnlinkKeeps DEF fs_unlink
<1>5. ASSUME NEW path \in Paths, NEW u \in Users, fs_rmdir(path, u) PROVE DirInv'
  BY <1>1, <1>5, RmdirKeeps DEF fs_rmdir
<1>6. ASSUME NEW path \in Paths, NEW u \in Users, NEW access, fs_open(path, u, access)
      PROVE  DirInv'
  BY <1>1, <1>6, OpenKeeps DEF fs_open
<1>7. ASSUME NEW i \in Inums, fs_release(i) PROVE DirInv'
  BY <1>7, ReleaseKeeps
<1>8. CASE UNCHANGED vars
  <2>1. /\ node' = node /\ dir' = dir /\ opened' = opened /\ pending' = pending
        /\ caller' = caller /\ want' = want
    BY <1>8 DEF vars
  <2>2. Dirs' = Dirs
    BY <2>1 DEF Dirs
  <2> QED
    BY <2>1, <2>2
       DEF DirInv, Types, Listings, Bare, Used, Unique, Named, Rooted, Ranked, Below, Held
<1> QED
  BY <1>2, <1>3, <1>4, <1>5, <1>6, <1>7, <1>8 DEF Next

\* Every reachable state satisfies the invariant: directories are well formed
\* and list the names that were made and not removed since, every name leads
\* to an inode in use and every inode in use has one name.
THEOREM DirInvariance ==
  Spec => []DirInv
<1>1. Init => DirInv
  BY DirInit
<1>2. DirInv /\ [Next]_vars => DirInv'
  BY DirNext
<1> QED
  BY <1>1, <1>2, PTL DEF Spec

-----------------------------------------------------------------------------
(* The properties *)

\* The inodes and the entries keep their types.
THEOREM DirTypesKept ==
  Spec => []TypeOK
<1>1. DirInv => TypeOK
  <2> SUFFICES ASSUME DirInv PROVE TypeOK
    OBVIOUS
  <2>1. Types
    BY DEF DirInv
  <2>2. ASSUME NEW i \in Inums, NEW o \in 0..MAX_SIZE
        PROVE  dir[i].at[o] = NoEntry \/ dir[i].at[o].inode_num \in Inums
    <3>1. dir[i].at[o] \in EntryType
      BY <2>1 DEF Types, Content
    <3> QED
      BY <3>1, EntryFields DEF EntryType
  <2>3. ASSUME NEW i \in Inums PROVE node[i] \in NodeType /\ dir[i].size \in 0..MAX_SIZE
    BY <2>1 DEF Types, Content
  <2> QED
    BY <2>1, <2>2, <2>3 DEF TypeOK, Types
<1> QED
  BY <1>1, DirInvariance, PTL

\* An entry behind the first two that leads to an inode is the entry of its
\* name.
LEMMA LinkNames ==
  ASSUME DirInv, NEW i, NEW l \in Links(i)
  PROVE  /\ l[1] \in Dirs /\ l[1] \in Inums /\ l[2] \in Nat /\ l = <<l[1], l[2]>>
         /\ \E x \in Names : want[l[1]][x] = i /\ want[l[1]][x] # 0 /\ Hit(l[1], x, l[2])
<1>1. PICK j \in Dirs, k \in 2..MAX_SIZE :
        l = <<j, k>> /\ k \in Indices(j) /\ EntryAt(j, k).inode_num = i
  BY DEF Links
<1>2. PICK n \in Nat : Holds(dir[j], want[j], n)
  BY DEF DirInv, Listings
<1>3. n \in Nat \ {0} /\ dir[j].size = Size(n)
  BY <1>2 DEF Holds
<1>4. Indices(j) = 0..(n - 1)
  BY <1>3, Listed
<1>5. k \in 2..(n - 1) /\ k \in Nat
  BY <1>1, <1>4
<1>6. PICK x \in Names : x = At(dir[j], k).name /\ want[j][x] # 0 /\ At(dir[j], k).inode_num = want[j][x]
  BY <1>2, <1>5, HoldsEach
<1>7. Hit(j, x, k)
  BY <1>2, <1>5, <1>6 DEF Hit
<1>8. want[j][x] = i
  BY <1>1, <1>6 DEF EntryAt, At
<1> QED
  BY <1>1, <1>5, <1>6, <1>7, <1>8 DEF Dirs

\* An entry of a name in a directory is one of the entries that lead to its
\* inode.
LEMMA NameLinks ==
  ASSUME DirInv, NEW j \in Dirs, NEW x \in Names, want[j][x] # 0
  PROVE  \E k \in Nat : <<j, k>> \in Links(want[j][x])
<1>1. PICK n \in Nat : Holds(dir[j], want[j], n)
  BY DEF DirInv, Listings
<1>2. PICK k \in 2..(n - 1) : At(dir[j], k).name = x
  BY <1>1 DEF Holds
<1>3. At(dir[j], k).inode_num = want[j][x]
  BY <1>1, <1>2, HoldsEach
<1>4. n \in Nat \ {0} /\ dir[j].size = Size(n)
  BY <1>1 DEF Holds
<1>5. Indices(j) = 0..(n - 1)
  BY <1>4, Listed
<1>6. n <= MAX_SIZE
  <2>1. n <= Size(n) /\ Size(n) \in Nat
    BY <1>4, Sparse, Growth
  <2>2. dir[j].size \in 0..MAX_SIZE /\ MAX_SIZE \in Nat
    BY DirConstants DEF DirInv, Types, Content, Dirs
  <2> QED
    BY ONLY <1>4, <2>1, <2>2
<1>7. k \in 2..MAX_SIZE /\ k \in 0..(n - 1) /\ k \in Nat
  <2>1. MAX_SIZE \in Nat
    BY DirConstants
  <2> QED
    BY <1>6, <2>1
<1>8. <<j, k>> \in Links(want[j][x])
  BY <1>3, <1>5, <1>7 DEF Links, EntryAt, At
<1> QED
  BY <1>7, <1>8

\* Two entries with the same name are one.
LEMMA HitOnce ==
  ASSUME NEW i, NEW x, NEW j, NEW k, Hit(i, x, j), Hit(i, x, k)
  PROVE  j = k
<1>1. PICK n \in Nat : j \in 2..(n - 1) /\ Holds(dir[i], want[i], n) /\ At(dir[i], j).name = x
  BY DEF Hit
<1>2. PICK m \in Nat : k \in 2..(m - 1) /\ Holds(dir[i], want[i], m) /\ At(dir[i], k).name = x
  BY DEF Hit
<1>3. n \in Nat \ {0} /\ m \in Nat \ {0} /\ dir[i].size = Size(n) /\ dir[i].size = Size(m)
  BY <1>1, <1>2 DEF Holds
<1>4. 0..(n - 1) = 0..(m - 1)
  <2>1. Indices(i) = 0..(n - 1)
    BY <1>3, Listed
  <2>2. Indices(i) = 0..(m - 1)
    BY <1>3, Listed
  <2> QED
    BY <2>1, <2>2
<1>5. k \in 0..(m - 1)
  BY <1>2
<1>6. k \in 2..(n - 1)
  BY <1>2, <1>4, <1>5
<1> QED
  BY <1>1, <1>2, <1>6 DEF Holds

\* The directories form a tree, whatever is created and removed: every inode
\* in use except the root has exactly one name, an inode that waits for its
\* last descriptor and a free one have none, and ".." leads back.
THEOREM TreeKept ==
  Spec => []TreeOK
<1>1. DirInv => TreeOK
  <2> SUFFICES ASSUME DirInv, NEW i \in Inums \ {ROOT_INODE}
               PROVE  /\ Cardinality(Links(i)) = IF i \in pending \/ node[i].kind = "free" THEN 0 ELSE 1
                      /\ i \in Dirs => \A l \in Links(i) : EntryAt(i, 1).inode_num = l[1]
                      /\ i \in opened => node[i].kind = "reg"
    BY DEF TreeOK
  <2>1. ASSUME i \in pending \/ node[i].kind = "free" PROVE Links(i) = {}
    <3>1. ASSUME NEW l \in Links(i) PROVE FALSE
      <4>1. PICK x \in Names : want[l[1]][x] = i /\ want[l[1]][x] # 0 /\ l[1] \in Inums
        BY LinkNames
      <4>2. i \notin pending /\ node[i].kind # "free"
        BY <4>1 DEF DirInv, Used
      <4> QED
        BY <2>1, <4>2
    <3> QED
      BY <3>1
  <2>2. ASSUME ~ (i \in pending \/ node[i].kind = "free") PROVE \E l : Links(i) = {l}
    <3>1. PICK j \in Inums, x \in Names : want[j][x] = i
      BY <2>2 DEF DirInv, Named
    <3>2. want[j][x] # 0 /\ j \in Dirs
      BY <3>1, RootInum DEF DirInv, Bare
    <3>3. PICK k \in Nat : <<j, k>> \in Links(i)
      BY <3>1, <3>2, NameLinks
    <3>4. ASSUME NEW l \in Links(i), NEW m \in Links(i) PROVE l = m
      <4>1. PICK y \in Names : want[l[1]][y] = i /\ want[l[1]][y] # 0 /\ Hit(l[1], y, l[2])
        BY LinkNames
      <4>2. PICK z \in Names : want[m[1]][z] = i /\ want[m[1]][z] # 0 /\ Hit(m[1], z, m[2])
        BY LinkNames
      <4>3. /\ l[1] \in Inums /\ m[1] \in Inums
            /\ l = <<l[1], l[2]>> /\ m = <<m[1], m[2]>>
        BY LinkNames
      <4>4. l[1] = m[1] /\ y = z
        BY <4>1, <4>2, <4>3 DEF DirInv, Unique
      <4>5. l[2] = m[2]
        BY <4>1, <4>2, <4>4, HitOnce
      <4> QED
        BY <4>3, <4>4, <4>5
    <3>5. Links(i) = {<<j, k>>}
      BY <3>3, <3>4
    <3> QED
      BY <3>5
  <2>3. Cardinality(Links(i)) = IF i \in pending \/ node[i].kind = "free" THEN 0 ELSE 1
    BY <2>1, <2>2, FS_EmptySet, FS_Singleton
  <2>4. ASSUME i \in Dirs, NEW l \in Links(i) PROVE EntryAt(i, 1).inode_num = l[1]
    <3>1. PICK x \in Names : want[l[1]][x] = i /\ want[l[1]][x] # 0 /\ l[1] \in Inums
      BY LinkNames
    <3> QED
      BY <2>4, <3>1 DEF DirInv, Used, EntryAt, At
  <2>5. i \in opened => node[i].kind = "reg"
    BY DEF DirInv, Held
  <2> QED
    BY <2>3, <2>4, <2>5
<1> QED
  BY <1>1, DirInvariance, PTL

\* A path leads to an inode only along directories.
LEMMA WayDown ==
  ASSUME DirInv, NEW path \in Paths, Leads(path)[Len(path)] # 0
  PROVE  \A k \in 0..(Len(path) - 1) : Leads(path)[k] # 0 /\ Leads(path)[k] \in Dirs
<1>1. PICK n \in Nat : n = Len(path) /\ n > 0 /\ \A k \in 1..n : path[k] \in Names
  BY PathTypes
<1>2. PICK to \in [0..n -> Inums \cup {0}] :
        /\ to = Leads(path)
        /\ \A k \in 1..n : to[k] = IF to[k - 1] = 0 THEN 0 ELSE want[to[k - 1]][path[k]]
  BY <1>1, LeadsFollows
<1> DEFINE S == {k \in 0..n : to[n - k] # 0}
<1>3. 0 \in S
  BY <1>1, <1>2
<1>4. ASSUME NEW k \in 0..(n - 1), k \in S PROVE k + 1 \in S
  <2>1. PICK m \in 1..n : m = n - k /\ m - 1 = n - (k + 1) /\ k + 1 \in 0..n
    OBVIOUS
  <2>2. to[m] # 0
    BY <1>4, <2>1
  <2>3. to[m - 1] # 0
    BY <1>2, <2>2
  <2> QED
    BY <2>1, <2>3
<1>5. \A k \in 0..n : k \in S
  <2> HIDE DEF S
  <2> QED
    BY <1>3, <1>4, UpTo
<1>6. ASSUME NEW k \in 0..n PROVE to[k] # 0
  <2>1. n - k \in 0..n /\ n - (n - k) = k
    OBVIOUS
  <2> QED
    BY <1>5, <2>1
<1>7. ASSUME NEW k \in 0..(n - 1) PROVE to[k] # 0 /\ to[k] \in Dirs
  <2>1. k \in 0..n /\ k + 1 \in 1..n /\ k + 1 \in 0..n /\ (k + 1) - 1 = k
    OBVIOUS
  <2>2. to[k] # 0 /\ to[k + 1] # 0 /\ to[k] \in Inums
    BY <1>2, <1>6, <2>1
  <2>3. want[to[k]][path[k + 1]] # 0 /\ path[k + 1] \in Names
    BY <1>1, <1>2, <2>1, <2>2
  <2> QED
    BY <2>2, <2>3 DEF DirInv, Bare
<1> QED
  BY <1>1, <1>2, <1>7

\* fs_getattr finds a path exactly when it exists and the caller may read and
\* search the directories on the way, and answers for the inode it leads to.
THEOREM LookupKept ==
  Spec => []LookupExact
<1>1. DirInv => LookupExact
  <2> SUFFICES ASSUME DirInv, NEW path \in Paths, NEW u \in Users
               PROVE  LET inum  == Leads(path)[Len(path)]
                          found == fs_getattr(path, u)
                      IN IF /\ inum # 0
                            /\ \A k \in 0..(Len(path) - 1) :
                                 {"r", "x"} \subseteq check_permissions(Leads(path)[k], u)
                         THEN /\ found.ret = SUCCESS
                              /\ \A st \in found.st : st.st_ino = inum /\ st.st_node.kind # "free"
                         ELSE found.ret # SUCCESS
    BY DEF LookupExact
  <2>1. PICK s \in Lookups, inum \in {Leads(path)[Len(path)]}, found \in {fs_getattr(path, u)} :
          /\ s = namei(path, u) /\ inum = Leads(path)[Len(path)] /\ found = Attributes(s, u)
          /\ found = fs_getattr(path, u)
    BY NameiExact DEF fs_getattr
  <2> DEFINE Allowed == \A k \in 0..(Len(path) - 1) :
                          {"r", "x"} \subseteq check_permissions(Leads(path)[k], u)
  <2>2. /\ s.ret = SUCCESS <=>
             \A k \in 0..(Len(path) - 1) : Leads(path)[k] # 0 /\ Passable(Leads(path)[k], u)
        /\ s.ret = SUCCESS => s.target = inum
    BY <2>1, NameiExact
  <2>3. CASE inum # 0 /\ Allowed
    <3>1. s.ret = SUCCESS /\ s.target = inum
      BY <2>1, <2>2, <2>3, WayDown DEF Passable
    <3>2. path[Len(path)] \in Names /\ Resolved(s, path[Len(path)], u)
      BY <2>1, <3>1, NameiResolves
    <3>3. MayStat(s, u)
      BY <3>2 DEF Resolved, Passable, MayStat
    <3>4. node[inum].kind # "free"
      BY <2>3, <3>1, <3>2 DEF Resolved, DirInv, Used, Dirs
    <3>5. found.ret = SUCCESS /\ found.st = {get_stat(inum)}
      BY <2>1, <2>3, <3>1, <3>3 DEF Attributes
    <3>6. get_stat(inum).st_ino = inum /\ get_stat(inum).st_node = node[inum]
      BY DEF get_stat
    <3> QED
      BY <2>1, <2>3, <3>4, <3>5, <3>6
  <2>4. CASE ~ (inum # 0 /\ Allowed)
    <3>1. s.ret # SUCCESS \/ s.target = 0
      BY <2>2, <2>4 DEF Passable
    <3>2. found.ret # SUCCESS
      BY <2>1, <3>1 DEF Attributes, ENOENT, SUCCESS
    <3> QED
      BY <2>1, <2>4, <3>2
  <2> QED
    BY <2>3, <2>4
<1> QED
  BY <1>1, DirInvariance, PTL

\* The way up from the directory that namei found leads through the
\* directories it came through, which the caller may all read and search.
LEMMA WayUp ==
  ASSUME DirInv, NEW path \in Paths, NEW u, namei(path, u).ret = SUCCESS
  PROVE  \A a \in Ancestors(namei(path, u).parent) : {"r", "x"} \subseteq check_permissions(a, u)
<1>1. PICK n \in Nat : n = Len(path) /\ n > 0 /\ \A k \in 1..n : path[k] \in Names
  BY PathTypes
<1>2. PICK to \in [0..n -> Inums \cup {0}] :
        /\ to = Leads(path) /\ to[0] = ROOT_INODE
        /\ \A k \in 1..n : to[k] = IF to[k - 1] = 0 THEN 0 ELSE want[to[k - 1]][path[k]]
  BY <1>1, LeadsFollows
<1>3. PICK s \in Lookups : s = namei(path, u)
  BY NameiExact
<1>4. /\ \A k \in 0..(n - 1) : to[k] # 0 /\ Passable(to[k], u)
      /\ s.parent = to[n - 1]
  BY <1>1, <1>2, <1>3, NameiExact
<1> DEFINE T == {to[k] : k \in 0..(n - 1)}
           Up(i) == EntryAt(i, 1).inode_num
<1>5. ASSUME NEW i \in T PROVE Up(i) \in T
  <2>1. PICK k \in 0..(n - 1) : i = to[k]
    OBVIOUS
  <2>2. i \in Inums /\ i \in Dirs
    BY <1>4, <2>1 DEF Passable, Dirs
  <2>3. CASE k = 0
    <3>1. Up(i) = i
      BY <1>2, <2>1, <2>3 DEF DirInv, Rooted, EntryAt, At
    <3> QED
      BY <3>1
  <2>4. CASE k # 0
    <3>1. k \in 1..n /\ k - 1 \in 0..(n - 1) /\ k - 1 \in 0..n
      BY <2>4
    <3>2. to[k - 1] # 0 /\ to[k - 1] \in Inums
      BY <1>2, <1>4, <3>1
    <3>3. i = want[to[k - 1]][path[k]] /\ i # 0 /\ path[k] \in Names
      BY <1>1, <1>2, <1>4, <2>1, <3>1, <3>2
    <3>4. Up(i) = to[k - 1]
      BY <2>2, <3>2, <3>3 DEF DirInv, Used, EntryAt, At
    <3> QED
      BY <3>1, <3>4
  <2> QED
    BY <2>3, <2>4
<1> DEFINE p == s.parent
           N == NumInodes
           Eq(c) == c = [k \in 0..N |-> IF k = 0 THEN p ELSE Up(c[k - 1])]
           g == [z \in (1..N) \X T |-> Up(z[2])]
<1>6. p \in T /\ N \in Nat
  <2>1. n - 1 \in 0..(n - 1)
    BY <1>1
  <2> QED
    BY <1>4, <2>1, DirConstants
<1>7. \A i \in T : {"r", "x"} \subseteq check_permissions(i, u)
  BY <1>4 DEF Passable
<1> HIDE DEF T
<1>8. g \in [(1..N) \X T -> T]
  <2>1. \A z \in (1..N) \X T : Up(z[2]) \in T
    <3> HIDE DEF Up
    <3> QED
      BY <1>5
  <2> QED
    BY <2>1
<1>9. PICK f \in [0..N -> T] : Iterates(f, N, p, g)
  <2> HIDE DEF N, g, p
  <2> QED
    BY <1>6, <1>8, Recursion
<1> HIDE DEF p
<1>10. Eq(f)
  <2> HIDE DEF Up
  <2>1. ASSUME NEW k \in 1..N PROVE f[k] = Up(f[k - 1])
    <3>1. k - 1 \in 0..N /\ <<k, f[k - 1]>> \in (1..N) \X T
      BY <1>6
    <3>2. g[<<k, f[k - 1]>>] = Up(f[k - 1])
      BY <3>1
    <3> QED
      BY <1>9, <3>2 DEF Iterates
  <2>2. \A k \in 0..N : f[k] = IF k = 0 THEN p ELSE Up(f[k - 1])
    <3>1. \A k \in 0..N : k # 0 => k \in 1..N
      BY <1>6
    <3> QED
      BY <1>9, <2>1, <3>1 DEF Iterates
  <2>3. f = [k \in 0..N |-> f[k]]
    OBVIOUS
  <2> HIDE DEF N
  <2> QED
    BY <2>2, <2>3, Zenon
<1> DEFINE C == CHOOSE c : Eq(c)
<1>11. Eq(C)
  <2> HIDE DEF Eq
  <2> QED
    BY <1>10, Zenon
<1>12. Ancestors(p) = {C[k] : k \in 0..N}
  BY DEF Ancestors
<1> HIDE DEF C
<1>13. C[0] = p /\ \A k \in 1..N : C[k] = Up(C[k - 1])
  <2> HIDE DEF Up
  <2> QED
    BY <1>6, <1>11
<1>14. \A k \in 0..N : C[k] \in T
  <2> HIDE DEF Up
  <2> DEFINE S == {k \in 0..N : C[k] \in T}
  <2>1. 0 \in S
    BY <1>6, <1>13
  <2>2. ASSUME NEW k \in 0..(N - 1), k \in S PROVE k + 1 \in S
    <3>1. k + 1 \in 1..N /\ (k + 1) - 1 = k
      BY <1>6
    <3>2. C[k + 1] = Up(C[k])
      BY <1>13, <3>1
    <3> QED
      BY <1>5, <2>2, <3>1, <3>2
  <2> HIDE DEF S
  <2>3. \A k \in 0..N : k \in S
    BY <1>6, <2>1, <2>2, UpTo
  <2> QED
    BY <2>3 DEF S
<1>15. \A a \in Ancestors(p) : a \in T
  BY <1>12, <1>14
<1> QED
  BY <1>3, <1>7, <1>15 DEF p

\* The handlers that change the entries of a directory: the directory is the
\* one that namei found, and the caller may write it too.
LEMMA ChangeChecked ==
  ASSUME DirInv, NEW path \in Paths, NEW u \in Users, NEW i \in Dirs,
         namei(path, u).ret = SUCCESS, i = namei(path, u).parent,
         "w" \in check_permissions(i, u), caller' = u
  PROVE  /\ Rights \subseteq check_permissions(i, caller')
         /\ \A a \in Ancestors(i) : {"r", "x"} \subseteq check_permissions(a, caller')
<1>1. Passable(i, u)
  BY NameiResolves DEF Resolved
<1>2. Rights \subseteq check_permissions(i, u)
  BY <1>1 DEF Passable, Rights
<1>3. \A a \in Ancestors(i) : {"r", "x"} \subseteq check_permissions(a, u)
  BY WayUp
<1> QED
  BY <1>2, <1>3

\* The entries of a directory change only for a caller who may read, write and
\* search it, and read and search every directory on the way to it.
THEOREM AccessKept ==
  Spec => AccessChecked
<1> DEFINE A == \A i \in Dirs : dir'[i] # dir[i] /\ node'[i].kind = "dir" =>
                  /\ Rights \subseteq check_permissions(i, caller')
                  /\ \A a \in Ancestors(i) : {"r", "x"} \subseteq check_permissions(a, caller')
<1>1. DirInv /\ [Next]_vars => [A]_vars
  <2> SUFFICES ASSUME DirInv, Next, NEW i \in Dirs, dir'[i] # dir[i], node'[i].kind = "dir"
               PROVE  /\ Rights \subseteq check_permissions(i, caller')
                      /\ \A a \in Ancestors(i) : {"r", "x"} \subseteq check_permissions(a, caller')
    OBVIOUS
  <2>1. dir \in [Inums -> Content] /\ node \in [Inums -> NodeType] /\ i \in Inums
    BY DEF DirInv, Types, Dirs
  <2>2. ASSUME NEW path \in Paths, NEW u \in Users, NEW kind, NEW mode, NEW content, NEW x,
               Make(kind, namei(path, u), x, u, mode, content)
        PROVE  /\ Rights \subseteq check_permissions(i, caller')
               /\ \A a \in Ancestors(i) : {"r", "x"} \subseteq check_permissions(a, caller')
    <3>1. PICK s : s = namei(path, u)
      OBVIOUS
    <3>2. /\ s.ret = SUCCESS /\ {"r", "w", "x"} \subseteq check_permissions(s.parent, u)
          /\ FreeInums # {} /\ caller' = u
          /\ dir' = [dir EXCEPT ![Min(FreeInums)] = content[Min(FreeInums)],
                                ![s.parent] = add_dirent(@, Entry(x, Min(FreeInums)))]
      BY <2>2, <3>1 DEF Make
    <3>3. Min(FreeInums) # i
      BY <3>2, FreshInum DEF Dirs
    <3>4. i = s.parent
      BY <2>1, <3>2, <3>3
    <3> QED
      BY <3>1, <3>2, <3>4, ChangeChecked
  <2>3. ASSUME NEW path \in Paths, NEW u \in Users, Unlink(namei(path, u), u)
        PROVE  /\ Rights \subseteq check_permissions(i, caller')
               /\ \A a \in Ancestors(i) : {"r", "x"} \subseteq check_permissions(a, caller')
    <3>1. PICK s : s = namei(path, u)
      OBVIOUS
    <3>2. /\ s.ret = SUCCESS /\ "w" \in check_permissions(s.parent, u) /\ caller' = u
          /\ dir' = [dir EXCEPT ![s.parent] = remove_dirent(@, s.index)]
      BY <2>3, <3>1 DEF Unlink, MayRemove, RemoveName
    <3>3. i = s.parent
      BY <2>1, <3>2
    <3> QED
      BY <3>1, <3>2, <3>3, ChangeChecked
  <2>4. ASSUME NEW path \in Paths, NEW u \in Users, Rmdir(namei(path, u), u)
        PROVE  /\ Rights \subseteq check_permissions(i, caller')
               /\ \A a \in Ancestors(i) : {"r", "x"} \subseteq check_permissions(a, caller')
    <3>1. PICK s : s = namei(path, u)
      OBVIOUS
    <3>2. /\ s.ret = SUCCESS /\ "w" \in check_permissions(s.parent, u) /\ caller' = u
          /\ dir' = [[dir EXCEPT ![s.target] = EmptyDir] EXCEPT ![s.parent] = remove_dirent(@, s.index)]
          /\ node' = [node EXCEPT ![s.target] = FreeNode]
      BY <2>4, <3>1 DEF Rmdir, MayRemove, RemoveName, del
    <3>3. i # s.target
      <4>1. FreeNode.kind # "dir"
        BY Kinds
      <4> QED
        BY <2>1, <3>2, <4>1
    <3>4. i = s.parent
      BY <2>1, <3>2, <3>3
    <3> QED
      BY <3>1, <3>2, <3>4, ChangeChecked
  <2>5. ASSUME NEW path \in Paths, NEW u \in Users, NEW access, fs_open(path, u, access)
        PROVE  FALSE
    BY <2>5 DEF fs_open, Open
  <2>6. ASSUME NEW t \in Inums, fs_release(t) PROVE FALSE
    BY <2>6 DEF fs_release
  <2> QED
    BY <2>2, <2>3, <2>4, <2>5, <2>6 DEF Next, mkdir_fs, mknod_fs, fs_unlink, fs_rmdir
<1>2. Spec => []DirInv
  BY DirInvariance
<1> QED
  BY <1>1, <1>2, PTL DEF Spec, AccessChecked

\* a is a buffer of m of the entries e, from the x-th on
Reads(a, e, x, m) == Len(a) = m /\ \A k \in 1..m : a[k] = e[x + (k - 1)]

\* A buffer of x entries, and m more behind them.
LEMMA Buffers ==
  ASSUME NEW V, NEW a \in Seq(V), NEW b \in Seq(V), NEW e, NEW x \in Nat, NEW m \in Nat,
         Reads(a, e, 0, x), Reads(b, e, x, m)
  PROVE  a \o b \in Seq(V) /\ Len(a \o b) = x + m /\ \A k \in 1..(x + m) : (a \o b)[k] = e[k - 1]
<1> /\ Len(a) = x /\ Len(b) = m
    /\ \A k \in 1..x : a[k] = e[k - 1]
    /\ \A k \in 1..m : b[k] = e[x + (k - 1)]
  <2>1. \A k \in 1..x : 0 + (k - 1) = k - 1
    OBVIOUS
  <2> QED
    BY <2>1 DEF Reads
<1>1. a \o b \in Seq(V) /\ Len(a \o b) = x + m
  BY ConcatProperties
<1>2. ASSUME NEW k \in 1..(x + m) PROVE (a \o b)[k] = e[k - 1]
  <2>1. CASE k \in 1..x
    <3>1. (a \o b)[k] = a[k]
      BY <2>1
    <3> QED
      BY <2>1, <3>1
  <2>2. CASE k \notin 1..x
    <3>1. PICK j \in 1..m : k = x + j /\ k - 1 = x + (j - 1)
      <4>1. k - x \in 1..m /\ k = x + (k - x) /\ k - 1 = x + ((k - x) - 1)
        BY <2>2
      <4> QED
        BY <4>1
    <3>2. (a \o b)[k] = b[j]
      BY <3>1
    <3> QED
      BY <3>1, <3>2
  <2> QED
    BY <2>1, <2>2
<1> QED
  BY <1>1, <1>2

\* read_dir_whole reads the entries in the order of their indices.
LEMMA ReadWhole ==
  ASSUME DirInv, NEW i \in Dirs, NEW n \in Nat \ {0}, dir[i].size = Size(n)
  PROVE  /\ Len(read_dir_whole(i)) = n
         /\ \A k \in 0..(n - 1) : read_dir_whole(i)[k + 1] = At(dir[i], k)
<1>1. PICK top \in Nat, rest \in 0..DIRENTS_PER_BLOCK :
        /\ Size(n) \div BLOCK_SIZE = top /\ Size(n) % BLOCK_SIZE = rest * ENT
        /\ (rest * ENT) \div ENT = rest
        /\ top * DIRENTS_PER_BLOCK + rest = n
  BY Pages
<1>2. PICK d \in Content : d = dir[i] /\ d.size = Size(n)
  BY DEF DirInv, Types, Dirs
<1>3. PICK P \in Nat : P = DIRENTS_PER_BLOCK /\ (P * ENT) \div ENT = P
  <2>1. DIRENTS_PER_BLOCK \in Nat /\ DIRENTS_PER_BLOCK \in 0..DIRENTS_PER_BLOCK
    BY Units
  <2> QED
    BY <2>1, Lengths
<1> DEFINE e == [k \in 0..(n - 1) |-> At(d, k)]
           Blk(b, bytes) ==
             [k \in 1..(bytes \div ENT) |-> dir[i].at[b * BLOCK_SIZE + (k - 1) * ENT]]
<1>4. ASSUME NEW b \in Nat, NEW m \in 0..P, b * P + m <= n
      PROVE  /\ Blk(b, m * ENT) \in Seq(EntryType) /\ Len(Blk(b, m * ENT)) = m
             /\ \A k \in 1..m : Blk(b, m * ENT)[k] = e[b * P + (k - 1)]
  <2>1. ASSUME NEW k \in 1..m
        PROVE  /\ d.at[b * BLOCK_SIZE + (k - 1) * ENT] = e[b * P + (k - 1)]
               /\ d.at[b * BLOCK_SIZE + (k - 1) * ENT] \in EntryType
    <3>1. PICK j \in 0..(P - 1) : j = k - 1
      BY ONLY k \in 1..m, m \in 0..P, P \in Nat
    <3>2. b * P \in Nat
      BY ONLY b \in Nat, P \in Nat
    <3>3. PICK q \in 0..(n - 1) : q = b * P + j
      BY ONLY <1>4, <3>1, <3>2, k \in 1..m, m \in 0..P, n \in Nat \ {0}, j \in 0..(P - 1), P \in Nat
    <3>4. OffsetOf(q) = b * BLOCK_SIZE + j * ENT
      BY <1>3, <3>3, OffsetForm
    <3>5. OffsetOf(q) \in Nat /\ OffsetOf(q) + ENT <= Size(n)
      BY Growth
    <3>6. d.size \in 0..MAX_SIZE /\ d.at \in [0..MAX_SIZE -> EntryType] /\ MAX_SIZE \in Nat
      BY DirConstants DEF Content
    <3>7. OffsetOf(q) \in 0..MAX_SIZE
      BY ONLY <1>2, <3>5, <3>6, Units
    <3>8. e[q] = d.at[OffsetOf(q)]
      BY DEF At
    <3> HIDE DEF e
    <3> QED
      BY <3>1, <3>3, <3>4, <3>6, <3>7, <3>8
  <2>2. m \in Nat /\ (m * ENT) \div ENT = m
    BY <1>3, Lengths
  <2> HIDE DEF e
  <2>3. Blk(b, m * ENT) = [k \in 1..m |-> d.at[b * BLOCK_SIZE + (k - 1) * ENT]]
    BY <1>2, <2>2
  <2> HIDE DEF Blk
  <2>4. Blk(b, m * ENT) \in [1..m -> EntryType]
    BY <2>1, <2>3
  <2>5. Blk(b, m * ENT) \in Seq(EntryType) /\ Len(Blk(b, m * ENT)) = m
    BY <2>2, <2>4
  <2> QED
    BY <2>1, <2>3, <2>5
<1> DEFINE num == dir[i].size \div BLOCK_SIZE
           full == DIRENTS_PER_BLOCK * ENT
           Eq(c) == c = [b \in 0..num |-> IF b = 0 THEN <<>> ELSE c[b - 1] \o Blk(b - 1, full)]
           g == [z \in (1..top) \X Seq(EntryType) |-> z[2] \o Blk(z[1] - 1, full)]
<1>5. ASSUME NEW b \in 1..top PROVE b - 1 \in Nat /\ (b - 1) * P + P <= n /\ (b - 1) * P + P = b * P
  <2>1. PICK c \in Nat : b = c + 1
    <3>1. b - 1 \in Nat /\ b = (b - 1) + 1
      OBVIOUS
    <3> QED
      BY <3>1
  <2>2. PICK r \in Nat : top = c + 1 + r
    <3>1. top - b \in Nat /\ top = c + 1 + (top - b)
      BY <2>1
    <3> QED
      BY <3>1
  <2>3. top * P = c * P + P + r * P /\ c * P \in Nat /\ r * P \in Nat /\ (c + 1) * P = c * P + P
    BY ONLY <2>2, P \in Nat, c \in Nat, r \in Nat
  <2>4. b - 1 = c
    BY <2>1
  <2>5. c * P + P <= n
    BY ONLY <1>1, <1>3, <2>3, P \in Nat, rest \in 0..DIRENTS_PER_BLOCK
  <2> QED
    BY <2>1, <2>3, <2>4, <2>5
<1>6. P \in 0..P /\ full = P * ENT /\ num = top /\ dir[i].size % BLOCK_SIZE = rest * ENT
  BY <1>1, <1>2, <1>3
<1> HIDE DEF Blk, e, full, num
<1>7. g \in [(1..top) \X Seq(EntryType) -> Seq(EntryType)]
  <2>1. ASSUME NEW z \in (1..top) \X Seq(EntryType) PROVE z[2] \o Blk(z[1] - 1, full) \in Seq(EntryType)
    <3>1. z[2] \in Seq(EntryType) /\ z[1] \in 1..top
      OBVIOUS
    <3>2. Blk(z[1] - 1, full) \in Seq(EntryType)
      BY <1>4, <1>5, <1>6, <3>1
    <3> QED
      BY <3>1, <3>2
  <2> QED
    BY <2>1
<1>8. PICK none \in Seq(EntryType) : none = <<>>
  BY EmptySeq
<1>9. PICK f \in [0..top -> Seq(EntryType)] : Iterates(f, top, none, g)
  <2> HIDE DEF g
  <2> QED
    BY <1>7, Recursion
<1>10. Eq(f)
  <2>1. ASSUME NEW b \in 1..top PROVE f[b] = f[b - 1] \o Blk(b - 1, full)
    <3>1. b - 1 \in 0..top /\ <<b, f[b - 1]>> \in (1..top) \X Seq(EntryType)
      OBVIOUS
    <3>2. g[<<b, f[b - 1]>>] = f[b - 1] \o Blk(b - 1, full)
      BY <3>1
    <3> QED
      BY <1>9, <3>2 DEF Iterates
  <2>2. \A b \in 0..num : f[b] = IF b = 0 THEN <<>> ELSE f[b - 1] \o Blk(b - 1, full)
    <3>1. \A b \in 0..top : b # 0 => b \in 1..top
      OBVIOUS
    <3> QED
      BY <1>6, <1>8, <1>9, <2>1, <3>1 DEF Iterates
  <2>3. f = [b \in 0..num |-> f[b]]
    BY <1>6
  <2> QED
    BY <2>2, <2>3, Zenon
<1> DEFINE C == CHOOSE c : Eq(c)
<1>11. Eq(C)
  <2> HIDE DEF Eq
  <2> QED
    BY <1>10, Zenon
<1>12. read_dir_whole(i) = C[num] \o Blk(num, dir[i].size % BLOCK_SIZE)
  BY DEF read_dir_whole, Blk, num, full
<1> HIDE DEF C
<1>13. C[0] = none /\ \A b \in 1..top : C[b] = C[b - 1] \o Blk(b - 1, full)
  <2>1. ASSUME NEW b \in 0..top
        PROVE  C[b] = IF b = 0 THEN <<>> ELSE C[b - 1] \o Blk(b - 1, full)
    BY <1>6, <1>11
  <2>2. 0 \in 0..top /\ \A b \in 1..top : b \in 0..top /\ b # 0
    OBVIOUS
  <2> QED
    BY <1>8, <2>1, <2>2
<1> DEFINE Right(b) == /\ C[b] \in Seq(EntryType) /\ Len(C[b]) = b * P
                       /\ \A k \in 1..(b * P) : C[b][k] = e[k - 1]
           S == {b \in 0..top : Right(b)}
<1>14. 0 \in S
  <2>1. 0 * P = 0
    BY <1>3
  <2>2. Len(none) = 0
    BY <1>8
  <2>3. 1..0 = {}
    OBVIOUS
  <2>4. C[0] \in Seq(EntryType) /\ Len(C[0]) = 0 * P
    BY ONLY <1>13, <2>1, <2>2, none \in Seq(EntryType)
  <2>5. 1..(0 * P) = {}
    BY ONLY <2>1, <2>3
  <2>6. Right(0)
    BY ONLY <2>4, <2>5
  <2>7. 0 \in 0..top
    OBVIOUS
  <2> QED
    BY ONLY <2>6, <2>7
<1>15. ASSUME NEW b \in 0..(top - 1), b \in S PROVE b + 1 \in S
  <2>1. b + 1 \in 1..top /\ b + 1 \in 0..top /\ (b + 1) - 1 = b /\ b \in Nat
    OBVIOUS
  <2>2. b * P + P <= n /\ (b + 1) * P = b * P + P
    BY <1>5, <2>1
  <2>3. C[b + 1] = C[b] \o Blk(b, full)
    BY <1>13, <2>1
  <2>4. /\ Blk(b, full) \in Seq(EntryType) /\ Len(Blk(b, full)) = P
        /\ \A k \in 1..P : Blk(b, full)[k] = e[b * P + (k - 1)]
    BY <1>4, <1>6, <2>1, <2>2
  <2>5. PICK x \in Nat : x = b * P
    BY <1>3, <2>1
  <2>6. C[b] \in Seq(EntryType) /\ Len(C[b]) = x /\ \A k \in 1..x : C[b][k] = e[k - 1]
    BY <1>15, <2>5
  <2>7. /\ C[b] \o Blk(b, full) \in Seq(EntryType) /\ Len(C[b] \o Blk(b, full)) = x + P
        /\ \A k \in 1..(x + P) : (C[b] \o Blk(b, full))[k] = e[k - 1]
    <3>1. PICK a \in Seq(EntryType), c \in Seq(EntryType) : a = C[b] /\ c = Blk(b, full)
      BY <2>4, <2>6
    <3>2. Len(a) = x /\ Len(c) = P /\ (\A k \in 1..x : a[k] = e[k - 1])
      BY <2>4, <2>6, <3>1
    <3>3. \A k \in 1..P : c[k] = e[x + (k - 1)]
      BY <2>4, <2>5, <3>1
    <3>4. a \o c \in Seq(EntryType) /\ Len(a \o c) = x + P /\ \A k \in 1..(x + P) : (a \o c)[k] = e[k - 1]
      <4>1. Reads(a, e, 0, x)
        <5>1. \A k \in 1..x : 0 + (k - 1) = k - 1
          OBVIOUS
        <5> QED
          BY <3>2, <5>1 DEF Reads
      <4>2. Reads(c, e, x, P)
        BY <3>2, <3>3 DEF Reads
      <4> QED
        BY ONLY <4>1, <4>2, Buffers, a \in Seq(EntryType), c \in Seq(EntryType), x \in Nat, P \in Nat, SMTT(60)
    <3> QED
      BY <3>1, <3>4
  <2>8. Right(b + 1)
    BY <2>2, <2>3, <2>5, <2>7
  <2> QED
    BY <2>1, <2>8
<1>16. Right(top)
  <2>1. \A b \in 0..top : b \in S
    <3> HIDE DEF S
    <3> QED
      BY <1>14, <1>15, UpTo
  <2>2. top \in 0..top
    OBVIOUS
  <2> QED
    BY <2>1, <2>2
<1>17. PICK x \in Nat, m \in Nat : x = top * P /\ m = rest /\ x + m = n /\ m \in 0..P
  <2>1. top * P \in Nat
    BY <1>3
  <2> QED
    BY ONLY <1>1, <1>3, <2>1, P \in Nat, rest \in 0..DIRENTS_PER_BLOCK
<1>18. /\ Blk(top, m * ENT) \in Seq(EntryType) /\ Len(Blk(top, m * ENT)) = m
       /\ \A k \in 1..m : Blk(top, m * ENT)[k] = e[x + (k - 1)]
  <2>1. top * P + m <= n
    BY <1>17
  <2> QED
    BY <1>4, <1>17, <2>1
<1>19. C[top] \in Seq(EntryType) /\ Len(C[top]) = x /\ \A k \in 1..x : C[top][k] = e[k - 1]
  BY <1>16, <1>17
<1>20. /\ Len(C[top] \o Blk(top, m * ENT)) = x + m
       /\ \A k \in 1..(x + m) : (C[top] \o Blk(top, m * ENT))[k] = e[k - 1]
  <2>1. PICK a \in Seq(EntryType), c \in Seq(EntryType) : a = C[top] /\ c = Blk(top, m * ENT)
    BY <1>18, <1>19
  <2>2. Len(a) = x /\ Len(c) = m /\ (\A k \in 1..x : a[k] = e[k - 1])
    BY <1>18, <1>19, <2>1
  <2>3. \A k \in 1..m : c[k] = e[x + (k - 1)]
    BY <1>18, <2>1
  <2>4. Len(a \o c) = x + m /\ \A k \in 1..(x + m) : (a \o c)[k] = e[k - 1]
    <3>1. Reads(a, e, 0, x)
      <4>1. \A k \in 1..x : 0 + (k - 1) = k - 1
        OBVIOUS
      <4> QED
        BY <2>2, <4>1 DEF Reads
    <3>2. Reads(c, e, x, m)
      BY <2>2, <2>3 DEF Reads
    <3> QED
      BY ONLY <3>1, <3>2, Buffers, a \in Seq(EntryType), c \in Seq(EntryType), x \in Nat, m \in Nat, SMTT(60)
  <2> QED
    BY <2>1, <2>4
<1>21. PICK r : /\ r = read_dir_whole(i) /\ Len(r) = n
                /\ \A k \in 1..n : r[k] = e[k - 1]
  <2>1. read_dir_whole(i) = C[top] \o Blk(top, m * ENT)
    BY <1>6, <1>12, <1>17
  <2> QED
    BY <1>17, <1>20, <2>1
<1>22. ASSUME NEW k \in 0..(n - 1) PROVE r[k + 1] = At(d, k)
  <2>1. k + 1 \in 1..n /\ (k + 1) - 1 = k
    OBVIOUS
  <2>2. r[k + 1] = e[k]
    BY <1>21, <2>1
  <2> QED
    BY <2>2 DEF e
<1> QED
  BY <1>2, <1>21, <1>22

\* The names of a directory are as many as its entries behind the first two.
LEMMA CountNames ==
  ASSUME NEW d, NEW w, NEW n \in Nat, Holds(d, w, n)
  PROVE  Cardinality(0..(n - 1)) = Cardinality({x \in Names : w[x] # 0}) + 2
<1> DEFINE X == {x \in Names : w[x] # 0}
           f == [k \in 2..(n - 1) |-> At(d, k).name]
<1>1. n > 1
  BY DEF Holds
<1>2. f \in [2..(n - 1) -> X]
  <2>1. \A k \in 2..(n - 1) : At(d, k).name \in X
    BY HoldsEach
  <2> QED
    BY <2>1
<1>3. \A j, k \in 2..(n - 1) : f[j] = f[k] => j = k
  BY DEF Holds
<1>4. \A x \in X : \E k \in 2..(n - 1) : f[k] = x
  BY DEF Holds
<1> HIDE DEF f, X
<1>5. f \in Bijection(2..(n - 1), X)
  BY <1>2, <1>3, <1>4, Fun_IsBij
<1>6. ExistsBijection(2..(n - 1), X)
  BY <1>5 DEF ExistsBijection
<1>7. PICK a \in Int, b \in Int, c \in Int : a = 2 /\ b = n - 1 /\ c = 0
  OBVIOUS
<1>8. IsFiniteSet(a..b) /\ Cardinality(a..b) = IF a > b THEN 0 ELSE b - a + 1
  BY ONLY FS_Interval, a \in Int, b \in Int
<1>9. Cardinality(c..b) = IF c > b THEN 0 ELSE b - c + 1
  BY ONLY FS_Interval, c \in Int, b \in Int
<1>10. Cardinality(X) = Cardinality(2..(n - 1))
  BY <1>6, <1>7, <1>8, FS_Bijection
<1>11. Cardinality(0..(n - 1)) = Cardinality(2..(n - 1)) + 2
  BY ONLY <1>1, <1>7, <1>8, <1>9, n \in Nat
<1> QED
  BY <1>10, <1>11 DEF X

\* A name in a directory leads neither to the directory nor to the one above.
LEMMA NotUp ==
  ASSUME DirInv, NEW i \in Dirs, NEW x \in Names, want[i][x] # 0
  PROVE  want[i][x] # i /\ want[i][x] # At(dir[i], 1).inode_num
<1>1. PICK rank \in [Inums -> Nat] : Below(rank)
  BY DEF DirInv, Ranked
<1>2. PICK c \in Inums : c = want[i][x] /\ i \in Inums
  BY DEF DirInv, Types, Dirs
<1>3. rank[i] < rank[c] /\ rank[i] \in Nat /\ rank[c] \in Nat
  BY <1>1, <1>2 DEF Below
<1>4. c # i
  BY <1>3
<1>5. CASE i = ROOT_INODE
  <2>1. At(dir[i], 1).inode_num = ROOT_INODE
    BY <1>5 DEF DirInv, Rooted
  <2>2. c # ROOT_INODE
    BY <1>2 DEF DirInv, Used
  <2> QED
    BY <1>2, <1>4, <2>1, <2>2
<1>6. CASE i # ROOT_INODE
  <2>1. node[i].kind = "dir" /\ i \notin pending
    BY DEF DirInv, Held, Types, Dirs
  <2>2. PICK j \in Inums, y \in Names : want[j][y] = i
    BY <1>2, <1>6, <2>1 DEF DirInv, Named
  <2>3. want[j][y] # 0
    BY <1>2, <2>2, RootInum
  <2>4. At(dir[i], 1).inode_num = j
    BY <2>2, <2>3 DEF DirInv, Used
  <2>5. rank[j] < rank[i] /\ rank[j] \in Nat
    BY <1>1, <2>2, <2>3 DEF Below
  <2>6. c # j
    BY <1>3, <2>5
  <2> QED
    BY <1>2, <1>4, <2>4, <2>6
<1> QED
  BY <1>5, <1>6

\* What readdir lists is ".", ".." and every name that was made and not removed
\* since, once each and with its inode; a read of the whole directory and a
\* search by inode number agree with it; and no page is ever malformed.
THEOREM ListingKept ==
  Spec => []ListingExact
<1>1. DirInv => ListingExact
  <2> SUFFICES ASSUME DirInv, NEW i \in Dirs
               PROVE  LET x == {n \in Names : want[i][n] # 0}
                      IN /\ ~ Malformed(i)
                         /\ Cardinality(Indices(i)) = Cardinality(x) + 2
                         /\ {EntryAt(i, k) : k \in Indices(i) \ {0, 1}} = {Entry(n, want[i][n]) : n \in x}
                         /\ EntryAt(i, 0) = Entry(".", i)
                         /\ EntryAt(i, 1).name = ".."
                         /\ Indices(i) = 0..(Len(read_dir_whole(i)) - 1)
                         /\ \A k \in Indices(i) : read_dir_whole(i)[k + 1] = EntryAt(i, k)
                         /\ \A n \in x : search_by_inum(i, want[i][n]) = Matches(i, n)
    BY DEF ListingExact
  <2>1. PICK p \in Inums, n \in Nat : Starts(dir[i], i, p) /\ Holds(dir[i], want[i], n)
    BY DEF DirInv, Listings
  <2>2. n \in Nat \ {0} /\ n > 1 /\ dir[i].size = Size(n)
    BY <2>1 DEF Holds
  <2>3. ~ Malformed(i) /\ Indices(i) = 0..(n - 1)
    BY <2>2, Listed
  <2>4. \A k : EntryAt(i, k) = At(dir[i], k)
    BY DEF EntryAt, At
  <2>5. \A k : k \in Indices(i) <=> k = 0 \/ k = 1 \/ k \in 2..(n - 1)
    BY <2>2, <2>3
  <2>6. ASSUME NEW e
        PROVE  (\E k \in Indices(i) \ {0, 1} : e = EntryAt(i, k)) <=>
               (\E x \in Names : want[i][x] # 0 /\ e = Entry(x, want[i][x]))
    <3>1. \A k : k \in Indices(i) \ {0, 1} <=> k \in 2..(n - 1)
      BY <2>5
    <3>2. ASSUME NEW k \in 2..(n - 1), e = At(dir[i], k)
          PROVE  \E x \in Names : want[i][x] # 0 /\ e = Entry(x, want[i][x])
      BY <2>1, <3>2, HoldsEach
    <3>3. ASSUME NEW x \in Names, want[i][x] # 0, e = Entry(x, want[i][x])
          PROVE  \E k \in 2..(n - 1) : e = At(dir[i], k)
      <4>1. PICK k \in 2..(n - 1) : At(dir[i], k).name = x
        BY <2>1, <3>3 DEF Holds
      <4>2. At(dir[i], k) = Entry(x, want[i][x])
        BY <2>1, <4>1, HoldsEach
      <4> QED
        BY <3>3, <4>2
    <3> QED
      BY <2>4, <3>1, <3>2, <3>3
  <2>7. {EntryAt(i, k) : k \in Indices(i) \ {0, 1}} =
        {Entry(x, want[i][x]) : x \in {y \in Names : want[i][y] # 0}}
    BY <2>6
  <2>8. Cardinality(Indices(i)) = Cardinality({y \in Names : want[i][y] # 0}) + 2
    BY <2>1, <2>3, CountNames
  <2>9. EntryAt(i, 0) = Entry(".", i) /\ EntryAt(i, 1).name = ".."
    BY <2>1, <2>4, EntryFields DEF Starts
  <2>10. /\ Len(read_dir_whole(i)) = n
         /\ \A k \in 0..(n - 1) : read_dir_whole(i)[k + 1] = At(dir[i], k)
    BY <2>2, ReadWhole
  <2>11. ASSUME NEW x \in Names, want[i][x] # 0
         PROVE  search_by_inum(i, want[i][x]) = Matches(i, x)
    <3>1. ASSUME NEW k \in 2..(n - 1)
          PROVE  At(dir[i], k).inode_num = want[i][x] <=> At(dir[i], k).name = x
      <4>1. PICK y \in Names : /\ y = At(dir[i], k).name /\ want[i][y] # 0
                               /\ At(dir[i], k).inode_num = want[i][y]
        BY <2>1, HoldsEach
      <4>2. want[i][y] = want[i][x] => y = x
        BY <4>1 DEF DirInv, Unique, Dirs
      <4> QED
        BY <4>1, <4>2
    <3>2. /\ At(dir[i], 0).inode_num # want[i][x] /\ At(dir[i], 0).name # x
          /\ At(dir[i], 1).inode_num # want[i][x] /\ At(dir[i], 1).name # x
      <4>1. /\ At(dir[i], 0).inode_num = i /\ At(dir[i], 0).name = "."
            /\ At(dir[i], 1).name = ".."
        BY <2>1, EntryFields DEF Starts
      <4>2. want[i][x] # i /\ want[i][x] # At(dir[i], 1).inode_num
        BY <2>11, NotUp
      <4>3. x # "." /\ x # ".."
        BY NameKinds
      <4> QED
        BY <4>1, <4>2, <4>3
    <3>3. ASSUME NEW k \in Indices(i)
          PROVE  EntryAt(i, k).inode_num = want[i][x] <=> EntryAt(i, k).name = x
      BY <2>4, <2>5, <3>1, <3>2
    <3> QED
      BY <3>3 DEF search_by_inum, Matches
  <2> QED
    BY <2>3, <2>4, <2>7, <2>8, <2>9, <2>10, <2>11
<1> QED
  BY <1>1, DirInvariance, PTL
=============================================================================
