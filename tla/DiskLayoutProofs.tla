-------------------------- MODULE DiskLayoutProofs --------------------------
(***************************************************************************)
(* Proofs about DiskLayout for every block size, inode size and disk size: *)
(* the arithmetic of init_superblock never makes two regions overlap and   *)
(* never leaves an inode without a bit, and the calls that change one      *)
(* inode, one bit or one data block leave all others as they are.          *)
(***************************************************************************)
EXTENDS DiskLayout, Induction

\* The numbers in the superblock
SuperblockOK == /\ sb.ibitmap_block_offset = 1
                /\ sb.ibitmap_size \in Nat /\ sb.ilist_block_offset = 1 + sb.ibitmap_size
                /\ sb.data_block_offset \in Nat /\ sb.total_blocks \in Nat
                /\ sb.num_inodes \in Nat /\ sb.data_size \in Nat
                /\ sb.num_inodes <= sb.ibitmap_size * CELLS

\* The types of the disk and of what should be on it
DiskOK == /\ disk \in [0..(sb.total_blocks - 1) -> [Cells -> {0, 1}]]
          /\ inodes \in [Inums -> {-1, 0, 1}]
          /\ data \in [1..sb.data_size -> {0, 1}]

BitsExact == \A i \in Inums : BitSet(i) <=> inodes[i] # -1

\* The inductive invariant
LInv == /\ SuperblockOK
        /\ DiskOK
        /\ RegionsFit
        /\ InodesKept
        /\ BitsExact
        /\ DataKept

-----------------------------------------------------------------------------
(* Rounding *)

\* Rounding up: the quotient is the least number of blocks that is enough.
LEMMA RoundUp ==
  ASSUME NEW a \in Nat \ {0}, NEW b \in Nat \ {0}, NEW q, q = (a + b - 1) \div b
  PROVE  q \in Nat \ {0} /\ q * b >= a /\ (q - 1) * b < a
  OBVIOUS

\* Rounding down: a number below q * b falls into one of the first q blocks.
LEMMA RoundDown ==
  ASSUME NEW a \in Nat, NEW b \in Nat \ {0}, NEW q \in Nat, a < q * b
  PROVE  a \div b \in 0..(q - 1)
<1> DEFINE d == a \div b
<1>1. d \in Nat /\ d * b <= a
  OBVIOUS
<1> HIDE DEF d
<1>2. ASSUME d >= q PROVE FALSE
  <2>1. d * b >= q * b /\ d * b \in Nat /\ q * b \in Nat
    BY <1>1, <1>2
  <2> QED
    BY <1>1, <2>1
<1>3. d \in 0..(q - 1)
  BY <1>1, <1>2
<1> QED
  BY <1>3 DEF d

\* A block holds at least one inode, and at least as many bits as inodes.
LEMMA InodesPerBlock ==
  /\ INODES_PER_BLOCK \in Nat \ {0}
  /\ INODES_PER_BLOCK <= CELLS
  /\ CELLS \in Nat \ {0}
<1>1. CELLS \in Nat /\ INODE_CELLS \in Nat \ {0} /\ INODE_CELLS <= CELLS
  BY LayoutConstants
<1>2. ASSUME NEW c \in Nat, NEW k \in Nat \ {0}, k <= c
      PROVE  c \div k \in Nat \ {0} /\ c \div k <= c
  BY <1>2
<1> QED
  BY <1>1, <1>2 DEF INODES_PER_BLOCK

-----------------------------------------------------------------------------
(* The sizes of the regions *)

\* With p inodes and c bits to a block, the blocks for the bitmap are at
\* least one, leave at least one for the ilist, and hold enough bits.
LEMMA BitmapFits ==
  ASSUME NEW p \in Nat \ {0}, NEW c \in Nat \ {0}, p <= c,
         NEW t \in Nat, t >= 2,
         NEW q, q = (t * p + (c + p) - 1) \div (c + p)
  PROVE  /\ q \in Nat \ {0}
         /\ t - q \in Nat \ {0}
         /\ (t - q) * p <= q * c
<1>1. t * p \in Nat \ {0} /\ c + p \in Nat \ {0}
  OBVIOUS
<1>2. q \in Nat \ {0} /\ q * (c + p) >= t * p /\ (q - 1) * (c + p) < t * p
  BY <1>1, RoundUp
<1>3. (t - q) * p <= q * c
  <2>1. q * (c + p) = q * c + q * p /\ (t - q) * p = t * p - q * p
    BY <1>2
  <2>2. q * c \in Int /\ q * p \in Int /\ t * p \in Int
    BY <1>2
  <2> QED
    BY <1>2, <2>1, <2>2
<1>4. q < t
  <2>1. SUFFICES ASSUME q >= t PROVE FALSE
    BY <1>2
  <2>2. (t - 1) * (c + p) <= (q - 1) * (c + p)
    BY <1>2, <2>1
  <2>3. (t - 1) * (c + p) = (t - 1) * c + t * p - p
    OBVIOUS
  <2>4. (t - 1) * c >= c /\ (t - 1) * c \in Nat
    OBVIOUS
  <2>5. (q - 1) * (c + p) \in Int /\ (t - 1) * (c + p) \in Int
    BY <1>2
  <2> QED
    BY <1>1, <1>2, <2>2, <2>3, <2>4, <2>5
<1> QED
  BY <1>2, <1>3, <1>4

\* The share for inodes is at least two blocks and leaves a data block.
LEMMA DataFits ==
  ASSUME NEW n \in Nat, n >= MIN_BLOCKS, NEW t \in TotalIblocks(n)
  PROVE  t \in Nat /\ t >= 2 /\ n - SUPERBLOCK_SIZE - t \in Nat \ {0}
<1> DEFINE s == INODES_SHARE
           q == Ceil(n, s)
<1>1. n \in Nat /\ n >= 4 /\ s \in Nat /\ s >= 3
  BY LayoutConstants DEF MIN_BLOCKS, SUPERBLOCK_SIZE
<1>2. PICK x \in IF n % s = 0 THEN {0, 1} ELSE {0} : t = Larger(2, q + x)
  BY DEF TotalIblocks
<1>3. q \in Nat \ {0} /\ (q - 1) * s < n
  <2>1. n \in Nat \ {0} /\ s \in Nat \ {0} /\ q = (n + s - 1) \div s
    BY <1>1 DEF Ceil
  <2> HIDE DEF q, s
  <2> QED
    BY <2>1, RoundUp
<1>4. n % s = 0 => q * s = n
  <2>1. SUFFICES ASSUME n % s = 0 PROVE q * s = n
    OBVIOUS
  <2>2. ASSUME NEW a \in Nat, NEW b \in Nat \ {0}, a % b = 0
        PROVE  ((a + b - 1) \div b) * b = a
    <3>1. a = (a \div b) * b /\ a \div b \in Int
      BY <2>2
    <3>2. (a + b - 1) \div b = a \div b
      BY <2>2, <3>1
    <3> QED
      BY <3>1, <3>2
  <2>3. s \in Nat \ {0} /\ q = (n + s - 1) \div s
    BY <1>1 DEF Ceil
  <2> HIDE DEF q, s
  <2> QED
    BY <1>1, <2>1, <2>2, <2>3
<1> HIDE DEF q, s
<1>5. (q - 1) * 3 < n
  <2>1. (q - 1) * 3 <= (q - 1) * s /\ (q - 1) * s \in Int
    BY <1>1, <1>3
  <2> QED
    BY <1>1, <1>3, <2>1
<1>6. n % s = 0 => q * 3 <= n
  <2>1. q * 3 <= q * s /\ q * s \in Int
    BY <1>1, <1>3
  <2> QED
    BY <1>1, <1>3, <1>4, <2>1
<1> QED
  BY <1>1, <1>2, <1>3, <1>5, <1>6 DEF Larger, SUPERBLOCK_SIZE

-----------------------------------------------------------------------------
(* mkfs *)

\* What mkfs writes into the superblock satisfies RegionsFit.
LEMMA InitRegions == Init => RegionsFit /\ SuperblockOK
<1> SUFFICES ASSUME Init PROVE RegionsFit /\ SuperblockOK
  OBVIOUS
<1>0. PICK n \in Sizes : \E x \in TotalIblocks(n) : sb = init_superblock(n, x)
  BY DEF Init
<1>1. PICK t \in TotalIblocks(n) : sb = init_superblock(n, t)
  BY <1>0
<1> DEFINE p == INODES_PER_BLOCK
           c == CELLS
           q == IbitmapBlocks(t)
<1>2. p \in Nat \ {0} /\ c \in Nat \ {0} /\ p <= c
  BY InodesPerBlock
<1>3. n \in Nat /\ t \in Nat /\ t >= 2 /\ n - 1 - t \in Nat \ {0}
  BY LayoutConstants, DataFits DEF SUPERBLOCK_SIZE
<1>4. q \in Nat \ {0} /\ t - q \in Nat \ {0} /\ (t - q) * p <= q * c
  BY <1>2, <1>3, BitmapFits DEF IbitmapBlocks, Ceil
<1>5. /\ sb.ibitmap_block_offset = 1
      /\ sb.ibitmap_size = q
      /\ sb.ilist_block_offset = 1 + q
      /\ sb.data_block_offset = 1 + q + (t - q)
      /\ sb.data_size = n - 1 - t
      /\ sb.total_blocks = n
      /\ sb.num_inodes = (t - q) * p
  BY <1>1 DEF init_superblock, SUPERBLOCK_SIZE
<1> HIDE DEF p, c, q
<1>6. (t - q) * p \in Nat \ {0} /\ q * c \in Nat
  BY <1>2, <1>4
<1>7. ASSUME NEW i \in 1..((t - q) * p)
      PROVE  (i - 1) \div c \in 0..(q - 1) /\ (i - 1) \div p \in 0..((t - q) - 1)
  <2>1. i - 1 \in Nat /\ i - 1 < (t - q) * p /\ i - 1 < q * c
    BY <1>4, <1>6
  <2> QED
    BY <1>2, <1>4, <2>1, RoundDown
<1>8. \A i \in Inums :
        /\ BitBlock(i) \in SUPERBLOCK_SIZE..(sb.ilist_block_offset - 1)
        /\ InodeBlock(i) \in sb.ilist_block_offset..(sb.data_block_offset - 1)
  <2>1. SUFFICES ASSUME NEW i \in Inums
                 PROVE  /\ BitBlock(i) \in SUPERBLOCK_SIZE..(sb.ilist_block_offset - 1)
                        /\ InodeBlock(i) \in sb.ilist_block_offset..(sb.data_block_offset - 1)
    OBVIOUS
  <2>2. i \in 1..((t - q) * p)
    BY <1>5 DEF Inums
  <2>3. BitBlock(i) = 1 + (i - 1) \div c /\ InodeBlock(i) = 1 + q + (i - 1) \div p
    BY <1>5 DEF BitBlock, InodeBlock, c, p
  <2> QED
    BY <1>3, <1>4, <1>5, <1>7, <2>2, <2>3 DEF SUPERBLOCK_SIZE
<1>9. SuperblockOK
  BY <1>3, <1>4, <1>5, <1>6 DEF SuperblockOK, c
<1> QED
  BY <1>3, <1>4, <1>5, <1>6, <1>8, <1>9 DEF RegionsFit, DataBlock

-----------------------------------------------------------------------------
(* Places on the disk *)

\* Quotient and remainder determine a number.
LEMMA QuotientAndRemainder ==
  ASSUME NEW a \in Nat, NEW b \in Nat, NEW c \in Nat \ {0}, a \div c = b \div c, a % c = b % c
  PROVE  a = b
<1>1. ASSUME NEW x \in Nat, NEW q \in Int, NEW r \in Int, q = x \div c, r = x % c
      PROVE  x = q * c + r
  BY <1>1
<1>2. PICK q \in Int, r \in Int : q = a \div c /\ r = a % c
  OBVIOUS
<1>3. a = q * c + r
  BY <1>1, <1>2, Zenon
<1>4. b = q * c + r
  BY <1>1, <1>2, Zenon
<1> QED
  BY <1>3, <1>4

\* Pieces of length k do not overlap, ...
LEMMA PiecesApart ==
  ASSUME NEW k \in Nat \ {0}, NEW m \in Nat, NEW n \in Nat, m < n,
         NEW x \in 0..(k - 1), NEW y \in 0..(k - 1)
  PROVE  m * k + x # n * k + y
<1>1. (m + 1) * k = m * k + k
  OBVIOUS
<1>2. PICK d \in Nat : n = (m + 1) + d
  <2>1. n - (m + 1) \in Nat /\ n = (m + 1) + (n - (m + 1))
    OBVIOUS
  <2> QED
    BY <2>1
<1>3. n * k = (m + 1) * k + d * k
  BY <1>2
<1>4. m * k \in Nat /\ n * k \in Nat /\ d * k \in Nat
  BY <1>2
<1> QED
  BY <1>1, <1>3, <1>4

\* ... and as many of them as go into c are within c.
LEMMA PiecesInside ==
  ASSUME NEW k \in Nat \ {0}, NEW c \in Nat, NEW m \in Nat, m < c \div k, NEW x \in 0..(k - 1)
  PROVE  m * k + x \in 0..(c - 1)
<1>1. (c \div k) * k <= c /\ c \div k \in Nat
  OBVIOUS
<1> DEFINE d == c \div k
<1> HIDE DEF d
<1>2. (m + 1) * k = m * k + k /\ m * k \in Nat
  OBVIOUS
<1>3. (m + 1) * k <= d * k
  BY <1>1 DEF d
<1>4. d * k <= c /\ d * k \in Nat
  BY <1>1 DEF d
<1> QED
  BY <1>2, <1>3, <1>4

\* An inode lies within its block.
LEMMA InodeInside ==
  ASSUME SuperblockOK, NEW i \in Inums
  PROVE  InodeInBlock(i) \in Nat /\ InodeCells(i) \subseteq Cells
<1>1. i - 1 \in Nat
  BY DEF Inums, SuperblockOK
<1>2. InodeInBlock(i) \in Nat /\ InodeInBlock(i) < CELLS \div INODE_CELLS
  BY <1>1, InodesPerBlock DEF InodeInBlock, INODES_PER_BLOCK
<1>3. \A x \in 0..(INODE_CELLS - 1) : InodeInBlock(i) * INODE_CELLS + x \in 0..(CELLS - 1)
  BY <1>2, LayoutConstants, PiecesInside
<1> QED
  BY <1>2, <1>3 DEF InodeCells, Cells

\* Two inodes of one block share no cell.
LEMMA InodesApart ==
  ASSUME SuperblockOK, NEW i \in Inums, NEW j \in Inums, i # j, InodeBlock(i) = InodeBlock(j)
  PROVE  InodeCells(i) \cap InodeCells(j) = {}
<1>1. i - 1 \in Nat /\ j - 1 \in Nat /\ i - 1 # j - 1
  BY DEF Inums, SuperblockOK
<1>2. (i - 1) \div INODES_PER_BLOCK = (j - 1) \div INODES_PER_BLOCK
  <2>1. (i - 1) \div INODES_PER_BLOCK \in Int /\ (j - 1) \div INODES_PER_BLOCK \in Int
    BY <1>1, InodesPerBlock
  <2> QED
    BY <2>1 DEF InodeBlock, SuperblockOK
<1>3. InodeInBlock(i) # InodeInBlock(j)
  BY <1>1, <1>2, InodesPerBlock, QuotientAndRemainder DEF InodeInBlock
<1>4. InodeInBlock(i) \in Nat /\ InodeInBlock(j) \in Nat
  BY InodeInside
<1>5. ASSUME NEW x \in 0..(INODE_CELLS - 1), NEW y \in 0..(INODE_CELLS - 1)
      PROVE  InodeInBlock(i) * INODE_CELLS + x # InodeInBlock(j) * INODE_CELLS + y
  <2>1. CASE InodeInBlock(i) < InodeInBlock(j)
    BY <1>4, <2>1, LayoutConstants, PiecesApart
  <2>2. CASE InodeInBlock(j) < InodeInBlock(i)
    BY <1>4, <2>2, LayoutConstants, PiecesApart
  <2> QED
    BY <1>3, <1>4, <2>1, <2>2
<1> QED
  BY <1>5 DEF InodeCells

\* An inode's bit lies within its block, and no two inodes share a bit.
LEMMA BitsApart ==
  ASSUME SuperblockOK, NEW i \in Inums
  PROVE  /\ BitInBlock(i) \in Cells
         /\ \A j \in Inums : BitBlock(i) = BitBlock(j) /\ BitInBlock(i) = BitInBlock(j) => i = j
<1>1. i - 1 \in Nat /\ CELLS \in Nat \ {0}
  BY InodesPerBlock DEF Inums, SuperblockOK
<1>2. BitInBlock(i) \in Cells
  BY <1>1 DEF BitInBlock, Cells
<1>3. ASSUME NEW j \in Inums, BitBlock(i) = BitBlock(j), BitInBlock(i) = BitInBlock(j)
      PROVE  i = j
  <2>1. j - 1 \in Nat
    BY DEF Inums, SuperblockOK
  <2>2. (i - 1) \div CELLS \in Int /\ (j - 1) \div CELLS \in Int
    BY <1>1, <2>1
  <2>3. (i - 1) \div CELLS = (j - 1) \div CELLS
    BY <1>3, <2>2 DEF BitBlock, SuperblockOK
  <2>4. i - 1 = j - 1
    BY <1>1, <1>3, <2>1, <2>3, QuotientAndRemainder DEF BitInBlock
  <2> QED
    BY <2>4 DEF Inums, SuperblockOK
<1> QED
  BY <1>2, <1>3

\* The blocks of inodes, of bits and of data are blocks of the disk, and
\* no block is of two of these kinds, nor the superblock's.
LEMMA BlocksApart ==
  ASSUME SuperblockOK, RegionsFit
  PROVE  /\ \A i \in Inums : /\ BitBlock(i) \in 1..(sb.total_blocks - 1)
                             /\ InodeBlock(i) \in 1..(sb.total_blocks - 1)
         /\ \A b \in 1..sb.data_size : DataBlock(b) \in 1..(sb.total_blocks - 1)
         /\ \A i, j \in Inums : BitBlock(i) # InodeBlock(j)
         /\ \A i \in Inums, b \in 1..sb.data_size : /\ BitBlock(i) # DataBlock(b)
                                                    /\ InodeBlock(i) # DataBlock(b)
         /\ \A a, b \in 1..sb.data_size : DataBlock(a) = DataBlock(b) => a = b
<1>1. DataBlock(sb.data_size) = sb.total_blocks - 1 /\ sb.data_size > 0
  BY DEF RegionsFit
<1>2. sb.data_block_offset <= sb.total_blocks - 1
  BY <1>1 DEF SuperblockOK, DataBlock
<1>3. sb.ilist_block_offset \in Nat /\ sb.ilist_block_offset >= 1
  BY DEF SuperblockOK
<1>4. sb.data_block_offset \in Nat /\ sb.total_blocks \in Nat /\ sb.data_size \in Nat
  BY DEF SuperblockOK
<1>5. ASSUME NEW i \in Inums
      PROVE  /\ BitBlock(i) \in 1..(sb.ilist_block_offset - 1)
             /\ InodeBlock(i) \in sb.ilist_block_offset..(sb.data_block_offset - 1)
  BY DEF RegionsFit, SUPERBLOCK_SIZE
<1>6. ASSUME NEW b \in 1..sb.data_size
      PROVE  DataBlock(b) \in sb.data_block_offset..(sb.total_blocks - 1)
  BY DEF RegionsFit
<1>7. \A i \in Inums : /\ BitBlock(i) \in 1..(sb.total_blocks - 1)
                       /\ InodeBlock(i) \in 1..(sb.total_blocks - 1)
  BY <1>2, <1>3, <1>4, <1>5
<1>8. sb.data_block_offset >= 1
  <2>1. 1 \in Inums
    BY DEF Inums, RegionsFit, SuperblockOK
  <2> QED
    BY <1>3, <1>4, <1>5, <2>1
<1>9. \A b \in 1..sb.data_size : DataBlock(b) \in 1..(sb.total_blocks - 1)
  BY <1>4, <1>6, <1>8
<1>10. \A i, j \in Inums : BitBlock(i) # InodeBlock(j)
  BY <1>3, <1>4, <1>5
<1>11. \A i \in Inums, b \in 1..sb.data_size : /\ BitBlock(i) # DataBlock(b)
                                               /\ InodeBlock(i) # DataBlock(b)
  <2> SUFFICES ASSUME NEW i \in Inums, NEW b \in 1..sb.data_size
               PROVE  BitBlock(i) # DataBlock(b) /\ InodeBlock(i) # DataBlock(b)
    OBVIOUS
  <2>1. InodeBlock(i) >= sb.ilist_block_offset /\ InodeBlock(i) < sb.data_block_offset
    BY <1>3, <1>4, <1>5
  <2>2. BitBlock(i) < sb.ilist_block_offset /\ DataBlock(b) >= sb.data_block_offset
    BY <1>3, <1>4, <1>5, <1>6
  <2>3. BitBlock(i) \in Int /\ InodeBlock(i) \in Int /\ DataBlock(b) \in Int
    BY <1>3, <1>4, <1>5, <1>6
  <2> QED
    BY <1>3, <1>4, <2>1, <2>2, <2>3
<1>12. \A a, b \in 1..sb.data_size : DataBlock(a) = DataBlock(b) => a = b
  BY <1>4 DEF DataBlock
<1> QED
  BY <1>7, <1>9, <1>10, <1>11, <1>12

-----------------------------------------------------------------------------
(* What a call changes *)

Disks == [0..(sb.total_blocks - 1) -> [Cells -> {0, 1}]]
WithBit(d, i, v) == [d EXCEPT ![BitBlock(i)][BitInBlock(i)] = v]
Bit == {0, 1}
WithData(b, v)   == [disk EXCEPT ![DataBlock(b)] = Filled(v)]

\* Writing an inode back changes no other inode, no bit and no data block.
LEMMA InodeWritten ==
  ASSUME SuperblockOK, RegionsFit, disk \in Disks, NEW i \in Inums, NEW v \in {0, 1},
         NEW d, d = WithInode(i, v)
  PROVE  /\ d \in Disks
         /\ \A j \in Inums : \A c \in InodeCells(j) :
              d[InodeBlock(j)][c] = IF j = i THEN v ELSE disk[InodeBlock(j)][c]
         /\ \A j \in Inums : d[BitBlock(j)] = disk[BitBlock(j)]
         /\ \A b \in 1..sb.data_size : d[DataBlock(b)] = disk[DataBlock(b)]
         /\ d[0] = disk[0]
<1> DEFINE B == InodeBlock(i)
           new == [c \in Cells |-> IF c \in InodeCells(i) THEN v ELSE disk[B][c]]
<1>1. B \in 1..(sb.total_blocks - 1) /\ B \in 0..(sb.total_blocks - 1) /\ B # 0
  BY BlocksApart DEF SuperblockOK
<1>2. d = [disk EXCEPT ![B] = new]
  BY DEF WithInode
<1>3. new \in [Cells -> {0, 1}]
  BY <1>1 DEF Disks
<1>4. \A b : b # B => d[b] = disk[b]
  BY <1>1, <1>2 DEF Disks
<1>5. d[B] = new
  BY <1>1, <1>2 DEF Disks
<1>6. d \in Disks
  BY <1>1, <1>2, <1>3 DEF Disks
<1>7. ASSUME NEW j \in Inums, NEW c \in InodeCells(j)
      PROVE  d[InodeBlock(j)][c] = IF j = i THEN v ELSE disk[InodeBlock(j)][c]
  <2>1. c \in Cells
    BY InodeInside
  <2>2. CASE j = i
    BY <1>5, <2>1, <2>2
  <2>3. CASE j # i /\ InodeBlock(j) = B
    <3>1. c \notin InodeCells(i)
      BY <2>3, InodesApart
    <3> QED
      BY <1>5, <2>1, <2>3, <3>1
  <2>4. CASE j # i /\ InodeBlock(j) # B
    BY <1>4, <2>4
  <2> QED
    BY <2>2, <2>3, <2>4
<1>8. \A j \in Inums : BitBlock(j) # B
  BY BlocksApart
<1>9. \A b \in 1..sb.data_size : DataBlock(b) # B
  BY BlocksApart
<1> HIDE DEF B, new
<1> QED
  BY <1>1, <1>4, <1>6, <1>7, <1>8, <1>9

\* Writing a bit back changes no other bit, no inode and no data block.
LEMMA BitWritten ==
  ASSUME SuperblockOK, RegionsFit, NEW d \in Disks, NEW i \in Inums, NEW v \in Bit,
         NEW e, e = WithBit(d, i, v)
  PROVE  /\ e \in Disks
         /\ \A j \in Inums : e[InodeBlock(j)] = d[InodeBlock(j)]
         /\ \A j \in Inums : e[BitBlock(j)][BitInBlock(j)] =
                               IF j = i THEN v ELSE d[BitBlock(j)][BitInBlock(j)]
         /\ \A b \in 1..sb.data_size : e[DataBlock(b)] = d[DataBlock(b)]
         /\ e[0] = d[0]
<1> DEFINE B == BitBlock(i)
           x == BitInBlock(i)
           new == [d[B] EXCEPT ![x] = v]
<1>1. B \in 1..(sb.total_blocks - 1) /\ B \in 0..(sb.total_blocks - 1) /\ B # 0
  BY BlocksApart DEF SuperblockOK
<1>2. e = [d EXCEPT ![B] = new]
  BY DEF WithBit
<1>3. x \in Cells /\ d[B] \in [Cells -> {0, 1}] /\ new \in [Cells -> {0, 1}]
  BY <1>1, BitsApart DEF Disks, Bit
<1>4. \A b : b # B => e[b] = d[b]
  BY <1>1, <1>2 DEF Disks
<1>5. e[B] = new
  BY <1>1, <1>2 DEF Disks
<1>6. e \in Disks
  BY <1>1, <1>2, <1>3 DEF Disks
<1>7. ASSUME NEW j \in Inums
      PROVE  e[BitBlock(j)][BitInBlock(j)] = IF j = i THEN v ELSE d[BitBlock(j)][BitInBlock(j)]
  <2>1. BitInBlock(j) \in Cells
    BY BitsApart
  <2>2. CASE j = i
    BY <1>3, <1>5, <2>2
  <2>3. CASE j # i /\ BitBlock(j) = B
    <3>1. BitInBlock(j) # x
      BY <2>3, BitsApart
    <3> QED
      BY <1>3, <1>5, <2>1, <2>3, <3>1
  <2>4. CASE j # i /\ BitBlock(j) # B
    BY <1>4, <2>4
  <2> QED
    BY <2>2, <2>3, <2>4
<1>8. \A j \in Inums : InodeBlock(j) # B
  BY BlocksApart
<1>9. \A b \in 1..sb.data_size : DataBlock(b) # B
  BY BlocksApart
<1> HIDE DEF B, x, new
<1> QED
  BY <1>1, <1>4, <1>6, <1>7, <1>8, <1>9

\* Writing a data block changes no other one, no bit and no inode.
LEMMA DataWritten ==
  ASSUME SuperblockOK, RegionsFit, disk \in Disks, NEW a \in 1..sb.data_size, NEW v \in {0, 1},
         NEW d, d = WithData(a, v)
  PROVE  /\ d \in Disks
         /\ \A j \in Inums : /\ d[InodeBlock(j)] = disk[InodeBlock(j)]
                             /\ d[BitBlock(j)] = disk[BitBlock(j)]
         /\ \A b \in 1..sb.data_size :
              d[DataBlock(b)] = IF b = a THEN Filled(v) ELSE disk[DataBlock(b)]
         /\ d[0] = disk[0]
<1> DEFINE B == DataBlock(a)
<1>1. B \in 1..(sb.total_blocks - 1) /\ B \in 0..(sb.total_blocks - 1) /\ B # 0
  BY BlocksApart DEF SuperblockOK
<1>2. Filled(v) \in [Cells -> {0, 1}]
  BY DEF Filled
<1>3. (\A b : b # B => d[b] = disk[b]) /\ d[B] = Filled(v) /\ d \in Disks
  BY <1>1, <1>2 DEF Disks, WithData
<1>4. \A j \in Inums : InodeBlock(j) # B /\ BitBlock(j) # B
  BY BlocksApart
<1>5. \A b \in 1..sb.data_size : DataBlock(b) = B => b = a
  BY BlocksApart
<1> HIDE DEF B
<1> QED
  BY <1>1, <1>3, <1>4, <1>5 DEF B

-----------------------------------------------------------------------------
(* The induction *)

\* After mkfs all bits are clear, and no inode is in use.
LEMMA InitLInv == Init => LInv
<1> SUFFICES ASSUME Init PROVE LInv
  OBVIOUS
<1>1. SuperblockOK /\ RegionsFit
  BY InitRegions
<1>2. /\ disk = [b \in 0..(sb.total_blocks - 1) |->
                   IF b >= sb.ibitmap_block_offset
                      /\ b < sb.ibitmap_block_offset + sb.ibitmap_size
                   THEN Filled(0) ELSE Filled(1)]
      /\ inodes = [i \in Inums |-> -1]
      /\ data = [b \in 1..sb.data_size |-> 1]
  BY DEF Init, init_superblock
<1>3. Filled(0) \in [Cells -> {0, 1}] /\ Filled(1) \in [Cells -> {0, 1}]
  BY DEF Filled
<1>4. DiskOK
  BY <1>2, <1>3 DEF DiskOK
<1>5. InodesKept
  BY <1>2 DEF InodesKept
<1>6. BitsExact
  <2> SUFFICES ASSUME NEW i \in Inums PROVE ~ BitSet(i) /\ inodes[i] = -1
    BY DEF BitsExact
  <2>1. BitBlock(i) \in 1..(sb.ilist_block_offset - 1) /\ BitBlock(i) \in 0..(sb.total_blocks - 1)
    BY <1>1, BlocksApart DEF RegionsFit, SUPERBLOCK_SIZE, SuperblockOK
  <2>2. disk[BitBlock(i)] = Filled(0)
    BY <1>1, <1>2, <2>1 DEF SuperblockOK
  <2>3. BitInBlock(i) \in Cells
    BY <1>1, BitsApart
  <2> QED
    BY <1>2, <2>2, <2>3 DEF BitSet, Filled
<1>7. DataKept
  <2>1. 0 \in 0..(sb.total_blocks - 1) /\ disk[0] = Filled(1)
    <3>1. DataBlock(sb.data_size) \in 1..(sb.total_blocks - 1)
      BY <1>1, BlocksApart DEF SuperblockOK, RegionsFit
    <3>2. 0 \in 0..(sb.total_blocks - 1)
      BY <1>1, <3>1 DEF SuperblockOK
    <3> QED
      BY <1>1, <1>2, <3>2 DEF SuperblockOK
  <2>2. ASSUME NEW b \in 1..sb.data_size PROVE disk[DataBlock(b)] = Filled(1)
    <3>1. /\ DataBlock(b) \in sb.data_block_offset..(sb.total_blocks - 1)
          /\ DataBlock(b) \in 0..(sb.total_blocks - 1)
      BY <1>1, BlocksApart DEF RegionsFit, SuperblockOK
    <3>2. sb.data_block_offset >= 1 + sb.ibitmap_size
      <4>1. 1 \in Inums
        BY <1>1 DEF Inums, RegionsFit, SuperblockOK
      <4>2. InodeBlock(1) \in sb.ilist_block_offset..(sb.data_block_offset - 1)
        BY <1>1, <4>1 DEF RegionsFit
      <4> QED
        BY <1>1, <4>2 DEF SuperblockOK
    <3> QED
      BY <1>1, <1>2, <3>1, <3>2 DEF SuperblockOK
  <2> QED
    BY <1>2, <2>1, <2>2 DEF DataKept
<1> QED
  BY <1>1, <1>4, <1>5, <1>6, <1>7 DEF LInv

\* No call changes the superblock, and with it no place on the disk.
LEMMA SameLayout ==
  ASSUME [Next]_vars
  PROVE  /\ sb' = sb /\ Inums' = Inums /\ Disks' = Disks
         /\ \A i : /\ InodeBlock(i)' = InodeBlock(i) /\ InodeCells(i)' = InodeCells(i)
                   /\ BitBlock(i)' = BitBlock(i) /\ BitInBlock(i)' = BitInBlock(i)
         /\ \A b : DataBlock(b)' = DataBlock(b)
         /\ SuperblockOK' = SuperblockOK /\ RegionsFit' = RegionsFit
<1>1. sb' = sb
  BY DEF Next, inode_create, inode_write, inode_free, data_write, vars
<1> QED
  BY <1>1 DEF Inums, Disks, InodeBlock, InodeCells, InodeInBlock, BitBlock, BitInBlock, DataBlock,
     SuperblockOK, RegionsFit

\* Every call keeps the invariant.
LEMMA NextLInv == LInv /\ [Next]_vars => LInv'
<1> SUFFICES ASSUME LInv, [Next]_vars PROVE LInv'
  OBVIOUS
<1>1. /\ sb' = sb /\ Inums' = Inums /\ Disks' = Disks
      /\ \A i : /\ InodeBlock(i)' = InodeBlock(i) /\ InodeCells(i)' = InodeCells(i)
                /\ BitBlock(i)' = BitBlock(i) /\ BitInBlock(i)' = BitInBlock(i)
      /\ \A b : DataBlock(b)' = DataBlock(b)
      /\ SuperblockOK' /\ RegionsFit'
  BY SameLayout DEF LInv
<1>2. SuperblockOK /\ RegionsFit /\ disk \in Disks /\ InodesKept /\ BitsExact /\ DataKept
      /\ inodes \in [Inums -> {-1, 0, 1}] /\ data \in [1..sb.data_size -> {0, 1}]
  BY DEF LInv, DiskOK, Disks
<1>3. Fills \subseteq {0, 1}
  BY LayoutConstants
<1>4. SUFFICES /\ disk' \in Disks
               /\ inodes' \in [Inums -> {-1, 0, 1}] /\ data' \in [1..sb.data_size -> {0, 1}]
               /\ \A j \in Inums : /\ inodes'[j] # -1 =>
                                        \A c \in InodeCells(j) :
                                          disk'[InodeBlock(j)][c] = inodes'[j]
                                   /\ disk'[BitBlock(j)][BitInBlock(j)] = 1 <=> inodes'[j] # -1
               /\ \A b \in 1..sb.data_size : disk'[DataBlock(b)] = Filled(data'[b])
               /\ disk'[0] = Filled(1)
  BY <1>1 DEF LInv, DiskOK, Disks, InodesKept, BitsExact, BitSet, DataKept, Filled
<1>5. /\ \A j \in Inums : /\ inodes[j] # -1 =>
                               \A c \in InodeCells(j) : disk[InodeBlock(j)][c] = inodes[j]
                          /\ disk[BitBlock(j)][BitInBlock(j)] = 1 <=> inodes[j] # -1
      /\ \A b \in 1..sb.data_size : disk[DataBlock(b)] = Filled(data[b])
      /\ disk[0] = Filled(1)
  BY <1>2 DEF InodesKept, BitsExact, BitSet, DataKept
<1>6. ASSUME NEW i \in Inums, NEW v \in Fills, inode_create(i, v) PROVE <1>4!1
  <2>1. PICK d : d = WithInode(i, v)
    OBVIOUS
  <2>2. /\ disk' = WithBit(d, i, 1)
        /\ inodes' = [inodes EXCEPT ![i] = v] /\ data' = data
    BY <1>6, <2>1 DEF inode_create, WithBit
  <2>3. v \in {0, 1} /\ v # -1
    BY <1>3
  <2>4. /\ d \in Disks
        /\ \A j \in Inums : \A c \in InodeCells(j) :
             d[InodeBlock(j)][c] = IF j = i THEN v ELSE disk[InodeBlock(j)][c]
        /\ \A j \in Inums : d[BitBlock(j)] = disk[BitBlock(j)]
        /\ \A b \in 1..sb.data_size : d[DataBlock(b)] = disk[DataBlock(b)]
        /\ d[0] = disk[0]
    BY <1>2, <2>1, <2>3, InodeWritten
  <2>5. /\ disk' \in Disks
        /\ \A j \in Inums : disk'[InodeBlock(j)] = d[InodeBlock(j)]
        /\ \A j \in Inums : disk'[BitBlock(j)][BitInBlock(j)] =
                              IF j = i THEN 1 ELSE d[BitBlock(j)][BitInBlock(j)]
        /\ \A b \in 1..sb.data_size : disk'[DataBlock(b)] = d[DataBlock(b)]
        /\ disk'[0] = d[0]
    <3>1. PICK one : one = 1
      OBVIOUS
    <3>2. one \in Bit /\ disk' = WithBit(d, i, one) /\ d \in Disks
      BY <1>2, <2>2, <2>4, <3>1 DEF Bit
    <3>3. /\ disk' \in Disks
          /\ \A j \in Inums : disk'[InodeBlock(j)] = d[InodeBlock(j)]
          /\ \A j \in Inums : disk'[BitBlock(j)][BitInBlock(j)] =
                                IF j = i THEN one ELSE d[BitBlock(j)][BitInBlock(j)]
          /\ \A b \in 1..sb.data_size : disk'[DataBlock(b)] = d[DataBlock(b)]
          /\ disk'[0] = d[0]
      BY <1>2, <3>2, BitWritten
    <3> QED
      BY <3>1, <3>3
  <2>6. inodes' \in [Inums -> {-1, 0, 1}] /\ \A j \in Inums : inodes'[j] = IF j = i THEN v ELSE inodes[j]
    BY <1>2, <2>2, <2>3
  <2>7. ASSUME NEW j \in Inums, inodes'[j] # -1, NEW c \in InodeCells(j)
        PROVE  disk'[InodeBlock(j)][c] = inodes'[j]
    BY <2>7, <1>5, <2>4, <2>5, <2>6
  <2>8. ASSUME NEW j \in Inums PROVE disk'[BitBlock(j)][BitInBlock(j)] = 1 <=> inodes'[j] # -1
    BY <1>5, <2>3, <2>4, <2>5, <2>6
  <2>9. /\ \A x \in 1..sb.data_size : disk'[DataBlock(x)] = Filled(data'[x])
        /\ disk'[0] = Filled(1)
    BY <1>5, <2>2, <2>4, <2>5
  <2> QED
    BY <1>2, <2>2, <2>5, <2>6, <2>7, <2>8, <2>9
<1>7. ASSUME NEW i \in Inums, NEW v \in Fills, inode_write(i, v) PROVE <1>4!1
  <2>1. disk' = WithInode(i, v) /\ inodes' = [inodes EXCEPT ![i] = v] /\ data' = data
        /\ inodes[i] # -1
    BY <1>7 DEF inode_write
  <2>2. v \in {0, 1} /\ v # -1
    BY <1>3
  <2>3. /\ disk' \in Disks
        /\ \A j \in Inums : \A c \in InodeCells(j) :
             disk'[InodeBlock(j)][c] = IF j = i THEN v ELSE disk[InodeBlock(j)][c]
        /\ \A j \in Inums : disk'[BitBlock(j)] = disk[BitBlock(j)]
        /\ \A b \in 1..sb.data_size : disk'[DataBlock(b)] = disk[DataBlock(b)]
        /\ disk'[0] = disk[0]
    BY <1>2, <2>1, <2>2, InodeWritten
  <2>4. inodes' \in [Inums -> {-1, 0, 1}] /\ \A j \in Inums : inodes'[j] = IF j = i THEN v ELSE inodes[j]
    BY <1>2, <2>1, <2>2
  <2>5. ASSUME NEW j \in Inums, inodes'[j] # -1, NEW c \in InodeCells(j)
        PROVE  disk'[InodeBlock(j)][c] = inodes'[j]
    BY <2>5, <1>5, <2>3, <2>4
  <2>6. ASSUME NEW j \in Inums PROVE disk'[BitBlock(j)][BitInBlock(j)] = 1 <=> inodes'[j] # -1
    BY <1>5, <2>1, <2>2, <2>3, <2>4
  <2>7. /\ \A x \in 1..sb.data_size : disk'[DataBlock(x)] = Filled(data'[x])
        /\ disk'[0] = Filled(1)
    BY <1>5, <2>1, <2>3
  <2> QED
    BY <1>2, <2>1, <2>3, <2>4, <2>5, <2>6, <2>7
<1>8. ASSUME NEW i \in Inums, inode_free(i) PROVE <1>4!1
  <2>1. /\ disk' = WithBit(disk, i, 0)
        /\ inodes' = [inodes EXCEPT ![i] = -1] /\ data' = data
    BY <1>8 DEF inode_free, WithBit
  <2>2. /\ disk' \in Disks
        /\ \A j \in Inums : disk'[InodeBlock(j)] = disk[InodeBlock(j)]
        /\ \A j \in Inums : disk'[BitBlock(j)][BitInBlock(j)] =
                              IF j = i THEN 0 ELSE disk[BitBlock(j)][BitInBlock(j)]
        /\ \A b \in 1..sb.data_size : disk'[DataBlock(b)] = disk[DataBlock(b)]
        /\ disk'[0] = disk[0]
    <3>1. PICK zero : zero = 0
      OBVIOUS
    <3>2. zero \in Bit /\ disk' = WithBit(disk, i, zero) /\ disk \in Disks
      BY <1>2, <2>1, <3>1 DEF Bit
    <3>3. /\ disk' \in Disks
          /\ \A j \in Inums : disk'[InodeBlock(j)] = disk[InodeBlock(j)]
          /\ \A j \in Inums : disk'[BitBlock(j)][BitInBlock(j)] =
                                IF j = i THEN zero ELSE disk[BitBlock(j)][BitInBlock(j)]
          /\ \A b \in 1..sb.data_size : disk'[DataBlock(b)] = disk[DataBlock(b)]
          /\ disk'[0] = disk[0]
      BY <1>2, <3>2, BitWritten
    <3> QED
      BY <3>1, <3>3
  <2>3. inodes' \in [Inums -> {-1, 0, 1}] /\ \A j \in Inums : inodes'[j] = IF j = i THEN -1 ELSE inodes[j]
    BY <1>2, <2>1
  <2>4. ASSUME NEW j \in Inums, inodes'[j] # -1, NEW c \in InodeCells(j)
        PROVE  disk'[InodeBlock(j)][c] = inodes'[j]
    BY <2>4, <1>5, <2>2, <2>3
  <2>5. ASSUME NEW j \in Inums PROVE disk'[BitBlock(j)][BitInBlock(j)] = 1 <=> inodes'[j] # -1
    BY <1>5, <2>2, <2>3
  <2>6. /\ \A x \in 1..sb.data_size : disk'[DataBlock(x)] = Filled(data'[x])
        /\ disk'[0] = Filled(1)
    BY <1>5, <2>1, <2>2
  <2> QED
    BY <1>2, <2>1, <2>2, <2>3, <2>4, <2>5, <2>6
<1>9. ASSUME NEW b \in 1..sb.data_size, NEW v \in Fills, data_write(b, v) PROVE <1>4!1
  <2>1. /\ disk' = WithData(b, v)
        /\ data' = [data EXCEPT ![b] = v] /\ inodes' = inodes
    BY <1>9 DEF data_write, WithData
  <2>2. /\ disk' \in Disks
        /\ \A j \in Inums : /\ disk'[InodeBlock(j)] = disk[InodeBlock(j)]
                            /\ disk'[BitBlock(j)] = disk[BitBlock(j)]
        /\ \A a \in 1..sb.data_size :
             disk'[DataBlock(a)] = IF a = b THEN Filled(v) ELSE disk[DataBlock(a)]
        /\ disk'[0] = disk[0]
    BY <1>2, <1>3, <2>1, DataWritten
  <2>3. /\ data' \in [1..sb.data_size -> {0, 1}]
        /\ \A a \in 1..sb.data_size : data'[a] = IF a = b THEN v ELSE data[a]
    BY <1>2, <1>3, <2>1
  <2>4. ASSUME NEW j \in Inums, inodes'[j] # -1, NEW c \in InodeCells(j)
        PROVE  disk'[InodeBlock(j)][c] = inodes'[j]
    BY <2>4, <1>5, <2>1, <2>2
  <2>5. ASSUME NEW j \in Inums PROVE disk'[BitBlock(j)][BitInBlock(j)] = 1 <=> inodes'[j] # -1
    BY <1>5, <2>1, <2>2
  <2>6. /\ \A x \in 1..sb.data_size : disk'[DataBlock(x)] = Filled(data'[x])
        /\ disk'[0] = Filled(1)
    BY <1>5, <2>2, <2>3
  <2> QED
    BY <1>2, <2>1, <2>2, <2>3, <2>4, <2>5, <2>6
<1>10. CASE UNCHANGED vars
  BY <1>2, <1>5, <1>10 DEF vars
<1> QED
  BY <1>6, <1>7, <1>8, <1>9, <1>10 DEF Next

-----------------------------------------------------------------------------
(* Theorems *)

\* The inductive invariant holds in every reachable state.
THEOREM LayoutInvariance == Spec => []LInv
  BY InitLInv, NextLInv, PTL DEF Spec

\* For every block size, inode size and disk size, mkfs lays the disk out so
\* that every inode has its place and its bit, every data block its place,
\* and nothing overlaps; no later call changes the layout.
THEOREM LayoutSound == Spec => []RegionsFit
<1>1. LInv => RegionsFit
  BY DEF LInv
<1> QED
  BY <1>1, LayoutInvariance, PTL

\* An inode reads as it was written last, however many inodes share a block
\* and whatever inode_create, inode_write and inode_free did to the others.
THEOREM InodesSafe == Spec => []InodesKept
<1>1. LInv => InodesKept
  BY DEF LInv
<1> QED
  BY <1>1, LayoutInvariance, PTL

\* No write of an inode or of a bit reaches a data block or the superblock.
THEOREM DataSafe == Spec => []DataKept
<1>1. LInv => DataKept
  BY DEF LInv
<1> QED
  BY <1>1, LayoutInvariance, PTL

\* The bits are exact, and the search of inode_create for a clear one finds an
\* inode as long as there is one: the least number whose bit is clear is a
\* candidate, because the bitmap has a bit for every inode.
THEOREM BitmapSound == Spec => []BitmapExact
<1>1. LInv => BitmapExact
  <2> SUFFICES ASSUME LInv PROVE BitmapExact
    OBVIOUS
  <2>1. BitsExact /\ SuperblockOK
    BY DEF LInv
  <2>2. ASSUME NEW k \in Inums, inodes[k] = -1 PROVE \E i \in Inums : FirstClear(i)
    <3> DEFINE T == {i \in Inums : ~ BitSet(i)}
    <3>1. T \subseteq Nat /\ T # {}
      BY <2>1, <2>2 DEF BitsExact, Inums
    <3>2. PICK i \in T : \A j \in T : i <= j
      BY <3>1, LeastMember
    <3>3. i \in Inums /\ ~ BitSet(i) /\ i <= sb.num_inodes /\ i \in Nat
      BY <2>1 DEF Inums, SuperblockOK
    <3>4. \A j \in 1..(i - 1) : BitSet(j)
      <4> SUFFICES ASSUME NEW j \in 1..(i - 1), ~ BitSet(j) PROVE FALSE
        OBVIOUS
      <4>1. j \in Inums /\ j \in Nat /\ j < i
        BY <2>1, <3>3 DEF Inums, SuperblockOK
      <4> QED
        BY <3>2, <3>3, <4>1
    <3>5. i \in Candidates
      <4>1. sb.ibitmap_size * CELLS \in Nat
        BY <2>1, LayoutConstants DEF SuperblockOK
      <4> QED
        BY <2>1, <3>3, <4>1 DEF Candidates, Inums, SuperblockOK
    <3> QED
      BY <3>3, <3>4, <3>5 DEF FirstClear
  <2> QED
    BY <2>1, <2>2 DEF BitsExact, BitmapExact
<1> QED
  BY <1>1, LayoutInvariance, PTL
=============================================================================
