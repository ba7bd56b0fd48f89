----------------------------- MODULE DiskLayout -----------------------------
(***************************************************************************)
(* The regions of the disk (layer1.c of phase 2): superblock, bitmap of    *)
(* inodes, ilist and data blocks, whose sizes mkfs computes, and the calls *)
(* that read a block, change one inode or one bit in it, and write it back.*)
(*                                                                         *)
(* A block is CELLS bits; the bitmap uses each as a bit, the ilist uses    *)
(* INODE_CELLS of them for an inode.  So a call that touches the wrong     *)
(* block, or the wrong place in it, spoils what another call reads there.  *)
(***************************************************************************)
EXTENDS Integers, FiniteSets

CONSTANTS
  CELLS,         \* BITS_PER_BLOCK
  INODE_CELLS,   \* bits of a struct inode
  INODES_SHARE,  \* one block in INODES_SHARE is for inodes (INODES_PERCENT)
  Sizes,         \* the numbers of blocks that mkfs is called with
  Fills          \* bits that inodes and data blocks are filled with

SUPERBLOCK_SIZE  == 1
MIN_BLOCKS       == SUPERBLOCK_SIZE + 3
INODES_PER_BLOCK == CELLS \div INODE_CELLS

ASSUME LayoutConstants ==
  /\ CELLS \in Nat /\ INODE_CELLS \in Nat \ {0} /\ INODE_CELLS <= CELLS
  /\ INODES_SHARE \in Nat /\ INODES_SHARE >= 3
  /\ Sizes \subseteq {n \in Nat : n >= MIN_BLOCKS}
  /\ Fills \subseteq {0, 1}

Cells == 0..(CELLS - 1)
Filled(v) == [c \in Cells |-> v]

VARIABLES
  sb,        \* the superblock: cached_superblock, equal to the one on disk
  disk,      \* the content of every block
  inodes,    \* history variable: what each inode in use should hold
  data       \* history variable: what each data block should hold

vars == <<sb, disk, inodes, data>>

-----------------------------------------------------------------------------
(* init_superblock *)

Ceil(a, b) == (a + b - 1) \div b
Larger(a, b) == IF a >= b THEN a ELSE b

\* ceil(blocks * INODES_PERCENT) in floating point, which is one too large
\* for some of the sizes that the share divides (70 * 0.1 for one)
TotalIblocks(blocks) ==
  {Larger(2, Ceil(blocks, INODES_SHARE) + x) :
     x \in IF blocks % INODES_SHARE = 0 THEN {0, 1} ELSE {0}}

\* Mutant: one block of the bitmap per CELLS blocks of the ilist
IbitmapBlocks_per_cell(total) == Ceil(total, CELLS)

\* ceil(total_iblocks / (BITS_PER_BLOCK / INODES_PER_BLOCK + 1))
IbitmapBlocks(total) == Ceil(total * INODES_PER_BLOCK, CELLS + INODES_PER_BLOCK)

\* Mutant: the data blocks start one block too early
init_superblock_early(blocks, total) ==
  LET ibitmap_blocks == IbitmapBlocks(total)
      inode_blocks   == total - ibitmap_blocks
  IN [ibitmap_block_offset |-> SUPERBLOCK_SIZE,
      ibitmap_size         |-> ibitmap_blocks,
      ilist_block_offset   |-> SUPERBLOCK_SIZE + ibitmap_blocks,
      ilist_size           |-> inode_blocks,
      data_block_offset    |-> ibitmap_blocks + inode_blocks,
      data_size            |-> blocks - SUPERBLOCK_SIZE - total,
      total_blocks         |-> blocks,
      num_inodes           |-> inode_blocks * INODES_PER_BLOCK]

init_superblock(blocks, total) ==
  LET ibitmap_blocks == IbitmapBlocks(total)
      inode_blocks   == total - ibitmap_blocks
  IN [ibitmap_block_offset |-> SUPERBLOCK_SIZE,
      ibitmap_size         |-> ibitmap_blocks,
      ilist_block_offset   |-> SUPERBLOCK_SIZE + ibitmap_blocks,
      ilist_size           |-> inode_blocks,
      data_block_offset    |-> SUPERBLOCK_SIZE + ibitmap_blocks + inode_blocks,
      data_size            |-> blocks - SUPERBLOCK_SIZE - total,
      total_blocks         |-> blocks,
      num_inodes           |-> inode_blocks * INODES_PER_BLOCK]

-----------------------------------------------------------------------------
(* Where things are *)

Inums == 1..sb.num_inodes

InodeBlock(i)   == sb.ilist_block_offset + (i - 1) \div INODES_PER_BLOCK
InodeInBlock(i) == (i - 1) % INODES_PER_BLOCK
BitBlock(i)     == sb.ibitmap_block_offset + (i - 1) \div CELLS
BitInBlock(i)   == (i - 1) % CELLS

DataBlock(b) == sb.data_block_offset + b - 1

\* The cells of an inode in its block
InodeCells(i) == {InodeInBlock(i) * INODE_CELLS + k : k \in 0..(INODE_CELLS - 1)}

\* Mutant: the whole block is written with the new inode
WithInode_block(i, v) == [disk EXCEPT ![InodeBlock(i)] = Filled(v)]

\* inode_write: read the block, copy the inode into it, write it back
WithInode(i, v) ==
  [disk EXCEPT ![InodeBlock(i)] = [c \in Cells |-> IF c \in InodeCells(i) THEN v ELSE @[c]]]

BitSet(i) == disk[BitBlock(i)][BitInBlock(i)] = 1

\* The numbers inode_create goes through: every bit of every bitmap block, in
\* order, until one is clear or beyond the last inode
Candidates == 1..(sb.ibitmap_size * CELLS)

\* Mutant: the last inode is taken to be beyond the end
FirstClear_not_last(i) == /\ i \in Candidates /\ i < sb.num_inodes
                          /\ ~ BitSet(i)
                          /\ \A j \in 1..(i - 1) : BitSet(j)

FirstClear(i) == /\ i \in Candidates /\ i <= sb.num_inodes
                 /\ ~ BitSet(i)
                 /\ \A j \in 1..(i - 1) : BitSet(j)

-----------------------------------------------------------------------------
(* The calls *)

\* mkfs: init_ibitmap clears the bitmap, the rest keeps what the disk held.
\* The superblock in block 0 is all ones here, and stays so.
Init ==
  \E blocks \in Sizes : \E total \in TotalIblocks(blocks) :
    /\ sb = init_superblock(blocks, total)
    /\ disk = [b \in 0..(blocks - 1) |->
                 IF b >= sb.ibitmap_block_offset /\ b < sb.ibitmap_block_offset + sb.ibitmap_size
                 THEN Filled(0) ELSE Filled(1)]
    /\ inodes = [i \in Inums |-> -1]
    /\ data = [b \in 1..sb.data_size |-> 1]

inode_create(i, v) ==
  /\ FirstClear(i)
  /\ disk' = [WithInode(i, v) EXCEPT ![BitBlock(i)][BitInBlock(i)] = 1]
  /\ inodes' = [inodes EXCEPT ![i] = v]
  /\ UNCHANGED <<sb, data>>

inode_write(i, v) ==
  /\ inodes[i] # -1
  /\ disk' = WithInode(i, v)
  /\ inodes' = [inodes EXCEPT ![i] = v]
  /\ UNCHANGED <<sb, data>>

inode_free(i) ==
  /\ inodes[i] # -1
  /\ disk' = [disk EXCEPT ![BitBlock(i)][BitInBlock(i)] = 0]
  /\ inodes' = [inodes EXCEPT ![i] = -1]
  /\ UNCHANGED <<sb, data>>

data_write(b, v) ==
  /\ disk' = [disk EXCEPT ![DataBlock(b)] = Filled(v)]
  /\ data' = [data EXCEPT ![b] = v]
  /\ UNCHANGED <<sb, inodes>>

Next == \/ \E i \in Inums : \/ \E v \in Fills : inode_create(i, v) \/ inode_write(i, v)
                            \/ inode_free(i)
        \/ \E b \in 1..sb.data_size, v \in Fills : data_write(b, v)

Spec == Init /\ [][Next]_vars

-----------------------------------------------------------------------------
(* Properties *)

\* The regions that init_superblock computes follow each other without
\* overlap and fill the disk; there are inodes and data blocks; and every
\* inode, every inode's bit and every data block lies in its own region, so
\* the bitmap has a bit for every inode of the ilist.
RegionsFit ==
  /\ sb.num_inodes > 0 /\ sb.data_size > 0
  /\ \A i \in Inums :
       /\ BitBlock(i) \in SUPERBLOCK_SIZE..(sb.ilist_block_offset - 1)
       /\ InodeBlock(i) \in sb.ilist_block_offset..(sb.data_block_offset - 1)
  /\ \A b \in 1..sb.data_size :
       DataBlock(b) \in sb.data_block_offset..(sb.total_blocks - 1)
  /\ DataBlock(sb.data_size) = sb.total_blocks - 1

\* An inode reads as it was written last, whatever was written since to the
\* inodes it shares its block with, to the bitmap and to the data blocks.
InodesKept == \A i \in Inums : inodes[i] # -1 =>
                \A c \in InodeCells(i) : disk[InodeBlock(i)][c] = inodes[i]

\* The bit of an inode is set exactly while it is in use, so inode_create
\* never hands out an inode twice, and it answers ILIST_FULL only when all
\* inodes that fit into the ilist are in use.
BitmapExact == /\ \A i \in Inums : BitSet(i) <=> inodes[i] # -1
               /\ (\A i \in Inums : ~ FirstClear(i)) => \A i \in Inums : inodes[i] # -1

\* Data blocks hold what their owners wrote, and block 0 the superblock.
DataKept == /\ \A b \in 1..sb.data_size : disk[DataBlock(b)] = Filled(data[b])
            /\ disk[0] = Filled(1)
=============================================================================
