------------------------------ MODULE FileData ------------------------------
(***************************************************************************)
(* File contents (layer2.c of phase 2): the tree of direct and indirect    *)
(* blocks that get_nth_datablock grows and rm_nth_datablock prunes, and    *)
(* read_i, write_i, trunc_fs and del on top of it, with the free list of   *)
(* layer1.c below.                                                         *)
(*                                                                         *)
(* A block is BLOCK_SIZE cells, and a cell is both a byte of a file and an *)
(* address, so one array of cells is a data block, an address_block or a   *)
(* freelist_node (cell 0 is next) as whoever reads it decides.  A call of  *)
(* the single-threaded file system is one step; FreeList looks inside      *)
(* data_allocate and data_free.                                            *)
(***************************************************************************)
EXTENDS Integers, SequencesExt

CONSTANTS
  DataSize,      \* sb.data_size
  BLOCK_SIZE,    \* cells of a block
  NUM_DIRECT,    \* direct blocks of an inode
  TRUNC_BLOCKS,  \* blocks that trunc_fs overwrites per write_i (10 in the code)
  Inums,         \* the inodes
  Writes,        \* the arguments <<offset, buf>> of the write_i calls
  Appends,       \* the buffers written through descriptors with O_APPEND
  Offsets,       \* the arguments of the trunc_fs calls
  SHRINK,        \* TRUE when some trunc_fs call takes a block from a file that stays
  Past,          \* what the memory behind the buffer of a write_i may hold
  MAX_GROWN      \* bound: add_dirent and O_APPEND grow a file to this size

ASSUME FileConstants ==
  /\ DataSize \in Nat \ {0} /\ BLOCK_SIZE \in Nat \ {0, 1}
  /\ NUM_DIRECT \in Nat \ {0} /\ TRUNC_BLOCKS \in Nat \ {0}
  /\ SHRINK \in BOOLEAN /\ MAX_GROWN \in Nat

Cells == 0..(BLOCK_SIZE - 1)
Data  == 1..DataSize
Zero  == [c \in Cells |-> 0]

SUCCESS       == 0
INVALID_BLOCK == -2
DATA_FULL     == -1004

\* The levels, pointers and indices of a block number
INSTANCE BlockPath WITH ADDRESSES_PER_BLOCK <- BLOCK_SIZE

NewInode(dir) == [dir |-> dir, size |-> 0, ptr |-> [p \in Pointers |-> 0]]

VARIABLES
  fs,     \* the disk: free_list_head, data blocks, ilist and ibitmap
  want    \* history variable: the bytes each file should have

vars == <<fs, want>>

-----------------------------------------------------------------------------
(* layer1.c, as functions from disk to disk *)

data_read(d, b) == IF b = 0 THEN Zero ELSE d.blk[b]

\* The slots of the node at loc that hold an address, and the others
UsedSlots(d, loc)  == {i \in Cells \ {0} : d.blk[loc][i] # 0}
EmptySlots(d, loc) == {i \in Cells \ {0} : d.blk[loc][i] = 0}

\* Hand out the address in slot i of the head node
TakeSlot(d, data, i) ==
  LET num == d.blk[d.head][i]
  IN [d |-> [d EXCEPT !.blk[d.head][i] = 0, !.blk[num] = data], num |-> num]

\* Mutant: the head node itself is never handed out
data_allocate_keeps_head(d, data) ==
  IF d.head = 0 \/ UsedSlots(d, d.head) = {} THEN [d |-> d, num |-> DATA_FULL]
  ELSE TakeSlot(d, data, Min(UsedSlots(d, d.head)))

data_allocate(d, data) ==
  CASE d.head = 0 -> [d |-> d, num |-> DATA_FULL]
    [] d.head # 0 /\ UsedSlots(d, d.head) # {} ->
         TakeSlot(d, data, Min(UsedSlots(d, d.head)))
    [] OTHER -> [d |-> [d EXCEPT !.head = d.blk[d.head][0], !.blk[d.head] = data],
                 num |-> d.head]

RECURSIVE FreeFrom(_, _, _)
\* The scan of data_free, from the node at loc on
FreeFrom(d, b, loc) ==
  CASE loc = 0 -> [d EXCEPT !.head = b, !.blk[b] = [Zero EXCEPT ![0] = d.head]]
    [] loc # 0 /\ EmptySlots(d, loc) # {} ->
         [d EXCEPT !.blk[loc][Min(EmptySlots(d, loc))] = b]
    [] OTHER -> FreeFrom(d, b, d.blk[loc][0])

data_free(d, b) == FreeFrom(d, b, d.head)

-----------------------------------------------------------------------------
(* The tree of a file *)

RECURSIVE Reach(_, _, _, _)
\* The block of level j on the way to block n, 0 when the way ends before it
Reach(d, ino, n, j) ==
  IF j = Level(n) THEN ino.ptr[Pointer(n)]
  ELSE data_read(d, Reach(d, ino, n, j + 1))[Index(n, j + 1)]

RECURSIVE CreateBelow(_, _, _, _), CreateChild(_, _, _, _, _)
\* The loop of get_nth_datablock with create: from block addr of level j down
CreateBelow(r, n, addr, j) ==
  CASE j = -1 -> [r EXCEPT !.num = addr]
    [] j >= 0 /\ r.d.blk[addr][Index(n, j)] # 0 ->
         CreateBelow(r, n, r.d.blk[addr][Index(n, j)], j - 1)
    [] OTHER -> CreateChild(r, n, addr, j, data_allocate(r.d, Zero))

\* The block a that was allocated goes into the address block at addr
CreateChild(r, n, addr, j, a) ==
  IF a.num = DATA_FULL THEN [r EXCEPT !.num = DATA_FULL]
  ELSE CreateBelow([r EXCEPT !.d = [a.d EXCEPT !.blk[addr][Index(n, j)] = a.num],
                             !.created = TRUE],
                   n, a.num, j - 1)

\* The block a that was allocated goes into the inode
CreateRoot(r, n, a) ==
  IF a.num = DATA_FULL THEN [r EXCEPT !.num = DATA_FULL]
  ELSE CreateBelow([r EXCEPT !.d = a.d, !.ino.ptr[Pointer(n)] = a.num, !.created = TRUE],
                   n, a.num, Level(n))

\* get_nth_datablock(inod, n, FALSE, NULL)
get_nth_datablock(d, ino, n) ==
  IF TooLarge(n) THEN INVALID_BLOCK ELSE Reach(d, ino, n, -1)

\* get_nth_datablock(inod, n, TRUE, &created)
create_nth_datablock(d, ino, n) ==
  LET r == [d |-> d, ino |-> ino, num |-> 0, created |-> FALSE]
  IN CASE TooLarge(n) -> [r EXCEPT !.num = INVALID_BLOCK]
       [] ~ TooLarge(n) /\ ino.ptr[Pointer(n)] # 0 ->
            CreateBelow(r, n, ino.ptr[Pointer(n)], Level(n))
       [] OTHER -> CreateRoot(r, n, data_allocate(d, Zero))

\* The pointer of the inode goes, and the block it pointed to
PruneRoot(d, ino, p) ==
  [d   |-> IF ino.ptr[p] # 0 THEN data_free(d, ino.ptr[p]) ELSE d,
   ino |-> [ino EXCEPT !.ptr[p] = 0],
   ret |-> SUCCESS]

\* Address k of the address block at b goes, and the block it pointed to
PruneAddress(d, b, k) ==
  IF d.blk[b][k] = 0 THEN d
  ELSE [data_free(d, d.blk[b][k]) EXCEPT !.blk[b] = [d.blk[b] EXCEPT ![k] = 0]]

\* Mutant: the address block stays when its last address goes
PruneLeaf(d, ino, n, j) ==
  IF j > Level(n) THEN PruneRoot(d, ino, Pointer(n))
  ELSE [d   |-> PruneAddress(d, Reach(d, ino, n, j), Index(n, j)),
        ino |-> ino, ret |-> SUCCESS]

\* Mutant: the address block goes although it still holds addresses
PruneBranch(d, ino, n, j) == PruneRoot(d, ino, Pointer(n))

RECURSIVE Prune(_, _, _, _), PruneUp(_, _, _, _, _)
\* The deleting loop of rm_nth_datablock at level j, then the inode's pointer
Prune(d, ino, n, j) ==
  IF j > Level(n) THEN PruneRoot(d, ino, Pointer(n))
  ELSE PruneUp(PruneAddress(d, Reach(d, ino, n, j), Index(n, j)), ino, n, j,
               Reach(d, ino, n, j))

\* The loop goes on above the block at b only if that holds nothing any more
PruneUp(d, ino, n, j, b) ==
  IF d.blk[b] # Zero THEN [d |-> d, ino |-> ino, ret |-> SUCCESS]
  ELSE Prune(d, ino, n, j + 1)

\* The loop starts at the lowest address block that is there
rm_nth_datablock(d, ino, n) ==
  IF TooLarge(n) THEN [d |-> d, ino |-> ino, ret |-> INVALID_BLOCK]
  ELSE Prune(d, ino, n, Min({j \in 0..(Level(n) + 1) :
                               j > Level(n) \/ Reach(d, ino, n, j) # 0}))

-----------------------------------------------------------------------------
(* read_i, write_i, trunc_fs, del *)

\* read_i: the count, or an error, and the bytes
read_i(d, inum, offset, size) ==
  LET ino       == d.inode[inum]
      len       == IF offset >= ino.size THEN 0 ELSE Min({ino.size - offset, size})
      start     == offset \div BLOCK_SIZE
      end       == (offset + len - 1) \div BLOCK_SIZE
      from(i)   == IF i = start THEN offset % BLOCK_SIZE ELSE 0
      upto(i)   == IF i = end THEN ((offset + len - 1) % BLOCK_SIZE) + 1 ELSE BLOCK_SIZE
      addr(i)   == get_nth_datablock(d, ino, i)
      part(i)   == [k \in 1..(upto(i) - from(i)) |-> data_read(d, addr(i))[from(i) + k - 1]]
  IN CASE len = 0 -> [ret |-> 0, buf |-> <<>>]
       [] len > 0 /\ (\E i \in start..end : addr(i) = INVALID_BLOCK) ->
            [ret |-> INVALID_BLOCK, buf |-> <<>>]
       [] OTHER -> [ret |-> len,
                    buf |-> FlattenSeq([x \in 1..(end - start + 1) |-> part(start + x - 1)])]

\* The byte the zero test of write_i looks at; behind the buffer it is c.past
TestedByte(c, k) == IF k < Len(c.buf) THEN c.buf[k + 1] ELSE c.past

\* memcmp(buf + write_start, zero_block, write_size - write_start) == 0
all_zeros(c, write_start, write_size, bytes_written) ==
  \A k \in write_start..(write_size - 1) : TestedByte(c, k) = 0

\* What block i holds when g, the block from get_nth_datablock, has room for
\* it: the bytes of w over the old ones, or nothing if all are zero then
StoreBlock(g, i, w, new) ==
  IF ~ w.whole /\ new = Zero THEN rm_nth_datablock(g.d, g.ino, i)
  ELSE [d |-> [g.d EXCEPT !.blk[g.num] = new], ino |-> g.ino, ret |-> SUCCESS]

\* get_nth_datablock gave g for block i
FillBlock(g, i, w) ==
  CASE g.num = INVALID_BLOCK -> [d |-> g.d, ino |-> g.ino, ret |-> INVALID_BLOCK]
    [] g.num = DATA_FULL ->
         [rm_nth_datablock(g.d, g.ino, i) EXCEPT !.ret = IF w.zeros THEN SUCCESS ELSE DATA_FULL]
    [] OTHER ->
         StoreBlock(g, i, w,
                    [x \in Cells |-> IF x \in w.from..(w.upto - 1) THEN w.bytes[x - w.from + 1]
                                     ELSE IF g.created THEN 0 ELSE g.d.blk[g.num][x]])

\* The body of the loop of write_i: a block of zeros is removed
WriteBlock(d, ino, i, w) ==
  IF w.whole /\ w.zeros
  THEN [rm_nth_datablock(d, ino, i) EXCEPT !.ret = SUCCESS]
  ELSE FillBlock(create_nth_datablock(d, ino, i), i, w)

RECURSIVE WriteFrom(_, _, _, _, _, _), WriteRest(_, _, _, _, _)
\* The loop from block i on; ino is the local copy of the inode
WriteFrom(c, d, ino, i, write_start, bytes_written) ==
  LET write_size == IF i = c.end_block THEN c.end_size ELSE BLOCK_SIZE
      written    == bytes_written + write_size - write_start
  IN IF i > c.end_block THEN [d |-> d, ret |-> bytes_written, done |-> bytes_written]
     ELSE WriteRest(c, WriteBlock(d, ino, i,
                         [from  |-> write_start, upto |-> write_size,
                          whole |-> write_start = 0 /\ write_size = BLOCK_SIZE,
                          zeros |-> all_zeros(c, write_start, write_size, bytes_written),
                          bytes |-> SubSeq(c.buf, bytes_written + 1, written)]),
                    i, bytes_written, written)

\* A failure ends the call before the inode is written
WriteRest(c, r, i, before, written) ==
  IF r.ret # SUCCESS THEN [d |-> r.d, ret |-> r.ret, done |-> before]
  ELSE LET ino == [r.ino EXCEPT !.size = Max({c.size, c.offset + written})]
       IN WriteFrom(c, [r.d EXCEPT !.inode[c.inum] = ino], ino, i + 1, 0, written)

\* past: what the memory behind buf holds
write_i(d, inum, buf, offset, past) ==
  WriteFrom([inum |-> inum, buf |-> buf, offset |-> offset, past |-> past,
             size |-> d.inode[inum].size,
             end_block |-> (offset + Len(buf) - 1) \div BLOCK_SIZE,
             end_size  |-> ((offset + Len(buf) - 1) % BLOCK_SIZE) + 1],
            d, d.inode[inum], offset \div BLOCK_SIZE, offset % BLOCK_SIZE, 0)

RECURSIVE ZeroFrom(_, _, _, _)
\* The loop of trunc_fs: overwrite with zeros until at or behind the old end
ZeroFrom(d, inum, offset, size) ==
  IF offset >= size THEN d
  ELSE LET len == TRUNC_BLOCKS * BLOCK_SIZE
       IN ZeroFrom(write_i(d, inum, [k \in 1..len |-> 0], offset, 0).d, inum, offset + len, size)

\* my_inode is read once, and its pointers are written back at the end
trunc_fs(d, inum, offset) ==
  LET my_inode == d.inode[inum]
      zeroed   == IF offset > my_inode.size THEN d
                  ELSE ZeroFrom(d, inum, offset, my_inode.size)
  IN [zeroed EXCEPT !.inode[inum] = [my_inode EXCEPT !.size = offset]]

\* What the ilist keeps in a free inode is overwritten before it is read
inode_free(d, inum) == [d EXCEPT !.ibitmap = @ \ {inum}, !.inode[inum] = NewInode(FALSE)]

\* Mutant: the blocks are not given back
del_inode_only(d, inum) == inode_free(d, inum)

del(d, inum) == inode_free(trunc_fs(d, inum, 0), inum)

\* The first clear bit of the ibitmap, if there is one
FreeInums == Inums \ fs.ibitmap
inode_create(d, inum, ino) ==
  [d EXCEPT !.ibitmap = @ \cup {inum}, !.inode[inum] = ino]

-----------------------------------------------------------------------------
(* The calls *)

\* Mutant: one block more than there are
OrInvalid_off_by_one(b) == IF b <= DataSize + 1 THEN b ELSE 0

\* The free list init_freelist builds: the nodes, then the addresses they list
OrInvalid(b) == IF b <= DataSize THEN b ELSE 0
BuiltBlock(b) == IF b % BLOCK_SIZE # 1 THEN Zero
                 ELSE [c \in Cells |-> OrInvalid(IF c = 0 THEN b + BLOCK_SIZE ELSE b + c)]

Init == /\ fs = [head |-> 1, blk |-> [b \in Data |-> BuiltBlock(b)],
                 inode |-> [i \in Inums |-> NewInode(FALSE)], ibitmap |-> {}]
        /\ want = [i \in Inums |-> <<>>]

\* What layer 2 does to make a regular file
mknod == /\ FreeInums # {}
         /\ LET inum == Min(FreeInums)
            IN /\ fs' = inode_create(fs, inum, NewInode(FALSE))
               /\ want' = [want EXCEPT ![inum] = <<>>]

\* The data block of a new directory: its two entries fill one cell, the
\* rest of the dirblock is what the stack held
create_dir_base ==
  /\ FreeInums # {}
  /\ \E garbage \in {0, 1} :
       LET inum == Min(FreeInums)
           dirblock == [c \in Cells |-> IF c = 0 THEN 1 ELSE garbage]
           a == data_allocate(inode_create(fs, inum, NewInode(TRUE)), dirblock)
       IN IF a.num = DATA_FULL
          THEN /\ fs' = inode_free(a.d, inum)
               /\ UNCHANGED want
          ELSE /\ fs' = [a.d EXCEPT !.inode[inum] = [NewInode(TRUE) EXCEPT !.size = 1,
                                                                           !.ptr[0] = a.num]]
               /\ want' = [want EXCEPT ![inum] = <<1>>]

\* What file contents should be: the bytes that were written, over zeros
Overlay(old, offset, buf, n) ==
  IF n = 0 THEN old
  ELSE [k \in 1..Max({Len(old), offset + n}) |->
          IF k \in (offset + 1)..(offset + n) THEN buf[k - offset]
          ELSE IF k <= Len(old) THEN old[k] ELSE 0]

Resized(old, size) == [k \in 1..size |-> IF k <= Len(old) THEN old[k] ELSE 0]

\* A write_i and the bytes it ought to leave, as far as it got
DoWrite(inum, offset, buf, past) ==
  LET r == write_i(fs, inum, buf, offset, past)
  IN /\ fs' = r.d
     /\ want' = [want EXCEPT ![inum] = Overlay(@, offset, buf, r.done)]

\* fs_write on an open file
Write(inum, w, past) == /\ inum \in fs.ibitmap
                        /\ ~ fs.inode[inum].dir
                        /\ DoWrite(inum, w[1], w[2], past)

\* fs_write with O_APPEND: the offset is the size at that moment
WriteAppend(inum, buf, past) == /\ inum \in fs.ibitmap
                                /\ ~ fs.inode[inum].dir
                                /\ fs.inode[inum].size + Len(buf) <= MAX_GROWN
                                /\ DoWrite(inum, fs.inode[inum].size, buf, past)

\* add_dirent: an entry, one cell, goes behind the last one
add_dirent(inum, past) == /\ inum \in fs.ibitmap
                          /\ fs.inode[inum].dir
                          /\ fs.inode[inum].size < MAX_GROWN
                          /\ DoWrite(inum, fs.inode[inum].size, <<1>>, past)

\* remove_dirent: the last entry goes into the place of the one at index, and
\* the directory loses one cell; "." and ".." (cell 0) are never removed
remove_dirent(inum, index, past) ==
  LET size   == fs.inode[inum].size
      last   == read_i(fs, inum, size - 1, 1).buf
      filled == write_i(fs, inum, last, index, past).d
  IN /\ inum \in fs.ibitmap
     /\ fs.inode[inum].dir
     /\ index \in 1..(size - 1)
     /\ SHRINK \/ (size - 1) % BLOCK_SIZE # 0
     /\ fs' = trunc_fs(filled, inum, size - 1)
     /\ want' = [want EXCEPT ![inum] = Resized(Overlay(@, index, last, 1), size - 1)]

\* fs_truncate, which refuses directories
Truncate(inum, offset) ==
  /\ inum \in fs.ibitmap
  /\ ~ fs.inode[inum].dir
  /\ SHRINK \/ offset >= fs.inode[inum].size
  /\ fs' = trunc_fs(fs, inum, offset)
  /\ want' = [want EXCEPT ![inum] = Resized(@, offset)]

Delete(inum) ==
  /\ inum \in fs.ibitmap
  /\ fs' = del(fs, inum)
  /\ want' = [want EXCEPT ![inum] = <<>>]

Next == \/ mknod
        \/ create_dir_base
        \/ \E inum \in Inums, w \in Writes, past \in Past : Write(inum, w, past)
        \/ \E inum \in Inums, buf \in Appends, past \in Past : WriteAppend(inum, buf, past)
        \/ \E inum \in Inums, past \in Past : add_dirent(inum, past)
        \/ \E inum \in Inums, index \in 1..MAX_GROWN, past \in Past :
             remove_dirent(inum, index, past)
        \/ \E inum \in Inums, offset \in Offsets : Truncate(inum, offset)
        \/ \E inum \in Inums : Delete(inum)

Spec == Init /\ [][Next]_vars

-----------------------------------------------------------------------------
(* Properties *)

Cell == 0..DataSize

\* The types of the disk structures.
TypeOK == /\ fs.head \in 0..DataSize
          /\ fs.blk \in [Data -> [Cells -> Cell]]
          /\ fs.ibitmap \subseteq Inums
          /\ \A i \in Inums : /\ fs.inode[i].dir \in BOOLEAN
                              /\ fs.inode[i].size \in Nat
                              /\ fs.inode[i].ptr \in [Pointers -> 0..DataSize]

\* read_i returns, one byte at a time or over all blocks, from the start of a
\* block or inside it, the bytes written there last and zeros where nothing
\* was written, whatever went through the disk since: holes, blocks pruned
\* because they became zero, writes that failed half way on a full disk,
\* deleted files whose blocks were used again.
ReadBack ==
  \A f \in fs.ibitmap :
    LET len == Len(want[f])
    IN /\ fs.inode[f].size = len
       /\ \A <<offset, size>> \in ((0..len) \X {1}) \cup ({0, 1} \X {len + 1}) :
            LET r == read_i(fs, f, offset, size)
            IN /\ r.buf = SubSeq(want[f], offset + 1, Min({offset + size, len}))
               /\ r.ret = Len(r.buf)

RECURSIVE ListBlocks(_, _, _)
\* The blocks on the free list from the node at loc on, at most fuel nodes
ListBlocks(d, loc, fuel) ==
  IF loc = 0 \/ fuel = 0 THEN <<>>
  ELSE SelectSeq([c \in 1..BLOCK_SIZE |-> IF c = 1 THEN loc ELSE d.blk[loc][c - 1]],
                 LAMBDA b : b # 0)
       \o ListBlocks(d, d.blk[loc][0], fuel - 1)

RECURSIVE TreeBlocks(_, _)
\* The blocks of a tree whose root is the block at addr, of level l
TreeBlocks(addr, l) ==
  IF addr = 0 THEN <<>>
  ELSE IF l = -1 THEN <<addr>>
  ELSE <<addr>> \o FlattenSeq([c \in 1..BLOCK_SIZE |-> TreeBlocks(fs.blk[addr][c - 1], l - 1)])

FileBlocks(f) ==
  FlattenSeq([p \in 1..(NUM_DIRECT + 3) |->
                TreeBlocks(fs.inode[f].ptr[p - 1], LevelOf(p - 1))])

FreeBlocks(d) == ListBlocks(d, d.head, DataSize + 1)

AllBlocks == FreeBlocks(fs) \o FlattenSeq([x \in 1..Cardinality(fs.ibitmap) |->
                                         FileBlocks(SetToSeq(fs.ibitmap)[x])])

\* Every data block has exactly one owner: it is on the free list once, or
\* one pointer of one file refers to it.  Nothing leaks, and no block is
\* both free and in use or in use by two files.
OneOwner == /\ Len(AllBlocks) = DataSize
            /\ {AllBlocks[x] : x \in 1..Len(AllBlocks)} = Data

RECURSIVE NoZeroBlock(_, _)
NoZeroBlock(addr, l) ==
  addr # 0 => /\ fs.blk[addr] # Zero
              /\ l >= 0 => \A c \in Cells : NoZeroBlock(fs.blk[addr][c], l - 1)

\* Zeros take no room: no file keeps a data block of zeros or an address
\* block without addresses, so rm_nth_datablock has pruned whole branches.
Sparse == \A f \in fs.ibitmap, p \in Pointers :
            NoZeroBlock(fs.inode[f].ptr[p], LevelOf(p))

\* The blocks that block n of file f still lacks on the way from the inode
Missing(d, f, n) == Cardinality({j \in -1..Level(n) : Reach(d, d.inode[f], n, j) = 0})

\* write_i answers DATA_FULL only when the free list cannot hold the block it
\* stops at and its address blocks, after the address blocks that were made
\* on the way have been given back; and it never answers INVALID_BLOCK.
FullMeansFull ==
  \A f \in fs.ibitmap, w \in Writes, past \in Past :
    LET r == write_i(fs, f, w[2], w[1], past)
    IN \/ r.ret = Len(w[2])
       \/ /\ r.ret = DATA_FULL
          /\ Missing(r.d, f, (w[1] + r.done) \div BLOCK_SIZE) > Len(FreeBlocks(r.d))
=============================================================================
