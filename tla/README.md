# A TLA+ model of 270-filesystem

The repository holds a small Unix-like file system in C, served through FUSE.
There are two trees: `src/` is phase 1 (an in-memory disk), `src/phase 2/` is
phase 2 (a block device, a separate `mkfs` program), which the repository's
README describes.  **The modules here model phase 2**, and line numbers refer
to the files in `src/phase 2/`; the exception is `MemoryFS`, which models what
phase 1 does differently.

It is started with `-s`: FUSE calls one handler at a time.  So nothing runs
concurrently inside the file system.  What makes it hard is the order of calls
(any client, any sequence), the state that outlives them (free list, block
trees, directories, open file table), full disks in the middle of a call, and
the process being killed between two block writes: nothing is journalled and
there is no fsck.

## The system

| Component | State | Operations | Correct when |
|---|---|---|---|
| Block device (`layer0.c`) | the device and its descriptor | `read_block`, `write_block` | a write that is reported as done was done |
| Superblock (`layer1.c`) | a copy in memory, block 0 of the device | `read_superblock`, `write_superblock` | the copy is what is on the device |
| `mkfs`, start and stop (`layer1.c`, `mkfs.c`, `fusemain.c`) | the process | `mkfs`, `fs_init`, `fs_destroy` | a disk made to the end is a file system, whatever was killed before |
| Disk layout, inode table, inode bitmap (`layer1.c`) | superblock, bitmap, ilist | `init_superblock`, `init_ibitmap`, `inode_create/read/write/free` | regions do not overlap; every inode has a bit; a bit is set exactly while its inode is used; inodes in one block do not disturb each other |
| Data-block allocator (`layer1.c`) | the free list, kept in the free blocks; its head in the superblock | `init_freelist`, `data_allocate`, `data_free` | no block handed out twice, none lost, full only when full, the walk ends |
| File contents (`layer2.c`) | direct, single, double and triple indirect blocks of each inode | `get_nth_datablock`, `rm_nth_datablock`, `read_i`, `write_i`, `trunc_fs`, `del` | what was written is read; every block has one owner; blocks of zeros take no room |
| Directories and paths (`layer2.c`) | files of `dir_ent`s | `add_dirent`, `remove_dirent`, `search_by_name`, `search_by_inum`, `read_dir_page`, `read_dir_whole`, `namei`, `check_permissions`, `get_stat`, `mkdir_fs`, `mknod_fs` | listings are exact; a path is found exactly if it exists and may be searched; the directories are a tree; permissions are checked on the right inodes |
| Open file table (`layer2.c`) | two tables in memory: descriptors, and counts with a deletion mark | `oft_add`, `oft_remove`, `oft_attempt_delete`, `oft_lookup` | counts are right; an open file keeps its inode; an unlinked file goes with its last descriptor |
| FUSE handlers (`fusemain.c`) | none of their own | `fs_*` | they combine the above |
| Phase 1 (`src/*.c`) | the same on an array in memory | the same | what differs does not break the rest |

The layers only call downwards: handlers call layer 2, layer 2 calls
`inode_*` and `data_*` of layer 1, layer 1 reads and writes whole blocks.  They
share state through the disk: free-list nodes, address blocks, directory blocks
and file data are all data blocks, told apart only by who points to them.

`PROJECT.json` lists the hazards that follow from this, each at its line with
the properties that watch it.

## Modules

| Module | Models | Composition |
|---|---|---|
| `BlockPool` | what the allocator promises: blocks are free, held or lost | abstract specification |
| `FreeList` | `data_allocate`, `data_free`, `init_freelist`, one step per block written and per node read, with `Crash` between any two | implements `BlockPool` (`Pool == INSTANCE ... WITH`) |
| `FreeListProofs` | proofs about `FreeList` | extends `FreeList` |
| `BlockPath` | the arithmetic from a block number to a pointer of the inode and an index at each level | |
| `FileData` | block trees, `read_i`, `write_i`, `trunc_fs`, `del` on one array of cells that also holds the free list | contains the allocator as functions from disk to disk; instantiates `BlockPath` |
| `FileCrash` | `write_i` and `del` one step per block written, with `Kill` between any two | extends `BlockPath`; the free list is a pool of blocks (`BlockPool`) |
| `FileCrashProofs` | proofs about `FileCrash` and the geometry of `BlockPath` | extends `FileCrash` and `Induction` |
| `OpenFiles` | `mknod`, `unlink`, `open`, `release` on one directory, the open file table, and kills between disk changes | |
| `FileObjects` | what programs rely on: names and descriptors of files, and what is in them | abstract specification |
| `Handles` | `OpenFiles` with contents: `oft_lookup`, `fs_read`, `fs_write`, `fs_truncate` | extends `OpenFiles`; implements `FileObjects` |
| `HandlesProofs` | proofs about `OpenFiles` and `Handles` | extends `Handles` |
| `Directories` | entries and block boundaries, `namei`, permissions, the handlers that use paths | |
| `DirectoriesProofs` | proofs about `Directories` | extends `Directories` and `Induction` |
| `DiskLayout` | the arithmetic of `mkfs`; inodes, bits and data blocks on the cells of one disk | |
| `DiskLayoutProofs` | proofs about `DiskLayout` | extends `DiskLayout` |
| `Device` | `layer0.c`, the superblock in memory, the `mkfs` program block by block, `fs_init`, `fs_destroy`, kills and lost writes | |
| `DeviceProofs` | proofs about `Device` | extends `Device` |
| `MemoryFS` | phase 1: handlers on a tree of inodes, 32-bit sizes | |
| `MemoryFSProofs` | proofs about `MemoryFS` | extends `MemoryFS` and `Induction` |
| `Induction` | lemmas for arguments along the numbers, for the proof modules | |
| `MC*` | inputs for TLC | extend the module they are named after |

How state and actions correspond to the code:

* **FreeList.**  `blk` is the content of every data block seen through
  `struct freelist_node`; `free_list_head` is the superblock field (cache and
  disk are written together).  `call` is the program counter and the locals of
  the running call.  `AllocateSlot`/`AllocateHead` do the first write of
  `data_allocate`, `AllocateFill` the last; `FreeStart`, `FreeNextNode`,
  `FreePut` are the scan of `data_free`, `FreeMakeNode` and `FreeLink` its two
  writes when no node has room.  `chain`, `held` and `lost` are bookkeeping
  that no guard of an allocator step reads, except that `data_free` and
  `data_write` are called by holders: the code does not check this, its
  callers have to (`FileData`'s `OneOwner` is that obligation).
* **FileData.**  A call is a function from disk to disk, composed the way the
  C functions call each other.  A cell is a byte of a file and also an address
  or a `next` pointer, so reading a block as the wrong thing has its
  consequences.  Non-node blocks start as zeros, and a freed inode is reset to
  a canonical value; both are overwritten before they are read.  Memory behind
  a buffer that `write_i` reads is a free choice (`Past`), and so is the
  uninitialised rest of a new directory block.
* **FileCrash.**  `call` is the running call: `ino` is the copy of the inode
  that `write_i` works on, `saved` the one `trunc_fs` read before, `todo` the
  blocks that are left, `j` the level of the loops of `get_nth_datablock` and
  `rm_nth_datablock`.  A step is one block write.  A block of data is written
  with one value in all its cells.  `data_free` of a block overwrites it when
  it becomes a node of the list (`GiveAsNode`, then `GiveHead`) and leaves it
  alone when it goes into one (`GiveToNode`); both may happen, since which one
  it is depends on the list.  A name and its inode come into being in one step
  (`OpenFiles` has the two).  A file that a kill left with a pointer to a free
  block (`hurt`) is not written or removed afterwards; what happens when it is
  would be that two files share blocks.
* **Handles.**  `data[i]` is what is in inode `i`.  `object` and `opened` record
  which file an inode was made for and a descriptor was opened for; the
  refinement mapping reads them and the handlers do not.  Between the two disk
  changes of `mknod` and `unlink` the refinement mapping sees the file as gone
  or not there yet.
* **Device.**  A lost write is one that `write_block` reports as done and that
  does not reach the device.  The free list's nodes hold no addresses here, so every `data_allocate` and every
  `data_free` goes through the superblock.
* **MemoryFS.**  Directories are sequences of entries and files are sizes.
  `length` is the size a file should have, `dropped` what was below a
  directory when `rmdir` removed it.  `Die` is a call that ends the process.  `UINT` and `INT` stand for 2^32 and 2^31.
* **OpenFiles.**  The two tables are functions, since the searches in
  `oft_add` keep them free of duplicates.  `mknod` and `unlink` are two steps
  each, in the order of their disk changes.
* **Directories.**  `at[o]` is the entry at byte offset `o`; `AddOffset`,
  `ShrunkSize`, `LastOffset` and `PageEntries` are the four places that know
  about the unused end of a block.  A handler is one step; `fs_getattr`,
  `search_by_inum` and `read_dir_whole` change nothing and are operators that
  the properties evaluate in every state.  `read_i`, `write_i`
  and `trunc_fs` below a directory behave as their comments say; that
  `trunc_fs` does not is finding 1.  `FUSE` never sends `open` for a
  directory.
* **DiskLayout.**  The disk is an array of blocks of `CELLS` bits.  An inode is
  `INODE_CELLS` of them, all set to the value written, so every overlap shows.
  `ceil(blocks * 0.1)` is computed in floating point by the code and is one too
  large for some multiples of ten; both results are allowed.

Operators whose name ends in a description after the source's name
(`oft_add_restart`, `PruneLeaf`, ...) are mutants: plausible bugs used to see
that each property can fail.  No specification uses them.

## Runs

Bounds are the constants of the `.cfg` files.

| Run | Checks | Bounds and why they are enough |
|---|---|---|
| `freelist` | `TypeOK`, `ChainOK`, `NoDoubleUse`, `NoLeak`, `HeldUntouched`, `ImplementsPool`, and `CallsReturn` under `WF(Step)` | 5 blocks, nodes of 2 addresses: a full first node, a second node that is not full, nodes made from freed blocks; block contents that look like a pointer and ones that do not |
| `file_data` | `TypeOK`, `ReadBack`, `OneOwner`, `Sparse`, `FullMeansFull` | 4 blocks of 2 cells and 2 inodes: the disk fills up and blocks move between files; the direct block, two neighbours below the double indirect pointer and a block below the triple one, which needs all 4 blocks, so trees are given back half made; writes within a block, and appends |
| `file_owner` | `OneOwner` | writes over up to three blocks, direct and below the single indirect pointer, with zeros and with anything behind the buffer, and at and beyond the last block of the triple indirect pointer (block 14 here) |
| `file_shrink` | `ReadBack`, **violated** | finding 1 |
| `file_span` | `ReadBack`, **violated** | finding 2 |
| `file_crash` | `TreesSound`, `CrashReads`, `LeakBounded` | two files of two neighbours below the double indirect pointer, 4 blocks, which one such file needs, so that trees are given back half made; a write that spans blocks, a partial one of zeros, deletes; 2 kills anywhere, so that the second meets what the first one left; files and data blocks are symmetric |
| `crash_full` | `InodeWrittenBack`, **violated** | finding 3; direct and single indirect blocks |
| `device` | `TypeOK`, `CacheCoherent`, `HandedOnce` | 5 blocks, 3 kills of either program, one lost write of the superblock |
| `handles` | `TypeOK`, `RefCounts`, `OpenStaysAllocated`, `NamesSound`, `NoOrphans`, `FdStable`, `ImplementsFileObjects` | 2 inodes besides the root's, 2 names, 2 descriptors: a file can be open twice while its name is used again, and its inode goes to a new file while a descriptor is open on the other one; files of up to 2 values |
| `directories` | `TypeOK`, `ListingExact`, `TreeOK`, `LookupExact`, `AccessChecked` | blocks of 5 bytes, entries of 2: "." and ".." fill the first block, three names reach into the third; paths up to three names deep, four inodes; an owner, a member of the group and a stranger, and a mode that gives each of them other rights; names are symmetric |
| `disk_layout` | `RegionsFit`, `InodesKept`, `BitmapExact`, `DataKept` | 4, 6 and 9 blocks, both results of the floating-point `ceil`, several inodes to a block |
| `memory_fs` | `TypeOK`, `ReachableSound`, `AbandonedOnlyByRmdir`, `OpenStays`, `SizesExact` | 4 inodes, paths two deep, a descriptor on files below removed directories; `INT = 4` and sizes below it, between it and `UINT`, and above both |

`file_data` leaves out the inputs of findings 1 and 2, since nothing else could
be checked behind them: no `trunc_fs` shortens a file that stays
(`SHRINK = FALSE`; `del` does call it), and no write spans blocks.  It also
stays below the triple indirect limit.  `file_owner` shows what survives
finding 2 and what happens at that limit.

`file_crash` and `crash_full` do not check for deadlock: when all inodes are
damaged or orphaned no call is left to try.

**Fairness.**  `freelist` assumes weak fairness of the steps of a call
that has started: C code that is not killed keeps running, and nothing else
runs in a single-threaded process.  Starting calls and `Crash` are not fair.

## Findings

1. `trunc_fs` (`layer2.c:734-769`) writes back the inode it read before
   `write_i` freed the blocks (`layer2.c:766`).  A file that was shortened
   keeps pointers to free blocks; when it grows again it shows what is in them
   by then, and can write there.  The comment promises a size of "exactly
   offset bytes" and zeros when it grows (`layer2.c:725`, `:727`).  The same
   happens to a directory when `remove_dirent` empties its last block.
2. `write_i`'s test for zeros (`layer2.c:1083`) looks at `buf + write_start`
   instead of `buf + bytes_written`: a later block of a write is dropped when
   the *first* bytes of the buffer are zero, against the comment at
   `layer2.c:1014`.
3. `write_i` returns `DATA_FULL` without writing the inode (`layer2.c:1099-1102`)
   although `rm_nth_datablock` may have cleared a pointer in its copy.
   Usually this call had set that pointer itself.  After a kill between
   `LinkChild` steps the inode may point to an address block without
   addresses; the next write that finds the disk full frees that block, and
   the inode on disk keeps the pointer.  `get_nth_datablock` leaves writing the
   inode to "the caller's job" (`layer2.c:1423`).

Other limits of the code that the modules take over and no run is about:

* `write_i` ignores what `rm_nth_datablock` returns for a block of zeros
  (`layer2.c:1092`), so zeros beyond the last block that the triple indirect
  pointer reaches are "written" and the size grows; `trunc_fs` grows a file
  beyond it too.  `file_owner` shows that no block is lost or shared by it.
* Block numbers are kept in `int` (`layer2.c:1044`, `:965`) and wrap around
  from 2^31 blocks on.
* `write_block` ignores the results of `lseek` and `write` (`layer0.c:48-51`).
  The running program survives a lost superblock (`HandedOnce`), since it reads
  its copy; the next one does not.
* Phase 1: `truncate` keeps an offset modulo 2^32 (`src/layer2.c:746`), a write
  behind the end of a file of 2 GiB or more does not grow it (`:1037`), and
  cutting off 2 GiB or more, also by deleting the file, ends the process
  (`:752-756`).  `SizesExact` is about files below 2 GiB.

A kill between `data_free` and the write that clears the pointer
(`layer2.c:1285`) leaves a file with a pointer to a free block, and a kill
after `data_allocate` (`layer2.c:1409`) loses blocks.  Nothing in the repository
promises otherwise, so these are not findings; `TreesSound` and `LeakBounded`
bound the damage: one file, and the blocks on the way to one block, per kill.

## Proofs

TLAPS checks these for every value of the constants.

* **FreeList** (`FreeListProofs`), assuming only that there are blocks, that a
  node has a slot and that contents are well-typed (`ConstantsAssumption`).
  The inductive invariant is `TypeOK /\ ChainOK /\ NoDoubleUse /\ NoLeak /\
  ScanOK /\ LinkOK`.  The four properties alone are not inductive: `FreePut`
  writes to the node at `call.loc`, and only `ScanOK` says that this is still a
  node of the list; `FreeLink` makes `call.block` the head, and only `LinkOK`
  says that the node written a step before is empty and points to the old
  head.  There is one lemma per action; lemmas about sets of nodes and listed
  blocks say how one write changes `Nodes` and `Listed`.  From the invariant
  follow `TypeCorrect`, `ChainCorrect`, `NeverUsedTwice`, `NeverLeaked`, the
  action property `HeldStaysUntouched`, and `Refinement`: every step of
  `FreeList` is a step of `BlockPool` or changes nothing there.
* **OpenFiles** (the first part of `HandlesProofs`), for any number of inodes, names and
  descriptors.  The invariant is the checked properties with `CallOK` (the
  inode of a running `mknod` or `unlink` is allocated, has no name, and no
  descriptor if it is new) and `OrphansOK` (what a kill left behind has no
  name and no descriptor), which `MknodLink`, `UnlinkInode` and `inode_create`
  need.  Counting uses the library's facts on cardinalities.  The theorems are
  one per property; `TablesTyped` is the type invariant.
* **Handles** (`HandlesProofs`).  `TableRefinement`: every step of `Handles` is a
  step of `OpenFiles` or leaves its tables alone, so the theorems above hold of
  the handlers with contents too.  `HandlesRefinement`: `Handles` implements
  `FileObjects`.  The invariant adds to that of `OpenFiles` that inodes in
  use hold different files (`ObjectsApart`), that an open descriptor's inode still
  holds the file it was opened for (`OpenedRight`; this is where the deferred
  deletion of an open file is used), and that an inode without a name
  yet is empty (`NewIsEmpty`).
* **FileCrash** (`FileCrashProofs`), for any number of blocks and files, any
  number of addresses in a block and of direct blocks, any set of jobs and any
  number of kills: `TreesSoundHolds`, `CrashReadsHolds`, `LeakBoundedHolds`, and the
  two inductive invariants `Invariance` and `LeakInvariance`.  First
  the geometry of `BlockPath`: every index on the way to a block lies inside its
  address block (`Indices`), and two different block numbers that share a
  pointer differ in an index (`Distinct`).  Then what a single write does to the
  ways of all files (`Attach`, `Detach`, `Cut`, `Grow`).  The invariant is that there
  is a map of the blocks that files hold: whose block it is, on which level, and
  the one pointer that leads to it, none of them free (`Sound`).  It is not about
  the disk, which for a few steps has a pointer to a block already given back and
  lacks the pointers that are only in the copy of the inode, but about the view
  with the copy's pointers and without the dangling one (`Clean`, `Ptrs`).  The
  other parts say how this view and the disk differ.  `CallFile` and `CallStep`:
  what each step of the two loops relies on, such as that the block given back
  holds no addresses any more.  `Ended`: what became of the block before the
  inode is written.  `Copies`: the inode and its copy differ at one pointer, which
  is new or whose block was given back.  `Fresh` and `Reads`: what the running
  system would read, and that what only the copy leads to may as well read as
  zeros after a kill.  `Disk` draws the conclusion for the disk at the moment of a
  kill: a file is whole there, or it is in `hurt`.
  `LeakBounded` needs a second invariant on top of the first, an account of the
  blocks (`Account`): every block is free, held by a file, on its way with the
  running call, below an inode that no directory leads to any more, or written
  off, and each kill writes off no more than the way to one block.  Counting
  blocks is not enough, because `del` gives back only what is below the size:
  `Tight` says that every pointer of a file is there for a block below the size,
  or one the call has still to write or to delete, or leads to blocks already
  written off.  So nothing is left behind when the last block is deleted.  `Alone`:
  below a pointer that only the copy of the inode has there is nothing but the
  way to the block at work, which is why a kill loses one way and not a tree.
  `Trimmed`: `rm_nth_datablock` leaves no address block that holds nothing, which is
  why `DATA_FULL` and a delete lose none.  `Sizes`: `write_i` changes the size only
  after the block.
* **Device** (`DeviceProofs`), for every size of the device and any number of
  kills.  `CacheCorrect` holds whichever writes are lost.  Its invariant adds
  `Started` (a program begins without a copy, and `mkfs` builds the list from the
  superblock it has just written) and `AtBlock` (no other write goes to block
  0), without which a program that could not open the device, or a node written
  over the superblock, could not be excluded.  `DeviceTypes` and
  `BlocksHandedOnce` assume `Lossy \subseteq {0}`: only writes of the superblock
  are lost.  When the write of a list node is lost, the superblock points at
  a block with file data in it, and nothing can be said of the next
  `data_allocate`.  Their invariant describes the free list as a stack (`Stack`):
  block `s[n]` is the head that the program, or the next one, works with, each
  block's node is the one below it, all differ and none is held.  `BuildOK` says
  how far `mkfs` got, `LinkOK` that the node `data_free` wrote is not on the list
  yet.
* **DiskLayout** (`DiskLayoutProofs`), for every block size, inode size and
  disk size that `mkfs` accepts, as long as at most every third block is for
  inodes (the code has every tenth).  `LayoutSound` is arithmetic:
  rounding the bitmap's share up leaves at least as many bits as
  inodes (`BitmapFits`) and at least one data block (`DataFits`).  `InodesSafe`,
  `DataSafe` and `BitmapSound` then follow because the cells of an inode are
  determined by its number: different inodes, also in one block, have different
  cells, and a bit has one.  `BitmapSound` includes that the search of
  `inode_create` finds an inode whenever one is free.
* **MemoryFS** (`MemoryFSProofs`), for any number of inodes, names and
  descriptors, any depth of paths and any width of an `int`: all five
  properties.  The invariant says that there is a set of live inodes and a rank
  of each such that the entries of live directories lead to live inodes one
  rank further down, one entry to each (`Tree`), and that an allocated inode is
  live, open and unlinked, or was below a removed directory (`Accounted`).  The
  ranks are what bounds the walk that collects the inodes below a directory;
  without them `rmdir` could abandon an inode that is still reachable.
* **Directories** (`DirectoriesProofs`), for any block size, any entry size of
  which two fit, any number of inodes, names, users and modes, and paths of any
  length: all five properties.  First comes the arithmetic of the unused end of
  a block: entry `k` has one place, `AddOffset` finds the place of the next
  entry, `LastOffset` the last one, `ShrunkSize` undoes the growth, and the pages
  together list each entry once.  The inductive invariant `DirInv` then speaks of
  entries by number.  `Listings`: a directory has `.`, `..` and the names that
  were made and not removed, once each; this alone is `ListingExact` but for the
  search by inode number, which needs `Unique`.  `Used`, `Unique` and `Named` are
  what `rmdir` and `unlink` need to free an inode that no other name leads to;
  `Bare` and `Held` that a file that becomes a directory, or an inode that is
  used again, brings no names or descriptors along.  `Ranked` (names lead
  downwards) excludes a directory below itself, whose `..` would be found
  before the name by the search for an inode number.  That a path is found is an
  induction along the path (`NameiResolves`), and that the caller could reach
  the directory it changed an argument back up from it (`WayDown`, `WayUp`).

Assumptions on constants are those named `...Constants` in the modules, which
TLC evaluates on every run.  They say that sizes are positive, that two
directory entries fit into a block and into a file (`mkfs` writes `.` and `..`),
that `""`, `.` and `..` are not names of files (the kernel never asks for one),
that `NoObject` is not a file and that `NULL` is not a superblock.

Recursive definitions in the proved modules are recursive functions.  The
library's induction theorems have a predicate as a parameter that the provers
do not instantiate; `Induction` states the same for a set of numbers (`UpTo`,
`LeastMember`), and that a recursion has a solution (`Recursion`), from
well-founded induction on a set.

Only model-checked:

* `CallsReturn`, because liveness is beyond the prover.
* `FileData`: `ReadBack`, `OneOwner`, `Sparse`, `FullMeansFull` and its types.  Its
  tree operators and the loops of its calls are `RECURSIVE`, and a module that
  reaches one loses the SMT solver; a call is one step there, so each of these
  would be an induction over loops inside a step.  For `write_i` and `del` of
  whole blocks the theorems about `FileCrash` say the same step by step: one
  pointer to each block, reads as written, nothing leaked without a kill.  The
  bytes inside a block, `trunc_fs` to other sizes and directories are in
  `FileData` alone.

## Not modelled

* Times and set-id bits, the length limit of names, and the fields of
  `struct stat` that `get_stat` does not set.
* Reads of the device that fail, and block writes that are half done.
* Phase 1 below its handlers: the free list, the block trees, directory blocks
  and permissions are the code of phase 2, which is modelled; finding 1 and
  finding 2 apply to phase 1 as well.
* Files that a kill has damaged and that are used again (`FileCrash`).
* Unit tests, shell tests, printing.

## Plan

Done: all components, and the proofs above.  Left are the properties of `FileData`,
once the walks through a tree are written without `RECURSIVE`, as `FileCrash`
writes them.
