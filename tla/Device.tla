------------------------------- MODULE Device -------------------------------
(***************************************************************************)
(* The disk under layer 1 (layer0.c, read_superblock and write_superblock  *)
(* of layer1.c, mkfs.c, fs_init and fs_destroy of phase 2): block calls on *)
(* a file descriptor, the copy of the superblock in memory, and the two    *)
(* programs that use it one after the other, each of which may be killed.  *)
(*                                                                         *)
(* FreeList and DiskLayout take the superblock for one value; this module  *)
(* shows when it is.  The free list has no room for addresses in its nodes *)
(* here: each node is a free block that holds the number of the next.      *)
(***************************************************************************)
EXTENDS Integers, FiniteSets

CONSTANTS
  NUM_BLOCKS,    \* blocks of the device; block 0 is the superblock
  MAX_KILLS,     \* bound: programs that are killed
  Lossy,         \* the blocks for which write() may fail
  MAX_LOST,      \* bound: how often it does
  NULL,          \* no copy of the superblock; what a new device holds
  FILE_DATA      \* what the caller of data_allocate has written

ASSUME DeviceConstants == /\ NUM_BLOCKS \in Nat /\ NUM_BLOCKS >= 4
                          /\ MAX_KILLS \in Nat /\ MAX_LOST \in Nat

UNINITIALIZED_FD == -1
Superblock(head, root) == [free_list_head |-> head, root_inode |-> root]

VARIABLES
  dev,        \* /dev/vde
  layer0_fd,  \* the descriptor of the device
  cached_superblock,
  prog,       \* the program that runs, and where mkfs or a call is
  made,       \* mkfs ran to its end
  held,       \* history variable: blocks handed out and not given back
  kills, lost

vars == <<dev, layer0_fd, cached_superblock, prog, made, held, kills, lost>>

Data    == 1..(NUM_BLOCKS - 1)
Blocks  == 0..(NUM_BLOCKS - 1)
Nothing == [name |-> "none", pc |-> "idle", b |-> 0]

\* NULL is no superblock
ASSUME NullIsNone == \A head \in Blocks : NULL # Superblock(head, 1)

Runs(name, pc) == prog.name = name /\ prog.pc = pc
Goto(pc, b)    == prog' = [prog EXCEPT !.pc = pc, !.b = b]

-----------------------------------------------------------------------------
(* layer0.c *)

\* DISC_UNINITIALIZED or INVALID_BLOCK, and nothing is done
Refused(blocknum) == layer0_fd = UNINITIALIZED_FD \/ blocknum >= NUM_BLOCKS \/ blocknum < 0

\* Whatever write() returned, the answer is SUCCESS
write_block(blocknum, data) ==
  /\ ~ Refused(blocknum)
  /\ \/ dev' = [dev EXCEPT ![blocknum] = data] /\ UNCHANGED lost
     \/ blocknum \in Lossy /\ lost < MAX_LOST /\ lost' = lost + 1 /\ UNCHANGED dev

-----------------------------------------------------------------------------
(* layer1.c *)

\* The superblock a caller gets, NULL for DISC_UNINITIALIZED
read_superblock == IF cached_superblock # NULL THEN cached_superblock
                   ELSE IF Refused(0) THEN NULL ELSE dev[0]

\* Mutant: a copy that is there stays as it is
write_superblock_once(sb) ==
  /\ cached_superblock' = IF cached_superblock = NULL THEN sb ELSE cached_superblock
  /\ write_block(0, sb)

write_superblock(sb) == /\ cached_superblock' = sb
                        /\ write_block(0, sb)

-----------------------------------------------------------------------------
(* The mkfs program *)

Init == /\ dev = [b \in Blocks |-> NULL]
        /\ layer0_fd = UNINITIALIZED_FD
        /\ cached_superblock = NULL
        /\ prog = Nothing
        /\ made = FALSE
        /\ held = {} /\ kills = 0 /\ lost = 0

\* open() fails: mkfs returns UNEXPECTED_ERROR, fs_init goes on
MkfsOpen(fd) == /\ prog = Nothing
                /\ fd # UNINITIALIZED_FD
                /\ layer0_fd' = fd
                /\ prog' = [name |-> "mkfs", pc |-> "super", b |-> 0]
                /\ made' = FALSE /\ held' = {}
                /\ UNCHANGED <<dev, cached_superblock, kills, lost>>

init_superblock == /\ Runs("mkfs", "super")
                   /\ write_superblock(Superblock(1, 1))
                   /\ Goto("list", 1)
                   /\ UNCHANGED <<layer0_fd, made, held, kills>>

\* Mutant: the last node has a next one
NextNode_unbounded(b) == b + 1

\* The node behind the one at b, if there is room for it
NextNode(b) == IF b + 1 \in Data THEN b + 1 ELSE 0

\* One node of the free list
init_freelist == /\ Runs("mkfs", "list")
                 /\ write_block(prog.b, NextNode(prog.b))
                 /\ IF prog.b + 1 \in Data THEN Goto("list", prog.b + 1) ELSE Goto("dir", 0)
                 /\ UNCHANGED <<layer0_fd, cached_superblock, made, held, kills>>

\* The root directory takes a block, and the superblock its inode
MkfsTake == /\ Runs("mkfs", "dir")
            /\ LET head == read_superblock.free_list_head
               IN /\ write_superblock(Superblock(dev[head], 1))
                  /\ Goto("root", head)
                  /\ held' = held \cup {head}
            /\ UNCHANGED <<layer0_fd, made, kills>>

MkfsRoot == /\ Runs("mkfs", "root")
            /\ write_block(prog.b, FILE_DATA)
            /\ Goto("end", 0)
            /\ UNCHANGED <<layer0_fd, cached_superblock, made, held, kills>>

MkfsEnd == /\ Runs("mkfs", "end")
           /\ write_superblock(read_superblock)
           /\ made' = TRUE
           /\ Goto("done", 0)
           /\ UNCHANGED <<layer0_fd, held, kills>>

\* The memory of the program goes with it
Ended == /\ layer0_fd' = UNINITIALIZED_FD
         /\ cached_superblock' = NULL
         /\ prog' = Nothing

MkfsExit == /\ Runs("mkfs", "done")
            /\ Ended
            /\ UNCHANGED <<dev, made, held, kills, lost>>

-----------------------------------------------------------------------------
(* The file system *)

\* The result of open() is not looked at.  Only on a disk that mkfs has made,
\* and that no write is missing from: nothing can be said of others
fs_init(fd) == /\ prog = Nothing /\ made /\ lost = 0
               /\ layer0_fd' = fd
               /\ prog' = [name |-> "fuse", pc |-> "idle", b |-> 0]
               /\ UNCHANGED <<dev, cached_superblock, made, held, kills, lost>>

fs_destroy == /\ Runs("fuse", "idle")
              /\ Ended
              /\ UNCHANGED <<dev, made, held, kills, lost>>

\* Mutant: the new head is not written
TakeHead_keeps_head == /\ Runs("fuse", "idle")
                       /\ read_superblock # NULL
                       /\ LET head == read_superblock.free_list_head
                          IN /\ head # 0
                             /\ write_superblock(read_superblock)
                             /\ Goto("fill", head)
                             /\ held' = held \cup {head}
                       /\ UNCHANGED <<layer0_fd, made, kills>>

\* data_allocate: the head moves on, then the data is written
TakeHead == /\ Runs("fuse", "idle")
            /\ read_superblock # NULL
            /\ LET head == read_superblock.free_list_head
               IN /\ head # 0
                  /\ write_superblock([read_superblock EXCEPT !.free_list_head = dev[head]])
                  /\ Goto("fill", head)
                  /\ held' = held \cup {head}
            /\ UNCHANGED <<layer0_fd, made, kills>>

FillTaken == /\ Runs("fuse", "fill")
             /\ write_block(prog.b, FILE_DATA)
             /\ Goto("idle", 0)
             /\ UNCHANGED <<layer0_fd, cached_superblock, made, held, kills>>

\* data_free: the block becomes a node, then the head
MakeNode(b) == /\ Runs("fuse", "idle")
               /\ read_superblock # NULL
               /\ b \in held
               /\ write_block(b, read_superblock.free_list_head)
               /\ Goto("link", b)
               /\ held' = held \ {b}
               /\ UNCHANGED <<layer0_fd, cached_superblock, made, kills>>

LinkNode == /\ Runs("fuse", "link")
            /\ write_superblock([read_superblock EXCEPT !.free_list_head = prog.b])
            /\ Goto("idle", 0)
            /\ UNCHANGED <<layer0_fd, made, held, kills>>

\* Either program is killed, anywhere
Kill == /\ prog # Nothing /\ kills < MAX_KILLS
        /\ kills' = kills + 1
        /\ Ended
        /\ UNCHANGED <<dev, made, held, lost>>

Next == \/ \E fd \in {UNINITIALIZED_FD, 3} : MkfsOpen(fd) \/ fs_init(fd)
        \/ init_superblock \/ init_freelist \/ MkfsTake \/ MkfsRoot \/ MkfsEnd \/ MkfsExit
        \/ TakeHead \/ FillTaken \/ LinkNode \/ \E b \in Data : MakeNode(b)
        \/ fs_destroy \/ Kill

Spec == Init /\ [][Next]_vars

-----------------------------------------------------------------------------
(* Properties *)

\* The types of the variables.
TypeOK == /\ layer0_fd \in {UNINITIALIZED_FD, 3}
          /\ prog.b \in Blocks /\ held \subseteq Data
          /\ kills \in 0..MAX_KILLS /\ lost \in 0..MAX_LOST
          /\ \A b \in Data : dev[b] \in Blocks \cup {NULL, FILE_DATA}
          /\ cached_superblock = NULL \/ cached_superblock.free_list_head \in Blocks

\* The copy of the superblock in memory is the superblock of the device unless
\* a write was lost, and there is none in a program that could not open the device, so that no call
\* of such a program works on a superblock that is nowhere.
CacheCoherent == cached_superblock # NULL => /\ layer0_fd # UNINITIALIZED_FD
                                             /\ lost = 0 => cached_superblock = dev[0]

\* The first n blocks of the free list, 0 where it ends
Chain == LET chain[n \in 0..NUM_BLOCKS] ==
               IF n = 0 THEN read_superblock.free_list_head
               ELSE IF chain[n - 1] = 0 THEN 0 ELSE dev[chain[n - 1]]
         IN chain

\* However the programs are killed and started again, and even while the
\* superblock of a running program does not reach the device, a block that a
\* caller holds is not on the free list that the next data_allocate reads
\* through the cache, and that list ends.
HandedOnce == made /\ read_superblock # NULL =>
                /\ \A n \in 0..NUM_BLOCKS : Chain[n] \in (Data \ held) \cup {0}
                /\ Chain[NUM_BLOCKS] = 0
=============================================================================
