----------------------------- MODULE FileCrash ------------------------------
(***************************************************************************)
(* The process is killed inside write_i or del (layer2.c of phase 2).      *)
(* Every block write of get_nth_datablock, rm_nth_datablock, data_free and *)
(* write_i is a step of its own, in the order of the code: blocks come off *)
(* the free list before anything points to them, go back to it before the  *)
(* pointer to them is cleared, and the pointers of the inode reach the     *)
(* disk last.  Nothing repairs the disk after a restart.                   *)
(*                                                                         *)
(* The free list is the set of its blocks (BlockPool); a block that        *)
(* data_free turns into a node of it is overwritten first.  A name and its *)
(* inode come into being in one step.                                      *)
(***************************************************************************)
EXTENDS BlockPath, Sequences, FiniteSetsExt

CONSTANTS
  Data,            \* the data blocks
  Files,           \* the inodes
  MAX_BLOCK,       \* bound: the largest block number of a file
  TRUNC_BLOCKS,    \* blocks that trunc_fs overwrites per write_i (10 in the code)
  Jobs,            \* the write_i calls: sequences of [n, v, whole], where block n
                   \* reads v afterwards, and whole tells if all of it is written
  MAX_KILLS        \* bound: how often the process is killed

ASSUME CrashConstants ==
  /\ 0 \notin Data /\ TRUNC_BLOCKS \in Nat \ {0} /\ MAX_KILLS \in Nat
  /\ MAX_BLOCK \in Nat /\ ~ TooLarge(MAX_BLOCK)
  /\ Jobs \subseteq Seq([n : 0..MAX_BLOCK, v : Nat, whole : BOOLEAN]) \ {<<>>}

VARIABLES
  free,     \* the blocks on the free list
  blk,      \* what is in each data block
  inode,    \* the ilist: size in blocks, and the pointers
  used,     \* the ibitmap
  named,    \* the inodes a directory entry refers to
  call,     \* the call that is running
  kills,    \* how often the process was killed
  want,     \* history variable: what each block of each file may read as
  hurt      \* history variable: files left with a pointer to a freed block

vars == <<free, blk, inode, used, named, call, kills, want, hurt>>

Slots  == 0..(ADDRESSES_PER_BLOCK - 1)
Blocks == 0..MAX_BLOCK
Fill(v) == [s \in Slots |-> v]
Zero    == Fill(0)

NewInode == [size |-> 0, ptr |-> [p \in Pointers |-> 0]]
Idle     == [pc |-> "idle"]

\* The blocks on the way from the inode to block n: level -1 is the data, 0
\* where the way ends
Way(ino, n) ==
  LET way[j \in -1..Level(n)] ==
        IF j = Level(n) THEN ino.ptr[Pointer(n)]
        ELSE IF way[j + 1] \in Data THEN blk[way[j + 1]][Index(n, j + 1)] ELSE 0
  IN way

\* The same for the running call, which follows its own copy of the inode
N        == Head(call.todo).n
V        == Head(call.todo).v
CallWay  == Way(call.ino, N)
Missing  == {j \in -1..Level(N) : CallWay[j] = 0}
Parent   == CallWay[call.j]
Address  == Index(N, call.j)
Root     == call.ino.ptr[Pointer(N)]
AtRoot   == call.j > Level(N)
At(pc)   == call.pc = pc

Goto(pc) == call' = [call EXCEPT !.pc = pc]

-----------------------------------------------------------------------------
(* The calls *)

Init == /\ free = Data
        /\ blk = [b \in Data |-> Zero]
        /\ inode = [f \in Files |-> NewInode]
        /\ used = {} /\ named = {} /\ hurt = {}
        /\ call = Idle
        /\ kills = 0
        /\ want = [f \in Files |-> [n \in Blocks |-> {0}]]

mknod(f) == /\ At("idle") /\ f \notin used
            /\ used' = used \cup {f}
            /\ named' = named \cup {f}
            /\ inode' = [inode EXCEPT ![f] = NewInode]
            /\ want' = [want EXCEPT ![f] = [n \in Blocks |-> {0}]]
            /\ UNCHANGED <<free, blk, call, kills, hurt>>

\* inum's inode is read once, and worked on as a copy
StartCall(f, todo, del) ==
  call' = [pc |-> "block", file |-> f, del |-> del, todo |-> todo, ino |-> inode[f],
           saved |-> inode[f].ptr, j |-> 0, b |-> 0, after |-> "inode"]

\* From now on the block may read as before or as it is written
Expect(f, item) == want' = [want EXCEPT ![f][item.n] = @ \cup {item.v}]

\* write_i, on a file that no call left damaged
write_i(f, todo) == /\ At("idle") /\ f \in named \ hurt
                    /\ StartCall(f, todo, FALSE)
                    /\ Expect(f, Head(todo))
                    /\ UNCHANGED <<free, blk, inode, used, named, kills, hurt>>

\* The blocks trunc_fs(f, 0) overwrites: as many write_i of TRUNC_BLOCKS as the
\* size needs, and what is behind MAX_BLOCK is a hole
Overwritten(size) ==
  LET end == ((size + TRUNC_BLOCKS - 1) \div TRUNC_BLOCKS) * TRUNC_BLOCKS
  IN [k \in 1..Min({end, MAX_BLOCK + 1}) |-> [n |-> k - 1, v |-> 0, whole |-> TRUE]]

\* The name goes first; then del frees the blocks, if there are any
unlink(f) == /\ At("idle") /\ f \in named \ hurt
             /\ named' = named \ {f}
             /\ StartCall(f, Overwritten(inode[f].size), TRUE)
             /\ UNCHANGED <<free, blk, inode, used, kills, want, hurt>>

-----------------------------------------------------------------------------
(* get_nth_datablock *)

\* The block is to be there when the call is done with it
Wanted == At("block") /\ call.todo # <<>> /\ ~ (Head(call.todo).whole /\ V = 0)

\* data_allocate of a block of zeros
Allocate(b) == /\ b \in free
               /\ free' = free \ {b}
               /\ blk' = [blk EXCEPT ![b] = Zero]

\* The topmost block is missing: only the copy of the inode points to the new one
CreateRoot(b) ==
  /\ Wanted /\ Level(N) \in Missing
  /\ Allocate(b)
  /\ call' = [call EXCEPT !.ino.ptr[Pointer(N)] = b]
  /\ UNCHANGED <<inode, used, named, kills, want, hurt>>

\* A block further down is missing
CreateChild(b) ==
  /\ Wanted /\ Missing # {} /\ Level(N) \notin Missing
  /\ Allocate(b)
  /\ call' = [call EXCEPT !.pc = "link", !.b = b, !.j = Max(Missing) + 1]
  /\ UNCHANGED <<inode, used, named, kills, want, hurt>>

\* The address block above it is written
LinkChild == /\ At("link")
             /\ blk' = [blk EXCEPT ![Parent][Address] = call.b]
             /\ call' = [call EXCEPT !.pc = "block", !.b = 0]
             /\ UNCHANGED <<free, inode, used, named, kills, want, hurt>>

-----------------------------------------------------------------------------
(* rm_nth_datablock *)

\* The deleting loop starts at the lowest address block there is, and the
\* call goes on at after
StartRemove(after) ==
  call' = [call EXCEPT !.pc = "rm", !.after = after,
                       !.j = Min({j \in 0..(Level(N) + 1) :
                                    j > Level(N) \/ CallWay[j] # 0})]

\* The whole block is zeros
RemoveWhole == /\ At("block") /\ call.todo # <<>> /\ Head(call.todo).whole /\ V = 0
               /\ StartRemove("inode")
               /\ UNCHANGED <<free, blk, inode, used, named, kills, want, hurt>>

\* Mutant: the zeros are not written, and the block stays
RemovePart_keeps == /\ Wanted /\ Missing = {} /\ V = 0
                    /\ Goto("inode")
                    /\ UNCHANGED <<free, blk, inode, used, named, kills, want, hurt>>

\* Some of it is zeros, and so is the rest
RemovePart == /\ Wanted /\ Missing = {} /\ V = 0
              /\ StartRemove("inode")
              /\ UNCHANGED <<free, blk, inode, used, named, kills, want, hurt>>

\* Mutant: they stay
NoRoom_keeps == /\ Wanted /\ Missing # {} /\ free = {}
                /\ Goto(IF V = 0 THEN "inode" ELSE "full")
                /\ UNCHANGED <<free, blk, inode, used, named, kills, want, hurt>>

\* data_allocate answers DATA_FULL: address blocks made on the way are removed
NoRoom == /\ Wanted /\ Missing # {} /\ free = {}
          /\ StartRemove(IF V = 0 THEN "inode" ELSE "full")
          /\ UNCHANGED <<free, blk, inode, used, named, kills, want, hurt>>

\* The block to give back at this level
Victim == IF AtRoot THEN Root ELSE blk[Parent][Address]

\* The loop goes on above if this address block holds nothing, else it is over
Upwards(parent) == IF parent = Zero THEN [call EXCEPT !.pc = "rm", !.j = @ + 1, !.b = 0]
                   ELSE [call EXCEPT !.pc = call.after, !.b = 0]

RemoveNothing == /\ At("rm") /\ Victim = 0
                 /\ call' = IF AtRoot THEN [call EXCEPT !.pc = call.after]
                            ELSE Upwards(blk[Parent])
                 /\ UNCHANGED <<free, blk, inode, used, named, kills, want, hurt>>

\* Mutant: the pointer is cleared by the caller of rm_nth_datablock alone
AfterGive_keeps(b) == [call EXCEPT !.b = b, !.pc = IF AtRoot THEN call.after ELSE "clear"]

\* The block is on the list: a pointer of the inode is cleared in the copy
AfterGive(b) == IF AtRoot THEN [call EXCEPT !.b = b, !.pc = call.after,
                                            !.ino.ptr[Pointer(N)] = 0]
                ELSE [call EXCEPT !.b = b, !.pc = "clear"]

\* data_free finds an empty slot in a node
GiveToNode == /\ At("rm") /\ Victim # 0 /\ free # {}
              /\ free' = free \cup {Victim}
              /\ call' = AfterGive(Victim)
              /\ UNCHANGED <<blk, inode, used, named, kills, want, hurt>>

\* data_free finds none: the block becomes the first node
GiveAsNode(next) == /\ At("rm") /\ Victim # 0
                    /\ next \in IF free = {} THEN {0} ELSE free
                    /\ blk' = [blk EXCEPT ![Victim] = [Zero EXCEPT ![0] = next]]
                    /\ call' = [call EXCEPT !.pc = "give", !.b = Victim]
                    /\ UNCHANGED <<free, inode, used, named, kills, want, hurt>>

\* and then the head of the list
GiveHead == /\ At("give")
            /\ free' = free \cup {call.b}
            /\ call' = AfterGive(call.b)
            /\ UNCHANGED <<blk, inode, used, named, kills, want, hurt>>

\* The address block above is written without the address
ClearAddress == /\ At("clear")
                /\ blk' = [blk EXCEPT ![Parent][Address] = 0]
                /\ call' = Upwards([blk[Parent] EXCEPT ![Address] = 0])
                /\ UNCHANGED <<free, inode, used, named, kills, want, hurt>>

-----------------------------------------------------------------------------
(* write_i and del, after the block *)

\* data_write
Store == /\ Wanted /\ Missing = {} /\ V # 0
         /\ blk' = [blk EXCEPT ![CallWay[-1]] = Fill(V)]
         /\ Goto("inode")
         /\ UNCHANGED <<free, inode, used, named, kills, want, hurt>>

\* inode_write, then the next block of the buffer
InodeWrite ==
  LET ino  == [call.ino EXCEPT !.size = Max({@, N + 1})]
      rest == Tail(call.todo)
      done == [want EXCEPT ![call.file][N] = {V}]
  IN /\ At("inode")
     /\ inode' = [inode EXCEPT ![call.file] = ino]
     /\ IF rest = <<>>
        THEN /\ call' = IF call.del THEN [call EXCEPT !.pc = "block", !.todo = rest, !.b = 0]
                        ELSE Idle
             /\ want' = done
        ELSE /\ call' = [call EXCEPT !.pc = "block", !.todo = rest, !.ino = ino, !.b = 0]
             /\ want' = [done EXCEPT ![call.file][Head(rest).n] = @ \cup {Head(rest).v}]
     /\ UNCHANGED <<free, blk, used, named, kills, hurt>>

\* The places in a file: level j on the way to block n, as <<n, j>>
Places == {x \in Blocks \X (-1..2) : x[2] <= Level(x[1])}

\* The blocks of file f, as the disk has them
OnDisk(f) == {Way(inode[f], x[1])[x[2]] : x \in Places} \ {0}

\* The file is left with a pointer to a block that is given back, if the call
\* ends now
Harmed == IF ~ At("idle") /\ ~ At("link") /\ call.b \in OnDisk(call.file)
          THEN {call.file} ELSE {}

\* DATA_FULL is returned, and the inode is not written
ReturnFull == /\ At("full")
              /\ call' = Idle
              /\ want' = [want EXCEPT ![call.file][N] = {0}]
              /\ hurt' = hurt \cup Harmed
              /\ UNCHANGED <<free, blk, inode, used, named, kills>>

\* trunc_fs writes the inode it read before, with a size of 0
WriteStale == /\ At("block") /\ call.todo = <<>>
              /\ inode' = [inode EXCEPT ![call.file] = [size |-> 0, ptr |-> call.saved]]
              /\ Goto("bit")
              /\ UNCHANGED <<free, blk, used, named, kills, want, hurt>>

\* inode_free
InodeFree == /\ At("bit")
             /\ used' = used \ {call.file}
             /\ call' = Idle
             /\ UNCHANGED <<free, blk, inode, named, kills, want, hurt>>

\* The process is killed, and started again
Kill == /\ ~ At("idle") /\ kills < MAX_KILLS
        /\ kills' = kills + 1
        /\ call' = Idle
        /\ hurt' = hurt \cup Harmed
        /\ UNCHANGED <<free, blk, inode, used, named, want>>

Next == \/ \E f \in Files : mknod(f) \/ unlink(f)
        \/ \E f \in Files, todo \in Jobs : write_i(f, todo)
        \/ \E b \in Data : CreateRoot(b) \/ CreateChild(b)
        \/ \E next \in Data \cup {0} : GiveAsNode(next)
        \/ LinkChild \/ RemoveWhole \/ RemovePart \/ NoRoom \/ RemoveNothing
        \/ GiveToNode \/ GiveHead \/ ClearAddress
        \/ Store \/ InodeWrite \/ ReturnFull \/ WriteStale \/ InodeFree
        \/ Kill

Spec == Init /\ [][Next]_vars

-----------------------------------------------------------------------------
(* Properties *)

\* The files whose pointers can be relied on
Whole == named \ (hurt \cup Harmed)

AddressBlocks(f) == {Way(inode[f], x[1])[x[2]] : x \in {y \in Places : y[2] >= 0}} \ {0}

\* The pointers to block b in the inodes and address blocks of fs
PointersTo(b, fs) ==
  {<<"inode", x[1], x[2]>> : x \in {y \in fs \X Pointers : inode[y[1]].ptr[y[2]] = b}}
  \cup {<<"block", x[1], x[2]>> : x \in {y \in (UNION {AddressBlocks(f) : f \in fs}) \X Slots :
                                            blk[y[1]][y[2]] = b}}

\* Wherever the process is killed, and however the other files are used
\* afterwards: the pointers of a file on disk lead to blocks that are not on the free
\* list, each of them from one place.  The exception is the file that a call
\* of rm_nth_datablock was working on between data_free of a block and the
\* write that clears the pointer to it; no other file is ever damaged.
TreesSound == \A f \in Whole : \A b \in OnDisk(f) :
                 b \notin free /\ Cardinality(PointersTo(b, Whole)) = 1

\* A block of such a file reads as it was last written, and the block a
\* killed write_i was at as before or as after, never as anything else: no
\* block that held another file's data or addresses shows.
CrashReads == \A f \in Whole, n \in Blocks :
                LET b == Way(inode[f], n)[-1]
                IN \E v \in want[f][n] : IF b = 0 THEN v = 0 ELSE blk[b] = Fill(v)

\* Blocks no inode leads to, and that are not free
Lost == Data \ (free \cup UNION {OnDisk(f) : f \in used})

\* Blocks get lost only by a kill, and one kill loses no more than the blocks
\* on the way to one block of a file.  DATA_FULL loses none, and neither does
\* a delete.
LeakBounded == At("idle") => Cardinality(Lost) <= kills * (Level(MAX_BLOCK) + 2)

\* "Do not update the inode itself, that's the caller's job" (layer2.c:1423):
\* when write_i returns DATA_FULL the inode on disk has the pointers that
\* get_nth_datablock and rm_nth_datablock left in the copy.
InodeWrittenBack == At("full") => inode[call.file].ptr = call.ino.ptr
=============================================================================
