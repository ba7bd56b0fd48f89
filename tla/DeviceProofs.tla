---------------------------- MODULE DeviceProofs ----------------------------
(***************************************************************************)
(* The superblock in memory and the one on the device (Device), for every  *)
(* size of the device, every set of blocks whose writes may be lost and    *)
(* any number of kills: CacheCoherent is an invariant.  It is not          *)
(* inductive: a program starts without a copy, and the calls that write    *)
(* other blocks must not hit block 0.                                      *)
(*                                                                         *)
(* The second half is about the free list (HandedOnce), when only writes   *)
(* of the superblock may be lost.                                          *)
(***************************************************************************)
EXTENDS Device, Induction

\* The blocks that a running program is about to write are not block 0
AtBlock == /\ prog.pc \in {"list", "root", "fill", "link"} => prog.b # 0
           /\ 0 \notin held

\* A program without a descriptor has no copy, and mkfs builds the list from
\* the superblock that it has just written
Started == /\ prog.name \in {"none", "mkfs", "fuse"}
           /\ prog = Nothing => cached_superblock = NULL
           /\ prog.name = "mkfs" => layer0_fd # UNINITIALIZED_FD
           /\ prog.name = "mkfs" /\ prog.pc \in {"list", "dir"} =>
                cached_superblock = Superblock(1, 1)

Shape == /\ DOMAIN dev = Blocks
         /\ dev = [b \in Blocks |-> dev[b]]
         /\ prog = [name |-> prog.name, pc |-> prog.pc, b |-> prog.b]
         /\ lost \in Nat

\* The inductive invariant
CInv == Shape /\ AtBlock /\ Started /\ CacheCoherent

\* A superblock that is written is on the device and in memory
LEMMA SuperblockWritten ==
  ASSUME CInv, NEW sb, write_superblock(sb), layer0_fd' = layer0_fd
  PROVE  /\ CacheCoherent'
         /\ cached_superblock' = sb
         /\ DOMAIN dev' = Blocks /\ dev' = [b \in Blocks |-> dev'[b]]
         /\ lost' \in Nat
<1>1. 0 \in Blocks
  BY DeviceConstants DEF Blocks
<1> QED
  BY <1>1 DEF CInv, Shape, CacheCoherent, write_superblock, write_block, Refused

\* A write to another block leaves both as they are
LEMMA OtherWritten ==
  ASSUME CInv, NEW b, NEW data, b # 0, write_block(b, data),
         layer0_fd' = layer0_fd, cached_superblock' = cached_superblock
  PROVE  /\ CacheCoherent'
         /\ DOMAIN dev' = Blocks /\ dev' = [x \in Blocks |-> dev'[x]]
         /\ lost' \in Nat
<1>1. 0 \in Blocks
  BY DeviceConstants DEF Blocks
<1> QED
  BY <1>1 DEF CInv, Shape, CacheCoherent, write_block, Refused

\* The record of the running program after Goto
LEMMA Moved ==
  ASSUME Shape, NEW pc, NEW b, Goto(pc, b)
  PROVE  /\ prog'.name = prog.name /\ prog'.pc = pc /\ prog'.b = b
         /\ prog' = [name |-> prog'.name, pc |-> prog'.pc, b |-> prog'.b]
<1>1. prog' = [name |-> prog.name, pc |-> pc, b |-> b]
  BY DEF Shape, Goto
<1> QED
  BY <1>1

\* No program runs at the start, and there is no copy of a superblock.
LEMMA InitCInv == Init => CInv
<1> SUFFICES ASSUME Init PROVE CInv
  OBVIOUS
<1> QED
  BY DEF Init, CInv, Shape, AtBlock, Started, CacheCoherent, Nothing, Blocks

\* Every write of mkfs, of a call and of fs_destroy keeps the copy and the
\* device together, and a kill or a failed open leaves no copy.
LEMMA NextCInv == CInv /\ [Next]_vars => CInv'
<1> SUFFICES ASSUME CInv, [Next]_vars PROVE CInv'
  OBVIOUS
<1> USE DEF CInv
<1>1. CASE \E fd \in {UNINITIALIZED_FD, 3} : MkfsOpen(fd)
  BY <1>1 DEF MkfsOpen, Shape, AtBlock, Started, CacheCoherent, Nothing
<1>2. CASE \E fd \in {UNINITIALIZED_FD, 3} : fs_init(fd)
  BY <1>2 DEF fs_init, Shape, AtBlock, Started, CacheCoherent, Nothing
<1>3. CASE init_superblock
  <2>1. write_superblock(Superblock(1, 1)) /\ layer0_fd' = layer0_fd
    BY <1>3 DEF init_superblock
  <2>2. Goto("list", 1) /\ prog.name = "mkfs" /\ held' = held
    BY <1>3 DEF init_superblock, Runs
  <2> QED
    BY <2>1, <2>2, SuperblockWritten, Moved DEF Shape, AtBlock, Started, Nothing
<1>4. CASE init_freelist
  <2>1. /\ prog.b # 0 /\ write_block(prog.b, NextNode(prog.b))
        /\ layer0_fd' = layer0_fd /\ cached_superblock' = cached_superblock
    BY <1>4 DEF init_freelist, Runs, AtBlock
  <2>2. /\ prog.name = "mkfs" /\ prog.pc = "list" /\ held' = held
        /\ \/ Goto("list", prog.b + 1) /\ prog.b + 1 \in Data
           \/ Goto("dir", 0)
    BY <1>4 DEF init_freelist, Runs
  <2>3. 0 \notin Data
    BY DEF Data
  <2> QED
    BY <2>1, <2>2, <2>3, OtherWritten, Moved DEF Shape, AtBlock, Started, Nothing
<1>5. CASE MkfsTake
  <2>1. read_superblock.free_list_head = 1
    BY <1>5, DeviceConstants, NullIsNone DEF Blocks, MkfsTake, Runs, Started, read_superblock, Superblock, CacheCoherent
  <2>2. /\ write_superblock(Superblock(dev[1], 1)) /\ layer0_fd' = layer0_fd
        /\ prog.name = "mkfs" /\ held' = held \cup {1}
        /\ Goto("root", 1)
    BY <1>5, <2>1 DEF MkfsTake, Runs
  <2> QED
    BY <2>2, SuperblockWritten, Moved DEF Shape, AtBlock, Started, Nothing
<1>6. CASE MkfsRoot
  <2>1. /\ prog.b # 0 /\ write_block(prog.b, FILE_DATA)
        /\ layer0_fd' = layer0_fd /\ cached_superblock' = cached_superblock
    BY <1>6 DEF MkfsRoot, Runs, AtBlock
  <2>2. prog.name = "mkfs" /\ held' = held /\ Goto("end", 0)
    BY <1>6 DEF MkfsRoot, Runs
  <2> QED
    BY <2>1, <2>2, OtherWritten, Moved DEF Shape, AtBlock, Started, Nothing
<1>7. CASE MkfsEnd
  <2>1. /\ write_superblock(read_superblock) /\ layer0_fd' = layer0_fd
        /\ prog.name = "mkfs" /\ held' = held
        /\ Goto("done", 0)
    BY <1>7 DEF MkfsEnd, Runs
  <2> QED
    BY <2>1, SuperblockWritten, Moved DEF Shape, AtBlock, Started, Nothing
<1>8. CASE MkfsExit \/ fs_destroy \/ Kill
  BY <1>8 DEF MkfsExit, fs_destroy, Kill, Ended, Shape, AtBlock, Started, CacheCoherent, Nothing
<1>9. CASE TakeHead
  <2> DEFINE head == read_superblock.free_list_head
  <2>1. /\ head # 0 /\ layer0_fd' = layer0_fd
        /\ write_superblock([read_superblock EXCEPT !.free_list_head = dev[head]])
        /\ prog.name = "fuse" /\ held' = held \cup {head}
        /\ Goto("fill", head)
    BY <1>9 DEF TakeHead, Runs
  <2> HIDE DEF head
  <2> QED
    BY <2>1, SuperblockWritten, Moved DEF Shape, AtBlock, Started, Nothing
<1>10. CASE FillTaken
  <2>1. /\ prog.b # 0 /\ write_block(prog.b, FILE_DATA)
        /\ layer0_fd' = layer0_fd /\ cached_superblock' = cached_superblock
    BY <1>10 DEF FillTaken, Runs, AtBlock
  <2>2. prog.name = "fuse" /\ held' = held /\ Goto("idle", 0)
    BY <1>10 DEF FillTaken, Runs
  <2> QED
    BY <2>1, <2>2, OtherWritten, Moved DEF Shape, AtBlock, Started, Nothing
<1>11. ASSUME NEW b \in Data, MakeNode(b) PROVE CInv'
  <2>1. /\ b # 0 /\ write_block(b, read_superblock.free_list_head)
        /\ layer0_fd' = layer0_fd /\ cached_superblock' = cached_superblock
    BY <1>11 DEF MakeNode, AtBlock
  <2>2. prog.name = "fuse" /\ held' = held \ {b} /\ Goto("link", b)
    BY <1>11 DEF MakeNode, Runs
  <2> QED
    BY <2>1, <2>2, OtherWritten, Moved DEF Shape, AtBlock, Started, Nothing
<1>12. CASE LinkNode
  <2>1. /\ write_superblock([read_superblock EXCEPT !.free_list_head = prog.b])
        /\ layer0_fd' = layer0_fd /\ prog.name = "fuse" /\ held' = held
        /\ Goto("idle", 0)
    BY <1>12 DEF LinkNode, Runs
  <2> QED
    BY <2>1, SuperblockWritten, Moved DEF Shape, AtBlock, Started, Nothing
<1>13. CASE UNCHANGED vars
  BY <1>13 DEF vars, Shape, AtBlock, Started, CacheCoherent
<1> QED
  BY <1>1, <1>2, <1>3, <1>4, <1>5, <1>6, <1>7, <1>8, <1>9, <1>10, <1>11, <1>12, <1>13
  DEF Next

\* For any device, whichever writes are lost and whenever a program is killed:
\* what read_superblock takes from memory is the superblock of the device
\* until a write of it is lost, and a program that could not open the device
\* has no superblock in memory to work with.
THEOREM CacheCorrect == Spec => []CacheCoherent
<1>1. CInv => CacheCoherent
  BY DEF CInv
<1> QED
  BY InitCInv, NextCInv, <1>1, PTL DEF Spec

-----------------------------------------------------------------------------
(* The free list *)

\* The superblock that the running program, or the next one, works with
Super == IF cached_superblock # NULL THEN cached_superblock ELSE dev[0]
Head  == Super.free_list_head

\* The free list as a stack: s[n] is its head, s[1] its last node
Stack(n, s) == /\ s \in [0..n -> Blocks]
               /\ s[0] = 0 /\ s[n] = Head
               /\ \A k \in 1..n : s[k] \in Data \ held /\ dev[s[k]] = s[k - 1]
               /\ \A j, k \in 1..n : s[j] = s[k] => j = k

\* The node that data_free has written and not yet made the head
LinkOK(n, s) == prog.pc = "link" => /\ prog.b \in Data \ held
                                    /\ dev[prog.b] = Head
                                    /\ \A k \in 1..n : s[k] # prog.b

Listed == \E n \in Nat : \E s \in [0..n -> Blocks] : Stack(n, s) /\ LinkOK(n, s)

\* From the end of mkfs on there is a list, as long as somebody knows its head
HeadKnown == /\ made \/ (prog.name = "mkfs" /\ prog.pc \in {"root", "end"})
             /\ cached_superblock # NULL \/ lost = 0

ListOK == HeadKnown => Super = Superblock(Head, 1) /\ Head \in Blocks /\ Listed

\* mkfs builds the list from block 1 on
BuildOK == prog.name = "mkfs" =>
             /\ prog.pc \in {"super", "list", "dir", "root", "end", "done"}
             /\ prog.pc # "super" => cached_superblock # NULL
             /\ prog.pc # "done" => ~ made
             /\ prog.pc \in {"super", "list", "dir"} => held = {}
             /\ prog.pc = "list" => /\ prog.b \in Data
                                    /\ \A b \in 1..(prog.b - 1) : dev[b] = b + 1
             /\ prog.pc = "dir" => \A b \in Data : dev[b] = NextNode(b)

\* A program that runs on a disk, and one that does not run
ProgramOK == /\ prog.name = "none" => prog = Nothing /\ layer0_fd = UNINITIALIZED_FD
             /\ prog.name = "fuse" => /\ made
                                      /\ prog.pc \in {"idle", "fill", "link"}
                                      /\ cached_superblock = NULL => lost = 0
             /\ prog.pc \in {"fill", "root"} => prog.b \in held

\* The inductive invariant
DInv == /\ Lossy \subseteq {0}
        /\ CInv
        /\ TypeOK
        /\ BuildOK
        /\ ProgramOK
        /\ ListOK

\* What a call reads is Super, from memory or from the device.
LEMMA ReadIsSuper ==
  ASSUME read_superblock # NULL
  PROVE  read_superblock = Super
  BY DEF read_superblock, Super

\* A write of the superblock leaves the data blocks alone, and makes it Super.
LEMMA SuperChanges ==
  ASSUME DInv, NEW head \in Blocks, write_superblock(Superblock(head, 1))
  PROVE  /\ cached_superblock' # NULL /\ Super' = Superblock(head, 1) /\ Head' = head
         /\ \A b \in Data : dev'[b] = dev[b]
         /\ lost' \in 0..MAX_LOST
<1>1. cached_superblock' = Superblock(head, 1) /\ Superblock(head, 1) # NULL
  BY NullIsNone DEF write_superblock
<1>2. Super' = Superblock(head, 1) /\ Head' = head
  BY <1>1 DEF Super, Head, Superblock
<1>3. \A b \in Data : b # 0 /\ b \in Blocks
  BY DEF Data, Blocks
<1>4. lost' \in 0..MAX_LOST
  BY DeviceConstants DEF write_superblock, write_block, DInv, TypeOK
<1> QED
  BY <1>1, <1>2, <1>3, <1>4 DEF write_superblock, write_block, DInv, CInv, Shape

\* The write of a data block is not lost, and leaves the superblock alone.
LEMMA BlockChanges ==
  ASSUME DInv, NEW b \in Data, NEW v, write_block(b, v), cached_superblock' = cached_superblock
  PROVE  /\ dev'[b] = v /\ \A a \in Data \ {b} : dev'[a] = dev[a]
         /\ Super' = Super /\ Head' = Head
         /\ lost' = lost
<1>1. b # 0 /\ b \in Blocks /\ b \notin Lossy
  BY DEF Data, Blocks, DInv
<1>2. dev' = [dev EXCEPT ![b] = v] /\ lost' = lost
  BY <1>1 DEF write_block
<1>3. dev'[0] = dev[0] /\ dev'[b] = v /\ \A a \in Data \ {b} : dev'[a] = dev[a]
  BY <1>1, <1>2 DEF DInv, CInv, Shape
<1>4. Super' = Super
  BY <1>3 DEF Super
<1> QED
  BY <1>2, <1>3, <1>4 DEF Head

\* The list is as it was when its blocks, its head and its holders are.
LEMMA StackStays ==
  ASSUME NEW n \in Nat, NEW s, Stack(n, s), Head' = Head, held' \subseteq held,
         \A k \in 1..n : dev'[s[k]] = dev[s[k]]
  PROVE  Stack(n, s)'
  BY DEF Stack

\* mkfs leaves the list of all blocks but the root directory's.
LEMMA StackBuilt ==
  ASSUME Head' = 2, held' = {1}, \A b \in Data : dev'[b] = NextNode(b), prog'.pc # "link"
  PROVE  Listed'
<1> DEFINE n == NUM_BLOCKS - 2
           s == [k \in 0..n |-> IF k = 0 THEN 0 ELSE NUM_BLOCKS - k]
<1>1. n \in Nat /\ n # 0 /\ NUM_BLOCKS \in Nat /\ NUM_BLOCKS >= 4
  BY DeviceConstants
<1>2. s \in [0..n -> Blocks] /\ s[0] = 0 /\ s[n] = 2
  BY <1>1 DEF Blocks
<1>3. ASSUME NEW k \in 1..n PROVE s[k] \in Data \ {1} /\ dev'[s[k]] = s[k - 1]
  <2>1. s[k] = NUM_BLOCKS - k /\ s[k] \in Data \ {1}
    BY <1>1 DEF Data
  <2>2. dev'[s[k]] = NextNode(NUM_BLOCKS - k)
    BY <2>1
  <2>3. NextNode(NUM_BLOCKS - k) = s[k - 1]
    BY <1>1 DEF NextNode, Data
  <2> QED
    BY <2>1, <2>2, <2>3
<1>4. \A j, k \in 1..n : s[j] = s[k] => j = k
  BY <1>1
<1> HIDE DEF n, s
<1>5. Stack(n, s)' /\ LinkOK(n, s)'
  BY <1>2, <1>3, <1>4 DEF Stack, LinkOK, n, s
<1> QED
  BY <1>1, <1>2, <1>5 DEF Listed, n, s

\* The parts of the invariant other than the list, after a step that writes
\* the superblock or nothing.
LEMMA TypeKept ==
  ASSUME TypeOK, layer0_fd' = layer0_fd, kills' = kills, lost' \in 0..MAX_LOST,
         prog'.b \in Blocks, held' \subseteq Data,
         \A b \in Data : dev'[b] \in Blocks \cup {NULL, FILE_DATA},
         cached_superblock' = NULL \/ cached_superblock'.free_list_head \in Blocks
  PROVE  TypeOK'
  BY DEF TypeOK

\* A list that the step does not touch is still there.
LEMMA ListKept ==
  ASSUME ListOK, HeadKnown, Super' = Super, Head' = Head, held' \subseteq held,
         prog'.pc # "link",
         \A b \in Data \ held : dev'[b] = dev[b]
  PROVE  ListOK'
<1>1. PICK n \in Nat : \E s \in [0..n -> Blocks] : Stack(n, s) /\ LinkOK(n, s)
  BY DEF ListOK, Listed
<1>2. PICK s \in [0..n -> Blocks] : Stack(n, s)
  BY <1>1
<1>3. \A k \in 1..n : dev'[s[k]] = dev[s[k]]
  BY <1>2 DEF Stack
<1>4. Stack(n, s)' /\ LinkOK(n, s)'
  BY <1>2, <1>3, StackStays DEF LinkOK
<1> QED
  BY <1>4 DEF ListOK, Listed, Superblock

\* Nothing is on the new device, and no program runs.
LEMMA InitDInv == Lossy \subseteq {0} /\ Init => DInv
<1> SUFFICES ASSUME Lossy \subseteq {0}, Init PROVE DInv
  OBVIOUS
<1>1. \A b \in Data : b \in Blocks
  BY DEF Data, Blocks
<1>2. 0 \in Blocks
  BY DeviceConstants DEF Blocks
<1>3. TypeOK
  BY <1>1, <1>2, DeviceConstants DEF Init, TypeOK, Nothing
<1>4. BuildOK /\ ProgramOK /\ ListOK
  BY DEF Init, BuildOK, ProgramOK, ListOK, HeadKnown, Nothing
<1> QED
  BY <1>3, <1>4, InitCInv DEF DInv

\* mkfs opens the device, and from here on there is no list.
LEMMA MkfsOpenDInv ==
  ASSUME DInv, CInv', NEW fd \in {UNINITIALIZED_FD, 3}, MkfsOpen(fd)
  PROVE  DInv'
<1>1. TypeOK'
  BY DEF DInv, TypeOK, MkfsOpen, Nothing
<1>2. BuildOK' /\ ProgramOK' /\ ListOK'
  BY DEF DInv, MkfsOpen, BuildOK, ProgramOK, ListOK, HeadKnown, Nothing
<1> QED
  BY <1>1, <1>2 DEF DInv

\* The superblock of mkfs.
LEMMA InitSuperblockDInv ==
  ASSUME DInv, CInv', init_superblock
  PROVE  DInv'
<1>1. 0 \in Blocks /\ 1 \in Blocks /\ 1 \in Data
  BY DeviceConstants DEF Blocks, Data
<1>2. /\ prog.name = "mkfs" /\ prog.pc = "super" /\ Goto("list", 1)
      /\ layer0_fd' = layer0_fd /\ made' = made /\ held' = held /\ kills' = kills
      /\ write_superblock(Superblock(1, 1))
  BY DEF init_superblock, Runs
<1>3. prog'.name = "mkfs" /\ prog'.pc = "list" /\ prog'.b = 1
  BY <1>2, Moved DEF DInv, CInv
<1>4. ~ made' /\ held' = {}
  BY <1>2 DEF DInv, BuildOK
<1>5. PICK one \in Blocks : one = 1
  BY <1>1
<1>6. /\ cached_superblock' # NULL /\ Super' = Superblock(1, 1) /\ Head' = 1
      /\ \A b \in Data : dev'[b] = dev[b]
      /\ lost' \in 0..MAX_LOST
  BY <1>2, <1>5, SuperChanges
<1>7. TypeOK'
  <2>1. cached_superblock'.free_list_head \in Blocks
    BY <1>1, <1>6 DEF Super, Head
  <2> QED
    BY <1>1, <1>2, <1>3, <1>4, <1>6, <2>1, TypeKept DEF DInv, TypeOK
<1>8. BuildOK' /\ ProgramOK' /\ ListOK'
  BY <1>1, <1>3, <1>4, <1>6 DEF DInv, BuildOK, ProgramOK, ListOK, HeadKnown
<1> QED
  BY <1>7, <1>8 DEF DInv

\* A node of the new list.
LEMMA InitFreelistDInv ==
  ASSUME DInv, CInv', init_freelist
  PROVE  DInv'
<1>1. PICK b \in Data : b = prog.b
  BY DEF init_freelist, Runs, DInv, BuildOK
<1>2. /\ prog.name = "mkfs" /\ prog.pc = "list"
      /\ layer0_fd' = layer0_fd /\ made' = made /\ held' = held /\ kills' = kills
      /\ write_block(b, NextNode(b)) /\ cached_superblock' = cached_superblock
  BY <1>1 DEF init_freelist, Runs
<1>3. /\ dev'[b] = NextNode(b) /\ \A a \in Data \ {b} : dev'[a] = dev[a]
      /\ lost' = lost
  BY <1>2, BlockChanges
<1>4. ~ made' /\ held' = {} /\ cached_superblock' # NULL
  BY <1>2 DEF DInv, BuildOK
<1>5. \A a \in 1..(b - 1) : a \in Data \ {b} /\ dev'[a] = a + 1
  <2>1. \A a \in 1..(b - 1) : a \in Data \ {b}
    BY <1>1, DeviceConstants DEF Data
  <2> QED
    BY <1>1, <1>2, <1>3, <2>1 DEF DInv, BuildOK
<1>6. NextNode(b) \in Blocks /\ 0 \in Blocks
  BY DeviceConstants DEF NextNode, Data, Blocks
<1>7. \/ prog'.name = "mkfs" /\ prog'.pc = "list" /\ prog'.b = b + 1 /\ b + 1 \in Data
      \/ prog'.name = "mkfs" /\ prog'.pc = "dir" /\ prog'.b = 0 /\ b + 1 \notin Data
  <2>1. CASE b + 1 \in Data
    <3>1. Goto("list", b + 1)
      BY <1>1, <2>1 DEF init_freelist
    <3> QED
      BY <1>2, <2>1, <3>1, Moved DEF DInv, CInv
  <2>2. CASE b + 1 \notin Data
    <3>1. Goto("dir", 0)
      BY <1>1, <2>2 DEF init_freelist
    <3> QED
      BY <1>2, <2>2, <3>1, Moved DEF DInv, CInv
  <2> QED
    BY <2>1, <2>2
<1>8. TypeOK'
  <2>1. prog'.b \in Blocks
    BY <1>6, <1>7 DEF Data, Blocks
  <2>2. \A a \in Data : dev'[a] \in Blocks \cup {NULL, FILE_DATA}
    BY <1>3, <1>6 DEF DInv, TypeOK
  <2> QED
    BY <1>2, <1>3, <1>4, <2>1, <2>2, TypeKept DEF DInv, TypeOK
<1>9. BuildOK'
  <2>1. CASE prog'.pc = "list"
    <3>1. \A a \in 1..(prog'.b - 1) : dev'[a] = a + 1
      BY <1>1, <1>3, <1>5, <1>7, <2>1, DeviceConstants DEF NextNode, Data
    <3> QED
      BY <1>4, <1>7, <2>1, <3>1 DEF BuildOK
  <2>2. CASE prog'.pc = "dir"
    <3>1. b = NUM_BLOCKS - 1
      BY <1>7, <2>2, DeviceConstants DEF Data
    <3>2. \A a \in Data : dev'[a] = NextNode(a)
      BY <1>3, <1>5, <3>1, DeviceConstants DEF NextNode, Data
    <3> QED
      BY <1>4, <1>7, <2>2, <3>2 DEF BuildOK
  <2> QED
    BY <1>7, <2>1, <2>2
<1>10. ProgramOK' /\ ListOK'
  BY <1>4, <1>7 DEF DInv, ProgramOK, ListOK, HeadKnown
<1> QED
  BY <1>8, <1>9, <1>10 DEF DInv

\* The root directory takes block 1, and the list begins at block 2.
LEMMA MkfsTakeDInv ==
  ASSUME DInv, CInv', MkfsTake
  PROVE  DInv'
<1>1. 0 \in Blocks /\ 1 \in Blocks /\ 2 \in Blocks /\ 1 \in Data
  BY DeviceConstants DEF Blocks, Data
<1>2. read_superblock.free_list_head = 1
  BY DeviceConstants, NullIsNone
  DEF DInv, CInv, Started, Blocks, MkfsTake, Runs, read_superblock, Superblock
<1>3. prog.name = "mkfs" /\ prog.pc = "dir" /\ held = {} /\ ~ made /\ dev[1] = 2
  <2>1. NextNode(1) = 2
    BY DeviceConstants DEF NextNode, Data
  <2> QED
    BY <1>1, <2>1 DEF MkfsTake, Runs, DInv, BuildOK
<1>4. /\ Goto("root", 1) /\ write_superblock(Superblock(2, 1))
      /\ layer0_fd' = layer0_fd /\ ~ made' /\ held' = {1} /\ kills' = kills
  BY <1>2, <1>3 DEF MkfsTake
<1>5. prog'.name = "mkfs" /\ prog'.pc = "root" /\ prog'.b = 1
  BY <1>3, <1>4, Moved DEF DInv, CInv
<1>6. PICK two \in Blocks : two = 2
  BY <1>1
<1>7. /\ cached_superblock' # NULL /\ Super' = Superblock(2, 1) /\ Head' = 2
      /\ \A b \in Data : dev'[b] = dev[b]
      /\ lost' \in 0..MAX_LOST
  BY <1>4, <1>6, SuperChanges
<1>8. TypeOK'
  <2>1. cached_superblock'.free_list_head \in Blocks
    BY <1>1, <1>7 DEF Super, Head
  <2> QED
    BY <1>1, <1>4, <1>5, <1>7, <2>1, TypeKept DEF DInv, TypeOK
<1>9. Listed'
  BY <1>3, <1>4, <1>5, <1>7, StackBuilt DEF DInv, BuildOK
<1>10. BuildOK' /\ ProgramOK' /\ ListOK'
  BY <1>1, <1>4, <1>5, <1>7, <1>9 DEF BuildOK, ProgramOK, ListOK
<1> QED
  BY <1>8, <1>10 DEF DInv

\* The block that was taken gets its data: it is on no list.
LEMMA FilledDInv ==
  ASSUME DInv, CInv', prog.b \in held, HeadKnown,
         write_block(prog.b, FILE_DATA),
         UNCHANGED <<layer0_fd, cached_superblock, made, held, kills>>,
         \/ prog.name = "mkfs" /\ prog.pc = "root" /\ Goto("end", 0)
         \/ prog.name = "fuse" /\ Goto("idle", 0)
  PROVE  DInv'
<1>1. PICK b \in Data : b = prog.b /\ b \in held
  BY DEF DInv, TypeOK
<1>2. /\ dev'[b] = FILE_DATA /\ \A a \in Data \ {b} : dev'[a] = dev[a]
      /\ Super' = Super /\ Head' = Head
      /\ lost' = lost
  BY <1>1, BlockChanges
<1>3. /\ prog'.name = prog.name /\ prog'.pc \in {"end", "idle"} /\ prog'.b = 0
      /\ prog.name = "mkfs" => prog'.pc = "end" /\ prog.pc = "root"
      /\ prog.name = "fuse" => prog'.pc = "idle"
      /\ prog.name \in {"mkfs", "fuse"}
  BY Moved DEF DInv, CInv
<1>4. TypeOK'
  <2>1. 0 \in Blocks
    BY DeviceConstants DEF Blocks
  <2> QED
    BY <1>1, <1>2, <1>3, <2>1, TypeKept DEF DInv, TypeOK
<1>5. BuildOK' /\ ProgramOK'
  BY <1>2, <1>3 DEF DInv, BuildOK, ProgramOK
<1>6. ListOK'
  BY <1>1, <1>2, <1>3, ListKept DEF DInv
<1> QED
  BY <1>4, <1>5, <1>6 DEF DInv

\* mkfs writes its superblock once more.
LEMMA MkfsEndDInv ==
  ASSUME DInv, CInv', MkfsEnd
  PROVE  DInv'
<1>1. /\ prog.name = "mkfs" /\ prog.pc = "end" /\ Goto("done", 0)
      /\ layer0_fd' = layer0_fd /\ held' = held /\ kills' = kills /\ made'
  BY DEF MkfsEnd, Runs
<1>2. cached_superblock # NULL /\ HeadKnown
  BY <1>1 DEF DInv, BuildOK, HeadKnown
<1>3. PICK head \in Blocks : head = Head /\ Super = Superblock(head, 1)
  BY <1>2 DEF DInv, ListOK
<1>4. write_superblock(Superblock(head, 1))
  BY <1>2, <1>3 DEF MkfsEnd, read_superblock, Super
<1>5. /\ cached_superblock' # NULL /\ Super' = Superblock(head, 1) /\ Head' = head
      /\ \A b \in Data : dev'[b] = dev[b]
      /\ lost' \in 0..MAX_LOST
  BY <1>4, SuperChanges
<1>6. prog'.name = "mkfs" /\ prog'.pc = "done" /\ prog'.b = 0
  BY <1>1, Moved DEF DInv, CInv
<1>7. TypeOK'
  <2>1. 0 \in Blocks
    BY DeviceConstants DEF Blocks
  <2>2. cached_superblock'.free_list_head \in Blocks
    BY <1>5 DEF Super, Head
  <2> QED
    BY <1>1, <1>5, <1>6, <2>1, <2>2, TypeKept DEF DInv, TypeOK
<1>8. BuildOK' /\ ProgramOK'
  BY <1>5, <1>6 DEF BuildOK, ProgramOK
<1>9. ListOK'
  BY <1>1, <1>2, <1>3, <1>5, <1>6, ListKept DEF DInv
<1> QED
  BY <1>7, <1>8, <1>9 DEF DInv

\* A program ends or is killed: the next one reads what is on the device.
LEMMA EndedDInv ==
  ASSUME DInv, CInv', Ended, UNCHANGED <<dev, made, held, lost>>, kills' \in 0..MAX_KILLS
  PROVE  DInv'
<1>1. TypeOK'
  <2>1. 0 \in Blocks
    BY DeviceConstants DEF Blocks
  <2> QED
    BY <2>1 DEF DInv, TypeOK, Ended, Nothing
<1>2. BuildOK' /\ ProgramOK'
  BY DEF Ended, Nothing, BuildOK, ProgramOK
<1>3. ListOK'
  <2> SUFFICES ASSUME HeadKnown' PROVE ListOK'
    BY DEF ListOK
  <2>1. made /\ lost = 0 /\ HeadKnown
    BY DEF Ended, Nothing, HeadKnown
  <2>2. Super' = Super
    BY <2>1 DEF Ended, Super, DInv, CInv, CacheCoherent
  <2>3. Head' = Head /\ prog'.pc # "link"
    BY <2>2 DEF Head, Ended, Nothing
  <2> QED
    BY <2>1, <2>2, <2>3, ListKept DEF DInv
<1> QED
  BY <1>1, <1>2, <1>3 DEF DInv

\* The file system starts on a disk that mkfs made.
LEMMA FsInitDInv ==
  ASSUME DInv, CInv', NEW fd \in {UNINITIALIZED_FD, 3}, fs_init(fd)
  PROVE  DInv'
<1>1. prog'.name = "fuse" /\ prog'.pc = "idle" /\ prog'.b = 0 /\ made /\ lost = 0
  BY DEF fs_init
<1>2. TypeOK'
  BY DEF DInv, TypeOK, fs_init, Nothing
<1>3. BuildOK' /\ ProgramOK'
  BY <1>1 DEF fs_init, BuildOK, ProgramOK
<1>4. ListOK'
  <2>1. HeadKnown
    BY <1>1 DEF HeadKnown
  <2>2. Super' = Super
    BY DEF fs_init, Super
  <2>3. Head' = Head
    BY <2>2 DEF Head
  <2> QED
    BY <1>1, <2>1, <2>2, <2>3, ListKept DEF DInv, fs_init
<1> QED
  BY <1>2, <1>3, <1>4 DEF DInv

\* What the file system works with: its superblock and its list.
LEMMA FuseWorks ==
  ASSUME DInv, prog.name = "fuse"
  PROVE  /\ HeadKnown /\ made /\ Head \in Blocks /\ Super = Superblock(Head, 1)
         /\ Listed
  BY DEF DInv, ProgramOK, HeadKnown, ListOK

\* data_allocate takes the head off the list.
LEMMA TakeHeadDInv ==
  ASSUME DInv, CInv', TakeHead
  PROVE  DInv'
<1>1. prog.name = "fuse" /\ read_superblock = Super /\ Super = Superblock(Head, 1)
  BY FuseWorks, ReadIsSuper DEF TakeHead, Runs
<1>2. PICK head \in Blocks : head = Head
  BY <1>1, FuseWorks
<1>3. /\ head # 0 /\ held' = held \cup {head} /\ Goto("fill", head)
      /\ write_superblock([Superblock(head, 1) EXCEPT !.free_list_head = dev[head]])
      /\ layer0_fd' = layer0_fd /\ made' = made /\ kills' = kills
  <2>1. read_superblock.free_list_head = head /\ read_superblock = Superblock(head, 1)
    BY <1>1, <1>2 DEF Head
  <2> QED
    BY <2>1 DEF TakeHead
<1>4. PICK n \in Nat : \E s \in [0..n -> Blocks] : Stack(n, s) /\ LinkOK(n, s)
  BY <1>1, FuseWorks DEF Listed
<1>5. PICK s \in [0..n -> Blocks] : Stack(n, s)
  BY <1>4
<1>6. n # 0 /\ n - 1 \in Nat /\ n \in 1..n /\ s[n] = head
  BY <1>2, <1>3, <1>5 DEF Stack
<1>7. head \in Data \ held /\ dev[head] = s[n - 1] /\ s[n - 1] \in Blocks
  BY <1>5, <1>6 DEF Stack
<1>8. PICK next \in Blocks : next = dev[head] /\ next = s[n - 1]
  BY <1>7
<1>9. write_superblock(Superblock(next, 1))
  BY <1>3, <1>8 DEF Superblock
<1>10. /\ cached_superblock' # NULL /\ Super' = Superblock(next, 1) /\ Head' = next
       /\ \A b \in Data : dev'[b] = dev[b]
       /\ lost' \in 0..MAX_LOST
  BY <1>9, SuperChanges
<1>11. prog'.name = "fuse" /\ prog'.pc = "fill" /\ prog'.b = head
  BY <1>1, <1>3, Moved DEF DInv, CInv
<1>12. TypeOK'
  <2>1. cached_superblock'.free_list_head \in Blocks
    BY <1>10 DEF Super, Head
  <2> QED
    BY <1>3, <1>7, <1>10, <1>11, <2>1, TypeKept DEF DInv, TypeOK
<1>13. BuildOK' /\ ProgramOK'
  BY <1>1, <1>3, <1>10, <1>11, FuseWorks DEF BuildOK, ProgramOK
<1>14. Listed'
  <2> DEFINE m == n - 1
             t == [k \in 0..m |-> s[k]]
  <2>1. /\ m \in Nat /\ t \in [0..m -> Blocks] /\ t[0] = 0 /\ t[m] = next
    BY <1>5, <1>6, <1>8 DEF Stack
  <2>2. ASSUME NEW k \in 1..m PROVE t[k] \in Data \ held' /\ dev'[t[k]] = t[k - 1]
    <3>1. k \in 1..n /\ k # n /\ t[k] = s[k] /\ t[k - 1] = s[k - 1]
      BY <1>6
    <3>2. s[k] \in Data \ held /\ dev[s[k]] = s[k - 1] /\ s[k] # head
      BY <1>5, <1>6, <3>1 DEF Stack
    <3> QED
      BY <1>3, <1>10, <3>1, <3>2
  <2>3. \A j, k \in 1..m : t[j] = t[k] => j = k
    <3>1. \A j \in 1..m : j \in 1..n /\ t[j] = s[j]
      BY <1>6
    <3> QED
      BY <1>5, <3>1 DEF Stack
  <2> HIDE DEF m, t
  <2>4. Stack(m, t)' /\ LinkOK(m, t)'
    BY <1>10, <1>11, <2>1, <2>2, <2>3 DEF Stack, LinkOK, m, t
  <2> QED
    BY <2>1, <2>4 DEF Listed, m, t
<1>15. ListOK'
  BY <1>10, <1>14 DEF ListOK
<1> QED
  BY <1>12, <1>13, <1>15 DEF DInv

\* data_free writes the head into the block that it frees.
LEMMA MakeNodeDInv ==
  ASSUME DInv, CInv', NEW b \in Data, MakeNode(b)
  PROVE  DInv'
<1>1. /\ prog.name = "fuse" /\ b \in held /\ held' = held \ {b} /\ Goto("link", b)
      /\ write_block(b, Head) /\ cached_superblock' = cached_superblock
      /\ layer0_fd' = layer0_fd /\ made' = made /\ kills' = kills
  BY ReadIsSuper DEF MakeNode, Runs, Head
<1>2. /\ dev'[b] = Head /\ \A a \in Data \ {b} : dev'[a] = dev[a]
      /\ Super' = Super /\ Head' = Head
      /\ lost' = lost
  BY <1>1, BlockChanges
<1>3. prog'.name = "fuse" /\ prog'.pc = "link" /\ prog'.b = b
  BY <1>1, Moved DEF DInv, CInv
<1>4. TypeOK'
  <2>1. b \in Blocks
    BY DEF Data, Blocks
  <2> QED
    BY <1>1, <1>2, <1>3, <2>1, FuseWorks, TypeKept DEF DInv, TypeOK
<1>5. BuildOK' /\ ProgramOK'
  BY <1>1, <1>2, <1>3 DEF BuildOK, DInv, ProgramOK
<1>6. PICK n \in Nat : \E s \in [0..n -> Blocks] : Stack(n, s) /\ LinkOK(n, s)
  BY <1>1, FuseWorks DEF Listed
<1>7. PICK s \in [0..n -> Blocks] : Stack(n, s)
  BY <1>6
<1>8. \A k \in 1..n : s[k] # b /\ dev'[s[k]] = dev[s[k]]
  BY <1>1, <1>2, <1>7 DEF Stack
<1>9. Stack(n, s)'
  BY <1>1, <1>2, <1>7, <1>8, StackStays
<1>10. LinkOK(n, s)'
  BY <1>1, <1>2, <1>3, <1>8 DEF LinkOK
<1>11. ListOK'
  BY <1>1, <1>2, <1>9, <1>10, FuseWorks DEF ListOK, Listed
<1> QED
  BY <1>4, <1>5, <1>11 DEF DInv

\* ... and makes it the head.
LEMMA LinkNodeDInv ==
  ASSUME DInv, CInv', LinkNode
  PROVE  DInv'
<1>1. /\ prog.name = "fuse" /\ prog.pc = "link" /\ Goto("idle", 0)
      /\ layer0_fd' = layer0_fd /\ made' = made /\ held' = held /\ kills' = kills
  BY DEF LinkNode, Runs
<1>2. read_superblock = Superblock(Head, 1)
  BY <1>1, FuseWorks DEF LinkNode, write_superblock, write_block, read_superblock, Super
<1>3. PICK n \in Nat : \E s \in [0..n -> Blocks] : Stack(n, s) /\ LinkOK(n, s)
  BY <1>1, FuseWorks DEF Listed
<1>4. PICK s \in [0..n -> Blocks] : Stack(n, s) /\ LinkOK(n, s)
  BY <1>3
<1>5. PICK b \in Data \ held : b = prog.b /\ dev[b] = Head /\ \A k \in 1..n : s[k] # b
  BY <1>1, <1>4 DEF LinkOK
<1>6. b \in Blocks /\ 0 \in Blocks
  BY DeviceConstants DEF Data, Blocks
<1>7. write_superblock(Superblock(b, 1))
  BY <1>2, <1>5 DEF LinkNode, Superblock
<1>8. /\ cached_superblock' # NULL /\ Super' = Superblock(b, 1) /\ Head' = b
      /\ \A a \in Data : dev'[a] = dev[a]
      /\ lost' \in 0..MAX_LOST
  BY <1>6, <1>7, SuperChanges
<1>9. prog'.name = "fuse" /\ prog'.pc = "idle" /\ prog'.b = 0
  BY <1>1, Moved DEF DInv, CInv
<1>10. TypeOK'
  <2>1. cached_superblock'.free_list_head \in Blocks
    BY <1>6, <1>8 DEF Super, Head
  <2> QED
    BY <1>1, <1>6, <1>8, <1>9, <2>1, TypeKept DEF DInv, TypeOK
<1>11. BuildOK' /\ ProgramOK'
  BY <1>1, <1>8, <1>9, FuseWorks DEF BuildOK, ProgramOK
<1>12. Listed'
  <2> DEFINE m == n + 1
             t == [k \in 0..m |-> IF k = m THEN b ELSE s[k]]
  <2>1. m \in Nat /\ t \in [0..m -> Blocks] /\ t[0] = 0 /\ t[m] = b
    BY <1>4, <1>6 DEF Stack
  <2>2. ASSUME NEW k \in 1..m PROVE t[k] \in Data \ held' /\ dev'[t[k]] = t[k - 1]
    <3>1. CASE k = m
      <4>1. t[k] = b /\ t[k - 1] = s[n]
        BY <3>1
      <4> QED
        BY <1>1, <1>4, <1>5, <1>8, <4>1 DEF Stack
    <3>2. CASE k # m
      <4>1. k \in 1..n /\ t[k] = s[k] /\ t[k - 1] = s[k - 1]
        BY <3>2
      <4> QED
        BY <1>1, <1>4, <1>8, <4>1 DEF Stack
    <3> QED
      BY <3>1, <3>2
  <2>3. \A j, k \in 1..m : t[j] = t[k] => j = k
    <3>1. \A j \in 1..m : j # m => j \in 1..n /\ t[j] = s[j] /\ t[j] # b
      BY <1>5
    <3> QED
      BY <1>4, <2>1, <3>1 DEF Stack
  <2> HIDE DEF m, t
  <2>4. Stack(m, t)' /\ LinkOK(m, t)'
    BY <1>8, <1>9, <2>1, <2>2, <2>3 DEF Stack, LinkOK, m, t
  <2> QED
    BY <2>1, <2>4 DEF Listed, m, t
<1>13. ListOK'
  BY <1>6, <1>8, <1>12 DEF ListOK
<1> QED
  BY <1>10, <1>11, <1>13 DEF DInv

\* Every step keeps the invariant.
LEMMA NextDInv == DInv /\ [Next]_vars => DInv'
<1> SUFFICES ASSUME DInv, [Next]_vars PROVE DInv'
  OBVIOUS
<1>1. CInv'
  BY NextCInv DEF DInv
<1>2. CASE MkfsRoot
  BY <1>1, <1>2, FilledDInv DEF MkfsRoot, Runs, DInv, ProgramOK, BuildOK, HeadKnown
<1>3. CASE FillTaken
  BY <1>1, <1>3, FilledDInv, FuseWorks DEF FillTaken, Runs, DInv, ProgramOK
<1>4. CASE MkfsExit \/ fs_destroy \/ Kill
  <2>1. kills' \in 0..MAX_KILLS
    BY <1>4, DeviceConstants DEF MkfsExit, fs_destroy, Kill, DInv, TypeOK
  <2> QED
    BY <1>1, <1>4, <2>1, EndedDInv DEF MkfsExit, fs_destroy, Kill
<1>5. CASE UNCHANGED vars
  BY <1>1, <1>5 DEF vars, DInv, TypeOK, BuildOK, ProgramOK, ListOK, HeadKnown, Listed,
                    Stack, LinkOK, Head, Super
<1> QED
  BY <1>1, <1>2, <1>3, <1>4, <1>5, MkfsOpenDInv, FsInitDInv, InitSuperblockDInv,
     InitFreelistDInv, MkfsTakeDInv, MkfsEndDInv, TakeHeadDInv, MakeNodeDInv, LinkNodeDInv
  DEF Next

\* A program that can read the superblock of a made disk knows the list.
LEMMA ReadKnowsHead ==
  ASSUME DInv, made, read_superblock # NULL
  PROVE  HeadKnown
<1>1. CASE cached_superblock # NULL
  BY <1>1 DEF HeadKnown
<1>2. CASE cached_superblock = NULL
  <2>1. layer0_fd # UNINITIALIZED_FD
    BY <1>2 DEF read_superblock, Refused
  <2>2. prog.name = "fuse"
    BY <1>2, <2>1 DEF DInv, CInv, Started, ProgramOK, BuildOK
  <2> QED
    BY <1>2, <2>2 DEF DInv, ProgramOK, HeadKnown
<1> QED
  BY <1>1, <1>2

\* One step along the free list.
Follow(f, n) == IF n = 0 THEN read_superblock.free_list_head
                ELSE IF f[n - 1] = 0 THEN 0 ELSE dev[f[n - 1]]

\* The recursion of Chain has a solution, so Chain is one.
LEMMA ChainFollows ==
  ASSUME NEW w, w = [n \in 0..NUM_BLOCKS |-> Follow(w, n)]
  PROVE  Chain = [n \in 0..NUM_BLOCKS |-> Follow(Chain, n)]
<1>1. \E c : c = [n \in 0..NUM_BLOCKS |-> Follow(c, n)]
  BY Zenon
<1> DEFINE C == CHOOSE c : c = [n \in 0..NUM_BLOCKS |-> Follow(c, n)]
<1>2. C = [n \in 0..NUM_BLOCKS |-> Follow(C, n)]
  BY <1>1, Zenon
<1>3. Chain = C
  BY DEF Chain, Follow
<1> QED
  BY <1>2, <1>3, Zenon

\* There is only one solution.
LEMMA ChainUnique ==
  ASSUME NEW w, w = [n \in 0..NUM_BLOCKS |-> Follow(w, n)]
  PROVE  \A n \in 0..NUM_BLOCKS : Chain[n] = w[n]
<1>1. Chain = [n \in 0..NUM_BLOCKS |-> Follow(Chain, n)]
  BY ChainFollows
<1> DEFINE C == Chain
           S == {n \in 0..NUM_BLOCKS : C[n] = w[n]}
<1> HIDE DEF C
<1>2. C = [n \in 0..NUM_BLOCKS |-> Follow(C, n)]
  BY <1>1 DEF C
<1>3. \A n \in 0..NUM_BLOCKS : C[n] = Follow(C, n) /\ w[n] = Follow(w, n)
  BY <1>2
<1>4. NUM_BLOCKS \in Nat
  BY DeviceConstants
<1>5. 0 \in S
  BY <1>3, <1>4 DEF Follow
<1>6. ASSUME NEW n \in 0..(NUM_BLOCKS - 1), n \in S PROVE n + 1 \in S
  <2>1. n + 1 \in 0..NUM_BLOCKS /\ n + 1 # 0 /\ (n + 1) - 1 = n
    BY <1>4
  <2>2. Follow(C, n + 1) = Follow(w, n + 1)
    BY <1>6, <2>1 DEF Follow
  <2> QED
    BY <1>3, <2>1, <2>2
<1>7. \A n \in 0..NUM_BLOCKS : n \in S
  <2> HIDE DEF S
  <2> QED
    BY <1>4, <1>5, <1>6, UpTo
<1> QED
  BY <1>7 DEF C

\* A list without a block twice is no longer than the device.
LEMMA StackBound ==
  ASSUME NEW n \in Nat, NEW s, Stack(n, s)
  PROVE  n <= NUM_BLOCKS - 1
<1> DEFINE m == NUM_BLOCKS - 1
           f == [k \in 1..n |-> s[k]]
<1>1. m \in Nat /\ f \in [1..n -> 1..m] /\ \A j, k \in 1..n : f[j] = f[k] => j = k
  BY DeviceConstants DEF Stack, Data
<1> HIDE DEF m, f
<1> QED
  BY <1>1, Pigeons DEF m

\* Chain walks down the stack.
LEMMA ChainIsStack ==
  ASSUME read_superblock = Super, NEW n \in Nat, NEW s, Stack(n, s)
  PROVE  \A k \in 0..NUM_BLOCKS : Chain[k] = IF k <= n THEN s[n - k] ELSE 0
<1> DEFINE w == [k \in 0..NUM_BLOCKS |-> IF k <= n THEN s[n - k] ELSE 0]
<1>0. NUM_BLOCKS \in Nat
  BY DeviceConstants
<1>1. ASSUME NEW k \in 0..NUM_BLOCKS PROVE w[k] = Follow(w, k)
  <2>1. CASE k = 0
    BY <2>1 DEF Stack, Follow, Head
  <2>2. CASE k # 0 /\ k <= n
    <3>1. /\ k - 1 \in 0..NUM_BLOCKS /\ w[k - 1] = s[n - k + 1] /\ w[k] = s[n - k]
          /\ n - k + 1 \in 1..n /\ (n - k + 1) - 1 = n - k
      BY <1>0, <2>2
    <3>2. s[n - k + 1] \in Data /\ dev[s[n - k + 1]] = s[n - k]
      BY <3>1 DEF Stack
    <3>3. s[n - k + 1] # 0
      BY <3>2 DEF Data
    <3> HIDE DEF w
    <3> QED
      BY <2>2, <3>1, <3>2, <3>3 DEF Follow
  <2>3. CASE k # 0 /\ k > n
    <3>1. k - 1 \in 0..NUM_BLOCKS /\ w[k] = 0 /\ (k - 1 > n \/ k - 1 = n)
      BY <1>0, <2>3
    <3>2. w[k - 1] = 0
      BY <3>1 DEF Stack
    <3> HIDE DEF w
    <3> QED
      BY <2>3, <3>1, <3>2 DEF Follow
  <2> QED
    BY <2>1, <2>2, <2>3
<1>2. w = [k \in 0..NUM_BLOCKS |-> Follow(w, k)]
  <2>1. w = [k \in 0..NUM_BLOCKS |-> w[k]]
    OBVIOUS
  <2> HIDE DEF w
  <2> QED
    BY <1>1, <2>1, Zenon
<1>3. \A k \in 0..NUM_BLOCKS : Chain[k] = w[k]
  <2> HIDE DEF w
  <2> QED
    BY <1>2, ChainUnique
<1>4. \A k \in 0..NUM_BLOCKS : w[k] = IF k <= n THEN s[n - k] ELSE 0
  OBVIOUS
<1> HIDE DEF w
<1> QED
  BY <1>3, <1>4

\* The invariant says what HandedOnce asks of the list.
LEMMA DInvHanded == DInv => HandedOnce
<1> SUFFICES ASSUME DInv, made, read_superblock # NULL
             PROVE  /\ \A n \in 0..NUM_BLOCKS : Chain[n] \in (Data \ held) \cup {0}
                    /\ Chain[NUM_BLOCKS] = 0
  BY DEF HandedOnce
<1>1. read_superblock = Super /\ HeadKnown
  BY ReadIsSuper, ReadKnowsHead
<1>2. PICK n \in Nat : \E s \in [0..n -> Blocks] : Stack(n, s) /\ LinkOK(n, s)
  BY <1>1 DEF DInv, ListOK, Listed
<1>3. PICK s \in [0..n -> Blocks] : Stack(n, s)
  BY <1>2
<1>4. \A k \in 0..NUM_BLOCKS : Chain[k] = IF k <= n THEN s[n - k] ELSE 0
  BY <1>1, <1>3, ChainIsStack
<1>5. n <= NUM_BLOCKS - 1 /\ NUM_BLOCKS \in Nat
  BY <1>3, StackBound, DeviceConstants
<1>6. \A j \in 0..n : s[j] \in (Data \ held) \cup {0}
  BY <1>3 DEF Stack
<1> DEFINE C == Chain
<1>7. \A k \in 0..NUM_BLOCKS : C[k] = IF k <= n THEN s[n - k] ELSE 0
  BY <1>4
<1> HIDE DEF C
<1>8. ASSUME NEW k \in 0..NUM_BLOCKS PROVE C[k] \in (Data \ held) \cup {0}
  <2>1. k <= n => n - k \in 0..n
    BY <1>5
  <2> QED
    BY <1>6, <1>7, <2>1
<1>9. C[NUM_BLOCKS] = 0
  BY <1>5, <1>7
<1> QED
  BY <1>8, <1>9 DEF C

\* The variables keep their types, for any device and any number of kills, as
\* long as no write but one of the superblock is lost: a superblock that
\* points at a block whose node was not written has file data for a head.
THEOREM DeviceTypes == Lossy \subseteq {0} /\ Spec => []TypeOK
<1>1. DInv => TypeOK
  BY DEF DInv
<1> QED
  BY InitDInv, NextDInv, <1>1, PTL DEF Spec

\* For any device, any number of kills and any number of superblock writes
\* that are lost without the program noticing: once mkfs is done, the free
\* list that data_allocate reads ends, and no block on it is held by a caller.
THEOREM BlocksHandedOnce == Lossy \subseteq {0} /\ Spec => []HandedOnce
<1> QED
  BY InitDInv, NextDInv, DInvHanded, PTL DEF Spec
=============================================================================
