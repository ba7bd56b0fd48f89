------------------------------ MODULE MemoryFS ------------------------------
(***************************************************************************)
(* Phase 1 (src/*.c): the same layers on a disk that is an array in the    *)
(* memory of the process.  fs_init makes a new file system on every mount, *)
(* so nothing outlives the process, and a call that kills it loses all.    *)
(*                                                                         *)
(* What differs from phase 2 is modelled here: fs_rmdir does not ask       *)
(* whether a directory is empty, an inode's size is a uint32_t, and        *)
(* truncate overwrites what it cuts off through one buffer whose length is *)
(* an int.  Callers have all permissions and the disk has room; what calls *)
(* do without either is the same in both phases (Directories, FileData).   *)
(***************************************************************************)
EXTENDS Integers, FiniteSets, Sequences

CONSTANTS
  NumInodes,    \* sb.num_inodes
  Names,        \* names of files and directories
  MAX_DEPTH,    \* bound: components of a path
  Fds,          \* bound: the descriptors
  UINT,         \* 2^32: sizes are kept modulo it
  INT,          \* 2^31: an int is less than it
  Offsets,      \* where files are cut off
  Writes        \* the ends, offset + size, of writes behind the start of a file

ASSUME MemoryConstants == /\ NumInodes \in Nat \ {0} /\ MAX_DEPTH \in Nat
                          /\ INT \in Nat \ {0} /\ UINT = 2 * INT
                          /\ Offsets \subseteq Nat /\ Writes \subseteq Nat

ROOT_INODE    == 1
INVALID_INODE == 0
Inums == 1..NumInodes
Paths == UNION {[1..n -> Names] : n \in 1..MAX_DEPTH}

VARIABLES
  mounted,    \* disk # NULL
  ibitmap,    \* allocated inodes
  node,       \* the ilist, and the entries of directories but "." and ".."
  fds,        \* table 2 of the OFT: the inode of each descriptor
  pending,    \* table 1: inodes to delete with their last descriptor
  length,     \* history variable: the size each file should have
  dropped     \* history variable: inodes below a directory when it was removed

vars == <<mounted, ibitmap, node, fds, pending, length, dropped>>

File      == [dir |-> FALSE, size |-> 0, ents |-> <<>>]
Directory == [dir |-> TRUE, size |-> 0, ents |-> <<>>]

Init == /\ mounted = FALSE
        /\ ibitmap = {} /\ pending = {} /\ dropped = {}
        /\ node = [i \in Inums |-> File]
        /\ length = [i \in Inums |-> 0]
        /\ fds = [fd \in Fds |-> INVALID_INODE]

\* mkfs on new memory, with the root directory
fs_init == /\ ~ mounted
           /\ mounted' = TRUE
           /\ ibitmap' = {ROOT_INODE}
           /\ node' = [i \in Inums |-> IF i = ROOT_INODE THEN Directory ELSE File]
           /\ length' = [i \in Inums |-> 0]
           /\ UNCHANGED <<fds, pending, dropped>>

\* The process ends, and its memory with it
Gone == /\ mounted' = FALSE
        /\ ibitmap' = {} /\ pending' = {} /\ dropped' = {}
        /\ node' = [i \in Inums |-> File]
        /\ length' = [i \in Inums |-> 0]
        /\ fds' = [fd \in Fds |-> INVALID_INODE]

Unmount == mounted /\ Gone

\* memset is given a null pointer
Die == Gone

-----------------------------------------------------------------------------
(* Paths and directories *)

\* Where the directory i has name, 0 if nowhere
search_by_name(i, name) ==
  IF \E k \in DOMAIN node[i].ents : node[i].ents[k].name = name
  THEN CHOOSE k \in DOMAIN node[i].ents : node[i].ents[k].name = name
  ELSE 0

\* namei: the inode after k components, INVALID_INODE when one is missing or
\* is no directory
Walk(path) ==
  LET at[k \in 0..Len(path)] ==
        IF k = 0 THEN ROOT_INODE
        ELSE IF at[k - 1] = INVALID_INODE \/ ~ node[at[k - 1]].dir THEN INVALID_INODE
        ELSE LET x == search_by_name(at[k - 1], path[k])
             IN IF x = 0 THEN INVALID_INODE ELSE node[at[k - 1]].ents[x].inum
  IN at

Target(path) == Walk(path)[Len(path)]
Parent(path) == Walk(path)[Len(path) - 1]
Last(path)   == path[Len(path)]
ParentIsDir(path) == Parent(path) # INVALID_INODE /\ node[Parent(path)].dir

add_dirent(ents, name, i) == Append(ents, [name |-> name, inum |-> i])

\* The last entry takes the place of the one that goes
remove_dirent(ents, index) ==
  SubSeq([ents EXCEPT ![index] = ents[Len(ents)]], 1, Len(ents) - 1)

\* Mutant: the bits of inodes that are in use are taken too
inode_create_any == CHOOSE i \in Inums : i # ROOT_INODE

\* The first clear bit, INVALID_INODE for ILIST_FULL
inode_create == IF Inums \subseteq ibitmap THEN INVALID_INODE
                ELSE CHOOSE i \in Inums \ ibitmap : \A j \in Inums \ ibitmap : i <= j

\* mknod_fs and mkdir_fs
Make(path, new) ==
  LET i == inode_create
  IN /\ mounted /\ ParentIsDir(path) /\ Target(path) = INVALID_INODE
     /\ i # INVALID_INODE
     /\ ibitmap' = ibitmap \cup {i}
     /\ node' = [node EXCEPT ![i] = new,
                             ![Parent(path)].ents = add_dirent(@, Last(path), i)]
     /\ length' = [length EXCEPT ![i] = 0]
     /\ UNCHANGED <<mounted, fds, pending, dropped>>

mknod_fs(path) == Make(path, File)
mkdir_fs(path) == Make(path, Directory)

-----------------------------------------------------------------------------
(* truncate and del *)

\* The length of the buffer for what is cut off is an int: memset is given a
\* null pointer when it does not fit
Fatal(i, offset) == offset <= node[i].size /\ node[i].size - offset >= INT

\* Mutant: the size has the width of the argument
Truncated_wide(offset) == offset

\* The size is assigned to a uint32_t
Truncated(offset) == offset % UINT

\* Mutant: the bit stays
del_keeps_bit(i) == UNCHANGED ibitmap

\* del: truncate to nothing, and the bit of the inode is cleared
del(i) == ibitmap' = ibitmap \ {i}

\* Mutant: the open file table is not asked
Open_never(i) == FALSE

\* oft_attempt_delete finds the inode in table 1
Open(i) == \E fd \in Fds : fds[fd] = i

\* The directory without its entry for the path
Unlinked(path) ==
  [node EXCEPT ![Parent(path)].ents =
     remove_dirent(@, search_by_name(Parent(path), Last(path)))]

-----------------------------------------------------------------------------
(* The handlers *)

\* The name goes; the file too unless it is open
fs_unlink(path) ==
  LET i == Target(path)
  IN /\ mounted /\ i # INVALID_INODE /\ ~ node[i].dir
     /\ \/ /\ Open(i)
           /\ pending' = pending \cup {i}
           /\ node' = Unlinked(path)
           /\ UNCHANGED <<mounted, ibitmap, fds, length, dropped>>
        \/ /\ ~ Open(i) /\ ~ Fatal(i, 0)
           /\ del(i)
           /\ node' = Unlinked(path)
           /\ UNCHANGED <<mounted, fds, pending, length, dropped>>
        \/ /\ ~ Open(i) /\ Fatal(i, 0)
           /\ Die

Entries(i) == {node[i].ents[k].inum : k \in DOMAIN node[i].ents}

\* The inodes below i
Below(i) == LET level[k \in 0..NumInodes] ==
                  IF k = 0 THEN {i}
                  ELSE level[k - 1] \cup UNION {Entries(x) : x \in {y \in level[k - 1] : node[y].dir}}
            IN level[NumInodes] \ {i}

\* The directory goes with its entries, and not what they lead to
fs_rmdir(path) ==
  LET i == Target(path)
  IN /\ mounted /\ i # INVALID_INODE /\ node[i].dir
     /\ node' = Unlinked(path)
     /\ del(i)
     /\ dropped' = dropped \cup Below(i)
     /\ UNCHANGED <<mounted, fds, pending, length>>

fs_truncate(path, offset) ==
  LET i == Target(path)
  IN /\ mounted /\ i # INVALID_INODE /\ ~ node[i].dir
     /\ \/ /\ ~ Fatal(i, offset)
           /\ node' = [node EXCEPT ![i].size = Truncated(offset)]
           /\ length' = [length EXCEPT ![i] = offset]
           /\ UNCHANGED <<mounted, ibitmap, fds, pending, dropped>>
        \/ /\ Fatal(i, offset)
           /\ Die

\* oft_add gives a descriptor that is not in use
fs_open(path, fd) == /\ mounted /\ Target(path) # INVALID_INODE /\ ~ node[Target(path)].dir
                     /\ fds[fd] = INVALID_INODE
                     /\ fds' = [fds EXCEPT ![fd] = Target(path)]
                     /\ UNCHANGED <<mounted, ibitmap, node, pending, length, dropped>>

\* Mutant: the size is the end of the last write
SizeAfter_end(size, end) == end % UINT

\* The size after a write up to end: original_size is an int, and it is
\* compared as an unsigned number, so a negative one is the larger
SizeAfter(size, end) == IF size >= INT \/ size >= end THEN size ELSE end % UINT

fs_write(fd, end) ==
  LET i == fds[fd]
  IN /\ i # INVALID_INODE
     /\ node' = [node EXCEPT ![i].size = SizeAfter(@, end)]
     /\ length' = [length EXCEPT ![i] = IF @ >= end THEN @ ELSE end]
     /\ UNCHANGED <<mounted, ibitmap, fds, pending, dropped>>

\* oft_remove: the last descriptor of a pending file deletes it
fs_release(fd) ==
  LET i    == fds[fd]
      last == ~ \E other \in Fds \ {fd} : fds[other] = i
  IN /\ i # INVALID_INODE
     /\ \/ /\ last /\ i \in pending /\ Fatal(i, 0)
           /\ Die
        \/ /\ ~ (last /\ i \in pending /\ Fatal(i, 0))
           /\ fds' = [fds EXCEPT ![fd] = INVALID_INODE]
           /\ pending' = IF last THEN pending \ {i} ELSE pending
           /\ IF last /\ i \in pending THEN del(i) ELSE UNCHANGED ibitmap
           /\ UNCHANGED <<mounted, node, length, dropped>>

Next == \/ fs_init \/ Unmount
        \/ \E path \in Paths : mknod_fs(path) \/ mkdir_fs(path) \/ fs_unlink(path) \/ fs_rmdir(path)
        \/ \E path \in Paths, offset \in Offsets : fs_truncate(path, offset)
        \/ \E path \in Paths, fd \in Fds : fs_open(path, fd)
        \/ \E fd \in Fds : fs_release(fd) \/ \E end \in Writes : fs_write(fd, end)

Spec == Init /\ [][Next]_vars

-----------------------------------------------------------------------------
(* Properties *)

\* The types of the disk and of the tables.
TypeOK == /\ ibitmap \subseteq Inums /\ pending \subseteq Inums /\ dropped \subseteq Inums
          /\ fds \in [Fds -> Inums \cup {INVALID_INODE}]
          /\ \A i \in Inums : /\ node[i].dir \in BOOLEAN
                              /\ node[i].size \in 0..(UINT - 1)
                              /\ \A k \in DOMAIN node[i].ents :
                                   node[i].ents[k].inum \in Inums

Reachable == IF mounted THEN {ROOT_INODE} \cup Below(ROOT_INODE) ELSE {}
References(i) == {r \in Reachable \X (1..NumInodes) :
                    LET d == r[1]
                        k == r[2]
                    IN node[d].dir /\ k \in DOMAIN node[d].ents /\ node[d].ents[k].inum = i}

\* What can be reached from the root is a tree of allocated inodes, whatever
\* full directories were removed and however the inodes they leave behind
\* hold back inode numbers: each inode has one name, and the root has none.
ReachableSound == \A i \in Reachable :
                    /\ i \in ibitmap
                    /\ i \notin pending
                    /\ Cardinality(References(i)) = IF i = ROOT_INODE THEN 0 ELSE 1

\* fs_rmdir of a directory that is not empty abandons what is below it: these
\* inodes are never reached, freed or used again while the file system is
\* mounted.  Nothing else is lost.
AbandonedOnlyByRmdir ==
  /\ dropped \cap Reachable = {}
  /\ dropped \subseteq ibitmap
  /\ \A i \in ibitmap : i \in Reachable \/ i \in dropped \/ (i \in pending /\ Open(i))

\* A descriptor keeps its file, also one whose directory was removed.
OpenStays == \A fd \in Fds : fds[fd] # INVALID_INODE => /\ fds[fd] \in ibitmap
                                                        /\ ~ node[fds[fd]].dir

\* "Changes a file's size to exactly offset bytes" (layer2.c:724), "Updates
\* inode's size field" (layer2.c:1012): a file that was never longer than an
\* int since truncate set its size is as long as truncate made it or as the
\* last byte that write_i put behind its end, also in an inode that a file
\* whose size had wrapped around or was negative used before.
SizesExact == \A i \in ibitmap : ~ node[i].dir /\ length[i] < INT => node[i].size = length[i]
=============================================================================
