---------------------------- MODULE Directories -----------------------------
(***************************************************************************)
(* Directories, path lookup and permissions (layer2.c and fusemain.c of    *)
(* phase 2).  A directory is a file of dir_ents that never straddle a      *)
(* block: the last DIRENTS_REMAINDER bytes of every block stay unused.     *)
(* add_dirent appends, remove_dirent moves the last entry into the hole.   *)
(*                                                                         *)
(* The file under a directory is seen through read_i, write_i and trunc_fs *)
(* as their comments describe them (FileData models them); at[o] is the    *)
(* entry at offset o, NoEntry where the bytes are zero.  A handler of the  *)
(* single-threaded file system is one step, and one that ends with an      *)
(* error changes nothing, also when the disk is full: mkdir_fs and         *)
(* mknod_fs then delete the inode again.                                   *)
(***************************************************************************)
EXTENDS Integers, Sequences, FiniteSets, FiniteSetsExt

CONSTANTS
  NumInodes,   \* sb.num_inodes
  BLOCK_SIZE,  \* bytes of a block
  ENT,         \* sizeof(dir_ent)
  Names,       \* file names other than "." and ".."
  Paths,       \* the paths of the calls, sequences of names
  Users,       \* the callers, records of uid and gid
  Modes,       \* permissions of new files: the rights of owner, group, others
  MAX_SIZE     \* bound: no directory grows beyond this size

Rights == {"r", "w", "x"}

ASSUME DirConstants ==
  /\ NumInodes \in Nat \ {0} /\ MAX_SIZE \in Nat
  /\ ENT \in Nat \ {0} /\ BLOCK_SIZE \in Nat /\ 2 * ENT <= BLOCK_SIZE /\ 2 * ENT <= MAX_SIZE
  /\ {"", ".", ".."} \cap Names = {}
  /\ Paths \subseteq Seq(Names) \ {<<>>}
  /\ Modes \subseteq [{"usr", "grp", "oth"} -> SUBSET Rights]

DIRENTS_PER_BLOCK == BLOCK_SIZE \div ENT
DIRENTS_REMAINDER == BLOCK_SIZE % ENT

SUCCESS == 0
EACCES  == -13
ENOENT  == -2
ENOTDIR == -20

ROOT_INODE == 1
Inums   == ROOT_INODE..NumInodes
NoEntry == [name |-> "", inode_num |-> 0]
EmptyDir == [size |-> 0, at |-> [o \in 0..MAX_SIZE |-> NoEntry]]
FreeNode == [kind |-> "free"]

VARIABLES
  node,     \* the inodes: their kind, and owner, group and mode
  dir,      \* the content of each directory
  opened,   \* inodes in the open file table
  pending,  \* those of them that go with their last descriptor
  caller,   \* history variable: the user of the last call
  want      \* history variable: the inode of each name in each directory

vars == <<node, dir, opened, pending, caller, want>>

-----------------------------------------------------------------------------
(* The entries of a directory *)

Entry(name, inum) == [name |-> name, inode_num |-> inum]
Malformed(i)  == (dir[i].size % BLOCK_SIZE) % ENT # 0

\* read_dir_page refuses every page of it, and search_by_name says NOT_DIR
Unreadable(i) == node[i].kind # "dir" \/ dir[i].size = 0 \/ Malformed(i)

\* read_dir_page: the number of entries of a page
PageEntries(i, page) ==
  IF page = dir[i].size \div BLOCK_SIZE THEN (dir[i].size % BLOCK_SIZE) \div ENT
  ELSE DIRENTS_PER_BLOCK

\* read_dir_page and the loops over it, which visit pages 0 to num_blocks:
\* the indices of all entries, and the entry at an index
Indices(i) ==
  UNION {{page * DIRENTS_PER_BLOCK + k : k \in 0..(PageEntries(i, page) - 1)} :
           page \in 0..(dir[i].size \div BLOCK_SIZE)}
OffsetOf(index) ==
  (index \div DIRENTS_PER_BLOCK) * BLOCK_SIZE + (index % DIRENTS_PER_BLOCK) * ENT
EntryAt(i, index) == dir[i].at[OffsetOf(index)]

\* search_by_name: the indices with that name, of which the first counts
Matches(i, name) == {x \in Indices(i) : EntryAt(i, x).name = name}

\* search_by_inum: the same walk, by inode number
search_by_inum(i, search_num) == {x \in Indices(i) : EntryAt(i, x).inode_num = search_num}

\* read_dir_whole: all full blocks, then the rest, into one buffer
read_dir_whole(i) ==
  LET num_blocks == dir[i].size \div BLOCK_SIZE
      remainder  == dir[i].size % BLOCK_SIZE
      Block(b, bytes) == [k \in 1..(bytes \div ENT) |-> dir[i].at[b * BLOCK_SIZE + (k - 1) * ENT]]
      buf[b \in 0..num_blocks] ==
        IF b = 0 THEN <<>> ELSE buf[b - 1] \o Block(b - 1, DIRENTS_PER_BLOCK * ENT)
  IN buf[num_blocks] \o Block(num_blocks, remainder)

\* write_i of one entry, and trunc_fs
WriteEntry(d, offset, e) == [size |-> Max({d.size, offset + ENT}),
                             at   |-> [d.at EXCEPT ![offset] = e]]
trunc_fs(d, size) ==
  [size |-> size, at |-> [o \in 0..MAX_SIZE |-> IF o + ENT <= size THEN d.at[o] ELSE NoEntry]]

\* The entry goes to the next block when this one has no room
AddOffset(size) ==
  IF (size + ENT) \div BLOCK_SIZE > size \div BLOCK_SIZE THEN size + DIRENTS_REMAINDER ELSE size

add_dirent(d, e) == WriteEntry(d, AddOffset(d.size), e)

LastOffset(size) == (size \div BLOCK_SIZE) * BLOCK_SIZE + (size % BLOCK_SIZE) - ENT

\* Mutant: the unused end of the block before stays part of the directory
ShrunkSize_keeps_gap(size) == size - ENT

\* The unused end of the block before is given up with the first entry of a block
ShrunkSize(size) ==
  IF (size - ENT) % BLOCK_SIZE = 0 /\ size # ENT THEN size - ENT - DIRENTS_REMAINDER
  ELSE size - ENT

remove_dirent(d, index) ==
  trunc_fs(WriteEntry(d, OffsetOf(index), d.at[LastOffset(d.size)]), ShrunkSize(d.size))

\* create_dir_base: the entries of a new directory
create_dir_base(inum, parent_inum) ==
  WriteEntry(WriteEntry(EmptyDir, 0, Entry(".", inum)), ENT, Entry("..", parent_inum))

-----------------------------------------------------------------------------
(* Permissions and paths *)

\* The rights of owner and group add up
check_permissions(i, u) ==
  UNION {IF node[i].uid = u.uid THEN node[i].mode["usr"] ELSE {},
         IF node[i].gid = u.gid THEN node[i].mode["grp"] ELSE {},
         IF node[i].uid # u.uid /\ node[i].gid # u.gid THEN node[i].mode["oth"] ELSE {}}

\* The body of namei's loop: the target so far becomes the parent
Component(s, name, u) ==
  CASE s.ret # SUCCESS -> s
    [] s.ret = SUCCESS /\ s.target = 0 -> [s EXCEPT !.ret = ENOENT]
    [] /\ s.ret = SUCCESS /\ s.target # 0
       /\ ~ ({"r", "x"} \subseteq check_permissions(s.target, u)) -> [s EXCEPT !.ret = EACCES]
    [] /\ s.ret = SUCCESS /\ s.target # 0
       /\ {"r", "x"} \subseteq check_permissions(s.target, u)
       /\ Unreadable(s.target) -> [s EXCEPT !.ret = ENOTDIR]
    [] OTHER -> LET found == Matches(s.target, name)
                IN [s EXCEPT !.parent = s.target,
                             !.target = IF found = {} THEN 0
                                        ELSE EntryAt(s.target, Min(found)).inode_num,
                             !.index  = IF found = {} THEN s.index ELSE Min(found)]

namei(path, u) ==
  LET walk[k \in 0..Len(path)] ==
        IF k = 0
        THEN [ret |-> SUCCESS, parent |-> ROOT_INODE, target |-> ROOT_INODE, index |-> 0]
        ELSE Component(walk[k - 1], path[k], u)
  IN walk[Len(path)]

\* The fields of a struct stat that depend on the inode (a regular file has no
\* content in this module)
get_stat(i) == [st_ino |-> i, st_node |-> node[i], st_size |-> dir[i].size]

\* Mutant: the right to read is asked of the file
MayStat_file(s, u) == "r" \in check_permissions(s.target, u)

MayStat(s, u) == "r" \in check_permissions(s.parent, u)

\* fs_getattr, after namei
Attributes(s, u) ==
  LET ret == CASE s.ret # SUCCESS -> s.ret
               [] s.ret = SUCCESS /\ s.target = 0 -> ENOENT
               [] s.ret = SUCCESS /\ s.target # 0 /\ ~ MayStat(s, u) -> EACCES
               [] OTHER -> SUCCESS
  IN [ret |-> ret, st |-> IF ret = SUCCESS THEN {get_stat(s.target)} ELSE {}]

fs_getattr(path, u) == Attributes(namei(path, u), u)

-----------------------------------------------------------------------------
(* The handlers *)

NewNode(kind, u, mode) == [kind |-> kind, uid |-> u.uid, gid |-> u.gid, mode |-> mode]

\* mkfs: the root directory belongs to root, and everybody may do everything
RootNode == NewNode("dir", [uid |-> 0, gid |-> 0],
                    [c \in {"usr", "grp", "oth"} |-> Rights])

Init == \E u \in Users :
          /\ node = [i \in Inums |-> IF i = ROOT_INODE THEN RootNode ELSE FreeNode]
          /\ dir = [i \in Inums |-> IF i = ROOT_INODE THEN create_dir_base(i, i) ELSE EmptyDir]
          /\ opened = {} /\ pending = {}
          /\ caller = u
          /\ want = [i \in Inums |-> [n \in Names |-> 0]]

FreeInums == {i \in Inums : node[i].kind = "free"}

\* mkdir_fs and mknod_fs: s is what namei found
Make(kind, s, name, u, mode, content) ==
  /\ s.ret = SUCCESS
  /\ {"r", "w", "x"} \subseteq check_permissions(s.parent, u)
  /\ s.target = 0
  /\ FreeInums # {}
  /\ ~ Malformed(s.parent)
  /\ AddOffset(dir[s.parent].size) + ENT <= MAX_SIZE
  /\ LET inum == Min(FreeInums)
     IN /\ node' = [node EXCEPT ![inum] = NewNode(kind, u, mode)]
        /\ dir'  = [dir EXCEPT ![inum] = content[inum],
                               ![s.parent] = add_dirent(@, Entry(name, inum))]
        /\ want' = [want EXCEPT ![s.parent][name] = inum]
  /\ caller' = u
  /\ UNCHANGED <<opened, pending>>

mkdir_fs(path, u, mode) ==
  LET s == namei(path, u)
  IN Make("dir", s, path[Len(path)], u, mode, [i \in Inums |-> create_dir_base(i, s.parent)])

mknod_fs(path, u, mode) ==
  Make("reg", namei(path, u), path[Len(path)], u, mode, [i \in Inums |-> EmptyDir])

\* Mutant: the mark stays when the entry of the open file table goes
del_keeps_mark(inum) == /\ node' = [node EXCEPT ![inum] = FreeNode]
                        /\ UNCHANGED pending

\* del, and the inode's entry of the open file table goes with it
del(inum) == /\ node' = [node EXCEPT ![inum] = FreeNode]
             /\ pending' = pending \ {inum}

\* Mutant: unlink goes by the rights on the file
MayRemove_file(s, u) == "w" \in check_permissions(s.target, u)

MayRemove(s, u) == "w" \in check_permissions(s.parent, u)

RemoveName(s, u, content) ==
  /\ dir' = [content EXCEPT ![s.parent] = remove_dirent(@, s.index)]
  /\ want' = [want EXCEPT ![s.parent] = [n \in Names |-> IF @[n] = s.target THEN 0 ELSE @[n]]]
  /\ caller' = u
  /\ UNCHANGED opened

Unlink(s, u) ==
  /\ s.ret = SUCCESS /\ s.target # 0
  /\ node[s.target].kind # "dir"
  /\ MayRemove(s, u)
  /\ RemoveName(s, u, dir)
  /\ \/ s.target \in opened /\ pending' = pending \cup {s.target} /\ UNCHANGED node
     \/ s.target \notin opened /\ del(s.target)

fs_unlink(path, u) == Unlink(namei(path, u), u)

\* Mutant: rmdir does not look whether the directory is empty
MayRmdir_any(i) == node[i].kind = "dir"

MayRmdir(i) == node[i].kind = "dir" /\ dir[i].size <= 2 * ENT

Rmdir(s, u) ==
  /\ s.ret = SUCCESS /\ s.target # 0
  /\ MayRmdir(s.target)
  /\ MayRemove(s, u)
  /\ RemoveName(s, u, [dir EXCEPT ![s.target] = EmptyDir])
  /\ del(s.target)

fs_rmdir(path, u) == Rmdir(namei(path, u), u)

\* One descriptor per file is enough here; OpenFiles counts them.  The
\* kernel opens directories with opendir, for which there is no handler.
Open(s, u, access) ==
  /\ s.ret = SUCCESS /\ s.target # 0
  /\ access \subseteq check_permissions(s.target, u)
  /\ node[s.target].kind = "reg"
  /\ s.target \notin opened
  /\ opened' = opened \cup {s.target}
  /\ caller' = u
  /\ UNCHANGED <<node, dir, pending, want>>

fs_open(path, u, access) == Open(namei(path, u), u, access)

fs_release(i) == /\ i \in opened
                 /\ opened' = opened \ {i}
                 /\ \/ i \in pending /\ del(i)
                    \/ i \notin pending /\ UNCHANGED <<node, pending>>
                 /\ UNCHANGED <<dir, caller, want>>

Next == \/ \E path \in Paths, u \in Users :
             \/ \E mode \in Modes : mkdir_fs(path, u, mode) \/ mknod_fs(path, u, mode)
             \/ fs_unlink(path, u)
             \/ fs_rmdir(path, u)
             \/ \E access \in {{"r"}, {"w"}, {"r", "w"}} : fs_open(path, u, access)
        \/ \E i \in Inums : fs_release(i)

Spec == Init /\ [][Next]_vars

-----------------------------------------------------------------------------
(* Properties *)

Dirs == {i \in Inums : node[i].kind = "dir"}

NodeType == {FreeNode, RootNode} \cup
            {NewNode(k, u, m) : k \in {"dir", "reg"}, u \in Users, m \in Modes}

\* The types of the inodes and of the entries.
TypeOK ==
  /\ \A i \in Inums :
       /\ node[i] \in NodeType
       /\ dir[i].size \in 0..MAX_SIZE
       /\ \A o \in 0..MAX_SIZE :
            dir[i].at[o] = NoEntry \/ dir[i].at[o].inode_num \in Inums
  /\ pending \subseteq opened /\ opened \subseteq Inums \ {ROOT_INODE}
  /\ caller \in Users

\* What readdir lists, page by page, is ".", ".." and every name that was
\* made and not removed since, with its inode and once each, whatever order
\* entries were added and removed in and wherever block boundaries fall; a
\* read of the whole directory and a search by inode number agree with it; and
\* no page is refused as malformed, which would make readdir loop for ever.
ListingExact ==
  \A i \in Dirs :
    LET x == {n \in Names : want[i][n] # 0}
    IN /\ ~ Malformed(i)
       /\ Cardinality(Indices(i)) = Cardinality(x) + 2
       /\ {EntryAt(i, k) : k \in Indices(i) \ {0, 1}} = {Entry(n, want[i][n]) : n \in x}
       /\ EntryAt(i, 0) = Entry(".", i)
       /\ EntryAt(i, 1).name = ".."
       /\ Indices(i) = 0..(Len(read_dir_whole(i)) - 1)
       /\ \A k \in Indices(i) : read_dir_whole(i)[k + 1] = EntryAt(i, k)
       /\ \A n \in x : search_by_inum(i, want[i][n]) = Matches(i, n)

\* The inode a path leads to from the root, by the names made and not removed
Leads(path) == LET to[k \in 0..Len(path)] ==
                     IF k = 0 THEN ROOT_INODE
                     ELSE IF to[k - 1] = 0 THEN 0 ELSE want[to[k - 1]][path[k]]
               IN to

\* fs_getattr finds a path exactly when the path exists and the caller may
\* read and search every directory on the way, whatever the rights on the
\* file itself are, and then it answers for the inode the path leads to, one
\* that is in use; a path that does not exist is never reported as found.
LookupExact ==
  \A path \in Paths, u \in Users :
    LET inum  == Leads(path)[Len(path)]
        found == fs_getattr(path, u)
    IN IF /\ inum # 0
          /\ \A k \in 0..(Len(path) - 1) :
               {"r", "x"} \subseteq check_permissions(Leads(path)[k], u)
       THEN /\ found.ret = SUCCESS
            /\ \A st \in found.st : st.st_ino = inum /\ st.st_node.kind # "free"
       ELSE found.ret # SUCCESS

\* The entries other than "." and ".." that lead to inode i
Links(i) == {l \in Dirs \X (2..MAX_SIZE) :
               l[2] \in Indices(l[1]) /\ EntryAt(l[1], l[2]).inode_num = i}

\* The directories form a tree: every inode in use except the root has
\* exactly one name, in a directory in use, unless an unlink left it to its
\* last descriptor, and then it has none; free inodes have none; and ".." of
\* a directory leads to the one that holds its name.
TreeOK ==
  \A i \in Inums \ {ROOT_INODE} :
    /\ Cardinality(Links(i)) = IF i \in pending \/ node[i].kind = "free" THEN 0 ELSE 1
    /\ i \in Dirs => \A l \in Links(i) : EntryAt(i, 1).inode_num = l[1]
    /\ i \in opened => node[i].kind = "reg"

\* The directories from i up to the root
Ancestors(i) == LET up[k \in 0..NumInodes] ==
                      IF k = 0 THEN i ELSE EntryAt(up[k - 1], 1).inode_num
                IN {up[k] : k \in 0..NumInodes}

\* A call changes the entries of a directory only for a caller who may read,
\* write and search it and read and search every directory on the way to it.
AccessChecked ==
  [][\A i \in Dirs : dir'[i] # dir[i] /\ node'[i].kind = "dir" =>
       /\ Rights \subseteq check_permissions(i, caller')
       /\ \A a \in Ancestors(i) : {"r", "x"} \subseteq check_permissions(a, caller')]_vars
=============================================================================
