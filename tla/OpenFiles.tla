----------------------------- MODULE OpenFiles ------------------------------
(***************************************************************************)
(* Names, inodes and the open file table (layer2.c and fusemain.c of phase *)
(* 2): mknod, unlink, open and release on regular files of one directory.  *)
(* A file that is unlinked while it is open keeps its inode until its last *)
(* descriptor is released.                                                 *)
(*                                                                         *)
(* The two tables of the OFT are kept free of duplicates by the searches   *)
(* in oft_add, so they are functions here: fds[fd] is the inum of table 2, *)
(* ref[i] and pending[i] are the entry of table 1.  A 0 in fds or ref      *)
(* means that there is no entry.                                           *)
(* mknod and unlink are one step per change on disk, because the process   *)
(* may be killed between them; the OFT is in memory and lost with it.      *)
(***************************************************************************)
EXTENDS Integers, FiniteSets

CONSTANTS NumInodes,   \* sb.num_inodes
          Names,       \* file names
          MIN_FD,      \* the lowest descriptor
          MAX_FD       \* bound: the highest descriptor

ASSUME OpenConstants == /\ NumInodes \in Nat
                        /\ MIN_FD \in Nat /\ MAX_FD \in Nat

\* The root directory has inode 1 from mkfs on, and nothing frees it
ROOT_INODE == 1
Inums == (ROOT_INODE + 1)..NumInodes
Fds   == MIN_FD..MAX_FD
INVALID_INODE == 0

VARIABLES
  ibitmap,   \* allocated inodes other than the root's
  dirents,   \* the inum of each name, INVALID_INODE if there is no such file
  fds,       \* table 2 of the OFT
  ref,       \* table 1: descriptors that have the inode open
  pending,   \* table 1: delete the inode with its last descriptor
  op,        \* the running call: "idle", "mknod" or "unlink"
  op_inum,   \* its inode
  op_name,   \* its name
  orphans    \* history variable: inodes a killed process left without a name

vars == <<ibitmap, dirents, fds, ref, pending, op, op_inum, op_name, orphans>>
oft  == <<fds, ref, pending>>

Init == /\ ibitmap = {}
        /\ dirents = [n \in Names |-> INVALID_INODE]
        /\ fds = [fd \in Fds |-> INVALID_INODE]
        /\ ref = [i \in Inums |-> 0]
        /\ pending = [i \in Inums |-> FALSE]
        /\ op = "idle" /\ op_inum = INVALID_INODE /\ op_name \in Names
        /\ orphans = {}

-----------------------------------------------------------------------------
(* The open file table *)

\* Mutants of oft_add: the first open is not counted, ...
oft_add_uncounted(i) ==
  \E fd \in Fds :
    /\ fds[fd] = INVALID_INODE
    /\ fds' = [fds EXCEPT ![fd] = i]
    /\ ref' = [ref EXCEPT ![i] = IF ref[i] = 0 THEN 0 ELSE ref[i] + 1]
    /\ pending' = [pending EXCEPT ![i] = FALSE]

\* ... a second open starts the count again, ...
oft_add_restart(i) ==
  \E fd \in Fds :
    /\ fds[fd] = INVALID_INODE
    /\ fds' = [fds EXCEPT ![fd] = i]
    /\ ref' = [ref EXCEPT ![i] = 1]
    /\ UNCHANGED pending

\* ... a new entry keeps the mark of the file that had the inode before, ...
oft_add_stale_mark(i) ==
  \E fd \in Fds :
    /\ fds[fd] = INVALID_INODE
    /\ fds' = [fds EXCEPT ![fd] = i]
    /\ ref' = [ref EXCEPT ![i] = ref[i] + 1]
    /\ UNCHANGED pending

\* ... the descriptor is not looked up in table 2
oft_add_same_fd(i) ==
  /\ MIN_FD \in Fds
  /\ fds' = [fds EXCEPT ![MIN_FD] = i]
  /\ ref' = [ref EXCEPT ![i] = ref[i] + 1]
  /\ pending' = IF ref[i] = 0 THEN [pending EXCEPT ![i] = FALSE] ELSE pending

\* oft_add: a new entry of table 1 is not pending; the lowest free descriptor
oft_add(i) ==
  \E fd \in Fds :
    /\ fds[fd] = INVALID_INODE
    /\ \A low \in MIN_FD..(fd - 1) : fds[low] # INVALID_INODE
    /\ fds' = [fds EXCEPT ![fd] = i]
    /\ ref' = [ref EXCEPT ![i] = ref[i] + 1]
    /\ pending' = IF ref[i] = 0 THEN [pending EXCEPT ![i] = FALSE] ELSE pending

\* del: the inode goes back to the bitmap
del(i) == ibitmap' = ibitmap \ {i}

\* Mutant: the last descriptor does not delete the file
oft_remove_no_delete(fd) ==
  LET i == fds[fd]
  IN /\ i # INVALID_INODE
     /\ fds' = [fds EXCEPT ![fd] = INVALID_INODE]
     /\ ref' = [ref EXCEPT ![i] = ref[i] - 1]
     /\ UNCHANGED <<ibitmap, pending>>

\* oft_remove: with the last descriptor the entry goes, and a pending file
oft_remove(fd) ==
  LET i == fds[fd]
  IN /\ i # INVALID_INODE
     /\ fds' = [fds EXCEPT ![fd] = INVALID_INODE]
     /\ ref' = [ref EXCEPT ![i] = ref[i] - 1]
     /\ \/ ref[i] = 1 /\ pending[i] /\ del(i)
        \/ ~ (ref[i] = 1 /\ pending[i]) /\ UNCHANGED ibitmap
     /\ UNCHANGED pending

\* Mutant: open files are deleted too
oft_attempt_delete_open(i) == del(i) /\ UNCHANGED pending

\* oft_attempt_delete: an open file is only marked
oft_attempt_delete(i) ==
  \/ /\ ref[i] > 0
     /\ pending' = [pending EXCEPT ![i] = TRUE]
     /\ UNCHANGED ibitmap
  \/ /\ ref[i] = 0
     /\ del(i)
     /\ UNCHANGED pending

-----------------------------------------------------------------------------
(* The handlers *)

Return == op' = "idle" /\ UNCHANGED <<op_inum, op_name>>

\* inode_create takes the first clear bit
inode_create(i) == /\ i \notin ibitmap
                   /\ \A low \in (ROOT_INODE + 1)..(i - 1) : low \in ibitmap
                   /\ ibitmap' = ibitmap \cup {i}

\* mknod_fs: the inode is on disk before the name
MknodInode(n) == /\ op = "idle"
                 /\ dirents[n] = INVALID_INODE
                 /\ \E i \in Inums : /\ inode_create(i)
                                     /\ op_inum' = i
                 /\ op' = "mknod" /\ op_name' = n
                 /\ UNCHANGED <<dirents, oft, orphans>>

MknodLink == /\ op = "mknod"
             /\ dirents' = [dirents EXCEPT ![op_name] = op_inum]
             /\ Return
             /\ UNCHANGED <<ibitmap, oft, orphans>>

\* add_dirent failed (the directory needs a block and the disk is full)
MknodUndo == /\ op = "mknod"
             /\ del(op_inum)
             /\ Return
             /\ UNCHANGED <<dirents, oft, orphans>>

\* fs_unlink: the name goes before the inode
UnlinkName(n) == /\ op = "idle"
                 /\ dirents[n] # INVALID_INODE
                 /\ dirents' = [dirents EXCEPT ![n] = INVALID_INODE]
                 /\ op' = "unlink" /\ op_inum' = dirents[n] /\ op_name' = n
                 /\ UNCHANGED <<ibitmap, oft, orphans>>

UnlinkInode == /\ op = "unlink"
               /\ oft_attempt_delete(op_inum)
               /\ Return
               /\ UNCHANGED <<dirents, fds, ref, orphans>>

fs_open(n) == /\ op = "idle"
              /\ dirents[n] # INVALID_INODE
              /\ oft_add(dirents[n])
              /\ UNCHANGED <<ibitmap, dirents, op, op_inum, op_name, orphans>>

fs_release(fd) == /\ op = "idle"
                  /\ oft_remove(fd)
                  /\ UNCHANGED <<dirents, op, op_inum, op_name, orphans>>

Named(i) == \E n \in Names : dirents[n] = i

\* The process is killed, inside a call or not, and the disk mounted again
Crash == /\ fds' = [fd \in Fds |-> INVALID_INODE]
         /\ ref' = [i \in Inums |-> 0]
         /\ pending' = [i \in Inums |-> FALSE]
         /\ orphans' = {i \in ibitmap : ~ Named(i)}
         /\ Return
         /\ UNCHANGED <<ibitmap, dirents>>

Next == \/ \E n \in Names : MknodInode(n) \/ UnlinkName(n) \/ fs_open(n)
        \/ MknodLink
        \/ MknodUndo
        \/ UnlinkInode
        \/ \E fd \in Fds : fs_release(fd)
        \/ Crash

Spec == Init /\ [][Next]_vars

-----------------------------------------------------------------------------
(* Properties *)

\* The types of the bitmap, the directory, the tables and the call.
TypeOK == /\ ibitmap \subseteq Inums
          /\ dirents \in [Names -> Inums \cup {INVALID_INODE}]
          /\ fds \in [Fds -> Inums \cup {INVALID_INODE}]
          /\ ref \in [Inums -> Nat]
          /\ pending \in [Inums -> BOOLEAN]
          /\ op \in {"idle", "mknod", "unlink"}
          /\ op # "idle" => op_inum \in Inums
          /\ op_inum \in Inums \cup {INVALID_INODE}
          /\ op_name \in Names
          /\ orphans \subseteq Inums

Holders(i) == {fd \in Fds : fds[fd] = i}

\* The count in table 1 is the number of descriptors in table 2, through
\* every order of opens, releases, unlinks and restarts.
RefCounts == \A i \in Inums : ref[i] = Cardinality(Holders(i))

\* A descriptor never outlives its file: while it is open its inode stays
\* allocated, so inode_create cannot give the inode to another file.
OpenStaysAllocated == \A fd \in Fds : fds[fd] # INVALID_INODE => fds[fd] \in ibitmap

\* A name leads to an allocated inode of its own, one that no earlier unlink
\* still wants deleted, also when the process dies between two writes.
NamesSound ==
  /\ \A n \in Names : dirents[n] # INVALID_INODE => dirents[n] \in ibitmap \ orphans
  /\ \A m, n \in Names : dirents[m] = dirents[n] /\ dirents[m] # INVALID_INODE => m = n
  /\ \A n \in Names : dirents[n] # INVALID_INODE =>
                        ~ (ref[dirents[n]] > 0 /\ pending[dirents[n]])

\* An inode without a name is one that its last descriptor will delete, or
\* the running call's, or one that a killed process left behind: releasing
\* the descriptors in any order loses none.
NoOrphans == \A i \in ibitmap :
               \/ Named(i)
               \/ ref[i] > 0 /\ pending[i]
               \/ op # "idle" /\ op_inum = i
               \/ i \in orphans

\* A descriptor is never moved to another inode: it is opened, keeps its
\* inode, and is closed by its own release or by a restart.
FdStable == [][\A fd \in Fds :
                 fds[fd] # INVALID_INODE /\ fds'[fd] # fds[fd] =>
                   fds'[fd] = INVALID_INODE /\ (fs_release(fd) \/ Crash)]_vars
=============================================================================
