------------------------------ MODULE Handles -------------------------------
(***************************************************************************)
(* The open file table together with what is in the files (fusemain.c and  *)
(* layer2.c of phase 2): descriptors are looked up in the table, and       *)
(* read_i, write_i and trunc_fs work on the inode that is found there.     *)
(* Inode numbers are used again, so nothing but the deferred deletion of   *)
(* OpenFiles keeps a descriptor on the file it was opened for.             *)
(*                                                                         *)
(* A file is a short sequence of values; FileData looks into its blocks.   *)
(***************************************************************************)
EXTENDS OpenFiles, Sequences

CONSTANTS Modes,       \* what files are opened with: "r", "w", "rw", "append"
          Values,      \* what is written, one at a time
          MAX_SIZE,    \* bound: the length of a file
          Objects,     \* bound: files that there may be at one time
          NoObject

ASSUME HandleConstants == MAX_SIZE \in Nat \ {0} /\ NoObject \notin Objects

VARIABLES data,      \* what is in each inode
          flags,     \* table 2 of the OFT: the flags
          got,       \* what the last fs_read returned
          object,    \* history variable: the file each inode holds
          opened     \* history variable: the file each descriptor was opened for

hvars == <<vars, data, flags, got, object, opened>>

HInit == /\ Init
         /\ data = [i \in Inums |-> <<>>]
         /\ flags = [fd \in Fds |-> "none"]
         /\ got = <<>>
         /\ object = [i \in Inums |-> NoObject]
         /\ opened = [fd \in Fds |-> NoObject]

\* Mutant: the entry of the lowest descriptor is taken
oft_lookup_first(fd) == IF fds[fd] = INVALID_INODE THEN INVALID_INODE ELSE fds[MIN_FD]

\* The inode of a descriptor, INVALID_INODE for -EBADF
oft_lookup(fd) == fds[fd]

\* The descriptor that fs_open just handed out
Fresh(fd) == fds[fd] = INVALID_INODE /\ fds'[fd] # INVALID_INODE

Resized(s, size) == [k \in 1..size |-> IF k <= Len(s) THEN s[k] ELSE 0]

\* write_i of one value, and the size it leaves
write_i(i, offset, v) ==
  data' = [data EXCEPT ![i] = [Resized(@, IF offset < Len(@) THEN Len(@) ELSE offset + 1)
                                 EXCEPT ![offset + 1] = v]]

\* trunc_fs; a shrunk file that grows again reads zeros
trunc_fs(i, offset) == data' = [data EXCEPT ![i] = Resized(@, offset)]

-----------------------------------------------------------------------------
(* The handlers *)

\* The inode that mknod_fs makes is empty
MakeInode(n) == /\ MknodInode(n)
                /\ data' = [data EXCEPT ![op_inum'] = <<>>]
                /\ \E o \in Objects :
                     /\ o \notin {object[i] : i \in ibitmap}
                     /\ object' = [object EXCEPT ![op_inum'] = o]
                /\ UNCHANGED <<flags, got, opened>>

\* The steps that touch the table and the names alone
TableStep == /\ \/ MknodLink \/ MknodUndo \/ UnlinkInode
                \/ \E n \in Names : UnlinkName(n)
             /\ UNCHANGED <<data, flags, got, object, opened>>

OpenFile(n, mode) ==
  /\ fs_open(n)
  /\ flags' = [fd \in Fds |-> IF Fresh(fd) THEN mode ELSE flags[fd]]
  /\ opened' = [fd \in Fds |-> IF Fresh(fd) THEN object[dirents[n]] ELSE opened[fd]]
  /\ UNCHANGED <<data, got, object>>

ReleaseFile(fd) == /\ fs_release(fd)
                   /\ flags' = [flags EXCEPT ![fd] = "none"]
                   /\ opened' = [opened EXCEPT ![fd] = NoObject]
                   /\ UNCHANGED <<data, got, object>>

\* fs_read: -EBADF for a descriptor that is not open or not for reading
fs_read(fd) == /\ op = "idle"
               /\ oft_lookup(fd) # INVALID_INODE
               /\ flags[fd] \in {"r", "rw"}
               /\ got' = data[oft_lookup(fd)]
               /\ UNCHANGED <<vars, data, flags, object, opened>>

\* With O_APPEND the size at that moment is the offset
ActualOffset(fd, offset) == IF flags[fd] = "append" THEN Len(data[oft_lookup(fd)]) ELSE offset

fs_write(fd, offset, v) ==
  /\ op = "idle"
  /\ oft_lookup(fd) # INVALID_INODE
  /\ flags[fd] \in {"w", "rw", "append"}
  /\ ActualOffset(fd, offset) < MAX_SIZE
  /\ write_i(oft_lookup(fd), ActualOffset(fd, offset), v)
  /\ UNCHANGED <<vars, flags, got, object, opened>>

\* fs_truncate goes by the name
fs_truncate(n, offset) == /\ op = "idle"
                          /\ dirents[n] # INVALID_INODE
                          /\ trunc_fs(dirents[n], offset)
                          /\ UNCHANGED <<vars, flags, got, object, opened>>

Restart == /\ Crash
           /\ flags' = [fd \in Fds |-> "none"]
           /\ opened' = [fd \in Fds |-> NoObject]
           /\ UNCHANGED <<data, got, object>>

HNext == \/ TableStep
         \/ \E n \in Names : MakeInode(n) \/ \E mode \in Modes : OpenFile(n, mode)
         \/ \E fd \in Fds : ReleaseFile(fd) \/ fs_read(fd)
         \/ \E fd \in Fds, offset \in 0..(MAX_SIZE - 1), v \in Values : fs_write(fd, offset, v)
         \/ \E n \in Names, offset \in 0..MAX_SIZE : fs_truncate(n, offset)
         \/ Restart

HSpec == HInit /\ [][HNext]_hvars

-----------------------------------------------------------------------------
(* Properties *)

\* The files of the names and descriptors
NameOf(n)   == IF dirents[n] = INVALID_INODE THEN NoObject ELSE object[dirents[n]]
HandleOf(fd) == [obj |-> opened[fd], mode |-> flags[fd]]
Leads(o) == \/ \E n \in Names : NameOf(n) = o
            \/ \E fd \in Fds : opened[fd] = o

Abstract == INSTANCE FileObjects WITH
  names   <- [n \in Names |-> NameOf(n)],
  handles <- [fd \in Fds |-> HandleOf(fd)],
  content <- [o \in Objects |->
                IF Leads(o) THEN data[CHOOSE i \in ibitmap : object[i] = o] ELSE <<>>]

\* Every read through a descriptor returns what was written to the file that
\* its name led to when it was opened, through unlinks, new files under the
\* same name and in the same inode, releases in any order, and restarts.
ImplementsFileObjects == Abstract!Spec
=============================================================================
