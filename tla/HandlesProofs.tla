--------------------------- MODULE HandlesProofs ----------------------------
(***************************************************************************)
(* OpenFiles and Handles, for every number of inodes, names, descriptors   *)
(* and files and every set of values.                                      *)
(*                                                                         *)
(* The properties of the open file table that the model checker verifies   *)
(* hold together: their conjunction, strengthened with what is true in the *)
(* middle of a call and of the orphans, is inductive (IInv).               *)
(*                                                                         *)
(* Handles implements FileObjects: whatever is unlinked, created again,    *)
(* released and restarted, a descriptor reads and writes the file that its *)
(* name led to when it was opened.  IInv keeps inodes apart; what HInv     *)
(* adds is that the file an inode was made for is the file its descriptors *)
(* were opened for.                                                        *)
(***************************************************************************)
EXTENDS Handles, FiniteSetTheorems, SequenceTheorems, TLAPS

\* In the middle of mknod and unlink the inode has no name; in mknod nobody
\* has it open and the name is still free, in unlink it is not marked yet.
CallOK == op # "idle" => /\ op_inum \in ibitmap \ orphans
                         /\ ~ Named(op_inum)
                         /\ op = "mknod" => ref[op_inum] = 0 /\ dirents[op_name] = INVALID_INODE
                         /\ ~ (ref[op_inum] > 0 /\ pending[op_inum])

\* Orphans stay as the crash left them: allocated, unnamed and not open.
OrphansOK == \A i \in orphans : i \in ibitmap /\ ~ Named(i) /\ ref[i] = 0

\* An open inode without a name is marked, or unlink is about to mark it.
IInv == /\ TypeOK
        /\ RefCounts
        /\ OpenStaysAllocated
        /\ NamesSound
        /\ NoOrphans
        /\ CallOK
        /\ OrphansOK

-----------------------------------------------------------------------------
(* Counting descriptors *)

\* The descriptors of an inode are finitely many.
LEMMA HoldersFinite == \A i : IsFiniteSet(Holders(i)) /\ Cardinality(Holders(i)) \in Nat
<1>1. IsFiniteSet(Fds)
  BY FS_Interval, OpenConstants DEF Fds
<1>2. \A i : Holders(i) \subseteq Fds
  BY DEF Holders
<1> QED
  BY <1>1, <1>2, FS_Subset, FS_CardinalityType

\* oft_add's new descriptor raises the number for its inode by one.
LEMMA HolderAdded ==
  ASSUME TypeOK, NEW fd \in Fds, fds[fd] = INVALID_INODE, NEW i \in Inums,
         fds' = [fds EXCEPT ![fd] = i]
  PROVE  \A k \in Inums : Cardinality(Holders(k)') =
                            Cardinality(Holders(k)) + (IF k = i THEN 1 ELSE 0)
<1> SUFFICES ASSUME NEW k \in Inums
             PROVE  Cardinality(Holders(k)') = Cardinality(Holders(k)) + (IF k = i THEN 1 ELSE 0)
  OBVIOUS
<1>1. k # INVALID_INODE
  BY DEF Inums, ROOT_INODE, INVALID_INODE
<1>2. CASE k = i
  <2>1. Holders(k)' = Holders(k) \cup {fd} /\ fd \notin Holders(k)
    BY <1>1, <1>2 DEF Holders, TypeOK
  <2> QED
    BY <1>2, <2>1, HoldersFinite, FS_AddElement
<1>3. CASE k # i
  <2>1. Holders(k)' = Holders(k)
    BY <1>1, <1>3 DEF Holders, TypeOK
  <2> QED
    BY <1>3, <2>1, HoldersFinite
<1> QED
  BY <1>2, <1>3

\* oft_remove lowers it by one.
LEMMA HolderRemoved ==
  ASSUME TypeOK, NEW fd \in Fds, fds[fd] # INVALID_INODE,
         fds' = [fds EXCEPT ![fd] = INVALID_INODE]
  PROVE  \A k \in Inums : Cardinality(Holders(k)') =
                            Cardinality(Holders(k)) - (IF k = fds[fd] THEN 1 ELSE 0)
<1> SUFFICES ASSUME NEW k \in Inums
             PROVE  Cardinality(Holders(k)') =
                      Cardinality(Holders(k)) - (IF k = fds[fd] THEN 1 ELSE 0)
  OBVIOUS
<1>1. k # INVALID_INODE
  BY DEF Inums, ROOT_INODE, INVALID_INODE
<1>2. CASE k = fds[fd]
  <2>1. Holders(k)' = Holders(k) \ {fd} /\ fd \in Holders(k)
    BY <1>1, <1>2 DEF Holders, TypeOK
  <2> QED
    BY <1>2, <2>1, HoldersFinite, FS_RemoveElement
<1>3. CASE k # fds[fd]
  <2>1. Holders(k)' = Holders(k)
    BY <1>1, <1>3 DEF Holders, TypeOK
  <2> QED
    BY <1>3, <2>1, HoldersFinite
<1> QED
  BY <1>2, <1>3

\* An open inode has a positive count, and with a count of one a single
\* descriptor.
LEMMA OpenCounted ==
  ASSUME TypeOK, RefCounts, NEW fd \in Fds, fds[fd] # INVALID_INODE
  PROVE  /\ fds[fd] \in Inums
         /\ ref[fds[fd]] > 0
         /\ ref[fds[fd]] = 1 => \A g \in Fds \ {fd} : fds[g] # fds[fd]
<1> DEFINE i == fds[fd]
<1>1. i \in Inums
  BY DEF TypeOK
<1>2. fd \in Holders(i)
  BY DEF Holders
<1>3. /\ ref[i] = Cardinality(Holders(i))
      /\ IsFiniteSet(Holders(i))
      /\ Cardinality(Holders(i)) \in Nat
  BY <1>1, HoldersFinite DEF RefCounts
<1>4. ref[i] > 0
  <2>1. Holders(i) # {}
    BY <1>2
  <2> QED
    BY <1>3, <2>1, FS_EmptySet
<1>5. ASSUME ref[i] = 1 PROVE \A g \in Fds \ {fd} : fds[g] # i
  <2>0. /\ IsFiniteSet(Holders(i) \ {fd})
        /\ Cardinality(Holders(i) \ {fd}) = Cardinality(Holders(i)) - 1
    BY <1>2, <1>3, FS_RemoveElement
  <2>1. Cardinality(Holders(i) \ {fd}) = 0 /\ IsFiniteSet(Holders(i) \ {fd})
    BY <2>0, <1>3, <1>5
  <2>2. Holders(i) \ {fd} = {}
    BY <2>1, FS_EmptySet
  <2> QED
    BY <2>2 DEF Holders
<1> QED
  BY <1>1, <1>4, <1>5

-----------------------------------------------------------------------------
(* The induction *)

\* mkfs leaves no file, and the table starts empty.
LEMMA InitIInv == Init => IInv
<1> SUFFICES ASSUME Init PROVE IInv
  OBVIOUS
<1>0. INVALID_INODE = 0 /\ 0 \notin Inums
  BY DEF INVALID_INODE, Inums, ROOT_INODE
<1>1. TypeOK
  BY DEF Init, TypeOK
<1>2. RefCounts
  <2>1. \A i \in Inums : Holders(i) = {}
    BY <1>0 DEF Init, Holders
  <2> QED
    BY <2>1, FS_EmptySet DEF Init, RefCounts
<1>3. OpenStaysAllocated /\ NamesSound /\ NoOrphans
  BY DEF Init, OpenStaysAllocated, NamesSound, NoOrphans
<1>4. CallOK /\ OrphansOK
  BY DEF Init, CallOK, OrphansOK
<1> QED
  BY <1>1, <1>2, <1>3, <1>4 DEF IInv

\* While the tables stay, the counts do.
LEMMA TablesUnchanged == ASSUME RefCounts, UNCHANGED oft PROVE RefCounts'
  BY DEF RefCounts, Holders, oft

\* Every step of every handler, and every crash, preserves the invariant.
LEMMA NextIInv == IInv /\ [Next]_vars => IInv'
<1> SUFFICES ASSUME IInv, [Next]_vars PROVE IInv'
  OBVIOUS
<1> USE DEF INVALID_INODE
<1>0. 0 \notin Inums
  BY DEF Inums, ROOT_INODE
<1>1. ASSUME NEW n \in Names, MknodInode(n) PROVE IInv'
  <2>1. PICK i \in Inums : i \notin ibitmap /\ ibitmap' = ibitmap \cup {i} /\ op_inum' = i
    BY <1>1 DEF MknodInode, inode_create
  <2>2. ref[i] = 0
    <3>1. Holders(i) = {}
      BY <2>1, <1>0 DEF IInv, OpenStaysAllocated, Holders
    <3> QED
      BY <3>1, FS_EmptySet DEF IInv, RefCounts
  <2>3. TypeOK'
    BY <1>1, <2>1 DEF IInv, TypeOK, MknodInode, oft
  <2>4. RefCounts'
    BY <1>1, TablesUnchanged DEF IInv, MknodInode
  <2>5. OpenStaysAllocated' /\ NamesSound'
    BY <1>1, <2>1 DEF IInv, OpenStaysAllocated, NamesSound, MknodInode, oft
  <2>6. NoOrphans'
    BY <1>1, <2>1 DEF IInv, NoOrphans, Named, MknodInode, oft
  <2>7. CallOK'
    BY <1>0, <1>1, <2>1, <2>2 DEF IInv, CallOK, NamesSound, OrphansOK, Named, MknodInode, oft
  <2>8. OrphansOK'
    BY <1>1, <2>1 DEF IInv, OrphansOK, Named, MknodInode, oft
  <2> QED
    BY <2>3, <2>4, <2>5, <2>6, <2>7, <2>8 DEF IInv
<1>2. ASSUME MknodLink PROVE IInv'
  <2>1. TypeOK'
    BY <1>2 DEF IInv, TypeOK, MknodLink, Return, oft
  <2>2. RefCounts'
    BY <1>2, TablesUnchanged DEF IInv, MknodLink
  <2>3. OpenStaysAllocated'
    BY <1>2 DEF IInv, OpenStaysAllocated, MknodLink, oft
  <2>4. NamesSound'
    BY <1>2 DEF IInv, TypeOK, NamesSound, CallOK, Named, MknodLink, oft
  <2>5. NoOrphans'
    <3>1. \A i \in ibitmap : i # 0 /\ (Named(i) \/ i = op_inum => Named(i)')
      BY <1>0, <1>2 DEF IInv, TypeOK, CallOK, Named, MknodLink
    <3> QED
      BY <1>2, <3>1 DEF IInv, NoOrphans, MknodLink, oft
  <2>6. CallOK' /\ OrphansOK'
    BY <1>2 DEF IInv, TypeOK, CallOK, OrphansOK, Named, MknodLink, Return, oft
  <2> QED
    BY <2>1, <2>2, <2>3, <2>4, <2>5, <2>6 DEF IInv
<1>3. ASSUME MknodUndo PROVE IInv'
  <2>1. TypeOK'
    BY <1>3 DEF IInv, TypeOK, MknodUndo, del, Return, oft
  <2>2. RefCounts'
    BY <1>3, TablesUnchanged DEF IInv, MknodUndo
  <2>3. \A fd \in Fds : fds[fd] # op_inum
    BY <1>3, <1>0, OpenCounted DEF IInv, TypeOK, CallOK, MknodUndo
  <2>4. OpenStaysAllocated' /\ NamesSound'
    BY <1>3, <2>3 DEF IInv, OpenStaysAllocated, NamesSound, CallOK, Named, MknodUndo, del, oft
  <2>5. NoOrphans'
    BY <1>3 DEF IInv, NoOrphans, Named, MknodUndo, del, Return, oft
  <2>6. CallOK' /\ OrphansOK'
    BY <1>3 DEF IInv, CallOK, OrphansOK, Named, MknodUndo, del, Return, oft
  <2> QED
    BY <2>1, <2>2, <2>4, <2>5, <2>6 DEF IInv
<1>4. ASSUME NEW n \in Names, UnlinkName(n) PROVE IInv'
  <2>1. TypeOK'
    BY <1>4 DEF IInv, TypeOK, UnlinkName, oft
  <2>2. RefCounts'
    BY <1>4, TablesUnchanged DEF IInv, UnlinkName
  <2>3. OpenStaysAllocated' /\ NamesSound'
    BY <1>4 DEF IInv, TypeOK, OpenStaysAllocated, NamesSound, UnlinkName, oft
  <2>4. NoOrphans'
    BY <1>4 DEF IInv, TypeOK, NoOrphans, Named, UnlinkName, oft
  <2>5. CallOK' /\ OrphansOK'
    BY <1>0, <1>4 DEF IInv, TypeOK, CallOK, NamesSound, OrphansOK, Named, UnlinkName, oft
  <2> QED
    BY <2>1, <2>2, <2>3, <2>4, <2>5 DEF IInv
<1>5. ASSUME UnlinkInode PROVE IInv'
  <2>1. TypeOK'
    BY <1>5 DEF IInv, TypeOK, UnlinkInode, oft_attempt_delete, del, Return
  <2>2. RefCounts'
    BY <1>5 DEF IInv, RefCounts, Holders, UnlinkInode
  <2>3. ref[op_inum] = 0 => \A fd \in Fds : fds[fd] # op_inum
    BY <1>5, <1>0, OpenCounted DEF IInv, TypeOK, CallOK, UnlinkInode
  <2>4. OpenStaysAllocated'
    BY <1>5, <2>3 DEF IInv, OpenStaysAllocated, UnlinkInode, oft_attempt_delete, del
  <2>5. NamesSound'
    BY <1>5 DEF IInv, TypeOK, NamesSound, CallOK, Named, UnlinkInode, oft_attempt_delete, del
  <2>6. NoOrphans'
    BY <1>5 DEF IInv, TypeOK, NoOrphans, CallOK, Named, UnlinkInode, oft_attempt_delete, del,
                Return
  <2>7. CallOK' /\ OrphansOK'
    BY <1>5 DEF IInv, CallOK, OrphansOK, Named, UnlinkInode, oft_attempt_delete, del, Return
  <2> QED
    BY <2>1, <2>2, <2>4, <2>5, <2>6, <2>7 DEF IInv
<1>6. ASSUME NEW n \in Names, fs_open(n) PROVE IInv'
  <2> DEFINE i == dirents[n]
  <2>1. i \in Inums /\ i \in ibitmap \ orphans /\ (ref[i] > 0 => ~ pending[i])
    BY <1>6 DEF IInv, TypeOK, NamesSound, fs_open
  <2>2. PICK fd \in Fds :
          /\ fds[fd] = 0
          /\ fds' = [fds EXCEPT ![fd] = i]
          /\ ref' = [ref EXCEPT ![i] = ref[i] + 1]
          /\ pending' = IF ref[i] = 0 THEN [pending EXCEPT ![i] = FALSE] ELSE pending
    BY <1>6 DEF fs_open, oft_add
  <2>3. ref[i] \in Nat /\ ref'[i] = ref[i] + 1 /\ \A k \in Inums : k # i => ref'[k] = ref[k]
    BY <2>1, <2>2 DEF IInv, TypeOK
  <2>4. ~ pending'[i] /\ \A k \in Inums : k # i => pending'[k] = pending[k]
    BY <2>1, <2>2, <2>3 DEF IInv, TypeOK
  <2>5. TypeOK'
    BY <1>6, <2>1, <2>2 DEF IInv, TypeOK, fs_open
  <2>6. RefCounts'
    <3>1. \A k \in Inums : Cardinality(Holders(k)') =
                             Cardinality(Holders(k)) + (IF k = i THEN 1 ELSE 0)
      BY <2>1, <2>2, HolderAdded DEF IInv
    <3>2. SUFFICES ASSUME NEW k \in Inums PROVE ref'[k] = Cardinality(Holders(k)')
      BY DEF RefCounts
    <3>3. ref[k] = Cardinality(Holders(k)) /\ ref[k] \in Nat
      BY DEF IInv, RefCounts, TypeOK
    <3> QED
      BY <2>3, <3>1, <3>3
  <2>7. OpenStaysAllocated'
    BY <1>6, <2>1, <2>2 DEF IInv, TypeOK, OpenStaysAllocated, fs_open
  <2>8. NamesSound'
    BY <1>6, <2>1, <2>3, <2>4 DEF IInv, TypeOK, NamesSound, fs_open
  <2>9. NoOrphans'
    BY <1>6, <2>1, <2>3, <2>4 DEF IInv, TypeOK, NoOrphans, Named, fs_open
  <2>10. CallOK' /\ OrphansOK'
    BY <1>6, <2>1, <2>3, <2>4 DEF IInv, TypeOK, CallOK, OrphansOK, Named, fs_open
  <2> QED
    BY <2>5, <2>6, <2>7, <2>8, <2>9, <2>10 DEF IInv
<1>7. ASSUME NEW fd \in Fds, fs_release(fd) PROVE IInv'
  <2> DEFINE i == fds[fd]
  <2>1. /\ i # 0
        /\ fds' = [fds EXCEPT ![fd] = 0]
        /\ ref' = [ref EXCEPT ![i] = ref[i] - 1]
        /\ ibitmap' = IF ref[i] = 1 /\ pending[i] THEN ibitmap \ {i} ELSE ibitmap
        /\ UNCHANGED <<pending, dirents, op, op_inum, op_name, orphans>>
        /\ op = "idle"
    BY <1>7 DEF fs_release, oft_remove, del
  <2>2. /\ i \in Inums /\ ref[i] \in Nat /\ ref[i] > 0
        /\ ref[i] = 1 => \A g \in Fds \ {fd} : fds[g] # i
    BY <2>1, OpenCounted DEF IInv, TypeOK
  <2>3. ref'[i] = ref[i] - 1 /\ \A k \in Inums : k # i => ref'[k] = ref[k]
    BY <2>1, <2>2 DEF IInv, TypeOK
  <2>4. TypeOK'
    BY <2>1, <2>2 DEF IInv, TypeOK
  <2>5. RefCounts'
    <3>1. \A k \in Inums : Cardinality(Holders(k)') =
                             Cardinality(Holders(k)) - (IF k = i THEN 1 ELSE 0)
      BY <2>1, HolderRemoved DEF IInv
    <3>2. SUFFICES ASSUME NEW k \in Inums PROVE ref'[k] = Cardinality(Holders(k)')
      BY DEF RefCounts
    <3>3. ref[k] = Cardinality(Holders(k)) /\ ref[k] \in Nat
      BY DEF IInv, RefCounts, TypeOK
    <3> QED
      BY <2>3, <3>1, <3>3
  <2>6. OpenStaysAllocated'
    BY <2>1, <2>2 DEF IInv, TypeOK, OpenStaysAllocated
  <2>7. NamesSound'
    BY <2>1, <2>2, <2>3 DEF IInv, TypeOK, NamesSound
  <2>8. NoOrphans'
    BY <2>1, <2>2, <2>3 DEF IInv, TypeOK, NoOrphans, Named
  <2>9. CallOK' /\ OrphansOK'
    BY <2>1, <2>2, <2>3 DEF IInv, TypeOK, CallOK, OrphansOK, Named
  <2> QED
    BY <2>4, <2>5, <2>6, <2>7, <2>8, <2>9 DEF IInv
<1>8. ASSUME Crash PROVE IInv'
  <2>1. TypeOK'
    BY <1>8 DEF IInv, TypeOK, Crash, Return
  <2>2. RefCounts'
    <3>1. \A i \in Inums : Holders(i)' = {}
      BY <1>8, <1>0 DEF Crash, Holders
    <3> QED
      BY <1>8, <3>1, FS_EmptySet DEF Crash, RefCounts
  <2>3. OpenStaysAllocated' /\ NamesSound'
    BY <1>8 DEF IInv, TypeOK, OpenStaysAllocated, NamesSound, Named, Crash
  <2>4. NoOrphans'
    BY <1>8 DEF NoOrphans, Named, Crash
  <2>5. CallOK' /\ OrphansOK'
    BY <1>8 DEF IInv, TypeOK, CallOK, OrphansOK, Named, Crash, Return
  <2> QED
    BY <2>1, <2>2, <2>3, <2>4, <2>5 DEF IInv
<1>9. CASE UNCHANGED vars
  BY <1>9, TablesUnchanged DEF vars, oft, IInv, TypeOK, RefCounts, Holders, OpenStaysAllocated,
     NamesSound, NoOrphans, CallOK, OrphansOK, Named
<1> QED
  BY <1>1, <1>2, <1>3, <1>4, <1>5, <1>6, <1>7, <1>8, <1>9 DEF Next

-----------------------------------------------------------------------------
(* Theorems *)

\* The inductive invariant holds in every reachable state.
THEOREM Invariance == Spec => []IInv
  BY InitIInv, NextIInv, PTL DEF Spec

\* The tables, the bitmap and the locals of the running call keep their types:
\* a count never goes below zero, and a call that runs has an inode.
THEOREM TablesTyped == Spec => []TypeOK
<1>1. IInv => TypeOK
  BY DEF IInv
<1> QED
  BY <1>1, Invariance, PTL

\* Table 1's count is the number of descriptors, through every interleaving
\* of open, release, unlink and restart, for any number of descriptors.
THEOREM CountsAreRight == Spec => []RefCounts
<1>1. IInv => RefCounts
  BY DEF IInv
<1> QED
  BY <1>1, Invariance, PTL

\* While a descriptor is open its inode stays allocated.
THEOREM OpenKeepsInode == Spec => []OpenStaysAllocated
<1>1. IInv => OpenStaysAllocated
  BY DEF IInv
<1> QED
  BY <1>1, Invariance, PTL

\* A name leads to an allocated inode of its own that nobody wants deleted.
THEOREM NamesAreSound == Spec => []NamesSound
<1>1. IInv => NamesSound
  BY DEF IInv
<1> QED
  BY <1>1, Invariance, PTL

\* No inode is lost except to a kill of the process.
THEOREM NothingOrphaned == Spec => []NoOrphans
<1>1. IInv => NoOrphans
  BY DEF IInv
<1> QED
  BY <1>1, Invariance, PTL

\* A descriptor keeps its inode until its own release or a restart.
THEOREM DescriptorsStable == Spec => FdStable
<1>1. ASSUME IInv, [Next]_vars
      PROVE  [\A fd \in Fds : fds[fd] # INVALID_INODE /\ fds'[fd] # fds[fd] =>
                fds'[fd] = INVALID_INODE /\ (fs_release(fd) \/ Crash)]_vars
  <2> SUFFICES ASSUME Next, NEW fd \in Fds, fds[fd] # INVALID_INODE, fds'[fd] # fds[fd]
               PROVE  fds'[fd] = INVALID_INODE /\ (fs_release(fd) \/ Crash)
    BY <1>1
  <2> QED
    BY <1>1 DEF IInv, TypeOK, Next, MknodInode, MknodLink, MknodUndo, UnlinkName, UnlinkInode,
       fs_open, oft_add, fs_release, oft_remove, Crash, oft, vars
<1> QED
  BY <1>1, Invariance, PTL DEF Spec, FdStable

-----------------------------------------------------------------------------
(* Handles *)

Cell == Values \cup {0}

\* The types of the variables that Handles adds
HandleTypes == /\ data \in [Inums -> Seq(Cell)]
               /\ flags \in [Fds -> Modes \cup {"none"}]
               /\ object \in [Inums -> Objects \cup {NoObject}]
               /\ opened \in [Fds -> Objects \cup {NoObject}]

\* Each allocated inode holds a file of its own
ObjectsApart == /\ \A i \in ibitmap : object[i] \in Objects
                /\ \A i, j \in ibitmap : object[i] = object[j] => i = j

\* A descriptor's file is the one in its inode
OpenedRight == \A fd \in Fds :
                 IF fds[fd] = INVALID_INODE THEN opened[fd] = NoObject /\ flags[fd] = "none"
                 ELSE opened[fd] = object[fds[fd]] /\ flags[fd] \in Modes

\* The inode that mknod is about to name is still empty
NewIsEmpty == op = "mknod" => data[op_inum] = <<>>

HInv == IInv /\ HandleTypes /\ ObjectsApart /\ OpenedRight /\ NewIsEmpty

-----------------------------------------------------------------------------
(* What is in a file *)

\* trunc_fs leaves a sequence of the size it was given
LEMMA ResizedType ==
  ASSUME NEW s \in Seq(Cell), NEW size \in Nat
  PROVE  Resized(s, size) \in Seq(Cell)
<1>1. \A k \in 1..size : (IF k <= Len(s) THEN s[k] ELSE 0) \in Cell
  BY DEF Cell
<1> QED
  BY <1>1 DEF Resized

\* The block that write_i reads, grows and writes back is what Put says
LEMMA WriteIsPut ==
  ASSUME NEW s \in Seq(Cell), NEW at \in Nat, NEW v \in Values
  PROVE  /\ [Resized(s, IF at < Len(s) THEN Len(s) ELSE at + 1) EXCEPT ![at + 1] = v]
              = Abstract!Put(s, at, v)
         /\ Abstract!Put(s, at, v) \in Seq(Cell)
<1>1. CASE at < Len(s)
  <2>1. Resized(s, Len(s)) = s
    BY DEF Resized
  <2>2. [s EXCEPT ![at + 1] = v] \in Seq(Cell)
    BY <1>1 DEF Cell
  <2> QED
    BY <1>1, <2>1, <2>2 DEF Abstract!Put
<1>2. CASE ~ (at < Len(s))
  <2> DEFINE new == [k \in 1..(at + 1) |-> IF k <= Len(s) THEN s[k]
                                           ELSE IF k = at + 1 THEN v ELSE 0]
  <2>1. [Resized(s, at + 1) EXCEPT ![at + 1] = v] = new
    <3>1. Len(s) \in Nat /\ ~ (at + 1 <= Len(s))
      BY <1>2
    <3>2. Resized(s, at + 1) = [k \in 1..(at + 1) |-> IF k <= Len(s) THEN s[k] ELSE 0]
      BY DEF Resized
    <3>3. \A k \in 1..(at + 1) : [Resized(s, at + 1) EXCEPT ![at + 1] = v][k] = new[k]
      BY <3>1, <3>2
    <3> QED
      BY <3>2, <3>3
  <2>2. new \in Seq(Cell)
    <3>1. \A k \in 1..(at + 1) :
            (IF k <= Len(s) THEN s[k] ELSE IF k = at + 1 THEN v ELSE 0) \in Cell
      BY DEF Cell
    <3> QED
      BY <3>1
  <2> QED
    BY <1>2, <2>1, <2>2 DEF Abstract!Put
<1> QED
  BY <1>1, <1>2

-----------------------------------------------------------------------------
(* The induction *)

\* A step of Handles is one of OpenFiles, or leaves its variables alone.
LEMMA TableSteps == [HNext]_hvars => [Next]_vars
<1> SUFFICES ASSUME [HNext]_hvars PROVE [Next]_vars
  OBVIOUS
<1>1. CASE TableStep
  BY <1>1 DEF TableStep, Next
<1>2. ASSUME NEW n \in Names, MakeInode(n) \/ \E mode \in Modes : OpenFile(n, mode)
      PROVE  Next
  BY <1>2 DEF MakeInode, OpenFile, Next
<1>3. ASSUME NEW fd \in Fds, ReleaseFile(fd) \/ fs_read(fd) PROVE [Next]_vars
  BY <1>3 DEF ReleaseFile, fs_read, Next
<1>4. CASE \/ \E fd \in Fds, offset \in 0..(MAX_SIZE - 1), v \in Values : fs_write(fd, offset, v)
           \/ \E n \in Names, offset \in 0..MAX_SIZE : fs_truncate(n, offset)
           \/ Restart
  BY <1>4 DEF fs_write, fs_truncate, Restart, Next
<1>5. CASE UNCHANGED hvars
  BY <1>5 DEF hvars
<1> QED
  BY <1>1, <1>2, <1>3, <1>4, <1>5 DEF HNext

\* mkfs leaves no file.
LEMMA InitHInv == HInit => HInv
<1> SUFFICES ASSUME HInit PROVE HInv
  OBVIOUS
<1>1. IInv
  BY InitIInv DEF HInit
<1>2. HandleTypes /\ ObjectsApart /\ OpenedRight /\ NewIsEmpty
  BY DEF HInit, Init, HandleTypes, ObjectsApart, OpenedRight, NewIsEmpty
<1> QED
  BY <1>1, <1>2 DEF HInv

\* Every step of every handler keeps the files apart.
LEMMA NextHInv == HInv /\ [HNext]_hvars => HInv'
<1> SUFFICES ASSUME HInv, [HNext]_hvars PROVE HInv'
  OBVIOUS
<1> USE DEF INVALID_INODE
<1>0. IInv' /\ TypeOK /\ TypeOK' /\ 0 \notin Inums
  BY TableSteps, NextIInv DEF HInv, IInv, Inums, ROOT_INODE
<1>1. CASE TableStep
  <2>1. ibitmap' \subseteq ibitmap /\ fds' = fds /\ op' # "mknod"
    BY <1>1 DEF TableStep, MknodLink, MknodUndo, UnlinkInode, UnlinkName, Return, del,
                oft_attempt_delete, oft
  <2> QED
    BY <1>0, <1>1, <2>1 DEF HInv, TableStep, HandleTypes, ObjectsApart, OpenedRight, NewIsEmpty
<1>2. ASSUME NEW n \in Names, MakeInode(n) PROVE HInv'
  <2>1. PICK i \in Inums : i \notin ibitmap /\ ibitmap' = ibitmap \cup {i} /\ op_inum' = i
    BY <1>2 DEF MakeInode, MknodInode, inode_create
  <2>2. PICK o \in Objects : /\ o \notin {object[k] : k \in ibitmap}
                             /\ object' = [object EXCEPT ![i] = o]
    BY <1>2, <2>1 DEF MakeInode
  <2>3. data' = [data EXCEPT ![i] = <<>>] /\ UNCHANGED <<flags, opened, fds>>
    BY <1>2, <2>1 DEF MakeInode, MknodInode, oft
  <2>4. HandleTypes' /\ ObjectsApart'
    BY <1>0, <2>1, <2>2, <2>3 DEF HInv, HandleTypes, ObjectsApart, TypeOK
  <2>5. OpenedRight'
    BY <1>0, <2>1, <2>2, <2>3 DEF HInv, IInv, HandleTypes, OpenStaysAllocated, OpenedRight, TypeOK
  <2>6. NewIsEmpty'
    BY <2>1, <2>3 DEF HInv, HandleTypes, NewIsEmpty
  <2> QED
    BY <1>0, <2>4, <2>5, <2>6 DEF HInv
<1>3. ASSUME NEW n \in Names, NEW mode \in Modes, OpenFile(n, mode) PROVE HInv'
  <2>1. dirents[n] \in Inums /\ op' = "idle" /\ UNCHANGED <<ibitmap, data, object>>
    BY <1>0, <1>3 DEF OpenFile, fs_open, TypeOK
  <2>2. PICK fd \in Fds : fds[fd] = 0 /\ fds' = [fds EXCEPT ![fd] = dirents[n]]
    BY <1>3 DEF OpenFile, fs_open, oft_add
  <2>3. \A g \in Fds : Fresh(g) <=> g = fd
    BY <1>0, <2>1, <2>2 DEF Fresh, TypeOK
  <2>4. /\ flags' = [flags EXCEPT ![fd] = mode]
        /\ opened' = [opened EXCEPT ![fd] = object[dirents[n]]]
    BY <1>3, <2>3 DEF OpenFile, HInv, HandleTypes
  <2> QED
    BY <1>0, <2>1, <2>2, <2>4
    DEF HInv, HandleTypes, ObjectsApart, OpenedRight, NewIsEmpty, TypeOK
<1>4. ASSUME NEW fd \in Fds, ReleaseFile(fd) PROVE HInv'
  <2>1. /\ fds' = [fds EXCEPT ![fd] = 0] /\ ibitmap' \subseteq ibitmap /\ op' = "idle"
        /\ flags' = [flags EXCEPT ![fd] = "none"]
        /\ opened' = [opened EXCEPT ![fd] = NoObject]
        /\ UNCHANGED <<data, object>>
    BY <1>4 DEF ReleaseFile, fs_release, oft_remove, del
  <2> QED
    BY <1>0, <2>1 DEF HInv, HandleTypes, ObjectsApart, OpenedRight, NewIsEmpty, TypeOK
<1>5. CASE UNCHANGED <<vars, data, flags, object, opened>>
  BY <1>0, <1>5 DEF HInv, HandleTypes, ObjectsApart, OpenedRight, NewIsEmpty, vars
<1>6. ASSUME NEW fd \in Fds, NEW offset \in 0..(MAX_SIZE - 1), NEW v \in Values,
             fs_write(fd, offset, v)
      PROVE  HInv'
  <2> DEFINE i  == fds[fd]
             at == ActualOffset(fd, offset)
  <2>1. i \in Inums /\ data[i] \in Seq(Cell) /\ op = "idle"
    BY <1>0, <1>6 DEF fs_write, oft_lookup, TypeOK, HInv, HandleTypes
  <2>2. at \in Nat
    BY <2>1, HandleConstants DEF ActualOffset, oft_lookup
  <2>3. data' = [data EXCEPT ![i] = Abstract!Put(data[i], at, v)]
    <3>1. write_i(i, at, v)
      BY <1>6 DEF fs_write, oft_lookup
    <3> HIDE DEF i, at
    <3>2. [Resized(data[i], IF at < Len(data[i]) THEN Len(data[i]) ELSE at + 1)
             EXCEPT ![at + 1] = v] = Abstract!Put(data[i], at, v)
      BY <2>1, <2>2, WriteIsPut
    <3> QED
      BY <3>1, <3>2, Zenon DEF write_i
  <2>4. data' \in [Inums -> Seq(Cell)]
    BY <2>1, <2>2, <2>3, WriteIsPut DEF HInv, HandleTypes
  <2> QED
    BY <1>0, <1>6, <2>1, <2>4
    DEF fs_write, vars, HInv, HandleTypes, ObjectsApart, OpenedRight, NewIsEmpty
<1>7. ASSUME NEW n \in Names, NEW offset \in 0..MAX_SIZE, fs_truncate(n, offset) PROVE HInv'
  <2>1. dirents[n] \in Inums /\ data[dirents[n]] \in Seq(Cell) /\ op = "idle"
    BY <1>0, <1>7 DEF fs_truncate, TypeOK, HInv, HandleTypes
  <2>2. data' \in [Inums -> Seq(Cell)]
    <3>1. Resized(data[dirents[n]], offset) \in Seq(Cell)
      <4>1. offset \in Nat
        BY HandleConstants
      <4> QED
        BY <2>1, <4>1, ResizedType
    <3>2. data' = [data EXCEPT ![dirents[n]] = Resized(data[dirents[n]], offset)]
      BY <1>7 DEF fs_truncate, trunc_fs
    <3> QED
      BY <2>1, <3>1, <3>2 DEF HInv, HandleTypes
  <2> QED
    BY <1>0, <1>7, <2>1, <2>2
    DEF fs_truncate, vars, HInv, HandleTypes, ObjectsApart, OpenedRight, NewIsEmpty
<1>8. CASE Restart
  BY <1>0, <1>8 DEF Restart, Crash, Return, HInv, HandleTypes, ObjectsApart, OpenedRight, NewIsEmpty
<1> QED
  BY <1>1, <1>2, <1>3, <1>4, <1>5, <1>6, <1>7, <1>8 DEF HNext, hvars, fs_read

-----------------------------------------------------------------------------
(* What the abstract specification sees *)

\* A name or a descriptor has the inode
Lead(i) == Named(i) \/ \E fd \in Fds : fds[fd] = i

ContentOf(o) == IF Leads(o) THEN data[CHOOSE i \in ibitmap : object[i] = o] ELSE <<>>

\* The files that can be reached are those of the inodes with a name or a
\* descriptor, and their content is what is in these inodes
View == /\ \A n \in Names : /\ NameOf(n) \in Objects \cup {NoObject}
                            /\ NameOf(n) = NoObject <=> dirents[n] = INVALID_INODE
        /\ \A fd \in Fds : opened[fd] = NoObject <=> fds[fd] = INVALID_INODE
        /\ \A i \in ibitmap : /\ Lead(i) <=> Leads(object[i])
                              /\ Lead(i) => ContentOf(object[i]) = data[i]
        /\ \A o \in Objects : Leads(o) => \E i \in ibitmap : object[i] = o /\ Lead(i)

\* In every reachable state the mapping is as View says.
LEMMA ViewIsRight == HInv => View
<1> SUFFICES ASSUME HInv PROVE View
  OBVIOUS
<1> USE DEF INVALID_INODE
<1>0. NoObject \notin Objects /\ 0 \notin Inums /\ TypeOK /\ HandleTypes
  BY HandleConstants DEF HInv, IInv, Inums, ROOT_INODE
<1>1. /\ \A n \in Names : dirents[n] # 0 => dirents[n] \in ibitmap
      /\ \A fd \in Fds : fds[fd] # 0 => fds[fd] \in ibitmap
      /\ \A i \in ibitmap : i \in Inums /\ object[i] \in Objects
      /\ \A i, j \in ibitmap : object[i] = object[j] => i = j
  BY <1>0 DEF HInv, IInv, NamesSound, OpenStaysAllocated, ObjectsApart, TypeOK
<1>2. \A n \in Names : /\ NameOf(n) \in Objects \cup {NoObject}
                       /\ NameOf(n) = NoObject <=> dirents[n] = 0
  BY <1>0, <1>1 DEF NameOf
<1>3. \A fd \in Fds : /\ opened[fd] = NoObject <=> fds[fd] = 0
                      /\ fds[fd] # 0 => opened[fd] = object[fds[fd]]
  BY <1>0, <1>1 DEF HInv, OpenedRight
<1>4. \A i \in ibitmap : Lead(i) <=> Leads(object[i])
  <2> SUFFICES ASSUME NEW i \in ibitmap PROVE Lead(i) <=> Leads(object[i])
    OBVIOUS
  <2>1. \A n \in Names : dirents[n] = i <=> NameOf(n) = object[i]
    BY <1>0, <1>1 DEF NameOf
  <2>2. \A fd \in Fds : fds[fd] = i <=> opened[fd] = object[i]
    BY <1>0, <1>1, <1>3
  <2> QED
    BY <2>1, <2>2 DEF Lead, Leads, Named
<1>5. ASSUME NEW i \in ibitmap, Lead(i) PROVE ContentOf(object[i]) = data[i]
  <2>1. (CHOOSE k \in ibitmap : object[k] = object[i]) = i
    BY <1>1
  <2> QED
    BY <1>4, <1>5, <2>1 DEF ContentOf
<1>6. ASSUME NEW o \in Objects, Leads(o) PROVE \E i \in ibitmap : object[i] = o /\ Lead(i)
  <2>1. CASE \E n \in Names : NameOf(n) = o
    BY <1>0, <1>1, <2>1 DEF NameOf, Lead, Named
  <2>2. CASE \E fd \in Fds : opened[fd] = o
    BY <1>0, <1>1, <1>3, <2>2 DEF Lead
  <2> QED
    BY <1>6, <2>1, <2>2 DEF Leads
<1> QED
  BY <1>2, <1>3, <1>4, <1>5, <1>6 DEF View

\* The same of the next state.
LEMMA ViewIsRightNext == HInv' => View'
  BY ViewIsRight, PTL

\* A file that can be reached before and after a step keeps its content if
\* its inode does.
LEMMA SameContent ==
  ASSUME HInv, HInv', NEW o \in Objects, Leads(o), Leads(o)',
         \A i \in ibitmap : Lead(i) /\ object[i] = o =>
                              i \in ibitmap' /\ object'[i] = o /\ data'[i] = data[i]
  PROVE  ContentOf(o)' = ContentOf(o)
<1>1. PICK i \in ibitmap : object[i] = o /\ Lead(i)
  BY ViewIsRight DEF View
<1>2. i \in ibitmap' /\ object'[i] = o /\ data'[i] = data[i]
  BY <1>1
<1>3. ContentOf(o) = data[i]
  BY <1>1, ViewIsRight DEF View
<1>4. (ContentOf(object[i]) = data[i])'
  BY <1>2, ViewIsRightNext DEF View
<1> QED
  BY <1>2, <1>3, <1>4

-----------------------------------------------------------------------------
(* Every step is one of FileObjects, or one that it does not see *)

AbsNames   == [n \in Names |-> NameOf(n)]
AbsHandles == [fd \in Fds |-> HandleOf(fd)]
AbsContent == [o \in Objects |-> ContentOf(o)]

\* A file is in use exactly if a name or a descriptor leads to it.
LEMMA UsedIsLeads == \A o : o \in Abstract!Used(AbsNames, AbsHandles) <=> Leads(o)
  BY DEF Abstract!Used, AbsNames, AbsHandles, HandleOf, Leads

\* The same of the next state.
LEMMA UsedIsLeadsNext == \A o : o \in Abstract!Used(AbsNames', AbsHandles') <=> Leads(o)'
  BY DEF Abstract!Used, AbsNames, AbsHandles, HandleOf, Leads

\* mknod_fs before the name is written, its failure, and the second half of
\* unlink change nothing that a name or a descriptor leads to.
LEMMA HiddenSteps ==
  ASSUME HInv, HInv',
         (\E n \in Names : MakeInode(n)) \/ (TableStep /\ (MknodUndo \/ UnlinkInode))
  PROVE  UNCHANGED <<AbsNames, AbsHandles, AbsContent, got>>
<1> USE DEF INVALID_INODE
<1>1. UNCHANGED <<dirents, fds, opened, flags, got>>
  BY DEF MakeInode, MknodInode, TableStep, MknodUndo, UnlinkInode, oft
<1>2. \A i \in ibitmap : Lead(i) =>
        i \in ibitmap' /\ object'[i] = object[i] /\ data'[i] = data[i]
  <2>1. ASSUME NEW n \in Names, MakeInode(n)
        PROVE  \A i \in ibitmap : i \in ibitmap' /\ object'[i] = object[i] /\ data'[i] = data[i]
    BY <2>1 DEF HInv, IInv, TypeOK, HandleTypes, MakeInode, MknodInode, inode_create
  <2>2. ASSUME TableStep, MknodUndo \/ UnlinkInode
        PROVE  \A i \in ibitmap : Lead(i) =>
                 i \in ibitmap' /\ object'[i] = object[i] /\ data'[i] = data[i]
    <3>1. ibitmap' = ibitmap \/ (ibitmap' = ibitmap \ {op_inum} /\ ref[op_inum] = 0)
      BY <2>2 DEF MknodUndo, UnlinkInode, oft_attempt_delete, del, HInv, IInv, CallOK
    <3>2. ref[op_inum] = 0 => ~ Lead(op_inum)
      BY <2>2, OpenCounted DEF MknodUndo, UnlinkInode, HInv, IInv, CallOK, TypeOK, Lead, Inums,
         ROOT_INODE
    <3> QED
      BY <2>2, <3>1, <3>2 DEF TableStep
  <2> QED
    BY <2>1, <2>2
<1>3. \A n \in Names : NameOf(n)' = NameOf(n)
  BY <1>1, <1>2 DEF NameOf, HInv, IInv, NamesSound, Lead, Named
<1>4. \A o : Leads(o)' <=> Leads(o)
  BY <1>1, <1>3 DEF Leads
<1>5. ASSUME NEW o \in Objects PROVE ContentOf(o)' = ContentOf(o)
  BY <1>2, <1>4, SameContent DEF ContentOf
<1> QED
  BY <1>1, <1>3, <1>5 DEF AbsNames, AbsHandles, AbsContent, HandleOf

\* With its name the file is there, and it is empty and nobody else's.
LEMMA LinkCreates ==
  ASSUME HInv, HInv', TableStep, MknodLink
  PROVE  \E n \in Names, o \in Objects : Abstract!Create(n, o)
<1> USE DEF INVALID_INODE
<1>0. PICK n, i, o : n = op_name /\ i = op_inum /\ o = object[op_inum]
  OBVIOUS
<1>1. /\ n \in Names /\ i \in ibitmap /\ i \in Inums /\ o \in Objects /\ i # 0
      /\ dirents[n] = 0 /\ ~ Lead(i) /\ data[i] = <<>>
  BY <1>0, OpenCounted DEF HInv, IInv, TypeOK, CallOK, ObjectsApart, NewIsEmpty, MknodLink, Lead, Inums,
     ROOT_INODE
<1>2. dirents' = [dirents EXCEPT ![n] = i] /\
      UNCHANGED <<ibitmap, fds, data, object, opened, flags, got>>
  BY <1>0 DEF MknodLink, TableStep, oft
<1>3. \A m \in Names : NameOf(m)' = IF m = n THEN o ELSE NameOf(m)
  BY <1>0, <1>1, <1>2 DEF NameOf, HInv, IInv, TypeOK
<1>4. ~ Leads(o)
  BY <1>0, <1>1, ViewIsRight DEF View
<1>5. NameOf(n) = NoObject
  BY <1>1, ViewIsRight DEF View
<1>6. ASSUME NEW x \in Objects PROVE ContentOf(x)' = ContentOf(x)
  <2>1. CASE x = o
    <3>1. ContentOf(x) = <<>>
      BY <1>4, <2>1 DEF ContentOf
    <3>2. Lead(i)'
      BY <1>1, <1>2 DEF Lead, Named, HInv, IInv, TypeOK
    <3>3. ContentOf(x)' = data'[i]
      BY <1>0, <1>1, <1>2, <2>1, <3>2, ViewIsRightNext DEF View
    <3> QED
      BY <1>1, <1>2, <3>1, <3>3
  <2>2. CASE x # o
    <3>0. x # NoObject
      BY HandleConstants
    <3>1. \A m \in Names : NameOf(m)' = x <=> NameOf(m) = x
      BY <1>3, <1>5, <2>2, <3>0
    <3>2. Leads(x)' <=> Leads(x)
      BY <1>2, <3>1 DEF Leads
    <3>3. CASE Leads(x)
      BY <1>2, <3>2, <3>3, SameContent
    <3>4. CASE ~ Leads(x)
      BY <3>2, <3>4 DEF ContentOf
    <3> QED
      BY <3>3, <3>4
  <2> QED
    BY <2>1, <2>2
<1>7. AbsNames[n] = NoObject /\ AbsNames' = [AbsNames EXCEPT ![n] = o]
  BY <1>1, <1>3, <1>5 DEF AbsNames
<1>8. UNCHANGED <<AbsHandles, AbsContent, got>>
  BY <1>2, <1>6 DEF AbsHandles, AbsContent, HandleOf
<1>9. o \notin Abstract!Used(AbsNames, AbsHandles)
  BY <1>4, UsedIsLeads
<1>10. Abstract!Create(n, o)
  BY <1>7, <1>8, <1>9 DEF Abstract!Create, AbsNames, AbsHandles, AbsContent, ContentOf
<1> QED
  BY <1>1, <1>10

\* When names and descriptors go and the inodes of the others stay, the
\* content that is left is what Kept leaves.
LEMMA ContentKept ==
  ASSUME HInv, HInv',
         \A o \in Objects : Leads(o)' =>
           /\ Leads(o)
           /\ \A i \in ibitmap : Lead(i) /\ object[i] = o =>
                                  i \in ibitmap' /\ object'[i] = o /\ data'[i] = data[i]
  PROVE  AbsContent' = Abstract!Kept(AbsContent, AbsNames', AbsHandles')
<1>1. ASSUME NEW o \in Objects
      PROVE  ContentOf(o)' = IF o \in Abstract!Used(AbsNames', AbsHandles')
                             THEN AbsContent[o] ELSE <<>>
  <2>1. CASE Leads(o)'
    BY <2>1, SameContent, UsedIsLeadsNext DEF AbsContent
  <2>2. CASE ~ Leads(o)'
    BY <2>2, UsedIsLeadsNext DEF ContentOf
  <2> QED
    BY <2>1, <2>2
<1> QED
  BY <1>1 DEF AbsContent, Abstract!Kept

\* The first half of unlink takes the name away.
LEMMA UnlinkRemoves ==
  ASSUME HInv, HInv', TableStep, NEW n \in Names, UnlinkName(n)
  PROVE  Abstract!Remove(n)
<1> USE DEF INVALID_INODE
<1>1. /\ dirents' = [dirents EXCEPT ![n] = 0]
      /\ UNCHANGED <<ibitmap, fds, data, object, opened, flags, got>>
  BY DEF UnlinkName, TableStep, oft
<1>2. \A m \in Names : NameOf(m)' = IF m = n THEN NoObject ELSE NameOf(m)
  BY <1>1 DEF NameOf, HInv, IInv, TypeOK
<1>3. \A o \in Objects : Leads(o)' => Leads(o)
  BY <1>1, <1>2, HandleConstants DEF Leads
<1>4. AbsContent' = Abstract!Kept(AbsContent, AbsNames', AbsHandles')
  BY <1>1, <1>3, ContentKept
<1>5. AbsNames' = [AbsNames EXCEPT ![n] = NoObject]
  BY <1>2 DEF AbsNames
<1>6. UNCHANGED <<AbsHandles, got>>
  BY <1>1 DEF AbsHandles, HandleOf
<1> QED
  BY <1>4, <1>5, <1>6 DEF Abstract!Remove, AbsNames, AbsHandles, AbsContent, ContentOf

\* fs_open gives a free descriptor to the file of the name.
LEMMA OpenOpens ==
  ASSUME HInv, HInv', NEW n \in Names, NEW mode \in Modes, OpenFile(n, mode)
  PROVE  \E fd \in Fds : Abstract!Open(n, fd, mode)
<1> USE DEF INVALID_INODE
<1>0. dirents[n] \in Inums /\ dirents[n] # 0 /\ NameOf(n) = object[dirents[n]]
  BY DEF OpenFile, fs_open, HInv, IInv, TypeOK, NameOf
<1>1. UNCHANGED <<ibitmap, dirents, data, object, got>>
  BY DEF OpenFile, fs_open
<1>2. PICK fd \in Fds : fds[fd] = 0 /\ fds' = [fds EXCEPT ![fd] = dirents[n]]
  BY DEF OpenFile, fs_open, oft_add
<1>3. \A g \in Fds : Fresh(g) <=> g = fd
  BY <1>0, <1>2 DEF Fresh, HInv, IInv, TypeOK
<1>4. /\ \A g \in Fds : flags'[g] = IF g = fd THEN mode ELSE flags[g]
      /\ \A g \in Fds : opened'[g] = IF g = fd THEN NameOf(n) ELSE opened[g]
  BY <1>0, <1>3 DEF OpenFile
<1>5. \A m \in Names : NameOf(m)' = NameOf(m)
  BY <1>1 DEF NameOf
<1>6. opened[fd] = NoObject /\ flags[fd] = "none" /\ NameOf(n) # NoObject
  BY <1>0, <1>2, ViewIsRight DEF View, HInv, OpenedRight
<1>7. \A o \in Objects : Leads(o)' <=> Leads(o)
  BY <1>4, <1>5, <1>6, HandleConstants DEF Leads
<1>8. ASSUME NEW o \in Objects PROVE ContentOf(o)' = ContentOf(o)
  <2>1. CASE Leads(o)
    BY <1>1, <1>7, <2>1, SameContent
  <2>2. CASE ~ Leads(o)
    BY <1>7, <2>2 DEF ContentOf
  <2> QED
    BY <2>1, <2>2
<1>9. UNCHANGED <<AbsNames, AbsContent, got>>
  BY <1>1, <1>5, <1>8 DEF AbsNames, AbsContent
<1>10. AbsHandles' = [AbsHandles EXCEPT ![fd] = [obj |-> AbsNames[n], mode |-> mode]]
  BY <1>4 DEF AbsHandles, AbsNames, HandleOf
<1>11. AbsHandles[fd] = Abstract!Closed /\ AbsNames[n] # NoObject
  BY <1>6 DEF AbsHandles, AbsNames, HandleOf, Abstract!Closed
<1>12. Abstract!Open(n, fd, mode)
  BY <1>9, <1>10, <1>11 DEF Abstract!Open, AbsNames, AbsHandles, AbsContent, ContentOf
<1> QED
  BY <1>12

\* fs_release closes its own descriptor; the inode goes only when nothing
\* leads to it any more.
LEMMA ReleaseCloses ==
  ASSUME HInv, HInv', NEW fd \in Fds, ReleaseFile(fd)
  PROVE  Abstract!Close(fd)
<1> USE DEF INVALID_INODE
<1>1. /\ fds[fd] # 0 /\ fds' = [fds EXCEPT ![fd] = 0]
      /\ flags' = [flags EXCEPT ![fd] = "none"]
      /\ opened' = [opened EXCEPT ![fd] = NoObject]
      /\ UNCHANGED <<dirents, data, object, got>>
  BY DEF ReleaseFile, fs_release, oft_remove
<1>2. \A m \in Names : NameOf(m)' = NameOf(m)
  BY <1>1 DEF NameOf
<1>3. \A o \in Objects : Leads(o)' => Leads(o)
  BY <1>1, <1>2, HandleConstants DEF Leads, HInv, HandleTypes
<1>4. ASSUME NEW o \in Objects, Leads(o)', NEW i \in ibitmap, Lead(i), object[i] = o
      PROVE  i \in ibitmap'
  <2>1. PICK k \in ibitmap' : object'[k] = o /\ Lead(k)'
    BY <1>4, ViewIsRightNext DEF View
  <2>2. k \in ibitmap
    BY DEF ReleaseFile, fs_release, oft_remove, del
  <2> QED
    BY <1>1, <1>4, <2>1, <2>2 DEF HInv, ObjectsApart
<1>5. AbsContent' = Abstract!Kept(AbsContent, AbsNames', AbsHandles')
  BY <1>1, <1>3, <1>4, ContentKept
<1>6. AbsHandles' = [AbsHandles EXCEPT ![fd] = Abstract!Closed]
  BY <1>1 DEF AbsHandles, HandleOf, Abstract!Closed, HInv, HandleTypes
<1>7. AbsHandles[fd] # Abstract!Closed
  BY <1>1, ViewIsRight DEF View, AbsHandles, HandleOf, Abstract!Closed
<1>8. UNCHANGED <<AbsNames, got>>
  BY <1>1, <1>2 DEF AbsNames
<1> QED
  BY <1>5, <1>6, <1>7, <1>8 DEF Abstract!Close, AbsNames, AbsHandles, AbsContent, ContentOf

\* A restart closes all descriptors.
LEMMA RestartRestarts ==
  ASSUME HInv, HInv', Restart
  PROVE  Abstract!Restart
<1> USE DEF INVALID_INODE
<1>1. /\ flags' = [fd \in Fds |-> "none"]
      /\ opened' = [fd \in Fds |-> NoObject]
      /\ UNCHANGED <<ibitmap, dirents, data, object, got>>
  BY DEF Restart, Crash
<1>2. \A m \in Names : NameOf(m)' = NameOf(m)
  BY <1>1 DEF NameOf
<1>3. \A o \in Objects : Leads(o)' => Leads(o)
  BY <1>1, <1>2, HandleConstants DEF Leads
<1>4. AbsContent' = Abstract!Kept(AbsContent, AbsNames', AbsHandles')
  BY <1>1, <1>3, ContentKept
<1>5. AbsHandles' = [fd \in Fds |-> Abstract!Closed]
  BY <1>1 DEF AbsHandles, HandleOf, Abstract!Closed
<1>6. UNCHANGED <<AbsNames, got>>
  BY <1>1, <1>2 DEF AbsNames
<1> QED
  BY <1>4, <1>5, <1>6 DEF Abstract!Restart, AbsNames, AbsHandles, AbsContent, ContentOf

\* fs_read returns the content of the descriptor's file.
LEMMA ReadReads ==
  ASSUME HInv, HInv', NEW fd \in Fds, fs_read(fd)
  PROVE  Abstract!Read(fd)
<1> USE DEF INVALID_INODE
<1>1. /\ fds[fd] # 0 /\ flags[fd] \in {"r", "rw"} /\ got' = data[fds[fd]]
      /\ UNCHANGED <<vars, data, flags, object, opened>>
  BY DEF fs_read, oft_lookup
<1>2. fds[fd] \in ibitmap /\ Lead(fds[fd]) /\ opened[fd] = object[fds[fd]]
  BY <1>1 DEF HInv, IInv, OpenStaysAllocated, OpenedRight, Lead
<1>3. opened[fd] \in Objects /\ ContentOf(opened[fd]) = data[fds[fd]]
  BY <1>2, ViewIsRight DEF View, HInv, ObjectsApart
<1>4. UNCHANGED <<AbsNames, AbsHandles, AbsContent>>
  BY <1>1 DEF vars, AbsNames, AbsHandles, AbsContent, NameOf, HandleOf, ContentOf, Leads
<1>5. AbsHandles[fd].mode = flags[fd] /\ AbsHandles[fd].obj = opened[fd]
  BY DEF AbsHandles, HandleOf
<1>6. got' = AbsContent[AbsHandles[fd].obj]
  BY <1>1, <1>3, <1>5 DEF AbsContent
<1> QED
  BY <1>1, <1>4, <1>5, <1>6
  DEF Abstract!Read, Abstract!Readable, AbsNames, AbsHandles, AbsContent, ContentOf

\* A change of one inode's data is a change of its file's content.
LEMMA OneFileChanges ==
  ASSUME HInv, HInv', UNCHANGED <<vars, flags, object, opened>>,
         NEW i \in ibitmap, Lead(i), NEW new, data' = [data EXCEPT ![i] = new]
  PROVE  /\ AbsContent' = [AbsContent EXCEPT ![object[i]] = new]
         /\ AbsContent[object[i]] = data[i]
         /\ UNCHANGED <<AbsNames, AbsHandles>>
<1>1. UNCHANGED <<AbsNames, AbsHandles>> /\ \A o : Leads(o)' <=> Leads(o)
  BY DEF vars, AbsNames, AbsHandles, NameOf, HandleOf, Leads
<1>2. /\ ibitmap' = ibitmap /\ object' = object /\ (Lead(i)' <=> Lead(i))
      /\ i \in Inums /\ data'[i] = new
  BY DEF vars, Lead, Named, HInv, IInv, TypeOK, HandleTypes
<1>3. object[i] \in Objects /\ ContentOf(object[i]) = data[i]
  BY ViewIsRight DEF View, HInv, ObjectsApart
<1>4. ASSUME NEW o \in Objects PROVE ContentOf(o)' = IF o = object[i] THEN new ELSE ContentOf(o)
  <2>1. CASE o = object[i]
    BY <1>2, <2>1, ViewIsRightNext DEF View
  <2>2. CASE o # object[i] /\ Leads(o)
    <3>1. \A k \in ibitmap : object[k] = o => data'[k] = data[k]
      BY <1>2, <2>2 DEF HInv, IInv, TypeOK, HandleTypes
    <3> QED
      BY <1>1, <1>2, <2>2, <3>1, SameContent
  <2>3. CASE o # object[i] /\ ~ Leads(o)
    BY <1>1, <2>3 DEF ContentOf
  <2> QED
    BY <2>1, <2>2, <2>3
<1> QED
  BY <1>1, <1>3, <1>4 DEF AbsContent

\* fs_write changes the content of the descriptor's file, at its end if the
\* file was opened for appending.
LEMMA WriteWrites ==
  ASSUME HInv, HInv', NEW fd \in Fds, NEW offset \in 0..(MAX_SIZE - 1), NEW v \in Values,
         fs_write(fd, offset, v)
  PROVE  \E at \in 0..(MAX_SIZE - 1) : Abstract!Write(fd, at, v)
<1> USE DEF INVALID_INODE
<1>0. PICK i, at : i = fds[fd] /\ at = ActualOffset(fd, offset)
  OBVIOUS
<1>1. /\ i # 0 /\ flags[fd] \in {"w", "rw", "append"} /\ at < MAX_SIZE
      /\ UNCHANGED <<vars, flags, got, object, opened>>
      /\ write_i(i, at, v)
  BY <1>0 DEF fs_write, oft_lookup
<1>2. i \in ibitmap /\ Lead(i) /\ opened[fd] = object[i] /\ data[i] \in Seq(Cell)
  BY <1>0, <1>1 DEF HInv, IInv, TypeOK, OpenStaysAllocated, OpenedRight, Lead, HandleTypes
<1>3. at \in 0..(MAX_SIZE - 1) /\ (flags[fd] = "append" => at = Len(data[i]))
  BY <1>0, <1>1, <1>2, HandleConstants DEF ActualOffset, oft_lookup
<1>4. data' = [data EXCEPT ![i] = Abstract!Put(data[i], at, v)]
  <2>1. [Resized(data[i], IF at < Len(data[i]) THEN Len(data[i]) ELSE at + 1)
           EXCEPT ![at + 1] = v] = Abstract!Put(data[i], at, v)
    <3>1. at \in Nat
      BY <1>3, HandleConstants
    <3> QED
      BY <1>2, <3>1, WriteIsPut
  <2> QED
    BY <1>1, <2>1, Zenon DEF write_i
<1>5. /\ AbsContent' = [AbsContent EXCEPT ![object[i]] = Abstract!Put(data[i], at, v)]
      /\ AbsContent[object[i]] = data[i]
      /\ UNCHANGED <<AbsNames, AbsHandles>>
  BY <1>1, <1>2, <1>4, OneFileChanges
<1>6. AbsHandles[fd].mode = flags[fd] /\ AbsHandles[fd].obj = object[i]
  BY <1>2 DEF AbsHandles, HandleOf
<1>7. AbsContent' = [AbsContent EXCEPT ![AbsHandles[fd].obj] =
                       Abstract!Put(AbsContent[AbsHandles[fd].obj], at, v)]
  BY <1>5, <1>6
<1>8. AbsHandles[fd].mode = "append" => at = Len(AbsContent[AbsHandles[fd].obj])
  BY <1>3, <1>5, <1>6
<1>9. AbsHandles[fd].mode \in {"w", "rw", "append"} /\ UNCHANGED <<AbsNames, AbsHandles, got>>
  BY <1>1, <1>5, <1>6
<1>10. Abstract!Write(fd, at, v)
  BY <1>7, <1>8, <1>9
  DEF Abstract!Write, Abstract!Writable, AbsNames, AbsHandles, AbsContent, ContentOf
<1> QED
  BY <1>3, <1>10

\* fs_truncate changes the content of the file its name leads to.
LEMMA TruncateResizes ==
  ASSUME HInv, HInv', NEW n \in Names, NEW size \in 0..MAX_SIZE, fs_truncate(n, size)
  PROVE  Abstract!Resize(n, size)
<1> USE DEF INVALID_INODE
<1>0. PICK i : i = dirents[n]
  OBVIOUS
<1>1. /\ i # 0 /\ UNCHANGED <<vars, flags, got, object, opened>>
      /\ data' = [data EXCEPT ![i] = Resized(data[i], size)]
  BY <1>0 DEF fs_truncate, trunc_fs
<1>2. i \in ibitmap /\ Lead(i) /\ NameOf(n) = object[i]
  BY <1>0, <1>1 DEF HInv, IInv, NamesSound, Lead, Named, NameOf
<1>3. /\ AbsContent' = [AbsContent EXCEPT ![object[i]] = Resized(data[i], size)]
      /\ AbsContent[object[i]] = data[i]
      /\ UNCHANGED <<AbsNames, AbsHandles, got>>
  BY <1>1, <1>2, OneFileChanges
<1>4. AbsNames[n] = object[i] /\ AbsNames[n] # NoObject
  BY <1>0, <1>1, <1>2, ViewIsRight DEF AbsNames, View
<1>5. AbsContent' = [AbsContent EXCEPT ![AbsNames[n]] = Resized(AbsContent[AbsNames[n]], size)]
  BY <1>3, <1>4
<1> QED
  BY <1>3, <1>4, <1>5 DEF Abstract!Resize, Resized, AbsNames, AbsHandles, AbsContent, ContentOf

-----------------------------------------------------------------------------
(* Theorems *)

\* The handlers with contents use the open file table as OpenFiles has it, so
\* what is shown of the table above holds of them too.
THEOREM TableRefinement == HSpec => Spec
<1>1. HInit => Init
  BY DEF HInit
<1> QED
  BY <1>1, TableSteps, PTL DEF HSpec, Spec

\* The files that inodes hold stay apart, and a descriptor stays with the file
\* it was opened for.
THEOREM HandleInvariance == HSpec => []HInv
  BY InitHInv, NextHInv, PTL DEF HSpec

\* Every step of Handles is a step of FileObjects or not visible there.
LEMMA StepImplements ==
  ASSUME HInv, HInv', [HNext]_hvars
  PROVE  [Abstract!Next]_(Abstract!vars)
<1>1. CASE UNCHANGED <<AbsNames, AbsHandles, AbsContent, got>>
  BY <1>1 DEF Abstract!vars, AbsNames, AbsHandles, AbsContent, ContentOf
<1>2. CASE TableStep
  <2>1. CASE MknodLink
    BY <1>2, <2>1, LinkCreates DEF Abstract!Next
  <2>2. CASE MknodUndo \/ UnlinkInode
    BY <1>1, <1>2, <2>2, HiddenSteps
  <2>3. CASE \E n \in Names : UnlinkName(n)
    BY <1>2, <2>3, UnlinkRemoves DEF Abstract!Next
  <2> QED
    BY <1>2, <2>1, <2>2, <2>3 DEF TableStep
<1>3. CASE \E n \in Names : MakeInode(n)
  BY <1>1, <1>3, HiddenSteps
<1>4. CASE \E n \in Names, mode \in Modes : OpenFile(n, mode)
  BY <1>4, OpenOpens DEF Abstract!Next
<1>5. CASE \E fd \in Fds : ReleaseFile(fd) \/ fs_read(fd)
  BY <1>5, ReleaseCloses, ReadReads DEF Abstract!Next
<1>6. CASE \E fd \in Fds, offset \in 0..(MAX_SIZE - 1), v \in Values : fs_write(fd, offset, v)
  BY <1>6, WriteWrites DEF Abstract!Next
<1>7. CASE \E n \in Names, offset \in 0..MAX_SIZE : fs_truncate(n, offset)
  BY <1>7, TruncateResizes DEF Abstract!Next
<1>8. CASE Restart
  BY <1>8, RestartRestarts DEF Abstract!Next
<1>9. CASE UNCHANGED hvars
  <2>1. UNCHANGED <<AbsNames, AbsHandles, AbsContent, got>>
    BY <1>9 DEF hvars, vars, AbsNames, AbsHandles, AbsContent, NameOf, HandleOf, ContentOf, Leads
  <2> QED
    BY <1>1, <2>1
<1> QED
  BY <1>2, <1>3, <1>4, <1>5, <1>6, <1>7, <1>8, <1>9 DEF HNext

\* mkfs leaves what FileObjects starts with.
LEMMA InitImplements == HInit => Abstract!Init
<1> SUFFICES ASSUME HInit PROVE Abstract!Init
  OBVIOUS
<1> USE DEF INVALID_INODE
<1>1. \A n \in Names : NameOf(n) = NoObject
  BY DEF HInit, Init, NameOf
<1>2. \A fd \in Fds : HandleOf(fd) = Abstract!Closed
  BY DEF HInit, HandleOf, Abstract!Closed
<1>3. \A o \in Objects : ~ Leads(o)
  BY <1>1, HandleConstants DEF HInit, Leads
<1> QED
  BY <1>1, <1>2, <1>3 DEF Abstract!Init, HInit

\* Whatever is unlinked, created anew, released or lost with a restart, every
\* name and every descriptor reads and writes the file it was made for.
THEOREM HandlesRefinement == HSpec => ImplementsFileObjects
<1>1. HInit => Abstract!Init
  BY InitImplements
<1>2. HInv /\ HInv' /\ [HNext]_hvars => [Abstract!Next]_(Abstract!vars)
  BY StepImplements
<1> QED
  BY <1>1, <1>2, HandleInvariance, PTL DEF HSpec, ImplementsFileObjects, Abstract!Spec
=============================================================================
