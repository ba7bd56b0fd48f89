---------------------------- MODULE MCDirectories ---------------------------
(***************************************************************************)
(* Blocks of five bytes and entries of two: "." and ".." fill the first    *)
(* block of a directory, so the first name starts the second block and the *)
(* third one the third block, and one byte of every block stays unused.    *)
(***************************************************************************)
EXTENDS Directories, TLC

\* Names are only compared
NameSymmetry == Permutations(Names)

\* All paths of one and two names, and a third directory below two
Depths == UNION {[1..k -> Names] : k \in 1..2} \cup {<<n, n, n>> : n \in Names}

\* An owner, a member of the owner's group, and a stranger
ThreeUsers == {[uid |-> 1, gid |-> 1], [uid |-> 2, gid |-> 1], [uid |-> 3, gid |-> 2]}

\* The owner may look and not change, and that only together with the
\* group's right to search; the group may not read; others may do everything
SplitMode == {[usr |-> {"r"}, grp |-> {"x"}, oth |-> Rights]}
=============================================================================
