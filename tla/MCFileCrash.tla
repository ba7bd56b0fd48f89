---------------------------- MODULE MCFileCrash -----------------------------
(***************************************************************************)
(* Instances of FileCrash: two addresses in a block, one direct block, so  *)
(* that blocks 1 and 2 are behind the indirect block and 3 to 6 behind the *)
(* double indirect one.                                                    *)
(***************************************************************************)
EXTENDS FileCrash, TLC

W(n, v) == [n |-> n, v |-> v, whole |-> TRUE]
P(n, v) == [n |-> n, v |-> v, whole |-> FALSE]

\* A direct block and one behind the indirect block, then zeros over them
FlatJobs == {<<W(0, 2), W(1, 2)>>, <<W(2, 2)>>, <<W(0, 0)>>, <<P(1, 0)>>}

\* Two blocks of one branch of the double indirect block, and zeros over one
DeepJobs == {<<W(3, 2), W(4, 2)>>, <<P(3, 0)>>}

\* Block numbers and inode numbers are only compared
Same == Permutations(Data) \cup Permutations(Files)
=============================================================================
