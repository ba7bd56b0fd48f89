----------------------------- MODULE MCFreeList -----------------------------
(***************************************************************************)
(* Model values for FreeList.  One stored image is all zeros (what         *)
(* get_nth_datablock writes into a fresh block), the other looks like a    *)
(* node that points back into the list.                                    *)
(***************************************************************************)
EXTENDS FreeList

ZeroAndPointer == {EmptyNode(0), [next |-> 1, addr |-> [i \in Slots |-> 1]]}
=============================================================================
