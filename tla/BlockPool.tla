----------------------------- MODULE BlockPool -----------------------------
(***************************************************************************)
(* What the data-block allocator of layer 1 promises its callers: every    *)
(* data block is free, held by a caller, or lost to a crash; data_allocate *)
(* hands out some free block and answers DATA_FULL only when there is none;*)
(* data_free takes back a block its caller holds.  FreeList implements it. *)
(***************************************************************************)
EXTENDS Integers

CONSTANT DataSize     \* sb.data_size: the number of data blocks

VARIABLES free,       \* blocks data_allocate may hand out
          held,       \* blocks handed out and not given back
          lost,       \* blocks a killed call left in nobody's hands
          ret         \* what the last completed call returned

vars == <<free, held, lost, ret>>

SUCCESS       == 0
INVALID_BLOCK == -2
DATA_FULL     == -1004

Init == /\ free = 1..DataSize
        /\ held = {}
        /\ lost = {}
        /\ ret = SUCCESS

\* data_allocate finds a block
Take(b) == /\ b \in free
           /\ free' = free \ {b}
           /\ held' = held \cup {b}
           /\ ret' = SUCCESS
           /\ UNCHANGED lost

\* data_allocate finds the file system full
Full == /\ free = {}
        /\ ret' = DATA_FULL
        /\ UNCHANGED <<free, held, lost>>

\* data_free
Give(b) == /\ b \in held
           /\ held' = held \ {b}
           /\ free' = free \cup {b}
           /\ ret' = SUCCESS
           /\ UNCHANGED lost

\* data_free of a number that is no data block
Reject == /\ ret' = INVALID_BLOCK
          /\ UNCHANGED <<free, held, lost>>

\* The process dies inside a call that was moving block b
Lose(b) == /\ b \in free \cup held
           /\ free' = free \ {b}
           /\ held' = held \ {b}
           /\ lost' = lost \cup {b}
           /\ UNCHANGED ret

Next == \/ \E b \in 1..DataSize : Take(b) \/ Give(b) \/ Lose(b)
        \/ Full
        \/ Reject

Spec == Init /\ [][Next]_vars
=============================================================================
