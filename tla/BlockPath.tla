----------------------------- MODULE BlockPath ------------------------------
(***************************************************************************)
(* The way from an inode to the n-th block of its file (get_nth_datablock  *)
(* and rm_nth_datablock, layer2.c of phase 2): a pointer of the inode,     *)
(* then an index into each address block below it.  The arithmetic alone;  *)
(* FileData and FileCrash walk the blocks.                                 *)
(***************************************************************************)
EXTENDS Integers

CONSTANTS NUM_DIRECT,            \* direct blocks of an inode
          ADDRESSES_PER_BLOCK    \* addresses in an address_block

ASSUME PathConstants == /\ NUM_DIRECT \in Nat \ {0}
                        /\ ADDRESSES_PER_BLOCK \in Nat \ {0}

\* intPow(ADDRESSES_PER_BLOCK, j), for the levels there are
intPow(j) == CASE j = 0 -> 1
               [] j = 1 -> ADDRESSES_PER_BLOCK
               [] j = 2 -> ADDRESSES_PER_BLOCK * ADDRESSES_PER_BLOCK
               [] j = 3 -> ADDRESSES_PER_BLOCK * ADDRESSES_PER_BLOCK * ADDRESSES_PER_BLOCK

\* The first block number behind each kind of pointer
single_indirect == NUM_DIRECT + intPow(1)
double_indirect == single_indirect + intPow(2)
triple_indirect == double_indirect + intPow(3)

TooLarge(n) == n >= triple_indirect

\* i after the first if: -1 for a direct block, else the level of the topmost
\* address block
Level(n) == CASE n < NUM_DIRECT -> -1
              [] n >= NUM_DIRECT /\ n < single_indirect -> 0
              [] n >= single_indirect /\ n < double_indirect -> 1
              [] n >= double_indirect -> 2

LevelStart(l) == CASE l = -1 -> 0
                   [] l = 0  -> NUM_DIRECT
                   [] l = 1  -> single_indirect
                   [] l = 2  -> double_indirect

\* from_pointer: the direct blocks come first, then one pointer per level
Pointers   == 0..(NUM_DIRECT + 2)
Pointer(n) == IF Level(n) = -1 THEN n ELSE NUM_DIRECT + Level(n)
LevelOf(p) == IF p < NUM_DIRECT THEN -1 ELSE p - NUM_DIRECT

\* next_index in the address block of level j: what the levels above left of
\* the offset, divided by the blocks below one address
Index(n, j) ==
  LET offset == n - LevelStart(Level(n))
  IN (IF j = Level(n) THEN offset ELSE offset % intPow(j + 1)) \div intPow(j)
=============================================================================
