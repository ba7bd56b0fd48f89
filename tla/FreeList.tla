------------------------------ MODULE FreeList ------------------------------
(***************************************************************************)
(* The data-block allocator of layer 1 (layer1.c): a linked list of        *)
(* freelist_nodes that lives in the free data blocks themselves, its head  *)
(* in the superblock.  A node holds the number of the next node and        *)
(* ADDR_PER_NODE further free blocks.                                      *)
(*                                                                         *)
(* A call is one step per block it writes (data_write, write_superblock)   *)
(* and one step per node that data_free's scan reads, so that a kill of    *)
(* the process (Crash) can fall between any two writes.  The file system   *)
(* is single-threaded (fuse -s): no other call starts while one runs.      *)
(*                                                                         *)
(* The content of every block is seen through struct freelist_node,        *)
(* whoever wrote it: Images is what callers store in the blocks they hold, *)
(* looked at that way.  The superblock is written through its cache        *)
(* (write_superblock), so cache and disk are the one free_list_head.       *)
(***************************************************************************)
EXTENDS Integers, Sequences

CONSTANTS DataSize,        \* sb.data_size
          ADDR_PER_NODE,   \* addresses in a freelist_node
          Images           \* block contents that callers write

Data  == 1..DataSize
Slots == 0..(ADDR_PER_NODE - 1)

SUCCESS       == 0
INVALID_BLOCK == -2
DATA_FULL     == -1004
INVALID_DATA  == 0

\* struct freelist_node
Node == [next : 0..DataSize, addr : [Slots -> 0..DataSize]]

\* memset(&cur_node, INVALID_DATA, sizeof(freelist_node)), then .next = n
EmptyNode(n) == [next |-> n, addr |-> [i \in Slots |-> INVALID_DATA]]

ASSUME ConstantsAssumption == /\ DataSize \in Nat \ {0}
                              /\ ADDR_PER_NODE \in Nat \ {0}
                              /\ Images # {} /\ Images \subseteq Node

VARIABLES
  free_list_head,  \* sb.free_list_head
  blk,             \* content of each data block
  held,            \* blocks handed out by data_allocate and not freed since
  lost,            \* blocks a killed call left neither held nor on the list
  call,            \* the running call: its program counter and locals
  ret,             \* what the last completed call returned
  chain            \* history variable: the nodes, head first (no guard reads it)

vars == <<free_list_head, blk, held, lost, call, ret, chain>>

Idle == [pc |-> "idle"]
Scanning(b, l) == [pc |-> "scan", block |-> b, loc |-> l]
Linking(b)     == [pc |-> "link", block |-> b]
Filling(b, d)  == [pc |-> "fill", block |-> b, data |-> d]

\* The block the running call is moving
InFlight == IF call.pc = "idle" THEN {} ELSE {call.block}

-----------------------------------------------------------------------------
(* mkfs *)

BlocksPerNode == ADDR_PER_NODE + 1
NumNodes == (DataSize + BlocksPerNode - 1) \div BlocksPerNode
NodeLoc(i) == i * BlocksPerNode + 1

\* Mutant: the last block is taken for one more than it is
OrInvalid_off_by_one(b) == IF b <= DataSize + 1 THEN b ELSE INVALID_DATA

OrInvalid(b) == IF b <= DataSize THEN b ELSE INVALID_DATA

\* The node init_freelist builds at block loc
BuiltNode(loc) == [next |-> OrInvalid(loc + BlocksPerNode),
                   addr |-> [j \in Slots |-> OrInvalid(loc + j + 1)]]

\* init_freelist writes the nodes; the other blocks keep what the disk held
init_freelist ==
  /\ chain = [i \in 1..NumNodes |-> NodeLoc(i - 1)]
  /\ \E old \in [Data -> Images] :
       blk = [b \in Data |-> IF \E i \in 1..NumNodes : b = NodeLoc(i - 1)
                             THEN BuiltNode(b) ELSE old[b]]

\* init_superblock leaves the head at ROOT_FREELIST
Init == /\ free_list_head = 1
        /\ init_freelist
        /\ held = {}
        /\ lost = {}
        /\ call = Idle
        /\ ret = SUCCESS

-----------------------------------------------------------------------------
(* data_allocate *)

\* The first slot of node n that satisfies the loop's test, if there is one
FirstUsed(n, i)  == /\ blk[n].addr[i] # INVALID_DATA
                    /\ \A j \in 0..(i - 1) : blk[n].addr[j] = INVALID_DATA
FirstEmpty(n, i) == /\ blk[n].addr[i] = INVALID_DATA
                    /\ \A j \in 0..(i - 1) : blk[n].addr[j] # INVALID_DATA

\* Mutant: a head node that lists nothing counts as a full file system
AllocateFull_early == /\ call = Idle
                      /\ \/ free_list_head = INVALID_DATA
                         \/ \A i \in Slots : blk[free_list_head].addr[i] = INVALID_DATA
                      /\ ret' = DATA_FULL
                      /\ UNCHANGED <<free_list_head, blk, held, lost, call, chain>>

AllocateFull == /\ call = Idle
                /\ free_list_head = INVALID_DATA
                /\ ret' = DATA_FULL
                /\ UNCHANGED <<free_list_head, blk, held, lost, call, chain>>

\* Mutant: the address is not cleared
AllocateSlot_keeps_address(data) ==
  /\ call = Idle
  /\ free_list_head # INVALID_DATA
  /\ \E i \in Slots :
       /\ FirstUsed(free_list_head, i)
       /\ call' = Filling(blk[free_list_head].addr[i], data)
  /\ UNCHANGED <<free_list_head, blk, held, lost, ret, chain>>

\* Take the first address of the head node and write the node back
AllocateSlot(data) ==
  /\ call = Idle
  /\ free_list_head # INVALID_DATA
  /\ \E i \in Slots :
       /\ FirstUsed(free_list_head, i)
       /\ blk' = [blk EXCEPT ![free_list_head].addr[i] = INVALID_DATA]
       /\ call' = Filling(blk[free_list_head].addr[i], data)
  /\ UNCHANGED <<free_list_head, held, lost, ret, chain>>

\* Mutant: the head node is handed out although it lists blocks
AllocateHead_unchecked(data) ==
  /\ call = Idle
  /\ free_list_head # INVALID_DATA
  /\ free_list_head' = blk[free_list_head].next
  /\ chain' = Tail(chain)
  /\ call' = Filling(free_list_head, data)
  /\ UNCHANGED <<blk, held, lost, ret>>

\* The head node lists nothing: unlink it and hand it out itself
AllocateHead(data) ==
  /\ call = Idle
  /\ free_list_head # INVALID_DATA
  /\ \A i \in Slots : blk[free_list_head].addr[i] = INVALID_DATA
  /\ free_list_head' = blk[free_list_head].next
  /\ chain' = Tail(chain)
  /\ call' = Filling(free_list_head, data)
  /\ UNCHANGED <<blk, held, lost, ret>>

\* data_write(*data_block_num, new_data) and return
AllocateFill ==
  /\ call.pc = "fill"
  /\ blk' = [blk EXCEPT ![call.block] = call.data]
  /\ held' = held \cup {call.block}
  /\ ret' = SUCCESS
  /\ call' = Idle
  /\ UNCHANGED <<free_list_head, lost, chain>>

-----------------------------------------------------------------------------
(* data_free *)

\* A number outside the data blocks is refused
FreeInvalid == /\ call = Idle
               /\ ret' = INVALID_BLOCK
               /\ UNCHANGED <<free_list_head, blk, held, lost, call, chain>>

\* data_free checks nothing else: the caller must hold the block
FreeStart(b) == /\ call = Idle
                /\ b \in held
                /\ held' = held \ {b}
                /\ call' = Scanning(b, free_list_head)
                /\ UNCHANGED <<free_list_head, blk, lost, ret, chain>>

\* Mutant: the walk begins again at the head
FreeNextNode_restart ==
  /\ call.pc = "scan"
  /\ call.loc # INVALID_DATA
  /\ \A i \in Slots : blk[call.loc].addr[i] # INVALID_DATA
  /\ call' = [call EXCEPT !.loc = free_list_head]
  /\ UNCHANGED <<free_list_head, blk, held, lost, ret, chain>>

\* This node is full, go to the next one
FreeNextNode == /\ call.pc = "scan"
                /\ call.loc # INVALID_DATA
                /\ \A i \in Slots : blk[call.loc].addr[i] # INVALID_DATA
                /\ call' = [call EXCEPT !.loc = blk[call.loc].next]
                /\ UNCHANGED <<free_list_head, blk, held, lost, ret, chain>>

\* Mutant: the loop goes on after the first empty slot
FreePut_no_break ==
  /\ call.pc = "scan"
  /\ call.loc # INVALID_DATA
  /\ \E i \in Slots : blk[call.loc].addr[i] = INVALID_DATA
  /\ blk' = [blk EXCEPT ![call.loc].addr =
               [i \in Slots |-> IF @[i] = INVALID_DATA THEN call.block ELSE @[i]]]
  /\ call' = Idle
  /\ ret' = SUCCESS
  /\ UNCHANGED <<free_list_head, held, lost, chain>>

\* Put the block into the first empty slot and write the node back
FreePut == /\ call.pc = "scan"
           /\ call.loc # INVALID_DATA
           /\ \E i \in Slots :
                /\ FirstEmpty(call.loc, i)
                /\ blk' = [blk EXCEPT ![call.loc].addr[i] = call.block]
           /\ call' = Idle
           /\ ret' = SUCCESS
           /\ UNCHANGED <<free_list_head, held, lost, chain>>

\* Mutant: the new node does not point to the old head
FreeMakeNode_drops_list ==
  /\ call.pc = "scan"
  /\ call.loc = INVALID_DATA
  /\ blk' = [blk EXCEPT ![call.block] = EmptyNode(INVALID_DATA)]
  /\ call' = Linking(call.block)
  /\ UNCHANGED <<free_list_head, held, lost, ret, chain>>

\* Every node is full: the block becomes a node in front of the old head ...
FreeMakeNode == /\ call.pc = "scan"
                /\ call.loc = INVALID_DATA
                /\ blk' = [blk EXCEPT ![call.block] = EmptyNode(free_list_head)]
                /\ call' = Linking(call.block)
                /\ UNCHANGED <<free_list_head, held, lost, ret, chain>>

\* ... and the superblock is written with the new head
FreeLink == /\ call.pc = "link"
            /\ free_list_head' = call.block
            /\ chain' = <<call.block>> \o chain
            /\ call' = Idle
            /\ ret' = SUCCESS
            /\ UNCHANGED <<blk, held, lost>>

-----------------------------------------------------------------------------
\* A caller writes a block it holds (data_write)
data_write(b, data) == /\ call = Idle
                       /\ b \in held
                       /\ blk' = [blk EXCEPT ![b] = data]
                       /\ UNCHANGED <<free_list_head, held, lost, call, ret, chain>>

\* The process is killed inside a call and the file system mounted again:
\* the disk keeps the writes made so far and nobody resumes the call.
Crash == /\ call # Idle
         /\ lost' = lost \cup InFlight
         /\ call' = Idle
         /\ UNCHANGED <<free_list_head, blk, held, ret, chain>>

\* The steps of a call that has started
Step == \/ AllocateFill
        \/ FreeNextNode
        \/ FreePut
        \/ FreeMakeNode
        \/ FreeLink

Next == \/ AllocateFull
        \/ \E data \in Images : AllocateSlot(data) \/ AllocateHead(data)
        \/ \E b \in Data, data \in Images : data_write(b, data)
        \/ \E b \in Data : FreeStart(b)
        \/ FreeInvalid
        \/ Step
        \/ Crash

Spec == Init /\ [][Next]_vars

\* A call that has started keeps running (single-threaded C code)
FairSpec == Spec /\ WF_vars(Step)

-----------------------------------------------------------------------------
(* Properties *)

Nodes  == {chain[i] : i \in 1..Len(chain)}
Listed == {blk[n].addr[i] : n \in Nodes, i \in Slots} \ {INVALID_DATA}

CallType == {Idle} \cup {Scanning(b, l) : b \in Data, l \in 0..DataSize}
                   \cup {Linking(b) : b \in Data}
                   \cup {Filling(b, d) : b \in Data, d \in Images}

\* The types of the superblock field, the blocks and the call's locals.
TypeOK == /\ free_list_head \in 0..DataSize
          /\ blk \in [Data -> Node]
          /\ held \subseteq Data
          /\ lost \subseteq Data
          /\ call \in CallType
          /\ ret \in {SUCCESS, INVALID_BLOCK, DATA_FULL}
          /\ chain \in Seq(Data)

\* The next pointers on disk, followed from the superblock, visit each node
\* of the list once and then end, at every write of data_allocate and
\* data_free and after a crash between two of them.
ChainOK ==
  /\ free_list_head = IF chain = <<>> THEN INVALID_DATA ELSE chain[1]
  /\ \A i \in 1..Len(chain) :
       blk[chain[i]].next = IF i = Len(chain) THEN INVALID_DATA ELSE chain[i + 1]
  /\ \A i, j \in 1..Len(chain) : chain[i] = chain[j] => i = j

\* No block is in two places: a block on the free list (as a node or as an
\* address, at most once) is held by no caller, so data_allocate never hands
\* out a block that somebody uses and data_free never lists one twice.
NoDoubleUse ==
  /\ \A m, n \in Nodes : \A i, j \in Slots :
       blk[m].addr[i] = blk[n].addr[j] /\ blk[m].addr[i] # INVALID_DATA
         => m = n /\ i = j
  /\ Nodes \cap Listed = {}
  /\ (Nodes \cup Listed) \cap (held \cup lost \cup InFlight) = {}
  /\ held \cap lost = {}
  /\ InFlight \cap (held \cup lost) = {}

\* No block vanishes: one that no caller holds is on the free list, unless
\* the call that was moving it still runs or was killed.
NoLeak == Data = Nodes \cup Listed \cup held \cup lost \cup InFlight

\* The allocator never writes a block that a caller holds: only the caller's
\* own data_write changes it, although nodes live in data blocks too.
HeldUntouched ==
  [][\A b \in held \cap held' :
       blk'[b] # blk[b] => \E data \in Images : data_write(b, data)]_vars

\* data_free's walk along the next pointers ends, and so does every call.
CallsReturn == call # Idle ~> call = Idle

\* The abstract pool: a block being filled still counts as free, one being
\* freed as held.
PoolFree == Nodes \cup Listed \cup (IF call.pc = "fill" THEN InFlight ELSE {})
PoolHeld == held \cup (IF call.pc \in {"scan", "link"} THEN InFlight ELSE {})

Pool == INSTANCE BlockPool WITH free <- PoolFree, held <- PoolHeld

\* The list of nodes implements the pool of blocks; in particular
\* data_allocate, which looks at the head node alone, answers DATA_FULL only
\* when no data block is free.
ImplementsPool == Pool!Spec

=============================================================================
