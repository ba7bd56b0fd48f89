--------------------------- MODULE FreeListProofs ---------------------------
(***************************************************************************)
(* Proofs about FreeList for every DataSize, ADDR_PER_NODE and Images.     *)
(***************************************************************************)
EXTENDS FreeList, SequenceTheorems, TLAPS

-----------------------------------------------------------------------------
(* The arithmetic of init_freelist *)

\* Integer division: quotient, remainder, and the number they make.
LEMMA Division ==
  ASSUME NEW D \in Nat, NEW B \in Nat \ {0}
  PROVE  /\ D \div B \in Nat
         /\ D % B \in 0..(B - 1)
         /\ D = (D \div B) * B + (D % B)
  OBVIOUS

\* A number is a multiple of B plus a smaller remainder in one way only.
LEMMA TileUnique ==
  ASSUME NEW B \in Nat \ {0}, NEW i \in Nat, NEW j \in Nat,
         NEW r \in 0..(B - 1), NEW s \in 0..(B - 1),
         i * B + r = j * B + s
  PROVE  i = j /\ r = s
<1>1. ASSUME NEW m \in Nat, NEW n \in Nat, m < n
      PROVE  m * B + B <= n * B
  <2>1. n = m + 1 + (n - m - 1) /\ n - m - 1 \in Nat
    BY <1>1
  <2>2. n * B = m * B + B + (n - m - 1) * B /\ (n - m - 1) * B \in Nat
    BY <2>1
  <2>3. m * B \in Nat /\ n * B \in Nat
    OBVIOUS
  <2> QED
    BY <2>2, <2>3
<1>2. i * B \in Nat /\ j * B \in Nat
  OBVIOUS
<1>3. ~ (i < j)
  BY <1>1, <1>2
<1>4. ~ (j < i)
  BY <1>1, <1>2
<1> QED
  BY <1>2, <1>3, <1>4

\* init_freelist's rounding up: the nodes just cover the data blocks.
LEMMA NodeCount ==
  ASSUME NEW D \in Nat \ {0}, NEW B \in Nat \ {0}, NEW L,
         L = (D + B - 1) \div B
  PROVE  L \in Nat \ {0} /\ L * B >= D /\ (L - 1) * B < D
  OBVIOUS

(* The nodes and the blocks they list tile the data blocks *)
LEMMA Tiling ==
  /\ NumNodes \in Nat \ {0}
  /\ NodeLoc(0) = 1
  /\ \A i \in 1..NumNodes : /\ NodeLoc(i - 1) \in Data
                            /\ NodeLoc(i - 1) + BlocksPerNode = NodeLoc(i)
                            /\ NodeLoc(i) <= DataSize <=> i # NumNodes
  /\ \A b \in Data : \E i \in 1..NumNodes, r \in 0..ADDR_PER_NODE :
        b = NodeLoc(i - 1) + r
<1> DEFINE L == NumNodes
           B == BlocksPerNode
           D == DataSize
<1>1. /\ B \in Nat \ {0} /\ D \in Nat \ {0}
      /\ ADDR_PER_NODE = B - 1
  BY ConstantsAssumption DEF BlocksPerNode
<1>2. L \in Nat \ {0} /\ L * B >= D /\ (L - 1) * B < D
  BY <1>1, NodeCount DEF NumNodes
<1>3. \A i : NodeLoc(i) = i * B + 1
  BY DEF NodeLoc
<1>4. Data = 1..D
  BY DEF Data
<1> HIDE DEF L, B, D
<1>5. ASSUME NEW i \in 1..L
      PROVE  (i - 1) * B \in Nat /\ (i - 1) * B < D
  <2>1. (i - 1) * B <= (L - 1) * B /\ (i - 1) * B \in Nat /\ (L - 1) * B \in Nat
    BY <1>1, <1>2
  <2> QED
    BY <2>1, <1>1, <1>2
<1>6. ASSUME NEW i \in 1..L
      PROVE  (i - 1) * B + B = i * B /\ i * B \in Nat
  BY <1>1, <1>2
<1>7. ASSUME NEW i \in 1..L
      PROVE  i * B < D <=> i # L
  <2>1. CASE i = L
    BY <2>1, <1>1, <1>2, <1>6
  <2>2. CASE i # L
    <3>1. i + 1 \in 1..L /\ (i + 1) - 1 = i
      BY <2>2, <1>2
    <3> QED
      BY <3>1, <1>5, <2>2
  <2> QED
    BY <2>1, <2>2
<1>8. ASSUME NEW b \in 1..D
      PROVE  \E i \in 1..L, r \in 0..(B - 1) : b = (i - 1) * B + 1 + r
  <2> DEFINE q == (b - 1) \div B
             r == (b - 1) % B
  <2>0. b - 1 \in Nat
    BY <1>1
  <2>1. q \in Nat /\ r \in 0..(B - 1) /\ b - 1 = q * B + r
    BY <2>0, <1>1, Division
  <2> HIDE DEF q, r
  <2>2. q < L
    <3>1. SUFFICES ASSUME q >= L PROVE FALSE
      BY <1>2, <2>1
    <3>2. q * B >= L * B /\ q * B \in Nat
      BY <3>1, <1>1, <1>2, <2>1
    <3> QED
      BY <3>2, <1>1, <1>2, <2>1
  <2>3. q + 1 \in 1..L /\ (q + 1) - 1 = q /\ q * B \in Nat
    BY <2>1, <2>2, <1>1, <1>2
  <2>4. b = ((q + 1) - 1) * B + 1 + r
    BY <2>1, <2>3
  <2> QED
    BY <2>1, <2>3, <2>4
<1>9. NodeLoc(0) = 1
  BY <1>1, <1>3
<1>10. \A i \in 1..L : /\ NodeLoc(i - 1) \in Data
                       /\ NodeLoc(i - 1) + B = NodeLoc(i)
                       /\ NodeLoc(i) <= D <=> i # L
  BY <1>1, <1>3, <1>4, <1>5, <1>6, <1>7
<1>11. \A b \in Data : \E i \in 1..L, r \in 0..ADDR_PER_NODE : b = NodeLoc(i - 1) + r
  BY <1>1, <1>3, <1>4, <1>8
<1> QED
  BY <1>1, <1>2, <1>9, <1>10, <1>11 DEF L, B, D

\* Where init_freelist puts a node, and where the next one follows.
LEMMA NodeLocFacts ==
  ASSUME NEW i \in 1..NumNodes
  PROVE  /\ NodeLoc(i - 1) \in Data
         /\ NodeLoc(i - 1) + BlocksPerNode = NodeLoc(i)
         /\ NodeLoc(i) <= DataSize <=> i # NumNodes
  BY Tiling, Zenon

\* No block is in the span of two nodes, or at two places of one span.
LEMMA TileInjective ==
  ASSUME NEW i \in 1..NumNodes, NEW j \in 1..NumNodes,
         NEW r \in 0..ADDR_PER_NODE, NEW s \in 0..ADDR_PER_NODE,
         NodeLoc(i - 1) + r = NodeLoc(j - 1) + s
  PROVE  i = j /\ r = s
<1> DEFINE B == BlocksPerNode
<1>1. B \in Nat \ {0} /\ ADDR_PER_NODE = B - 1
  BY ConstantsAssumption DEF BlocksPerNode
<1>2. i - 1 \in Nat /\ j - 1 \in Nat
  BY Tiling
<1>3. NodeLoc(i - 1) = (i - 1) * B + 1 /\ NodeLoc(j - 1) = (j - 1) * B + 1
  BY DEF NodeLoc
<1> HIDE DEF B
<1>4. (i - 1) * B \in Nat /\ (j - 1) * B \in Nat
  BY <1>1, <1>2
<1>5. (i - 1) * B + r = (j - 1) * B + s
  BY <1>1, <1>3, <1>4
<1>6. r \in 0..(B - 1) /\ s \in 0..(B - 1)
  BY <1>1
<1>7. i - 1 = j - 1 /\ r = s
  BY <1>1, <1>2, <1>5, <1>6, TileUnique
<1> QED
  BY <1>7, Tiling

\* What init_freelist writes into a node.
LEMMA BuiltNodeFields ==
  ASSUME NEW loc \in Data
  PROVE  /\ BuiltNode(loc) \in Node
         /\ BuiltNode(loc).next = OrInvalid(loc + BlocksPerNode)
         /\ \A s \in Slots : BuiltNode(loc).addr[s] = OrInvalid(loc + (s + 1))
<1> USE ConstantsAssumption
<1>1. \A s \in Slots : loc + s + 1 = loc + (s + 1)
  BY DEF Slots, Data
<1> QED
  BY <1>1 DEF BuiltNode, Node, OrInvalid, INVALID_DATA, Data, Slots, BlocksPerNode

\* Different nodes are at different blocks.
LEMMA NodeLocInjective ==
  ASSUME NEW i \in 1..NumNodes, NEW j \in 1..NumNodes, NodeLoc(i - 1) = NodeLoc(j - 1)
  PROVE  i = j
<1>1. 0 \in 0..ADDR_PER_NODE
  BY ConstantsAssumption
<1>2. NodeLoc(i - 1) + 0 = NodeLoc(j - 1) + 0
  OBVIOUS
<1> QED
  BY <1>1, <1>2, TileInjective, Zenon

-----------------------------------------------------------------------------
(* The inductive invariant *)

\* The scan of data_free stands on a node or behind the last one
ScanOK == call.pc = "scan" => call.loc \in Nodes \cup {INVALID_DATA}

\* The node about to become the head already points to the old head
LinkOK == call.pc = "link" => blk[call.block] = EmptyNode(free_list_head)

\* The list is well formed, and every block is in exactly one place
IInv == TypeOK /\ ChainOK /\ NoDoubleUse /\ NoLeak /\ ScanOK /\ LinkOK

\* mkfs builds a list that satisfies the invariant.
LEMMA InitIInv == Init => IInv
<1> SUFFICES ASSUME Init PROVE IInv
  OBVIOUS
<1> USE ConstantsAssumption
<1>1. NumNodes \in Nat \ {0}
  BY Tiling
<1>2. chain = [i \in 1..NumNodes |-> NodeLoc(i - 1)]
  BY DEF Init, init_freelist
<1>3. \A i \in 1..NumNodes : chain[i] = NodeLoc(i - 1) /\ chain[i] \in Data
  BY <1>2, NodeLocFacts
<1>a. chain \in Seq(Data)
  BY <1>1, <1>2, NodeLocFacts, IsASeq
<1>b. Len(chain) = NumNodes
  BY <1>1, <1>2, <1>a, LenProperties
<1>4. \A i \in 1..NumNodes : blk[chain[i]] = BuiltNode(chain[i])
  BY <1>3 DEF Init, init_freelist
<1>5. \A loc \in Data : BuiltNode(loc) \in Node
  BY BuiltNodeFields
<1>6. TypeOK
  <2>1. blk \in [Data -> Node]
    BY <1>5 DEF Init, init_freelist
  <2> QED
    BY <2>1, <1>a DEF Init, TypeOK, CallType, SUCCESS
<1>7. Nodes = {NodeLoc(i - 1) : i \in 1..NumNodes}
  BY <1>b, <1>3 DEF Nodes
<1>8. ChainOK
  <2>1. chain # <<>> /\ chain[1] = 1 /\ free_list_head = 1
    BY <1>1, <1>a, <1>b, <1>3, Tiling DEF Init
  <2>2. ASSUME NEW i \in 1..NumNodes
        PROVE  blk[chain[i]].next = IF i = NumNodes THEN INVALID_DATA ELSE chain[i + 1]
    <3>1. blk[chain[i]].next = OrInvalid(NodeLoc(i))
      BY <1>3, <1>4, NodeLocFacts, BuiltNodeFields
    <3>2. i # NumNodes => i + 1 \in 1..NumNodes /\ (i + 1) - 1 = i
      BY <1>1
    <3>3. i # NumNodes => chain[i + 1] = NodeLoc(i)
      BY <1>3, <3>2
    <3>4. NodeLoc(i) <= DataSize <=> i # NumNodes
      BY Tiling, Zenon
    <3> QED
      BY <3>1, <3>3, <3>4 DEF OrInvalid
  <2>3. \A i, j \in 1..NumNodes : chain[i] = chain[j] => i = j
    BY <1>3, NodeLocInjective
  <2> QED
    BY <1>b, <2>1, <2>2, <2>3 DEF ChainOK
<1>9. ASSUME NEW i \in 1..NumNodes, NEW s \in Slots
      PROVE  /\ s + 1 \in 1..ADDR_PER_NODE
             /\ blk[NodeLoc(i - 1)].addr[s] = OrInvalid(NodeLoc(i - 1) + (s + 1))
  BY <1>3, <1>4, BuiltNodeFields DEF Slots
<1>10. NoDoubleUse
  <2>1. ASSUME NEW m \in Nodes, NEW n \in Nodes, NEW s \in Slots, NEW t \in Slots,
               blk[m].addr[s] = blk[n].addr[t], blk[m].addr[s] # INVALID_DATA
        PROVE  m = n /\ s = t
    <3>1. PICK i \in 1..NumNodes : m = NodeLoc(i - 1)
      BY <1>7
    <3>2. PICK j \in 1..NumNodes : n = NodeLoc(j - 1)
      BY <1>7
    <3>3. NodeLoc(i - 1) + (s + 1) = NodeLoc(j - 1) + (t + 1)
      BY <2>1, <3>1, <3>2, <1>9 DEF OrInvalid
    <3>4. s + 1 \in 0..ADDR_PER_NODE /\ t + 1 \in 0..ADDR_PER_NODE
      BY <1>9
    <3>5. i = j /\ s + 1 = t + 1
      BY <3>3, <3>4, TileInjective
    <3> QED
      BY <3>1, <3>2, <3>5 DEF Slots
  <2>2. Nodes \cap Listed = {}
    <3> SUFFICES ASSUME NEW m \in Nodes, NEW n \in Nodes, NEW s \in Slots,
                        m = blk[n].addr[s], m # INVALID_DATA
                 PROVE  FALSE
      BY DEF Listed
    <3>1. PICK i \in 1..NumNodes : m = NodeLoc(i - 1)
      BY <1>7
    <3>2. PICK j \in 1..NumNodes : n = NodeLoc(j - 1)
      BY <1>7
    <3>3. NodeLoc(i - 1) + 0 = NodeLoc(j - 1) + (s + 1)
      <4>1. m = NodeLoc(j - 1) + (s + 1)
        BY <3>2, <1>9 DEF OrInvalid
      <4>2. NodeLoc(i - 1) + 0 = NodeLoc(i - 1)
        BY NodeLocFacts DEF Data
      <4> QED
        BY <3>1, <4>1, <4>2
    <3>4. 0 \in 0..ADDR_PER_NODE /\ s + 1 \in 0..ADDR_PER_NODE
      BY <1>9
    <3>5. 0 = s + 1
      BY <3>3, <3>4, TileInjective
    <3> QED
      BY <3>5 DEF Slots
  <2>3. held = {} /\ lost = {} /\ InFlight = {}
    BY DEF Init, InFlight, Idle
  <2> QED
    BY <2>1, <2>2, <2>3 DEF NoDoubleUse
<1>11. NoLeak
  <2>1. ASSUME NEW b \in Data PROVE b \in Nodes \cup Listed
    <3>1. PICK i \in 1..NumNodes, r \in 0..ADDR_PER_NODE : b = NodeLoc(i - 1) + r
      BY Tiling, Zenon
    <3>2. NodeLoc(i - 1) \in Data /\ NodeLoc(i - 1) \in Nodes
      BY <1>7, NodeLocFacts
    <3>3. CASE r = 0
      BY <3>1, <3>2, <3>3, <1>7 DEF Data
    <3>4. CASE r # 0
      <4>1. r - 1 \in Slots /\ (r - 1) + 1 = r
        BY <3>4 DEF Slots
      <4>2. blk[NodeLoc(i - 1)].addr[r - 1] = b
        BY <3>1, <4>1, <1>9 DEF OrInvalid, Data
      <4> QED
        BY <3>2, <4>1, <4>2 DEF Listed, INVALID_DATA, Data
    <3> QED
      BY <3>3, <3>4
  <2>2. Nodes \subseteq Data
    BY <1>7, NodeLocFacts
  <2>3. Listed \subseteq Data
    <3> SUFFICES ASSUME NEW n \in Nodes, NEW s \in Slots, blk[n].addr[s] # INVALID_DATA
                 PROVE  blk[n].addr[s] \in Data
      BY DEF Listed
    <3>1. n \in Data /\ blk[n] \in Node
      BY <2>2, <1>6 DEF TypeOK
    <3> QED
      BY <3>1 DEF Node, Data, INVALID_DATA
  <2>4. held = {} /\ lost = {} /\ InFlight = {}
    BY DEF Init, InFlight, Idle
  <2> QED
    BY <2>1, <2>2, <2>3, <2>4 DEF NoLeak
<1>12. ScanOK /\ LinkOK
  BY DEF ScanOK, LinkOK, Init, Idle
<1> QED
  BY <1>6, <1>8, <1>10, <1>11, <1>12 DEF IInv

-----------------------------------------------------------------------------
(* What the parts of the invariant say about the list *)

\* Every address is listed once (the first part of NoDoubleUse)
AddrOnce == \A m, n \in Nodes : \A i, j \in Slots :
              blk[m].addr[i] = blk[n].addr[j] /\ blk[m].addr[i] # INVALID_DATA
                => m = n /\ i = j

\* The places a block can be in are disjoint (the other parts)
Apart == /\ Nodes \cap Listed = {}
         /\ (Nodes \cup Listed) \cap (held \cup lost \cup InFlight) = {}
         /\ held \cap lost = {}
         /\ InFlight \cap (held \cup lost) = {}

\* NoDoubleUse in two halves, which the actions disturb separately.
LEMMA SplitNoDoubleUse == /\ NoDoubleUse <=> AddrOnce /\ Apart
                          /\ NoDoubleUse' <=> AddrOnce' /\ Apart'
  BY DEF NoDoubleUse, AddrOnce, Apart

\* Type facts about the nodes of the list and the blocks they list.
LEMMA NodeFacts ==
  ASSUME TypeOK
  PROVE  /\ Len(chain) \in Nat
         /\ Nodes \subseteq Data
         /\ \A n \in Data : /\ blk[n] \in Node
                            /\ blk[n].next \in 0..DataSize
                            /\ \A i \in Slots : blk[n].addr[i] \in 0..DataSize
         /\ Listed \subseteq Data
         /\ INVALID_DATA \notin Data
<1>1. Len(chain) \in Nat /\ Nodes \subseteq Data
  BY LenProperties DEF TypeOK, Nodes
<1>2. \A n \in Data : /\ blk[n] \in Node
                      /\ blk[n].next \in 0..DataSize
                      /\ \A i \in Slots : blk[n].addr[i] \in 0..DataSize
  BY DEF TypeOK, Node
<1>3. INVALID_DATA \notin Data /\ \A a \in 0..DataSize : a # INVALID_DATA => a \in Data
  BY ConstantsAssumption DEF INVALID_DATA, Data
<1>4. Listed \subseteq Data
  <2> SUFFICES ASSUME NEW n \in Nodes, NEW i \in Slots, blk[n].addr[i] # INVALID_DATA
               PROVE  blk[n].addr[i] \in Data
    BY DEF Listed
  <2> QED
    BY <1>1, <1>2, <1>3
<1> QED
  BY <1>1, <1>2, <1>3, <1>4

\* The superblock's head is the first node, if there is one.
LEMMA HeadFacts ==
  ASSUME TypeOK, ChainOK
  PROVE  /\ free_list_head = INVALID_DATA <=> chain = <<>>
         /\ chain = <<>> => Nodes = {}
         /\ chain # <<>> => /\ free_list_head = chain[1]
                            /\ 1 \in 1..Len(chain)
                            /\ free_list_head \in Nodes
<1>1. chain = <<>> => Nodes = {}
  BY DEF Nodes
<1>2. chain # <<>> => 1 \in 1..Len(chain) /\ chain[1] \in Data
  BY LenProperties DEF TypeOK
<1> QED
  BY <1>1, <1>2, NodeFacts DEF ChainOK, Nodes

\* The next pointer of a node is a node or the end of the list
LEMMA NextFacts ==
  ASSUME TypeOK, ChainOK, NEW n \in Nodes
  PROVE  blk[n].next \in Nodes \cup {INVALID_DATA}
<1>1. PICK i \in 1..Len(chain) : n = chain[i]
  BY DEF Nodes
<1>2. CASE i = Len(chain)
  BY <1>1, <1>2 DEF ChainOK
<1>3. CASE i # Len(chain)
  <2>1. i + 1 \in 1..Len(chain)
    BY <1>3, NodeFacts
  <2> QED
    BY <1>1, <1>3, <2>1 DEF ChainOK, Nodes
<1> QED
  BY <1>2, <1>3

\* What the program counter of a call says about its locals.
LEMMA CallFacts ==
  ASSUME TypeOK
  PROVE  /\ call = Idle => call.pc = "idle"
         /\ call.pc = "idle" => call = Idle
         /\ call # Idle => call.block \in Data /\ InFlight = {call.block}
         /\ call = Idle => InFlight = {}
         /\ call.pc = "scan" => /\ call # Idle
                                /\ call.loc \in 0..DataSize
                                /\ call = Scanning(call.block, call.loc)
         /\ call.pc = "link" => call # Idle
         /\ call.pc = "fill" => call # Idle /\ call.data \in Images
  BY DEF TypeOK, CallType, Idle, Scanning, Linking, Filling, InFlight

-----------------------------------------------------------------------------
(* How each kind of write changes the list *)

\* Writes outside the nodes leave the list alone
LEMMA ListUnchanged ==
  ASSUME TypeOK, ChainOK, AddrOnce,
         UNCHANGED <<free_list_head, chain>>,
         \A n \in Nodes : blk'[n] = blk[n]
  PROVE  Nodes' = Nodes /\ Listed' = Listed /\ ChainOK' /\ AddrOnce'
<1>1. Nodes' = Nodes
  BY DEF Nodes
<1>2. Listed' = Listed
  BY <1>1 DEF Listed
<1>3. ChainOK'
  <2>1. \A i \in 1..Len(chain) : blk'[chain[i]] = blk[chain[i]]
    BY DEF Nodes
  <2> QED
    BY <2>1 DEF ChainOK
<1>4. AddrOnce'
  BY <1>1 DEF AddrOnce
<1> QED
  BY <1>1, <1>2, <1>3, <1>4

\* Writing a node back with one slot changed changes nothing else.
LEMMA SlotWritten ==
  ASSUME TypeOK, NEW n \in Data, NEW s \in Slots, NEW v \in 0..DataSize,
         blk' = [blk EXCEPT ![n].addr[s] = v]
  PROVE  /\ blk' \in [Data -> Node]
         /\ \A m \in Data : /\ m # n => blk'[m] = blk[m]
                            /\ blk'[m].next = blk[m].next
         /\ \A i \in Slots : blk'[n].addr[i] = IF i = s THEN v ELSE blk[n].addr[i]
  BY NodeFacts, ConstantsAssumption DEF TypeOK, Node

\* data_allocate takes the address in slot s of node n off the list
LEMMA SlotCleared ==
  ASSUME TypeOK, ChainOK, AddrOnce,
         UNCHANGED <<free_list_head, chain>>,
         NEW n \in Nodes, NEW s \in Slots,
         blk[n].addr[s] # INVALID_DATA,
         blk' = [blk EXCEPT ![n].addr[s] = INVALID_DATA]
  PROVE  /\ Nodes' = Nodes /\ ChainOK' /\ AddrOnce'
         /\ Listed' = Listed \ {blk[n].addr[s]}
         /\ blk[n].addr[s] \in Listed
         /\ blk' \in [Data -> Node]
<1>1. Nodes' = Nodes
  BY DEF Nodes
<1>2. /\ blk' \in [Data -> Node]
      /\ \A m \in Data : /\ m # n => blk'[m] = blk[m]
                         /\ blk'[m].next = blk[m].next
      /\ \A i \in Slots : blk'[n].addr[i] = IF i = s THEN INVALID_DATA ELSE blk[n].addr[i]
  <2>1. INVALID_DATA \in 0..DataSize /\ n \in Data
    BY NodeFacts, ConstantsAssumption DEF INVALID_DATA
  <2> QED
    BY <2>1, SlotWritten
<1>3. \A m \in Nodes, i \in Slots :
        blk'[m].addr[i] = IF m = n /\ i = s THEN INVALID_DATA ELSE blk[m].addr[i]
  BY <1>2, NodeFacts
<1>4. Listed' = Listed \ {blk[n].addr[s]}
  BY <1>1, <1>3 DEF Listed, AddrOnce
<1>5. ChainOK'
  <2>1. \A i \in 1..Len(chain) : blk'[chain[i]].next = blk[chain[i]].next
    BY <1>2, NodeFacts DEF Nodes
  <2> QED
    BY <2>1 DEF ChainOK
<1>6. AddrOnce'
  BY <1>1, <1>3 DEF AddrOnce
<1> QED
  BY <1>1, <1>2, <1>4, <1>5, <1>6 DEF Listed

\* data_free puts block b into the empty slot s of node n
LEMMA SlotFilled ==
  ASSUME TypeOK, ChainOK, AddrOnce,
         UNCHANGED <<free_list_head, chain>>,
         NEW n \in Nodes, NEW s \in Slots, NEW b \in Data,
         b \notin Listed,
         blk[n].addr[s] = INVALID_DATA,
         blk' = [blk EXCEPT ![n].addr[s] = b]
  PROVE  /\ Nodes' = Nodes /\ ChainOK' /\ AddrOnce'
         /\ Listed' = Listed \cup {b}
         /\ blk' \in [Data -> Node]
<1>1. Nodes' = Nodes
  BY DEF Nodes
<1>2. /\ blk' \in [Data -> Node]
      /\ \A m \in Data : /\ m # n => blk'[m] = blk[m]
                         /\ blk'[m].next = blk[m].next
      /\ \A i \in Slots : blk'[n].addr[i] = IF i = s THEN b ELSE blk[n].addr[i]
  <2>1. b \in 0..DataSize /\ n \in Data
    BY NodeFacts, ConstantsAssumption DEF Data
  <2> QED
    BY <2>1, NodeFacts, ConstantsAssumption DEF TypeOK, Node
<1>3. \A m \in Nodes, i \in Slots :
        blk'[m].addr[i] = IF m = n /\ i = s THEN b ELSE blk[m].addr[i]
  BY <1>2, NodeFacts
<1>4. Listed' = Listed \cup {b}
  BY <1>1, <1>3, NodeFacts DEF Listed
<1>5. ChainOK'
  <2>1. \A i \in 1..Len(chain) : blk'[chain[i]].next = blk[chain[i]].next
    BY <1>2, NodeFacts DEF Nodes
  <2> QED
    BY <2>1 DEF ChainOK
<1>6. AddrOnce'
  <2>1. \A m \in Nodes, i \in Slots : blk[m].addr[i] # b
    BY NodeFacts DEF Listed
  <2> QED
    BY <1>1, <1>3, <2>1 DEF AddrOnce
<1> QED
  BY <1>1, <1>2, <1>4, <1>5, <1>6

\* data_allocate hands out the head node, which lists nothing
LEMMA HeadTaken ==
  ASSUME TypeOK, ChainOK, AddrOnce,
         free_list_head # INVALID_DATA,
         \A i \in Slots : blk[free_list_head].addr[i] = INVALID_DATA,
         free_list_head' = blk[free_list_head].next,
         chain' = Tail(chain),
         blk' = blk
  PROVE  /\ free_list_head \in Nodes
         /\ Nodes' = Nodes \ {free_list_head}
         /\ Listed' = Listed /\ ChainOK' /\ AddrOnce'
         /\ chain' \in Seq(Data)
         /\ free_list_head' \in 0..DataSize
<1> DEFINE n == Len(chain)
<1>1. /\ chain # <<>> /\ free_list_head = chain[1] /\ free_list_head \in Nodes
      /\ n \in Nat \ {0}
  BY HeadFacts, NodeFacts
<1>2. /\ chain' \in Seq(Data) /\ Len(chain') = n - 1
      /\ \A i \in 1..(n - 1) : chain'[i] = chain[i + 1]
  BY <1>1, HeadTailProperties DEF TypeOK
<1> HIDE DEF n
<1>3. \A i, j \in 1..n : chain[i] = chain[j] => i = j
  BY DEF ChainOK, n
<1>4. Nodes' = Nodes \ {free_list_head}
  <2>1. ASSUME NEW i \in 1..(n - 1)
        PROVE  chain'[i] \in Nodes /\ chain'[i] # free_list_head
    <3>1. i + 1 \in 1..n /\ 1 \in 1..n /\ i + 1 # 1
      BY <1>1
    <3> QED
      BY <3>1, <1>1, <1>2, <1>3 DEF Nodes, n
  <2>2. ASSUME NEW i \in 1..n, chain[i] # free_list_head
        PROVE  \E j \in 1..(n - 1) : chain[i] = chain'[j]
    <3>1. i - 1 \in 1..(n - 1) /\ (i - 1) + 1 = i
      BY <1>1, <2>2
    <3> QED
      BY <3>1, <1>2
  <2>3. Nodes' = {chain'[i] : i \in 1..(n - 1)}
    BY <1>2 DEF Nodes
  <2>4. Nodes = {chain[i] : i \in 1..n}
    BY DEF Nodes, n
  <2>5. ASSUME NEW x \in Nodes' PROVE x \in Nodes \ {free_list_head}
    BY <2>1, <2>3
  <2>6. ASSUME NEW x \in Nodes \ {free_list_head} PROVE x \in Nodes'
    BY <2>2, <2>3, <2>4
  <2> QED
    BY <2>5, <2>6
<1>5. Listed' = Listed
  BY <1>1, <1>4 DEF Listed
<1>6. ChainOK'
  <2>1. free_list_head' = IF chain' = <<>> THEN INVALID_DATA ELSE chain'[1]
    <3>1. blk[chain[1]].next = IF 1 = n THEN INVALID_DATA ELSE chain[1 + 1]
      <4>1. 1 \in 1..n
        BY <1>1
      <4> QED
        BY <4>1 DEF ChainOK, n
    <3>2. CASE n = 1
      <4>1. chain' = <<>>
        BY <3>2, <1>2, EmptySeq
      <4> QED
        BY <4>1, <3>1, <3>2, <1>1
    <3>3. CASE n # 1
      <4>1. 1 \in 1..(n - 1) /\ chain' # <<>>
        <5>1. n - 1 \in Nat \ {0}
          BY <3>3, <1>1
        <5>2. chain' # <<>>
          BY <5>1, <1>2, EmptySeq
        <5> QED
          BY <5>1, <5>2, <1>1
      <4> QED
        BY <4>1, <3>1, <3>3, <1>1, <1>2
    <3> QED
      BY <3>2, <3>3
  <2>2. ASSUME NEW i \in 1..(n - 1)
        PROVE  blk[chain'[i]].next = IF i = n - 1 THEN INVALID_DATA ELSE chain'[i + 1]
    <3>1. i + 1 \in 1..n /\ (i + 1 = n <=> i = n - 1)
      BY <1>1
    <3>2. blk[chain[i + 1]].next = IF i + 1 = n THEN INVALID_DATA ELSE chain[(i + 1) + 1]
      BY <3>1 DEF ChainOK, n
    <3>3. i # n - 1 => i + 1 \in 1..(n - 1)
      BY <1>1
    <3> QED
      BY <3>1, <3>2, <3>3, <1>2
  <2>3. ASSUME NEW i \in 1..(n - 1), NEW j \in 1..(n - 1), chain'[i] = chain'[j]
        PROVE  i = j
    <3>1. i + 1 \in 1..n /\ j + 1 \in 1..n
      BY <1>1
    <3>2. i + 1 = j + 1
      BY <3>1, <2>3, <1>2, <1>3
    <3> QED
      BY <3>2
  <2> QED
    BY <1>2, <2>1, <2>2, <2>3 DEF ChainOK
<1>7. AddrOnce'
  BY <1>4 DEF AddrOnce
<1>8. free_list_head' \in 0..DataSize
  BY <1>1, NodeFacts
<1> QED
  BY <1>1, <1>2, <1>4, <1>5, <1>6, <1>7, <1>8

\* data_free makes block b the head, in front of the old one
LEMMA HeadAdded ==
  ASSUME TypeOK, ChainOK, AddrOnce,
         NEW b \in Data, b \notin Nodes,
         blk[b] = EmptyNode(free_list_head),
         free_list_head' = b,
         chain' = <<b>> \o chain,
         blk' = blk
  PROVE  /\ Nodes' = Nodes \cup {b}
         /\ Listed' = Listed /\ ChainOK' /\ AddrOnce'
         /\ chain' \in Seq(Data)
<1> DEFINE n == Len(chain)
<1>1. n \in Nat /\ chain \in Seq(Data)
  BY NodeFacts DEF TypeOK
<1>2. <<b>> \in Seq(Data) /\ Len(<<b>>) = 1 /\ <<b>>[1] = b
  OBVIOUS
<1>3. /\ chain' \in Seq(Data) /\ Len(chain') = 1 + n
      /\ \A i \in 1..(1 + n) : chain'[i] = IF i <= 1 THEN <<b>>[i] ELSE chain[i - 1]
  BY <1>1, <1>2, ConcatProperties
<1> HIDE DEF n
<1>4. chain'[1] = b /\ \A i \in 1..n : chain'[i + 1] = chain[i]
  BY <1>1, <1>2, <1>3
<1>5. \A i \in 1..(1 + n) : i = 1 \/ (i - 1 \in 1..n /\ chain'[i] = chain[i - 1])
  BY <1>1, <1>3
<1>6. Nodes' = Nodes \cup {b}
  <2>1. \A i \in 1..n : i + 1 \in 1..(1 + n)
    BY <1>1
  <2>2. 1 \in 1..(1 + n)
    BY <1>1
  <2> QED
    BY <1>3, <1>4, <1>5, <2>1, <2>2 DEF Nodes, n
<1>7. blk[b].next = free_list_head /\ \A i \in Slots : blk[b].addr[i] = INVALID_DATA
  BY DEF EmptyNode
<1>8. Listed' = Listed
  BY <1>6, <1>7 DEF Listed
<1>9. AddrOnce'
  BY <1>6, <1>7 DEF AddrOnce
<1>10. ChainOK'
  <2>1. chain' # <<>>
    BY <1>1, <1>3
  <2>2. ASSUME NEW i \in 1..(1 + n)
        PROVE  blk[chain'[i]].next = IF i = 1 + n THEN INVALID_DATA ELSE chain'[i + 1]
    <3>1. CASE i = 1
      <4>1. free_list_head = IF n = 0 THEN INVALID_DATA ELSE chain[1]
        BY <1>1, HeadFacts, EmptySeq DEF ChainOK, n
      <4>2. n # 0 => 1 \in 1..n
        BY <1>1
      <4>3. blk[chain'[i]].next = free_list_head
        BY <3>1, <1>4, <1>7
      <4>4. CASE n = 0
        BY <3>1, <4>1, <4>3, <4>4
      <4>5. CASE n # 0
        <5>1. chain'[1 + 1] = chain[1]
          BY <4>2, <4>5, <1>4
        <5>2. 1 # 1 + n
          BY <4>5, <1>1
        <5> QED
          BY <3>1, <4>1, <4>3, <4>5, <5>1, <5>2
      <4> QED
        BY <4>4, <4>5
    <3>2. CASE i # 1
      <4>1. i - 1 \in 1..n /\ chain'[i] = chain[i - 1] /\ (i - 1 = n <=> i = 1 + n)
        <5>1. i - 1 = n <=> i = 1 + n
          BY <1>1
        <5> QED
          BY <5>1, <3>2, <1>5
      <4>2. blk[chain[i - 1]].next = IF i - 1 = n THEN INVALID_DATA ELSE chain[(i - 1) + 1]
        BY <4>1 DEF ChainOK, n
      <4>3. i # 1 + n => i \in 1..n /\ (i - 1) + 1 = i
        BY <4>1, <1>1
      <4> QED
        BY <4>1, <4>2, <4>3, <1>4
    <3> QED
      BY <3>1, <3>2
  <2>3. ASSUME NEW i \in 1..(1 + n), NEW j \in 1..(1 + n), chain'[i] = chain'[j]
        PROVE  i = j
    <3>1. \A k \in 1..n : chain[k] # b
      BY DEF Nodes, n
    <3>2. \A k, l \in 1..n : chain[k] = chain[l] => k = l
      BY DEF ChainOK, n
    <3>3. i = 1 <=> j = 1
      BY <2>3, <3>1, <1>4, <1>5
    <3>4. i # 1 => i - 1 = j - 1
      BY <2>3, <3>2, <3>3, <1>5
    <3> QED
      BY <3>3, <3>4, <1>1
  <2> QED
    BY <1>3, <1>4, <2>1, <2>2, <2>3 DEF ChainOK
<1> QED
  BY <1>3, <1>6, <1>8, <1>9, <1>10

-----------------------------------------------------------------------------
(* Every step keeps the invariant *)

\* A call record built by one of the constructors, read back
LEMMA CallShapes ==
  /\ Idle.pc = "idle"
  /\ \A b, l : /\ Scanning(b, l).pc = "scan"
               /\ Scanning(b, l).block = b
               /\ Scanning(b, l).loc = l
  /\ \A b : Linking(b).pc = "link" /\ Linking(b).block = b
  /\ \A b, d : Filling(b, d).pc = "fill" /\ Filling(b, d).block = b
  BY DEF Idle, Scanning, Linking, Filling

\* Every step of every call, and every crash, preserves the invariant.
LEMMA NextIInv == IInv /\ [Next]_vars => IInv'
<1> SUFFICES ASSUME IInv, [Next]_vars PROVE IInv'
  OBVIOUS
<1> USE ConstantsAssumption
<1>1. TypeOK /\ ChainOK /\ AddrOnce /\ Apart /\ NoLeak /\ ScanOK /\ LinkOK
  BY SplitNoDoubleUse DEF IInv
<1>2. SUFFICES TypeOK' /\ ChainOK' /\ AddrOnce' /\ Apart' /\ NoLeak' /\ ScanOK' /\ LinkOK'
  BY SplitNoDoubleUse DEF IInv
<1>3. CASE UNCHANGED <<free_list_head, blk, held, lost, call, chain>>
           /\ ret' \in {SUCCESS, INVALID_BLOCK, DATA_FULL}
  <2>1. Nodes' = Nodes /\ Listed' = Listed /\ ChainOK' /\ AddrOnce'
    BY <1>1, <1>3, ListUnchanged
  <2>2. InFlight' = InFlight
    BY <1>3 DEF InFlight
  <2>3. TypeOK'
    BY <1>1, <1>3 DEF TypeOK
  <2>4. Apart' /\ NoLeak'
    BY <1>1, <1>3, <2>1, <2>2 DEF Apart, NoLeak
  <2>5. ScanOK' /\ LinkOK'
    BY <1>1, <1>3, <2>1 DEF ScanOK, LinkOK, EmptyNode
  <2> QED
    BY <2>1, <2>3, <2>4, <2>5
<1>4. ASSUME NEW data \in Images, AllocateSlot(data)
      PROVE  TypeOK' /\ ChainOK' /\ AddrOnce' /\ Apart' /\ NoLeak' /\ ScanOK' /\ LinkOK'
  <2>1. /\ call = Idle /\ free_list_head # INVALID_DATA
        /\ UNCHANGED <<free_list_head, held, lost, ret, chain>>
    BY <1>4 DEF AllocateSlot
  <2>2. free_list_head \in Nodes
    BY <1>1, <2>1, HeadFacts
  <2>3. PICK s \in Slots :
          /\ FirstUsed(free_list_head, s)
          /\ blk' = [blk EXCEPT ![free_list_head].addr[s] = INVALID_DATA]
          /\ call' = Filling(blk[free_list_head].addr[s], data)
    BY <1>4 DEF AllocateSlot
  <2> DEFINE x == blk[free_list_head].addr[s]
  <2>4. x # INVALID_DATA
    BY <2>3 DEF FirstUsed
  <2>5. /\ Nodes' = Nodes /\ ChainOK' /\ AddrOnce'
        /\ Listed' = Listed \ {x} /\ x \in Listed
        /\ blk' \in [Data -> Node]
    BY <1>1, <2>1, <2>2, <2>3, <2>4, SlotCleared
  <2>6. x \in Data
    BY <1>1, <2>5, NodeFacts
  <2>7. call' = Filling(x, data)
    BY <2>3
  <2> HIDE DEF x
  <2>8. InFlight = {} /\ InFlight' = {x} /\ call'.pc = "fill"
    BY <1>1, <2>1, <2>7, CallFacts, CallShapes DEF InFlight
  <2>9. TypeOK'
    <3>1. call' \in CallType
      BY <2>6, <2>7 DEF CallType
    <3> QED
      BY <1>1, <2>1, <2>5, <3>1 DEF TypeOK
  <2>10. Apart' /\ NoLeak'
    BY <1>1, <2>1, <2>5, <2>6, <2>8 DEF Apart, NoLeak
  <2>11. ScanOK' /\ LinkOK'
    BY <2>8 DEF ScanOK, LinkOK
  <2> QED
    BY <2>5, <2>9, <2>10, <2>11
<1>5. ASSUME NEW data \in Images, AllocateHead(data)
      PROVE  TypeOK' /\ ChainOK' /\ AddrOnce' /\ Apart' /\ NoLeak' /\ ScanOK' /\ LinkOK'
  <2>1. /\ call = Idle /\ call' = Filling(free_list_head, data)
        /\ UNCHANGED <<blk, held, lost, ret>>
    BY <1>5 DEF AllocateHead
  <2>2. /\ free_list_head \in Nodes
        /\ Nodes' = Nodes \ {free_list_head}
        /\ Listed' = Listed /\ ChainOK' /\ AddrOnce'
        /\ chain' \in Seq(Data)
        /\ free_list_head' \in 0..DataSize
    BY <1>1, <1>5, HeadTaken DEF AllocateHead
  <2>3. free_list_head \in Data
    BY <1>1, <2>2, NodeFacts
  <2>4. InFlight = {} /\ InFlight' = {free_list_head} /\ call'.pc = "fill"
    BY <1>1, <2>1, CallFacts, CallShapes DEF InFlight
  <2>5. TypeOK'
    <3>1. call' \in CallType
      BY <2>1, <2>3 DEF CallType
    <3> QED
      BY <1>1, <2>1, <2>2, <3>1 DEF TypeOK
  <2>6. Apart' /\ NoLeak'
    BY <1>1, <2>1, <2>2, <2>3, <2>4 DEF Apart, NoLeak
  <2>7. ScanOK' /\ LinkOK'
    BY <2>4 DEF ScanOK, LinkOK
  <2> QED
    BY <2>2, <2>5, <2>6, <2>7
<1>6. CASE AllocateFill
  <2>1. /\ call.pc = "fill" /\ call' = Idle
        /\ blk' = [blk EXCEPT ![call.block] = call.data]
        /\ held' = held \cup {call.block} /\ ret' = SUCCESS
        /\ UNCHANGED <<free_list_head, lost, chain>>
    BY <1>6 DEF AllocateFill
  <2>2. /\ call.block \in Data /\ call.data \in Images /\ call.data \in Node
        /\ InFlight = {call.block} /\ InFlight' = {} /\ call'.pc = "idle"
    BY <1>1, <2>1, CallFacts, CallShapes DEF InFlight
  <2>3. \A n \in Nodes : blk'[n] = blk[n]
    BY <1>1, <2>1, <2>2, NodeFacts DEF Apart, TypeOK
  <2>4. Nodes' = Nodes /\ Listed' = Listed /\ ChainOK' /\ AddrOnce'
    BY <1>1, <2>1, <2>3, ListUnchanged
  <2>5. TypeOK'
    <3>1. blk' \in [Data -> Node]
      BY <1>1, <2>1, <2>2 DEF TypeOK
    <3> QED
      BY <1>1, <2>1, <2>2, <3>1 DEF TypeOK, CallType
  <2>6. Apart' /\ NoLeak'
    BY <1>1, <2>1, <2>2, <2>4 DEF Apart, NoLeak
  <2>7. ScanOK' /\ LinkOK'
    BY <2>2 DEF ScanOK, LinkOK
  <2> QED
    BY <2>4, <2>5, <2>6, <2>7
<1>7. ASSUME NEW b \in Data, NEW data \in Images, data_write(b, data)
      PROVE  TypeOK' /\ ChainOK' /\ AddrOnce' /\ Apart' /\ NoLeak' /\ ScanOK' /\ LinkOK'
  <2>1. /\ call = Idle /\ b \in held
        /\ blk' = [blk EXCEPT ![b] = data]
        /\ UNCHANGED <<free_list_head, held, lost, call, ret, chain>>
    BY <1>7 DEF data_write
  <2>2. data \in Node /\ call'.pc = "idle" /\ InFlight' = InFlight
    BY <2>1, CallShapes DEF InFlight
  <2>3. \A n \in Nodes : blk'[n] = blk[n]
    BY <1>1, <2>1, NodeFacts DEF Apart, TypeOK
  <2>4. Nodes' = Nodes /\ Listed' = Listed /\ ChainOK' /\ AddrOnce'
    BY <1>1, <2>1, <2>3, ListUnchanged
  <2>5. TypeOK'
    <3>1. blk' \in [Data -> Node]
      BY <1>1, <2>1, <2>2 DEF TypeOK
    <3> QED
      BY <1>1, <2>1, <3>1 DEF TypeOK
  <2>6. Apart' /\ NoLeak'
    BY <1>1, <2>1, <2>2, <2>4 DEF Apart, NoLeak
  <2>7. ScanOK' /\ LinkOK'
    BY <2>2 DEF ScanOK, LinkOK
  <2> QED
    BY <2>4, <2>5, <2>6, <2>7
<1>8. ASSUME NEW b \in Data, FreeStart(b)
      PROVE  TypeOK' /\ ChainOK' /\ AddrOnce' /\ Apart' /\ NoLeak' /\ ScanOK' /\ LinkOK'
  <2>1. /\ call = Idle /\ b \in held /\ held' = held \ {b}
        /\ call' = Scanning(b, free_list_head)
        /\ UNCHANGED <<free_list_head, blk, lost, ret, chain>>
    BY <1>8 DEF FreeStart
  <2>2. /\ InFlight = {} /\ InFlight' = {b}
        /\ call'.pc = "scan" /\ call'.loc = free_list_head
    BY <1>1, <2>1, CallFacts, CallShapes DEF InFlight
  <2>3. Nodes' = Nodes /\ Listed' = Listed /\ ChainOK' /\ AddrOnce'
    BY <1>1, <2>1, ListUnchanged
  <2>4. TypeOK'
    <3>1. call' \in CallType
      BY <1>1, <2>1 DEF CallType, TypeOK
    <3> QED
      BY <1>1, <2>1, <3>1 DEF TypeOK
  <2>5. Apart' /\ NoLeak'
    BY <1>1, <2>1, <2>2, <2>3 DEF Apart, NoLeak
  <2>6. ScanOK' /\ LinkOK'
    BY <1>1, <2>2, <2>3, HeadFacts DEF ScanOK, LinkOK
  <2> QED
    BY <2>3, <2>4, <2>5, <2>6
<1>9. CASE FreeNextNode
  <2>1. /\ call.pc = "scan" /\ call.loc # INVALID_DATA
        /\ call' = [call EXCEPT !.loc = blk[call.loc].next]
        /\ UNCHANGED <<free_list_head, blk, held, lost, ret, chain>>
    BY <1>9 DEF FreeNextNode
  <2>2. call.loc \in Nodes /\ call.loc \in Data
    BY <1>1, <2>1, NodeFacts DEF ScanOK
  <2>3. call' = Scanning(call.block, blk[call.loc].next)
    BY <1>1, <2>1, CallFacts DEF Scanning
  <2>4. /\ InFlight = {call.block} /\ InFlight' = {call.block} /\ call.block \in Data
        /\ call'.pc = "scan" /\ call'.loc = blk[call.loc].next
    BY <1>1, <2>1, <2>3, CallFacts, CallShapes DEF InFlight
  <2>5. Nodes' = Nodes /\ Listed' = Listed /\ ChainOK' /\ AddrOnce'
    BY <1>1, <2>1, ListUnchanged
  <2>6. TypeOK'
    <3>1. call' \in CallType
      BY <1>1, <2>2, <2>3, <2>4, NodeFacts DEF CallType
    <3> QED
      BY <1>1, <2>1, <3>1 DEF TypeOK
  <2>7. Apart' /\ NoLeak'
    BY <1>1, <2>1, <2>4, <2>5 DEF Apart, NoLeak
  <2>8. ScanOK' /\ LinkOK'
    BY <1>1, <2>2, <2>4, <2>5, NextFacts DEF ScanOK, LinkOK
  <2> QED
    BY <2>5, <2>6, <2>7, <2>8
<1>10. CASE FreePut
  <2>1. /\ call.pc = "scan" /\ call.loc # INVALID_DATA
        /\ call' = Idle /\ ret' = SUCCESS
        /\ UNCHANGED <<free_list_head, held, lost, chain>>
    BY <1>10 DEF FreePut
  <2>2. PICK s \in Slots : /\ FirstEmpty(call.loc, s)
                           /\ blk' = [blk EXCEPT ![call.loc].addr[s] = call.block]
    BY <1>10 DEF FreePut
  <2>3. call.loc \in Nodes /\ blk[call.loc].addr[s] = INVALID_DATA
    BY <1>1, <2>1, <2>2 DEF ScanOK, FirstEmpty
  <2>4. /\ InFlight = {call.block} /\ InFlight' = {} /\ call.block \in Data
        /\ call'.pc = "idle"
    BY <1>1, <2>1, CallFacts, CallShapes DEF InFlight
  <2>5. call.block \notin Listed
    BY <1>1, <2>4 DEF Apart
  <2>6. /\ Nodes' = Nodes /\ ChainOK' /\ AddrOnce'
        /\ Listed' = Listed \cup {call.block}
        /\ blk' \in [Data -> Node]
    BY <1>1, <2>1, <2>2, <2>3, <2>4, <2>5, SlotFilled
  <2>7. TypeOK'
    BY <1>1, <2>1, <2>6 DEF TypeOK, CallType
  <2>8. Apart' /\ NoLeak'
    BY <1>1, <2>1, <2>4, <2>6 DEF Apart, NoLeak
  <2>9. ScanOK' /\ LinkOK'
    BY <2>4 DEF ScanOK, LinkOK
  <2> QED
    BY <2>6, <2>7, <2>8, <2>9
<1>11. CASE FreeMakeNode
  <2>1. /\ call.pc = "scan"
        /\ blk' = [blk EXCEPT ![call.block] = EmptyNode(free_list_head)]
        /\ call' = Linking(call.block)
        /\ UNCHANGED <<free_list_head, held, lost, ret, chain>>
    BY <1>11 DEF FreeMakeNode
  <2>2. /\ InFlight = {call.block} /\ InFlight' = {call.block} /\ call.block \in Data
        /\ call'.pc = "link" /\ call'.block = call.block
    BY <1>1, <2>1, CallFacts, CallShapes DEF InFlight
  <2>3. EmptyNode(free_list_head) \in Node
    BY <1>1 DEF TypeOK, EmptyNode, Node, INVALID_DATA
  <2>4. \A n \in Nodes : blk'[n] = blk[n]
    BY <1>1, <2>1, <2>2, NodeFacts DEF Apart, TypeOK
  <2>5. Nodes' = Nodes /\ Listed' = Listed /\ ChainOK' /\ AddrOnce'
    BY <1>1, <2>1, <2>4, ListUnchanged
  <2>6. TypeOK'
    <3>1. blk' \in [Data -> Node]
      BY <1>1, <2>1, <2>2, <2>3 DEF TypeOK
    <3>2. call' \in CallType
      BY <2>1, <2>2 DEF CallType
    <3> QED
      BY <1>1, <2>1, <3>1, <3>2 DEF TypeOK
  <2>7. Apart' /\ NoLeak'
    BY <1>1, <2>1, <2>2, <2>5 DEF Apart, NoLeak
  <2>8. ScanOK' /\ LinkOK'
    <3>1. blk'[call.block] = EmptyNode(free_list_head)
      BY <1>1, <2>1, <2>2 DEF TypeOK
    <3>2. EmptyNode(free_list_head)' = EmptyNode(free_list_head)
      BY <2>1 DEF EmptyNode
    <3> QED
      BY <2>1, <2>2, <3>1, <3>2 DEF ScanOK, LinkOK
  <2> QED
    BY <2>5, <2>6, <2>7, <2>8
<1>12. CASE FreeLink
  <2>1. /\ call.pc = "link" /\ free_list_head' = call.block
        /\ chain' = <<call.block>> \o chain
        /\ call' = Idle /\ ret' = SUCCESS
        /\ UNCHANGED <<blk, held, lost>>
    BY <1>12 DEF FreeLink
  <2>2. /\ InFlight = {call.block} /\ InFlight' = {} /\ call.block \in Data
        /\ call'.pc = "idle"
    BY <1>1, <2>1, CallFacts, CallShapes DEF InFlight
  <2>3. call.block \notin Nodes /\ blk[call.block] = EmptyNode(free_list_head)
    BY <1>1, <2>1, <2>2 DEF Apart, LinkOK
  <2>4. /\ Nodes' = Nodes \cup {call.block}
        /\ Listed' = Listed /\ ChainOK' /\ AddrOnce'
        /\ chain' \in Seq(Data)
    BY <1>1, <2>1, <2>2, <2>3, HeadAdded
  <2>5. TypeOK'
    <3>1. call.block \in 0..DataSize
      BY <2>2 DEF Data
    <3> QED
      BY <1>1, <2>1, <2>4, <3>1 DEF TypeOK, CallType
  <2>6. Apart' /\ NoLeak'
    BY <1>1, <2>1, <2>2, <2>4 DEF Apart, NoLeak
  <2>7. ScanOK' /\ LinkOK'
    BY <2>2 DEF ScanOK, LinkOK
  <2> QED
    BY <2>4, <2>5, <2>6, <2>7
<1>13. CASE Crash
  <2>1. /\ call # Idle /\ lost' = lost \cup InFlight /\ call' = Idle
        /\ UNCHANGED <<free_list_head, blk, held, ret, chain>>
    BY <1>13 DEF Crash
  <2>2. InFlight' = {} /\ InFlight \subseteq Data /\ call'.pc = "idle"
    BY <1>1, <2>1, CallFacts, CallShapes DEF InFlight
  <2>3. Nodes' = Nodes /\ Listed' = Listed /\ ChainOK' /\ AddrOnce'
    BY <1>1, <2>1, ListUnchanged
  <2>4. TypeOK'
    BY <1>1, <2>1, <2>2 DEF TypeOK, CallType
  <2>5. Apart' /\ NoLeak'
    BY <1>1, <2>1, <2>2, <2>3 DEF Apart, NoLeak
  <2>6. ScanOK' /\ LinkOK'
    BY <2>2 DEF ScanOK, LinkOK
  <2> QED
    BY <2>3, <2>4, <2>5, <2>6
<1>14. AllocateFull \/ FreeInvalid \/ UNCHANGED vars
         => /\ UNCHANGED <<free_list_head, blk, held, lost, call, chain>>
            /\ ret' \in {SUCCESS, INVALID_BLOCK, DATA_FULL}
  BY <1>1 DEF AllocateFull, FreeInvalid, vars, TypeOK
<1> QED
  BY <1>3, <1>4, <1>5, <1>6, <1>7, <1>8, <1>9, <1>10, <1>11, <1>12, <1>13, <1>14
     DEF Next, Step

-----------------------------------------------------------------------------
(* The theorems *)

\* IInv is an invariant of every run of data_allocate, data_free, data_write
\* and crashes on a file system made by mkfs.
THEOREM Invariance == Spec => []IInv
<1>1. Init => IInv
  BY InitIInv
<1>2. IInv /\ [Next]_vars => IInv'
  BY NextIInv
<1> QED
  BY <1>1, <1>2, PTL DEF Spec

\* The superblock field, the blocks and the locals always have their types.
THEOREM TypeCorrect == Spec => []TypeOK
<1>1. IInv => TypeOK
  BY DEF IInv
<1> QED
  BY <1>1, Invariance, PTL

\* The list on disk is a finite chain without repetition at every write.
THEOREM ChainCorrect == Spec => []ChainOK
<1>1. IInv => ChainOK
  BY DEF IInv
<1> QED
  BY <1>1, Invariance, PTL

\* data_allocate never hands out a block in use; nothing is listed twice.
THEOREM NeverUsedTwice == Spec => []NoDoubleUse
<1>1. IInv => NoDoubleUse
  BY DEF IInv
<1> QED
  BY <1>1, Invariance, PTL

\* No block vanishes except the one a killed call was moving.
THEOREM NeverLeaked == Spec => []NoLeak
<1>1. IInv => NoLeak
  BY DEF IInv
<1> QED
  BY <1>1, Invariance, PTL

\* The step form of HeldUntouched
LEMMA StepLeavesHeld ==
  ASSUME IInv, Next, NEW b \in held \cap held', blk'[b] # blk[b]
  PROVE  \E data \in Images : data_write(b, data)
<1>1. TypeOK /\ ChainOK /\ Apart /\ ScanOK
  BY SplitNoDoubleUse DEF IInv
<1>2. b \in Data /\ b \notin Nodes /\ b \notin InFlight
  BY <1>1 DEF TypeOK, Apart
<1>3. ASSUME NEW n, NEW f, b # n, blk' = [blk EXCEPT ![n] = f]
      PROVE  FALSE
  BY <1>1, <1>2, <1>3 DEF TypeOK
<1>4. ASSUME NEW data \in Images, AllocateSlot(data) PROVE FALSE
  <2>1. free_list_head \in Nodes
    BY <1>1, <1>4, HeadFacts DEF AllocateSlot
  <2> QED
    BY <1>1, <1>2, <1>4, <2>1 DEF AllocateSlot, TypeOK
<1>5. ASSUME NEW data \in Images, AllocateHead(data) PROVE FALSE
  BY <1>5 DEF AllocateHead
<1>6. ~ AllocateFill
  <2> SUFFICES ASSUME AllocateFill PROVE FALSE
    OBVIOUS
  <2>1. call.block \in InFlight
    BY <1>1, CallFacts DEF AllocateFill
  <2> QED
    BY <1>2, <1>3, <2>1 DEF AllocateFill
<1>7. ~ FreePut
  <2> SUFFICES ASSUME FreePut PROVE FALSE
    OBVIOUS
  <2>1. call.loc \in Nodes
    BY <1>1 DEF FreePut, ScanOK
  <2> QED
    BY <1>1, <1>2, <2>1 DEF FreePut, TypeOK
<1>8. ~ FreeMakeNode
  <2> SUFFICES ASSUME FreeMakeNode PROVE FALSE
    OBVIOUS
  <2>1. call.block \in InFlight
    BY <1>1, CallFacts DEF FreeMakeNode
  <2> QED
    BY <1>2, <1>3, <2>1 DEF FreeMakeNode
<1>9. ASSUME NEW c \in Data, NEW data \in Images, data_write(c, data)
      PROVE  b = c
  BY <1>3, <1>9 DEF data_write
<1>10. /\ ~ (AllocateFull \/ FreeInvalid \/ FreeNextNode \/ FreeLink \/ Crash)
       /\ ~ \E c \in Data : FreeStart(c)
  BY DEF AllocateFull, FreeInvalid, FreeNextNode, FreeLink, Crash, FreeStart
<1> QED
  BY <1>4, <1>5, <1>6, <1>7, <1>8, <1>9, <1>10 DEF Next, Step

\* The allocator writes no block that a caller holds.
THEOREM HeldStaysUntouched == Spec => HeldUntouched
<1>1. IInv /\ [Next]_vars =>
        [\A b \in held \cap held' :
           blk'[b] # blk[b] => \E data \in Images : data_write(b, data)]_vars
  BY StepLeavesHeld
<1> QED
  BY <1>1, Invariance, PTL DEF Spec, HeldUntouched

-----------------------------------------------------------------------------
(* FreeList implements BlockPool *)

\* The abstract free set is what is neither held nor lost
PoolSplit == /\ PoolFree = Data \ (PoolHeld \cup lost)
             /\ PoolHeld \cap lost = {}
             /\ PoolHeld \subseteq Data

\* The invariant makes the abstract free set the rest of the blocks.
LEMMA PoolPartition == IInv => PoolSplit
<1> SUFFICES ASSUME IInv PROVE PoolSplit
  OBVIOUS
<1>1. TypeOK /\ Apart /\ NoLeak
  BY SplitNoDoubleUse DEF IInv
<1>2. call.pc \in {"idle", "scan", "link", "fill"}
  BY <1>1 DEF TypeOK, CallType, Idle, Scanning, Linking, Filling
<1>3. call.pc = "idle" => InFlight = {}
  BY <1>1, CallFacts
<1> QED
  BY <1>1, <1>2, <1>3 DEF PoolSplit, PoolFree, PoolHeld, Apart, NoLeak, TypeOK

\* The list that mkfs builds maps to a pool in which all is free.
LEMMA InitImplements == Init => Pool!Init
<1> SUFFICES ASSUME Init PROVE Pool!Init
  OBVIOUS
<1>1. PoolHeld = {} /\ lost = {} /\ ret = SUCCESS
  BY CallShapes DEF Init, PoolHeld, InFlight
<1>2. PoolFree = Data
  BY <1>1, InitIInv, PoolPartition DEF PoolSplit
<1> QED
  BY <1>1, <1>2 DEF Pool!Init, Data, SUCCESS, Pool!SUCCESS

\* Every step of the list maps to a step of the pool or to none.
LEMMA StepImplements == IInv /\ IInv' /\ [Next]_vars => [Pool!Next]_(Pool!vars)
<1> SUFFICES ASSUME IInv, IInv', [Next]_vars PROVE [Pool!Next]_(Pool!vars)
  OBVIOUS
<1>1. TypeOK /\ ChainOK /\ Apart /\ NoLeak
  BY SplitNoDoubleUse DEF IInv
<1>2. PoolSplit /\ PoolSplit'
  BY PoolPartition, PTL
<1>3. ASSUME PoolHeld' = PoolHeld, UNCHANGED <<lost, ret>>
      PROVE  UNCHANGED Pool!vars
  BY <1>2, <1>3 DEF Pool!vars, PoolSplit, Data
<1>4. ASSUME AllocateFull PROVE Pool!Full
  <2>1. PoolFree = {}
    <3>1. Nodes = {} /\ Listed = {}
      BY <1>1, <1>4, HeadFacts DEF AllocateFull, Listed
    <3> QED
      BY <1>4, <3>1, CallShapes DEF PoolFree, AllocateFull
  <2>2. PoolHeld' = PoolHeld /\ UNCHANGED lost /\ ret' = DATA_FULL
    BY <1>4 DEF AllocateFull, PoolHeld, InFlight
  <2> QED
    BY <1>2, <2>1, <2>2 DEF Pool!Full, PoolSplit, Data, DATA_FULL, Pool!DATA_FULL
<1>5. ASSUME NEW data \in Images, AllocateSlot(data) \/ AllocateHead(data)
      PROVE  UNCHANGED Pool!vars
  <2>1. call.pc = "idle" /\ call'.pc = "fill" /\ UNCHANGED <<held, lost, ret>>
    BY <1>5, CallShapes DEF AllocateSlot, AllocateHead
  <2> QED
    BY <1>3, <2>1 DEF PoolHeld
<1>6. ASSUME AllocateFill PROVE Pool!Take(call.block) /\ call.block \in Data
  <2>1. /\ call.pc = "fill" /\ call'.pc = "idle" /\ UNCHANGED lost
        /\ held' = held \cup {call.block} /\ ret' = SUCCESS
    BY <1>6, CallShapes DEF AllocateFill
  <2>2. call.block \in Data /\ InFlight = {call.block}
    BY <1>1, <2>1, CallFacts
  <2>3. PoolHeld = held /\ PoolHeld' = held \cup {call.block} /\ call.block \in PoolFree
    BY <2>1, <2>2 DEF PoolHeld, PoolFree
  <2> QED
    BY <1>2, <2>1, <2>2, <2>3 DEF Pool!Take, PoolSplit, Data, SUCCESS, Pool!SUCCESS
<1>7. ASSUME FreeInvalid PROVE Pool!Reject
  <2>1. PoolHeld' = PoolHeld /\ UNCHANGED lost /\ ret' = INVALID_BLOCK
    BY <1>7 DEF FreeInvalid, PoolHeld, InFlight
  <2> QED
    BY <1>2, <2>1 DEF Pool!Reject, PoolSplit, Data, INVALID_BLOCK, Pool!INVALID_BLOCK
<1>8. ASSUME NEW b \in Data, FreeStart(b) PROVE UNCHANGED Pool!vars
  <2>1. /\ call.pc = "idle" /\ call'.pc = "scan" /\ call'.block = b
        /\ b \in held /\ held' = held \ {b} /\ UNCHANGED <<lost, ret>>
    BY <1>8, CallShapes DEF FreeStart
  <2>2. PoolHeld' = PoolHeld
    BY <2>1 DEF PoolHeld, InFlight
  <2> QED
    BY <1>3, <2>1, <2>2
<1>9. ASSUME FreeNextNode \/ FreeMakeNode PROVE UNCHANGED Pool!vars
  <2>1. call.pc = "scan" /\ UNCHANGED <<held, lost, ret>>
    BY <1>9 DEF FreeNextNode, FreeMakeNode
  <2>2. call'.pc \in {"scan", "link"} /\ call'.block = call.block
    <3>1. call = Scanning(call.block, call.loc)
      BY <1>1, <2>1, CallFacts
    <3>2. CASE FreeNextNode
      BY <3>1, <3>2 DEF FreeNextNode, Scanning
    <3>3. CASE FreeMakeNode
      BY <3>3, CallShapes DEF FreeMakeNode
    <3> QED
      BY <1>9, <3>2, <3>3
  <2>3. PoolHeld' = PoolHeld
    BY <2>1, <2>2 DEF PoolHeld, InFlight
  <2> QED
    BY <1>3, <2>1, <2>3
<1>10. ASSUME FreePut \/ FreeLink PROVE Pool!Give(call.block) /\ call.block \in Data
  <2>1. /\ call.pc \in {"scan", "link"} /\ call'.pc = "idle"
        /\ ret' = SUCCESS /\ UNCHANGED <<held, lost>>
    BY <1>10, CallShapes DEF FreePut, FreeLink
  <2>2. call.block \in Data /\ InFlight = {call.block}
    BY <1>1, <2>1, CallFacts
  <2>3. PoolHeld = held \cup {call.block} /\ PoolHeld' = held /\ call.block \notin held
    BY <1>1, <2>1, <2>2 DEF PoolHeld, Apart
  <2>4. call.block \notin lost
    BY <1>1, <2>2 DEF Apart
  <2> QED
    BY <1>2, <2>1, <2>2, <2>3, <2>4 DEF Pool!Give, PoolSplit, Data, SUCCESS, Pool!SUCCESS
<1>11. ASSUME NEW b \in Data, NEW data \in Images, data_write(b, data)
       PROVE  UNCHANGED Pool!vars
  <2>1. PoolHeld' = PoolHeld /\ UNCHANGED <<lost, ret>>
    BY <1>11 DEF data_write, PoolHeld, InFlight
  <2> QED
    BY <1>3, <2>1
<1>12. ASSUME Crash PROVE Pool!Lose(call.block) /\ call.block \in Data
  <2>1. /\ call # Idle /\ call'.pc = "idle" /\ lost' = lost \cup InFlight
        /\ UNCHANGED <<held, ret>>
    BY <1>12, CallShapes DEF Crash
  <2>2. call.block \in Data /\ InFlight = {call.block} /\ call.block \notin held \cup lost
    BY <1>1, <2>1, CallFacts DEF Apart
  <2>3. PoolHeld' = held /\ held = PoolHeld \ {call.block}
    BY <2>1, <2>2 DEF PoolHeld
  <2> QED
    BY <1>2, <2>1, <2>2, <2>3 DEF Pool!Lose, PoolSplit, Data
<1>13. ASSUME UNCHANGED vars PROVE UNCHANGED Pool!vars
  <2>1. PoolHeld' = PoolHeld /\ UNCHANGED <<lost, ret>>
    BY <1>13 DEF vars, PoolHeld, InFlight
  <2> QED
    BY <1>3, <2>1
<1> QED
  BY <1>4, <1>5, <1>6, <1>7, <1>8, <1>9, <1>10, <1>11, <1>12, <1>13
     DEF Next, Step, Pool!Next, Data

\* Seen through PoolFree and PoolHeld, every run of the linked free list is
\* a run of the abstract pool: DATA_FULL is answered only when no block is
\* free, and a block is handed out only when it is free.
THEOREM Refinement == Spec => ImplementsPool
<1>1. Init => Pool!Init
  BY InitImplements
<1>2. IInv /\ IInv' /\ [Next]_vars => [Pool!Next]_(Pool!vars)
  BY StepImplements
<1> QED
  BY <1>1, <1>2, Invariance, PTL DEF Spec, ImplementsPool, Pool!Spec
=============================================================================
