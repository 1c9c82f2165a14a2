------------------------------ MODULE BuddyProofs ------------------------------
(***************************************************************************)
(* The buddy allocator, for every number of roots and every depth of the   *)
(* trees: its shell, which writes over the tree and undoes what it wrote,  *)
(* and a client that keeps the blocks of the trees, for requests of blocks *)
(* of the two smallest sizes.  With a third one Is_ChildAlloced, which     *)
(* looks one level down, would miss a block in use.                        *)
(***************************************************************************)
EXTENDS BuddyMemory, NatLemmas

SmallSizes == \A size \in Sizes : size < 4 * LEAST_LIMIT
KeepsTrees == Clients \subseteq {"shell", "careful"}

-----------------------------------------------------------------------------
(* Powers of two and levels.                                               *)

Quarter == 2 ^ (Depth - 2)

LEMMA Powers ==
    /\ Depth \in Nat /\ Depth >= 3
    /\ Quarter \in Nat /\ Quarter >= 2
    /\ 2 ^ (Depth - 1) = 2 * Quarter
    /\ 2 ^ Depth = 4 * Quarter /\ ALLOC_LIMIT = 4 * Quarter
    /\ 2 ^ (Depth + 1) = 8 * Quarter /\ BUDDY_MAXCOUNT = 8 * Quarter
<1>1. Depth \in Nat /\ Depth >= 3 /\ Depth - 2 \in Nat /\ Depth - 1 \in Nat
  BY BuddyAssumption
<1>2. Quarter \in Nat
  BY <1>1, PowerNat DEF Quarter
<1>3. 2 ^ (Depth - 1) = 2 * Quarter
  <2>1. (Depth - 2) + 1 = Depth - 1
    BY <1>1
  <2>2. 2 ^ ((Depth - 2) + 1) = 2 * 2 ^ (Depth - 2)
    BY <1>1, PowerSucc
  <2> QED BY <2>1, <2>2 DEF Quarter
<1>4. 2 ^ Depth = 2 * 2 ^ (Depth - 1)
  <2>1. (Depth - 1) + 1 = Depth
    BY <1>1
  <2>2. 2 ^ ((Depth - 1) + 1) = 2 * 2 ^ (Depth - 1)
    BY <1>1, PowerSucc
  <2> QED BY <2>1, <2>2
<1>5. 2 ^ (Depth + 1) = 2 * 2 ^ Depth
  BY <1>1, PowerSucc
<1>6. Quarter >= 2
  <2>1. 2 * 2 ^ 0 <= 2 ^ (Depth - 2)
    <3>1. 0 \in Nat /\ 0 < Depth - 2
      BY <1>1
    <3> QED BY <1>1, <3>1, PowerGrows
  <2>2. 2 * 2 ^ 0 = 2
    BY PowerZero
  <2> QED BY <2>1, <2>2 DEF Quarter
<1>7. 2 ^ Depth = 4 * Quarter
  BY <1>2, <1>3, <1>4
<1>8. 2 ^ (Depth + 1) = 8 * Quarter
  BY <1>2, <1>5, <1>7
<1> QED BY <1>1, <1>2, <1>3, <1>6, <1>7, <1>8 DEF ALLOC_LIMIT, BUDDY_MAXCOUNT

LEMMA LevelIs ==
    ASSUME NEW level \in Levels, NEW node \in NodesOf(level)
    PROVE  LevelOf(node) = level
<1>1. \A l \in Levels : l \in Nat /\ 2 ^ l \in Nat /\ 2 ^ (l + 1) = 2 * 2 ^ l
  <2>1. \A l \in Levels : l \in Nat
    BY DEF Levels
  <2> QED BY <2>1, PowerNat, PowerSucc
<1>2. ASSUME NEW i \in Levels, NEW j \in Levels, i < j, NEW n \in NodesOf(i), n \in NodesOf(j)
      PROVE  FALSE
  <2>1. 2 * 2 ^ i <= 2 ^ j
    BY <1>1, <1>2, PowerGrows
  <2>2. PICK p, q : p = 2 ^ i /\ q = 2 ^ j
    OBVIOUS
  <2>3. p \in Nat /\ q \in Nat /\ 2 * p <= q /\ n \in p .. 2 * p - 1 /\ n \in q .. 2 * q - 1
    BY <1>1, <1>2, <2>1, <2>2 DEF NodesOf
  <2> QED BY <2>3
<1>3. ASSUME NEW l \in Levels, node \in NodesOf(l)
      PROVE  l = level
  BY <1>1, <1>2, <1>3
<1> QED BY <1>3 DEF LevelOf

LEMMA DivAtLeast ==
    ASSUME NEW a \in Nat, NEW b \in Nat \ {0}, NEW k \in Nat, k * b <= a
    PROVE  a \div b \in Nat /\ a \div b >= k
<1>1. PICK q \in Nat : q = a \div b
  OBVIOUS
<1>2. PICK r \in 0 .. b - 1 : a = b * q + r
  BY <1>1
<1>3. ASSUME q < k
      PROVE  FALSE
  <2>1. b * (q + 1) <= b * k
    BY <1>3
  <2>2. b * (q + 1) = b * q + b /\ b * k = k * b
    OBVIOUS
  <2>3. b * q \in Nat
    OBVIOUS
  <2> QED BY <1>2, <2>1, <2>2, <2>3
<1> QED BY <1>1, <1>3

LEMMA DivBelow ==
    ASSUME NEW a \in Nat, NEW b \in Nat \ {0}
    PROVE  a \div b \in Nat /\ b * (a \div b) <= a
<1>1. PICK q \in Nat : q = a \div b
  OBVIOUS
<1>2. PICK r \in 0 .. b - 1 : a = b * q + r
  BY <1>1
<1>3. b * q \in Nat
  OBVIOUS
<1> QED BY <1>1, <1>2, <1>3

LEMMA BlockSizes ==
    /\ BlockSize(Depth) = 1 /\ BlockSize(Depth - 1) = 2 /\ BlockSize(Depth - 2) = 4
    /\ \A level \in 0 .. Depth - 1 : BlockSize(level) \in Nat /\ BlockSize(level) >= 2
    /\ \A level \in 0 .. Depth - 2 : BlockSize(level) \in Nat /\ BlockSize(level) >= 4
<1> DEFINE A == ALLOC_LIMIT
<1>1. \A b \in Nat \ {0}, q \in Nat : (b * q) \div b = q
  <2> TAKE b \in Nat \ {0}, q \in Nat
  <2>1. 0 \in 0 .. b - 1 /\ b * q + 0 = b * q
    OBVIOUS
  <2> QED BY <2>1, Quotient
<1>2. BlockSize(Depth) = 1 /\ BlockSize(Depth - 1) = 2 /\ BlockSize(Depth - 2) = 4
  <2>1. Quarter \in Nat \ {0} /\ 2 * Quarter \in Nat \ {0} /\ 4 * Quarter \in Nat \ {0}
    BY Powers
  <2>2. ALLOC_LIMIT = (4 * Quarter) * 1 /\ ALLOC_LIMIT = (2 * Quarter) * 2 /\ ALLOC_LIMIT = Quarter * 4
    BY <2>1, Powers
  <2>3. /\ ((4 * Quarter) * 1) \div (4 * Quarter) = 1 /\ ((2 * Quarter) * 2) \div (2 * Quarter) = 2
        /\ (Quarter * 4) \div Quarter = 4
    BY <1>1, <2>1
  <2>4. 2 ^ Depth = 4 * Quarter /\ 2 ^ (Depth - 1) = 2 * Quarter /\ 2 ^ (Depth - 2) = Quarter
    BY Powers DEF Quarter
  <2> QED BY <2>2, <2>3, <2>4 DEF BlockSize
<1>3. \A l \in 0 .. Depth : 2 ^ l \in Nat \ {0}
  <2> TAKE l \in 0 .. Depth
  <2>1. l \in Nat
    BY Powers
  <2>2. CASE l = 0
    BY <2>2, PowerZero
  <2>3. CASE l > 0
    <3>1. 2 * 2 ^ 0 <= 2 ^ l /\ 2 ^ l \in Nat
      BY <2>1, <2>3, PowerGrows, PowerNat
    <3> QED BY <3>1, PowerZero
  <2> QED BY <2>1, <2>2, <2>3
<1>4. ASSUME NEW level \in 0 .. Depth - 1
      PROVE  BlockSize(level) \in Nat /\ BlockSize(level) >= 2
  <2>1. level \in Nat /\ level < Depth /\ level \in 0 .. Depth
    BY Powers
  <2>2. 2 * 2 ^ level <= A
    BY <2>1, Powers, PowerGrows DEF ALLOC_LIMIT
  <2>3. A \in Nat /\ 2 ^ level \in Nat \ {0}
    BY <1>3, <2>1, Powers
  <2> HIDE DEF A
  <2>4. A \div (2 ^ level) \in Nat /\ A \div (2 ^ level) >= 2
    BY <2>2, <2>3, DivAtLeast
  <2> QED BY <2>4 DEF BlockSize, A
<1>5. ASSUME NEW level \in 0 .. Depth - 2
      PROVE  BlockSize(level) \in Nat /\ BlockSize(level) >= 4
  <2>1. level \in Nat /\ level < Depth - 1 /\ level \in 0 .. Depth /\ Depth - 1 \in Nat
    BY Powers
  <2>2. 2 * 2 ^ level <= 2 ^ (Depth - 1)
    BY <2>1, PowerGrows
  <2>3. A \in Nat /\ 2 ^ level \in Nat \ {0} /\ A = 2 * 2 ^ (Depth - 1)
    BY <1>3, <2>1, Powers
  <2> HIDE DEF A
  <2>4. 4 * 2 ^ level <= A
    BY <2>2, <2>3, Powers
  <2>5. A \div (2 ^ level) \in Nat /\ A \div (2 ^ level) >= 4
    BY <2>3, <2>4, DivAtLeast
  <2> QED BY <2>5 DEF BlockSize, A
<1> QED BY <1>2, <1>4, <1>5

\* Requests of one and two units get blocks of that size, those of three a
\* smaller one.
LEMMA Aligned ==
    /\ Align_MemSize(1) = Depth /\ NodesOf(Depth) = 4 * Quarter .. 8 * Quarter - 1
    /\ Align_MemSize(2) = Depth - 1 /\ Align_MemSize(3) = Depth - 1 /\ NodesOf(Depth - 1) = 2 * Quarter .. 4 * Quarter - 1
<1>1. Levels = 0 .. Depth /\ Depth \in Nat /\ Depth >= 3
  BY Powers DEF Levels
<1>2. {level \in Levels : BlockSize(level) <= 1} = {Depth}
  BY <1>1, BlockSizes
<1>3. \A size \in {2, 3} : {level \in Levels : BlockSize(level) <= size} = {Depth - 1, Depth}
  BY <1>1, BlockSizes
<1>4. Min({Depth}) = Depth /\ Min({Depth - 1, Depth}) = Depth - 1
  BY <1>1 DEF Min
<1>5. (Depth - 1) + 1 = Depth
  BY <1>1
<1> QED BY <1>2, <1>3, <1>4, <1>5, Powers DEF Align_MemSize, NodesOf
-----------------------------------------------------------------------------
(* The nodes that are in use: the tree's own block and those of the two    *)
(* smallest sizes.                                                         *)

UsedNodes == {Quarter} \cup (2 * Quarter .. 8 * Quarter - 1)
SizeOf(node) == IF node >= 4 * Quarter THEN 1 ELSE IF node >= 2 * Quarter THEN 2 ELSE 4
OffsetOf(node) ==
    IF node >= 4 * Quarter THEN node - 4 * Quarter
    ELSE IF node >= 2 * Quarter THEN 2 * (node - 2 * Quarter) ELSE 0

LEMMA UsedFacts ==
    ASSUME NEW node \in UsedNodes
    PROVE  /\ node \in Nodes /\ node \in Nat
           /\ OffsetOf(node) \in Nat /\ SizeOf(node) \in {1, 2, 4}
           /\ OffsetOf(node) + SizeOf(node) <= 4 * Quarter
BY Powers DEF UsedNodes, Nodes, OffsetOf, SizeOf

LEMMA UsedLevels ==
    ASSUME NEW node \in UsedNodes
    PROVE  /\ node >= 4 * Quarter => LevelOf(node) = Depth
           /\ node >= 2 * Quarter /\ node < 4 * Quarter => LevelOf(node) = Depth - 1
           /\ node < 2 * Quarter => node = Quarter /\ LevelOf(node) = Depth - 2
<1>1. Depth \in Levels /\ Depth - 1 \in Levels /\ Depth - 2 \in Levels
  BY Powers DEF Levels
<1>2. CASE node >= 4 * Quarter
  <2>1. node \in NodesOf(Depth)
    BY <1>2, Aligned, Powers DEF UsedNodes
  <2> QED BY <1>1, <1>2, <2>1, LevelIs, Powers DEF UsedNodes
<1>3. CASE node >= 2 * Quarter /\ node < 4 * Quarter
  <2>1. node \in NodesOf(Depth - 1)
    BY <1>3, Aligned, Powers DEF UsedNodes
  <2> QED BY <1>1, <1>3, <2>1, LevelIs, Powers DEF UsedNodes
<1>4. CASE node < 2 * Quarter
  <2>1. node = Quarter
    BY <1>4, Powers DEF UsedNodes
  <2>2. node \in NodesOf(Depth - 2)
    <3>1. (Depth - 2) + 1 = Depth - 1
      BY Powers
    <3>2. NodesOf(Depth - 2) = Quarter .. 2 * Quarter - 1
      BY <3>1, Powers DEF NodesOf, Quarter
    <3> QED BY <2>1, <3>2, Powers
  <2> QED BY <1>1, <1>4, <2>1, <2>2, LevelIs, Powers
<1> QED BY <1>2, <1>3, <1>4, Powers DEF UsedNodes

LEMMA NodeFacts ==
    ASSUME NEW root \in Roots, NEW node \in UsedNodes
    PROVE  /\ BlockSize(LevelOf(node)) = SizeOf(node)
           /\ Caculate_Mem(root, node) = root * ALLOC_LIMIT + OffsetOf(node)
<1>1. Quarter \in Nat /\ node \in Nat /\ root * ALLOC_LIMIT \in Int
  BY Powers, UsedFacts DEF Roots
<1>2. CASE node >= 4 * Quarter
  <2>1. LevelOf(node) = Depth /\ BlockSize(Depth) = 1 /\ 2 ^ Depth = 4 * Quarter
    BY <1>2, UsedLevels, BlockSizes, Powers
  <2>2. SizeOf(node) = 1 /\ OffsetOf(node) = node - 4 * Quarter
    BY <1>2 DEF SizeOf, OffsetOf
  <2>3. 1 * (node - 4 * Quarter) = node - 4 * Quarter
    BY <1>1
  <2> QED BY <2>1, <2>2, <2>3 DEF Caculate_Mem
<1>3. CASE node >= 2 * Quarter /\ node < 4 * Quarter
  <2>1. LevelOf(node) = Depth - 1 /\ BlockSize(Depth - 1) = 2 /\ 2 ^ (Depth - 1) = 2 * Quarter
    BY <1>3, UsedLevels, BlockSizes, Powers
  <2>2. SizeOf(node) = 2 /\ OffsetOf(node) = 2 * (node - 2 * Quarter)
    BY <1>1, <1>3 DEF SizeOf, OffsetOf
  <2> QED BY <2>1, <2>2 DEF Caculate_Mem
<1>4. CASE node < 2 * Quarter
  <2>1. node = Quarter /\ LevelOf(node) = Depth - 2 /\ BlockSize(Depth - 2) = 4
        /\ 2 ^ (Depth - 2) = Quarter
    BY <1>4, UsedLevels, BlockSizes DEF Quarter
  <2>2. SizeOf(node) = 4 /\ OffsetOf(node) = 0
    BY <1>1, <1>4 DEF SizeOf, OffsetOf
  <2>3. 4 * (Quarter - Quarter) = 0
    BY <1>1
  <2> QED BY <2>1, <2>2, <2>3 DEF Caculate_Mem
<1> QED BY <1>1, <1>2, <1>3, <1>4

LEMMA AddressFacts ==
    ASSUME NEW root \in Roots, NEW off \in 0 .. ALLOC_LIMIT - 1
    PROVE  /\ (root * ALLOC_LIMIT + off) \div ALLOC_LIMIT = root
           /\ (root * ALLOC_LIMIT + off) % ALLOC_LIMIT = off
           /\ root * ALLOC_LIMIT + off \in 0 .. g_RootCount * ALLOC_LIMIT - 1
<1> DEFINE A == ALLOC_LIMIT
<1>1. A \in Nat \ {0} /\ g_RootCount \in Nat \ {0} /\ root \in Nat /\ root <= g_RootCount - 1
  BY Powers, BuddyAssumption DEF Roots
<1> HIDE DEF A
<1>2. off \in 0 .. A - 1
  BY DEF A
<1>3. root * A = A * root
  BY <1>1
<1>4. (A * root + off) \div A = root /\ (A * root + off) % A = off
  BY <1>1, <1>2, Quotient
<1>5. A * root \in Nat /\ A * root <= A * (g_RootCount - 1)
  BY <1>1
<1>6. A * (g_RootCount - 1) = g_RootCount * A - A /\ g_RootCount * A \in Nat
  BY <1>1
<1>7. A * root + off \in 0 .. g_RootCount * A - 1
  BY <1>1, <1>2, <1>5, <1>6
<1> QED BY <1>3, <1>4, <1>7 DEF A

\* Two blocks that begin at the same place or overlap are one in the other.
Apart(n, m) == OffsetOf(n) + SizeOf(n) <= OffsetOf(m) \/ OffsetOf(m) + SizeOf(m) <= OffsetOf(n)
Within(n, m) == m \in {n, n \div 2, n \div 4}

LEMMA Halving ==
    ASSUME NEW n \in UsedNodes, NEW m \in UsedNodes
    PROVE  Apart(n, m) <=> ~(Within(n, m) \/ Within(m, n))
<1>1. Quarter \in Nat /\ Quarter >= 2
  BY Powers
<1>2. n \in Nat /\ m \in Nat
  BY UsedFacts
<1>3. n = Quarter \/ n \in 2 * Quarter .. 4 * Quarter - 1 \/ n \in 4 * Quarter .. 8 * Quarter - 1
  BY <1>1 DEF UsedNodes
<1>4. m = Quarter \/ m \in 2 * Quarter .. 4 * Quarter - 1 \/ m \in 4 * Quarter .. 8 * Quarter - 1
  BY <1>1 DEF UsedNodes
<1> QED BY <1>1, <1>2, <1>3, <1>4 DEF Apart, Within, OffsetOf, SizeOf

LEMMA AncestorFacts ==
    ASSUME NEW node \in 2 * Quarter .. 8 * Quarter - 1
    PROVE  /\ {node, node \div 2, node \div 4} \subseteq Ancestors(node)
           /\ Ancestors(node) \cap UsedNodes \subseteq {node, node \div 2, node \div 4}
<1>1. Quarter \in Nat /\ Quarter >= 2 /\ node \in Nat /\ node \in UsedNodes
  BY Powers DEF UsedNodes
<1>2. LevelOf(node) \in Nat /\ LevelOf(node) >= 2
  BY <1>1, UsedLevels, Powers
<1>3. 2 ^ 0 = 1 /\ 2 ^ 1 = 2 /\ 2 ^ 2 = 4 /\ 2 ^ 3 = 8
  <2>1. 2 ^ (0 + 1) = 2 * 2 ^ 0 /\ 2 ^ (1 + 1) = 2 * 2 ^ 1 /\ 2 ^ (2 + 1) = 2 * 2 ^ 2
    BY PowerSucc
  <2>2. 0 + 1 = 1 /\ 1 + 1 = 2 /\ 2 + 1 = 3
    OBVIOUS
  <2>3. 2 ^ 1 = 2 * 2 ^ 0 /\ 2 ^ 2 = 2 * 2 ^ 1 /\ 2 ^ 3 = 2 * 2 ^ 2
    BY <2>1, <2>2
  <2> QED BY <2>3, PowerZero
<1>4. {node, node \div 2, node \div 4} \subseteq Ancestors(node)
  <2>1. 0 \in 0 .. LevelOf(node) /\ 1 \in 0 .. LevelOf(node) /\ 2 \in 0 .. LevelOf(node)
    BY <1>2
  <2>2. node = node \div 1
    BY <1>1
  <2> QED BY <1>3, <2>1, <2>2 DEF Ancestors
<1>5. ASSUME NEW k \in 0 .. LevelOf(node), node \div 2 ^ k \in UsedNodes
      PROVE  k <= 2
  <2>1. k \in Nat
    BY <1>2
  <2>2. SUFFICES ASSUME k > 2 PROVE FALSE
    BY <2>1
  <2>3. 2 ^ k \in Nat /\ 2 ^ k >= 8
    <3>1. 2 ^ k \in Nat
      BY <2>1, PowerNat
    <3>2. CASE k = 3
      BY <1>3, <3>1, <3>2
    <3>3. CASE k > 3
      <4>1. 3 \in Nat
        OBVIOUS
      <4>2. 2 * 2 ^ 3 <= 2 ^ k
        BY <2>1, <3>3, <4>1, PowerGrows
      <4> QED BY <1>3, <3>1, <4>2
    <3> QED BY <2>1, <2>2, <3>2, <3>3, <3>1
  <2>4. PICK b \in Nat : b = 2 ^ k
    BY <2>3
  <2>5. PICK q : q = node \div b
    OBVIOUS
  <2>6. b >= 8 /\ q \in Nat /\ b * q <= node
    <3>1. b >= 8
      BY <2>3, <2>4
    <3> QED BY <1>1, <2>5, <3>1, DivBelow
  <2>7. 8 * q <= b * q
    BY <2>6
  <2>8. q < Quarter
    <3>1. b * q \in Nat
      BY <2>6
    <3> QED BY <1>1, <2>6, <2>7, <3>1
  <2> QED BY <1>1, <1>5, <2>4, <2>5, <2>6, <2>8 DEF UsedNodes
<1>6. Ancestors(node) \cap UsedNodes \subseteq {node, node \div 2, node \div 4}
  <2>1. SUFFICES ASSUME NEW k \in 0 .. LevelOf(node), node \div 2 ^ k \in UsedNodes
                 PROVE  node \div 2 ^ k \in {node, node \div 2, node \div 4}
    BY DEF Ancestors
  <2>2. k \in {0, 1, 2}
    BY <1>2, <1>5, <2>1
  <2>3. node \div 1 = node
    BY <1>1
  <2> QED BY <1>3, <2>2, <2>3
<1> QED BY <1>4, <1>6
-----------------------------------------------------------------------------
(* The invariant.                                                          *)
(*                                                                         *)
(* With a careful client the tree says exactly what is in use, and no      *)
(* block in use lies in another.  With the shell the tree says nothing but *)
(* of the one block it may have: the rest may be what it has written.      *)

Block(root, node) ==
    [address |-> root * ALLOC_LIMIT + OffsetOf(node), node |-> node]

TreeIs(tree) ==
    /\ tree \subseteq UsedNodes
    /\ Quarter \in tree
    /\ \A n, m \in tree : n # m => Apart(n, m)

CarefulInv ==
    /\ g_BuddyTree \in [Roots -> SUBSET UsedNodes]
    /\ \A root \in Roots : TreeIs(g_BuddyTree[root])
    /\ inUse = UNION {{Block(root, node) : node \in g_BuddyTree[root]} : root \in Roots}

Leaf == 4 * Quarter
Written == 1 .. 2 * Quarter - 1
ShellInv ==
    /\ g_BuddyTree \in [Roots -> SUBSET Nodes]
    /\ \A root \in Roots : root # 0 => g_BuddyTree[root] = {}
    /\ \/ inUse = {} /\ g_BuddyTree[0] = {}
       \/ inUse = {Block(0, Leaf)} /\ \E text \in SUBSET Written : g_BuddyTree[0] = {Leaf} \cup text

IInv ==
    /\ client \in Clients
    /\ client = "careful" => CarefulInv
    /\ client = "shell" => ShellInv

LEMMA BlockFacts ==
    ASSUME NEW root \in Roots, NEW node \in UsedNodes
    PROVE  LET b == Block(root, node)
           IN  /\ b.node = node /\ b.address = Caculate_Mem(root, node)
               /\ b.address = root * ALLOC_LIMIT + OffsetOf(node)
               /\ RootOf(b.address) = root
               /\ b.address % ALLOC_LIMIT = OffsetOf(node)
               /\ BlockSize(LevelOf(b.node)) = SizeOf(node)
               /\ b.address \in 0 .. g_RootCount * ALLOC_LIMIT - 1
<1>1. OffsetOf(node) \in 0 .. ALLOC_LIMIT - 1
  BY UsedFacts, Powers
<1> QED BY <1>1, NodeFacts, AddressFacts DEF Block, RootOf

LEMMA BlockIs ==
    ASSUME NEW root \in Roots, NEW node \in UsedNodes, NEW r \in Roots, NEW n \in UsedNodes,
           Block(root, node) = Block(r, n)
    PROVE  root = r /\ node = n
<1> DEFINE b == Block(root, node)
           c == Block(r, n)
<1>1. RootOf(b.address) = root /\ b.node = node /\ RootOf(c.address) = r /\ c.node = n
  BY BlockFacts
<1> QED BY <1>1

\* Blocks of different roots, and blocks that are apart in one, are disjoint.
LEMMA Disjoint ==
    ASSUME NEW root \in Roots, NEW node \in UsedNodes, NEW r \in Roots, NEW n \in UsedNodes,
           root = r => Apart(node, n)
    PROVE  Extent(Block(root, node)) \cap Extent(Block(r, n)) = {}
<1>1. \A s \in Roots, m \in UsedNodes :
          Extent(Block(s, m)) = s * ALLOC_LIMIT + OffsetOf(m)
                                .. s * ALLOC_LIMIT + OffsetOf(m) + SizeOf(m) - 1
  BY BlockFacts DEF Extent, Memory
<1>2. ASSUME NEW s \in Roots, NEW m \in UsedNodes, NEW x \in Extent(Block(s, m))
      PROVE  x \div ALLOC_LIMIT = s /\ x % ALLOC_LIMIT \in OffsetOf(m) .. OffsetOf(m) + SizeOf(m) - 1
  <2>1. PICK off \in 0 .. ALLOC_LIMIT - 1 :
            x = s * ALLOC_LIMIT + off /\ off \in OffsetOf(m) .. OffsetOf(m) + SizeOf(m) - 1
    <3>1. PICK y : y = s * ALLOC_LIMIT
      OBVIOUS
    <3>2. y \in Int
      BY <3>1, Powers DEF Roots
    <3>3. x \in y + OffsetOf(m) .. y + OffsetOf(m) + SizeOf(m) - 1
      BY <1>1, <3>1
    <3>4. x - y \in OffsetOf(m) .. OffsetOf(m) + SizeOf(m) - 1 /\ x = y + (x - y)
          /\ x - y \in 0 .. ALLOC_LIMIT - 1
      BY <3>2, <3>3, UsedFacts, Powers
    <3> QED BY <3>1, <3>4
  <2> QED BY <2>1, AddressFacts
<1>3. ASSUME NEW x \in Extent(Block(root, node)), x \in Extent(Block(r, n))
      PROVE  FALSE
  <2>1. root = r
    BY <1>2, <1>3
  <2>2. PICK off : off = x % ALLOC_LIMIT
    OBVIOUS
  <2>3. off \in OffsetOf(node) .. OffsetOf(node) + SizeOf(node) - 1
        /\ off \in OffsetOf(n) .. OffsetOf(n) + SizeOf(n) - 1
    BY <1>2, <1>3, <2>2
  <2> QED BY <2>1, <2>3, UsedFacts DEF Apart
<1> QED BY <1>3

LEMMA NotEmpty ==
    ASSUME NEW root \in Roots, NEW node \in UsedNodes
    PROVE  LET e == Extent(Block(root, node))
           IN  /\ Block(root, node).address \in e
               /\ \E a \in 0 .. g_RootCount * ALLOC_LIMIT - 1, b \in 0 .. g_RootCount * ALLOC_LIMIT - 1 :
                      e = a .. b
<1> DEFINE a == root * ALLOC_LIMIT + OffsetOf(node)
           b == root * ALLOC_LIMIT + (OffsetOf(node) + SizeOf(node) - 1)
<1>1. OffsetOf(node) \in 0 .. ALLOC_LIMIT - 1 /\ OffsetOf(node) + SizeOf(node) - 1 \in 0 .. ALLOC_LIMIT - 1
      /\ SizeOf(node) \in {1, 2, 4}
  BY UsedFacts, Powers
<1>2. a \in 0 .. g_RootCount * ALLOC_LIMIT - 1 /\ b \in 0 .. g_RootCount * ALLOC_LIMIT - 1
  BY <1>1, AddressFacts
<1>3. Extent(Block(root, node)) = a .. a + SizeOf(node) - 1 /\ Block(root, node).address = a
  BY BlockFacts DEF Extent, Memory
<1>4. a + SizeOf(node) - 1 = b /\ a \in a .. b
  <2>1. root * ALLOC_LIMIT \in Int
    BY Powers DEF Roots
  <2> QED BY <1>1, <2>1
<1> QED BY <1>2, <1>3, <1>4

-----------------------------------------------------------------------------
(* k_malloc and k_free of a careful client.                                *)

LEMMA CarefulFacts ==
    ASSUME CarefulInv
    PROVE  /\ \A block \in inUse : \E root \in Roots, node \in UsedNodes :
                  node \in g_BuddyTree[root] /\ block = Block(root, node)
           /\ \A root \in Roots : \A node \in g_BuddyTree[root] :
                  node \in UsedNodes /\ Block(root, node) \in inUse
BY DEF CarefulInv, TreeIs

\* What FirstCandidate returns.
IsCandidate(root, node, size) ==
    root \in Roots /\ node \in NodesOf(Align_MemSize(size)) /\ Free(root, node)

LEMMA SomeCandidate ==
    ASSUME NEW size \in {1, 2, 3}, Candidates(size) # {}
    PROVE  /\ FirstCandidate(size) \in Candidates(size)
           /\ \A d \in Candidates(size) :
                  LET c == FirstCandidate(size)
                  IN  c[1] < d[1] \/ (c[1] = d[1] /\ c[2] <= d[2])
<1> DEFINE C == Candidates(size)
<1>1. \A c \in C : c[1] \in Nat /\ c[2] \in Nat
  BY Aligned, Powers DEF Candidates, Roots
<1> HIDE DEF C
<1>2. {c[1] : c \in C} \in SUBSET Nat /\ {c[1] : c \in C} # {}
  BY <1>1 DEF C
<1>3. PICK r \in {c[1] : c \in C} : \A x \in {c[1] : c \in C} : r <= x
  BY <1>2, LeastNat
<1> DEFINE N == {c[2] : c \in {d \in C : d[1] = r}}
<1>4. N \in SUBSET Nat /\ N # {}
  BY <1>1, <1>3
<1> HIDE DEF N
<1>5. PICK n \in N : \A x \in N : n <= x
  BY <1>4, LeastNat
<1>6. PICK c \in C : c[1] = r /\ c[2] = n
  BY <1>5 DEF N
<1>7. ASSUME NEW d \in C
      PROVE  c[1] < d[1] \/ (c[1] = d[1] /\ c[2] <= d[2])
  <2>1. r <= d[1] /\ r \in Nat /\ d[1] \in Nat
    BY <1>1, <1>3, <1>6
  <2>2. d[1] = r => n <= d[2]
    BY <1>5 DEF N
  <2> QED BY <1>6, <2>1, <2>2
<1>8. \E e \in C : \A d \in C : e[1] < d[1] \/ (e[1] = d[1] /\ e[2] <= d[2])
  BY <1>6, <1>7
<1> QED BY <1>8 DEF FirstCandidate, C

LEMMA FirstFacts ==
    ASSUME NEW size \in {1, 2, 3}, Candidates(size) # {}
    PROVE  IsCandidate(FirstCandidate(size)[1], FirstCandidate(size)[2], size)
<1>1. FirstCandidate(size) \in Candidates(size)
  BY SomeCandidate
<1> QED BY <1>1 DEF Candidates, IsCandidate

LEMMA AskedNode ==
    ASSUME NEW size \in {1, 2, 3}, NEW node \in NodesOf(Align_MemSize(size))
    PROVE  /\ node \in UsedNodes /\ node \in 2 * Quarter .. 8 * Quarter - 1
<1>1. CASE size = 1
  BY <1>1, Aligned, Powers DEF UsedNodes, SizeOf
<1>2. CASE size \in {2, 3}
  BY <1>2, Aligned, Powers DEF UsedNodes, SizeOf
<1> QED BY <1>1, <1>2

\* A block is free when it overlaps none that is in use, and only then.
LEMMA FreeMeansApart ==
    ASSUME CarefulInv, NEW root \in Roots, NEW node \in 2 * Quarter .. 8 * Quarter - 1
    PROVE  Free(root, node) <=> \A m \in g_BuddyTree[root] : Apart(node, m)
<1>1. Quarter \in Nat /\ Quarter >= 2 /\ node \in UsedNodes /\ g_BuddyTree[root] \subseteq UsedNodes
  BY Powers DEF UsedNodes, CarefulInv
<1>2. Nodes = 1 .. 8 * Quarter - 1
  BY Powers DEF Nodes
<1>3. ASSUME Free(root, node), NEW m \in g_BuddyTree[root]
      PROVE  Apart(node, m)
  <2>1. m \notin {node, node \div 2, node \div 4}
    BY <1>3, AncestorFacts DEF Free, Is_ParentAlloced
  <2>2. m \notin {2 * node, 2 * node + 1} \cap Nodes
    BY <1>3 DEF Free, Is_ChildAlloced
  <2>3. m \in Nat /\ m < 8 * Quarter /\ m \in Nodes
    BY <1>1, <1>2 DEF UsedNodes
  <2>4. node \notin {m, m \div 2, m \div 4}
    BY <1>1, <2>1, <2>2, <2>3
  <2> QED BY <1>1, <2>1, <2>4, Halving DEF Within
<1>4. ASSUME ~Free(root, node)
      PROVE  \E m \in g_BuddyTree[root] : ~Apart(node, m)
  <2>1. CASE Is_ParentAlloced(root, node)
    <3>1. PICK m \in g_BuddyTree[root] : m \in Ancestors(node)
      BY <2>1 DEF Is_ParentAlloced
    <3>2. m \in {node, node \div 2, node \div 4}
      BY <1>1, <3>1, AncestorFacts
    <3> QED BY <1>1, <3>2, Halving DEF Within
  <2>2. CASE Is_ChildAlloced(root, node)
    <3>1. PICK m \in g_BuddyTree[root] : m \in {node, 2 * node, 2 * node + 1}
      BY <2>2 DEF Is_ChildAlloced
    <3>2. node \in {m, m \div 2, m \div 4}
      BY <1>1, <3>1
    <3> QED BY <1>1, <3>2, Halving DEF Within
  <2> QED BY <1>4, <2>1, <2>2 DEF Free
<1> QED BY <1>3, <1>4
LEMMA CarefulMalloc ==
    ASSUME CarefulInv, NEW size \in {1, 2, 3}, k_malloc(size)
    PROVE  /\ CarefulInv'
           /\ \E root \in Roots, node \in UsedNodes :
                  /\ inUse' = inUse \cup {Block(root, node)}
                  /\ \A b \in inUse : Extent(b) \cap Extent(Block(root, node)) = {}
<1> DEFINE root == FirstCandidate(size)[1]
           node == FirstCandidate(size)[2]
<1>1. IsCandidate(root, node, size)
  BY FirstFacts DEF k_malloc
<1>2. /\ g_BuddyTree' = [g_BuddyTree EXCEPT ![root] = @ \cup {node}]
      /\ inUse' = inUse \cup {[address |-> Caculate_Mem(root, node), node |-> node]}
  BY DEF k_malloc
<1> HIDE DEF root, node
<1>3. root \in Roots /\ node \in UsedNodes /\ node \in 2 * Quarter .. 8 * Quarter - 1
  BY <1>1, AskedNode DEF IsCandidate
<1>4. inUse' = inUse \cup {Block(root, node)}
  BY <1>2, <1>3, NodeFacts DEF Block
<1>5. \A m \in g_BuddyTree[root] : Apart(node, m)
  BY <1>1, <1>3, FreeMeansApart DEF IsCandidate
<1>6. /\ g_BuddyTree' \in [Roots -> SUBSET UsedNodes]
      /\ g_BuddyTree'[root] = g_BuddyTree[root] \cup {node}
      /\ \A r \in Roots : r # root => g_BuddyTree'[r] = g_BuddyTree[r]
  BY <1>2, <1>3 DEF CarefulInv
<1>7. ASSUME NEW r \in Roots
      PROVE  TreeIs(g_BuddyTree'[r])
  <2>1. TreeIs(g_BuddyTree[r])
    BY DEF CarefulInv
  <2>2. CASE r = root
    <3>1. \A m \in g_BuddyTree[root] : Apart(m, node)
      BY <1>5 DEF Apart
    <3> QED BY <1>3, <1>5, <1>6, <2>1, <2>2, <3>1 DEF TreeIs
  <2> QED BY <1>6, <2>1, <2>2
<1>8. inUse' = UNION {{Block(r, n) : n \in g_BuddyTree'[r]} : r \in Roots}
  BY <1>3, <1>4, <1>6 DEF CarefulInv
<1>9. ASSUME NEW b \in inUse
      PROVE  Extent(b) \cap Extent(Block(root, node)) = {}
  <2>1. PICK r \in Roots, n \in UsedNodes : n \in g_BuddyTree[r] /\ b = Block(r, n)
    BY CarefulFacts
  <2>2. r = root => Apart(n, node)
    BY <1>5, <2>1 DEF Apart
  <2> QED BY <1>3, <2>1, <2>2, Disjoint
<1> QED BY <1>3, <1>4, <1>6, <1>7, <1>8, <1>9 DEF CarefulInv

\* Of the nodes whose block begins at an address in use, one is in the tree.
LEMMA CarefulFound ==
    ASSUME CarefulInv, NEW root \in Roots, NEW node \in g_BuddyTree[root]
    PROVE  LET address == Block(root, node).address
           IN  Found(address) = {node} /\ FreedNode(address) = node
<1> DEFINE address == Block(root, node).address
<1>1. node \in UsedNodes /\ node \in Nat /\ node \in Nodes
  BY UsedFacts DEF CarefulInv
<1>2. address = Caculate_Mem(root, node) /\ RootOf(address) = root
  BY <1>1, BlockFacts
<1>3. node \in Found(address)
  BY <1>1, <1>2 DEF Found, BeginsAt
<1> HIDE DEF address
<1>4. ASSUME NEW m \in Found(address)
      PROVE  m = node
  <2>1. m \in g_BuddyTree[root] /\ Caculate_Mem(root, m) = address
    BY <1>2 DEF Found, BeginsAt
  <2>2. m \in UsedNodes
    BY <2>1 DEF CarefulInv
  <2>3. root * ALLOC_LIMIT + OffsetOf(m) = root * ALLOC_LIMIT + OffsetOf(node)
    BY <1>1, <1>2, <2>1, <2>2, NodeFacts
  <2>4. OffsetOf(m) = OffsetOf(node)
    <3>1. root * ALLOC_LIMIT \in Int
      BY Powers DEF Roots
    <3> QED BY <1>1, <2>2, <2>3, <3>1, UsedFacts
  <2>5. ~Apart(m, node)
    BY <1>1, <2>2, <2>4, UsedFacts DEF Apart
  <2> QED BY <2>1, <2>5 DEF CarefulInv, TreeIs
<1>5. Found(address) = {node}
  BY <1>3, <1>4
<1>6. FreedNode(address) = node
  BY <1>1, <1>5 DEF FreedNode, Max
<1> QED BY <1>5, <1>6 DEF address

\* Freeing a block behind the tree clears nothing of it.
LEMMA ClearsNothing ==
    ASSUME NEW root \in Roots, NEW node \in UsedNodes, OffsetOf(node) >= 4
    PROVE  Cleared(root, Block(root, node).address, SizeOf(node)) = {}
<1>1. SUFFICES ASSUME NEW x \in Nodes,
                      root * ALLOC_LIMIT + x \div (BUDDY_MAXCOUNT \div TREE_BLOCKS)
                          \in Memory(Block(root, node).address, SizeOf(node))
               PROVE  FALSE
  BY DEF Cleared, NodesIn
<1>2. Quarter \in Nat \ {0} /\ BUDDY_MAXCOUNT = 8 * Quarter
  BY Powers
<1>3. BUDDY_MAXCOUNT \div TREE_BLOCKS = 2 * Quarter
  <2>1. 8 * Quarter = 4 * (2 * Quarter) + 0 /\ 0 \in 0 .. 4 - 1 /\ 2 * Quarter \in Int
    BY <1>2
  <2>2. (4 * (2 * Quarter) + 0) \div 4 = 2 * Quarter
    BY <2>1, Quotient
  <2> QED BY <1>2, <2>1, <2>2 DEF TREE_BLOCKS
<1>4. PICK k : k = x \div (2 * Quarter)
  OBVIOUS
<1>5. k \in Nat /\ k < 4
  <2>1. x \in Nat /\ x < 8 * Quarter /\ 2 * Quarter \in Nat \ {0}
    BY <1>2 DEF Nodes
  <2>2. k \in Nat /\ (2 * Quarter) * k <= x
    BY <1>4, <2>1, DivBelow
  <2>3. ASSUME k >= 4
        PROVE  FALSE
    <3>1. (2 * Quarter) * 4 <= (2 * Quarter) * k
      BY <1>2, <2>2, <2>3
    <3>2. (2 * Quarter) * k \in Nat /\ (2 * Quarter) * 4 = 8 * Quarter
      BY <1>2, <2>2
    <3> QED BY <2>1, <2>2, <3>1, <3>2
  <2> QED BY <2>2, <2>3
<1>6. PICK y \in Int : y = root * ALLOC_LIMIT
  BY Powers DEF Roots
<1>7. y + k >= y + OffsetOf(node)
  <2>1. y + k \in y + OffsetOf(node) .. y + OffsetOf(node) + SizeOf(node) - 1
    BY <1>1, <1>3, <1>4, <1>6, BlockFacts DEF Memory
  <2> QED BY <2>1
<1> QED BY <1>5, <1>6, <1>7, UsedFacts

LEMMA CarefulFree ==
    ASSUME CarefulInv, client = "careful", NEW block \in inUse, k_free(block)
    PROVE  CarefulInv'
<1>1. PICK root \in Roots, node \in UsedNodes : node \in g_BuddyTree[root] /\ block = Block(root, node)
  BY CarefulFacts
<1>2. RootOf(block.address) = root /\ FreedNode(block.address) = node
      /\ block.address % ALLOC_LIMIT = OffsetOf(node) /\ BlockSize(LevelOf(node)) = SizeOf(node)
  BY <1>1, BlockFacts, CarefulFound
<1>3. OffsetOf(node) >= 4 /\ node # Quarter
  <2>1. ~(OffsetOf(node) < 4)
    BY <1>2 DEF k_free, Reserved, TREE_BLOCKS
  <2> QED BY <2>1, UsedFacts, Powers DEF OffsetOf
<1>4. Cleared(root, block.address, SizeOf(node)) = {}
  BY <1>1, <1>3, ClearsNothing
<1>5. g_BuddyTree' = [g_BuddyTree EXCEPT ![root] = @ \ {node}] /\ inUse' = inUse \ {block}
  BY <1>2, <1>4 DEF k_free
<1>6. /\ g_BuddyTree' \in [Roots -> SUBSET UsedNodes]
      /\ g_BuddyTree'[root] = g_BuddyTree[root] \ {node}
      /\ \A r \in Roots : r # root => g_BuddyTree'[r] = g_BuddyTree[r]
  BY <1>5 DEF CarefulInv
<1>7. ASSUME NEW r \in Roots
      PROVE  TreeIs(g_BuddyTree'[r])
  <2>1. TreeIs(g_BuddyTree[r])
    BY DEF CarefulInv
  <2> QED BY <1>3, <1>6, <2>1 DEF TreeIs
<1>8. \A r \in Roots : \A n \in g_BuddyTree[r] : Block(r, n) = block => r = root /\ n = node
  BY <1>1, BlockIs, CarefulFacts
<1>9. inUse' = UNION {{Block(r, n) : n \in g_BuddyTree'[r]} : r \in Roots}
  BY <1>1, <1>5, <1>6, <1>8 DEF CarefulInv
<1> QED BY <1>6, <1>7, <1>9 DEF CarefulInv

-----------------------------------------------------------------------------
(* The shell.                                                              *)

LEMMA LeafFacts ==
    /\ Leaf \in UsedNodes /\ Leaf \in Nodes /\ Leaf \in Nat /\ 0 \in Roots
    /\ SizeOf(Leaf) = 1 /\ OffsetOf(Leaf) = 0
    /\ Block(0, Leaf) = [address |-> 0, node |-> Leaf]
    /\ RootOf(0) = 0 /\ Caculate_Mem(0, Leaf) = 0 /\ BlockSize(LevelOf(Leaf)) = 1
<1>1. Leaf \in UsedNodes /\ Leaf \in Nodes /\ Leaf \in Nat /\ 0 \in Roots /\ SizeOf(Leaf) = 1 /\ OffsetOf(Leaf) = 0
  BY Powers, BuddyAssumption DEF Leaf, UsedNodes, Nodes, Roots, SizeOf, OffsetOf
<1>2. 0 * ALLOC_LIMIT + 0 = 0
  BY Powers
<1> QED BY <1>1, <1>2, BlockFacts DEF Block

\* The bytes of the tree that lie in the block of the shell.
LEMMA WrittenBytes == NodesIn(0, Memory(0, 1)) = Written
<1>1. Quarter \in Nat \ {0} /\ BUDDY_MAXCOUNT = 8 * Quarter
  BY Powers
<1>2. BUDDY_MAXCOUNT \div TREE_BLOCKS = 2 * Quarter
  <2>1. 8 * Quarter = 4 * (2 * Quarter) + 0 /\ 0 \in 0 .. 4 - 1 /\ 2 * Quarter \in Int
    BY <1>1
  <2>2. (4 * (2 * Quarter) + 0) \div 4 = 2 * Quarter
    BY <2>1, Quotient
  <2> QED BY <1>1, <2>1, <2>2 DEF TREE_BLOCKS
<1>3. Memory(0, 1) = {0}
  BY DEF Memory
<1>4. ASSUME NEW x \in Nodes
      PROVE  0 * ALLOC_LIMIT + x \div (2 * Quarter) = 0 <=> x < 2 * Quarter
  <2>1. x \in Nat /\ 2 * Quarter \in Nat \ {0} /\ 0 * ALLOC_LIMIT = 0
    BY <1>1, Powers DEF Nodes
  <2>2. PICK q \in Nat : q = x \div (2 * Quarter)
    BY <2>1
  <2>3. CASE x < 2 * Quarter
    <3>1. x \in 0 .. 2 * Quarter - 1 /\ 0 \in Int /\ (2 * Quarter) * 0 + x = x
      BY <2>1, <2>3
    <3>2. ((2 * Quarter) * 0 + x) \div (2 * Quarter) = 0
      BY <2>1, <3>1, Quotient
    <3> QED BY <2>1, <2>3, <3>1, <3>2
  <2>4. CASE x >= 2 * Quarter
    <3>1. q >= 1
      <4>1. 1 * (2 * Quarter) <= x /\ 1 \in Nat
        BY <2>1, <2>4
      <4> QED BY <2>1, <2>2, <4>1, DivAtLeast
    <3> QED BY <2>1, <2>2, <2>4, <3>1
  <2> QED BY <2>1, <2>3, <2>4
<1>5. \A x \in Nodes : x < 2 * Quarter <=> x \in Written
  BY <1>1 DEF Nodes, Written
<1>6. Written \subseteq Nodes
  BY <1>1 DEF Nodes, Written
<1> QED BY <1>2, <1>3, <1>4, <1>5, <1>6 DEF NodesIn
LEMMA ShellEmpty ==
    ASSUME ShellInv, inUse = {}, NEW size \in {1, 2, 3}
    PROVE  /\ \A root \in Roots : g_BuddyTree[root] = {}
           /\ Candidates(size) = Roots \X NodesOf(Align_MemSize(size))
<1>1. Block(0, Leaf) \in {Block(0, Leaf)}
  OBVIOUS
<1>2. \A root \in Roots : g_BuddyTree[root] = {}
  BY <1>1 DEF ShellInv
<1>3. \A root \in Roots : \A node : Free(root, node)
  BY <1>2 DEF Free, Is_ParentAlloced, Is_ChildAlloced
<1> QED BY <1>2, <1>3 DEF Candidates

LEMMA ShellMalloc ==
    ASSUME ShellInv, client = "shell", NEW size \in {1, 2, 3}, k_malloc(size)
    PROVE  ShellInv' /\ inUse = {} /\ inUse' = {Block(0, Leaf)}
<1>1. inUse = {} /\ size = 1
  BY DEF k_malloc, Asks, LEAST_LIMIT
<1>2. Candidates(1) = Roots \X (4 * Quarter .. 8 * Quarter - 1) /\ \A root \in Roots : g_BuddyTree[root] = {}
  BY <1>1, ShellEmpty, Aligned
<1> DEFINE c == FirstCandidate(1)
<1>3. c \in Candidates(1) /\ \A d \in Candidates(1) : c[1] < d[1] \/ (c[1] = d[1] /\ c[2] <= d[2])
  BY <1>1, SomeCandidate DEF k_malloc
<1>4. /\ g_BuddyTree' = [g_BuddyTree EXCEPT ![c[1]] = @ \cup {c[2]}]
      /\ inUse' = inUse \cup {[address |-> Caculate_Mem(c[1], c[2]), node |-> c[2]]}
  BY <1>1 DEF k_malloc
<1> HIDE DEF c
<1>5. c[1] = 0 /\ c[2] = Leaf
  <2>1. <<0, Leaf>> \in Candidates(1)
    BY <1>2, LeafFacts, Powers DEF Leaf
  <2>2. c[1] \in Nat /\ c[2] \in Nat /\ c[2] >= Leaf /\ Leaf \in Nat
    BY <1>2, <1>3, LeafFacts, Powers DEF Leaf, Roots
  <2>3. c[1] < 0 \/ (c[1] = 0 /\ c[2] <= Leaf)
    BY <1>3, <2>1
  <2> QED BY <2>2, <2>3
<1>6. inUse' = {Block(0, Leaf)}
  BY <1>1, <1>4, <1>5, LeafFacts
<1>7. /\ g_BuddyTree' \in [Roots -> SUBSET Nodes]
      /\ g_BuddyTree'[0] = {Leaf} \cup {}
      /\ \A root \in Roots : root # 0 => g_BuddyTree'[root] = {}
  BY <1>2, <1>4, <1>5, LeafFacts DEF ShellInv
<1>8. {} \in SUBSET Written
  OBVIOUS
<1> QED BY <1>1, <1>6, <1>7, <1>8 DEF ShellInv

\* Walking up from the leaf, the leaf comes before what the shell has written.
LEMMA ShellFound ==
    ASSUME ShellInv, inUse # {}
    PROVE  Found(0) # {} /\ FreedNode(0) = Leaf
<1>1. PICK text \in SUBSET Written : g_BuddyTree[0] = {Leaf} \cup text
  BY DEF ShellInv
<1>2. Leaf \in Found(0)
  BY <1>1, LeafFacts DEF Found, BeginsAt
<1>3. \A m \in Found(0) : m \in Nat /\ (m = Leaf \/ m < Leaf)
  <2>1. Found(0) \subseteq {Leaf} \cup Written
    BY <1>1, LeafFacts DEF Found
  <2>2. \A m \in Written : m \in Nat /\ m < Leaf
    BY Powers DEF Written, Leaf
  <2> QED BY <2>1, <2>2, LeafFacts
<1>4. \A x \in Found(0) : (\A y \in Found(0) : x >= y) => x = Leaf
  BY <1>2, <1>3, LeafFacts
<1>5. \A y \in Found(0) : Leaf >= y
  BY <1>3, LeafFacts
<1> QED BY <1>2, <1>4, <1>5 DEF FreedNode, Max

LEMMA ShellFree ==
    ASSUME ShellInv, NEW block \in inUse, k_free(block)
    PROVE  ShellInv' /\ inUse' = inUse \ {block}
<1>1. block = Block(0, Leaf) /\ inUse = {block} /\ block.address = 0
  BY LeafFacts DEF ShellInv
<1>2. PICK text \in SUBSET Written : g_BuddyTree[0] = {Leaf} \cup text
  BY <1>1 DEF ShellInv
<1>3. RootOf(block.address) = 0 /\ FreedNode(block.address) = Leaf
      /\ Cleared(0, 0, BlockSize(LevelOf(Leaf))) = Written
  BY <1>1, LeafFacts, ShellFound, WrittenBytes DEF Cleared
<1>4. g_BuddyTree' = [g_BuddyTree EXCEPT ![0] = (@ \ {Leaf}) \ Written] /\ inUse' = inUse \ {block}
  BY <1>1, <1>3 DEF k_free
<1>5. /\ g_BuddyTree' \in [Roots -> SUBSET Nodes]
      /\ g_BuddyTree'[0] = {}
      /\ \A root \in Roots : root # 0 => g_BuddyTree'[root] = {}
  BY <1>2, <1>4, LeafFacts DEF ShellInv
<1> QED BY <1>1, <1>4, <1>5 DEF ShellInv

LEMMA ShellWrite ==
    ASSUME ShellInv, NEW block \in inUse, WriteBlock(block)
    PROVE  ShellInv'
<1>1. block = Block(0, Leaf) /\ inUse = {block} /\ block.address = 0 /\ block.node = Leaf
  BY LeafFacts DEF ShellInv
<1>2. PICK old \in SUBSET Written : g_BuddyTree[0] = {Leaf} \cup old
  BY <1>1 DEF ShellInv
<1>3. NodesIn(RootOf(block.address), Memory(block.address, BlockSize(LevelOf(block.node)))) = Written
      /\ RootOf(block.address) = 0
  BY <1>1, LeafFacts, WrittenBytes
<1>4. PICK text \in SUBSET Written :
          g_BuddyTree' = [g_BuddyTree EXCEPT ![0] = (@ \ Written) \cup text]
  BY <1>3 DEF WriteBlock
<1>5. Written \subseteq Nodes /\ Leaf \notin Written
  BY Powers DEF Written, Nodes, Leaf
<1>6. /\ g_BuddyTree' \in [Roots -> SUBSET Nodes]
      /\ g_BuddyTree'[0] = {Leaf} \cup text
      /\ \A root \in Roots : root # 0 => g_BuddyTree'[root] = {}
  BY <1>2, <1>4, <1>5, LeafFacts DEF ShellInv
<1>7. inUse' = inUse
  BY DEF WriteBlock
<1> QED BY <1>1, <1>6, <1>7 DEF ShellInv

-----------------------------------------------------------------------------
(* The invariant holds.                                                    *)

LEMMA BuddyInit == KeepsTrees /\ Init => IInv
<1> SUFFICES ASSUME KeepsTrees, Init PROVE IInv
  OBVIOUS
<1>1. client \in Clients /\ client \in {"shell", "careful"}
  BY DEF Init, KeepsTrees
<1>2. CASE client = "careful"
  <2>1. Quarter \in UsedNodes
    BY DEF UsedNodes
  <2>2. ALLOC_LIMIT \div TREE_BLOCKS = Quarter
    <3>1. 4 * Quarter + 0 = ALLOC_LIMIT /\ Quarter \in Int /\ 0 \in 0 .. 4 - 1
      BY Powers
    <3>2. (4 * Quarter + 0) \div 4 = Quarter
      BY <3>1, Quotient
    <3> QED BY <3>1, <3>2 DEF TREE_BLOCKS
  <2>3. g_BuddyTree = [root \in Roots |-> {Quarter}]
    BY <1>2, <2>2 DEF Init
  <2>4. \A root \in Roots : Block(root, Quarter) =
            [address |-> root * ALLOC_LIMIT, node |-> ALLOC_LIMIT \div TREE_BLOCKS]
    <3> TAKE root \in Roots
    <3>1. OffsetOf(Quarter) = 0
      BY Powers DEF OffsetOf, SizeOf
    <3>2. root * ALLOC_LIMIT + 0 = root * ALLOC_LIMIT
      BY Powers DEF Roots
    <3> QED BY <2>2, <3>1, <3>2 DEF Block
  <2>5. inUse = {Block(root, Quarter) : root \in Roots}
    BY <1>2, <2>4 DEF Init, TreeBlocks
  <2>6. inUse = UNION {{Block(root, node) : node \in g_BuddyTree[root]} : root \in Roots}
    BY <2>3, <2>5
  <2>7. CarefulInv
    BY <2>1, <2>3, <2>6 DEF CarefulInv, TreeIs
  <2> QED BY <1>1, <1>2, <2>7 DEF IInv
<1>3. CASE client = "shell"
  <2>1. inUse = {} /\ g_BuddyTree = [root \in Roots |-> {}] /\ 0 \in Roots
    BY <1>3, LeafFacts DEF Init
  <2> QED BY <1>1, <1>3, <2>1 DEF IInv, ShellInv
<1> QED BY <1>1, <1>2, <1>3

\* What a step does to the blocks in use.
Allocates(block) ==
    /\ \E root \in Roots, node \in UsedNodes : block = Block(root, node)
    /\ inUse' = inUse \cup {block}
    /\ \A b \in inUse : Extent(b) \cap Extent(block) = {}

LEMMA BuddySteps ==
    ASSUME SmallSizes, KeepsTrees, IInv, [Next]_vars
    PROVE  /\ IInv'
           /\ \/ UNCHANGED inUse
              \/ \E block : Allocates(block)
              \/ \E block \in inUse : inUse' = inUse \ {block}
<1>1. client \in {"shell", "careful"} /\ client' = client /\ client \in Clients
  BY DEF KeepsTrees, IInv, Next, vars, k_malloc, k_free, WriteBlock
<1>2. ASSUME NEW size \in Sizes, k_malloc(size)
      PROVE  IInv' /\ \E block : Allocates(block)
  <2>1. size \in {1, 2, 3}
    BY BuddyAssumption DEF SmallSizes, LEAST_LIMIT
  <2>2. CASE client = "careful"
    <3>1. CarefulInv' /\ \E root \in Roots, node \in UsedNodes :
              /\ inUse' = inUse \cup {Block(root, node)}
              /\ \A b \in inUse : Extent(b) \cap Extent(Block(root, node)) = {}
      BY <1>2, <2>1, <2>2, CarefulMalloc DEF IInv
    <3> QED BY <1>1, <2>2, <3>1 DEF IInv, Allocates
  <2>3. CASE client = "shell"
    <3>1. ShellInv' /\ inUse = {} /\ inUse' = {Block(0, Leaf)}
      BY <1>2, <2>1, <2>3, ShellMalloc DEF IInv
    <3>2. Allocates(Block(0, Leaf))
      BY <3>1, LeafFacts DEF Allocates
    <3> QED BY <1>1, <2>3, <3>1, <3>2 DEF IInv
  <2> QED BY <1>1, <2>2, <2>3
<1>3. ASSUME NEW block \in inUse, k_free(block)
      PROVE  IInv' /\ inUse' = inUse \ {block}
  <2>1. CASE client = "careful"
    <3>1. CarefulInv'
      BY <1>3, <2>1, CarefulFree DEF IInv
    <3> QED BY <1>1, <1>3, <2>1, <3>1 DEF IInv, k_free
  <2>2. CASE client = "shell"
    <3>1. ShellInv' /\ inUse' = inUse \ {block}
      BY <1>3, <2>2, ShellFree DEF IInv
    <3> QED BY <1>1, <2>2, <3>1 DEF IInv
  <2> QED BY <1>1, <2>1, <2>2
<1>4. ASSUME NEW block \in inUse, WriteBlock(block)
      PROVE  IInv' /\ UNCHANGED inUse
  <2>1. client = "shell" /\ ShellInv
    BY <1>4 DEF WriteBlock, IInv
  <2>2. ShellInv'
    BY <1>4, <2>1, ShellWrite
  <2> QED BY <1>1, <1>4, <2>1, <2>2 DEF IInv, WriteBlock
<1>5. CASE UNCHANGED vars
  BY <1>5 DEF vars, IInv, CarefulInv, TreeIs, ShellInv
<1> QED BY <1>2, <1>3, <1>4, <1>5 DEF Next

THEOREM BuddyInvariant ==
    ASSUME SmallSizes, KeepsTrees
    PROVE  Spec => []IInv
<1>1. Init => IInv
  BY BuddyInit
<1>2. IInv /\ [Next]_vars => IInv'
  BY BuddySteps
<1> QED BY <1>1, <1>2, PTL DEF Spec
-----------------------------------------------------------------------------
(* What follows from it.                                                   *)

\* A block in use: its node is in the tree, and k_free finds it.
LEMMA InUseFacts ==
    ASSUME IInv, KeepsTrees, NEW block \in inUse
    PROVE  \E root \in Roots, node \in UsedNodes :
               /\ block = Block(root, node) /\ node \in g_BuddyTree[root]
               /\ Found(block.address) # {} /\ FreedNode(block.address) = node
<1>1. CASE client = "careful"
  <2>1. PICK root \in Roots, node \in UsedNodes : node \in g_BuddyTree[root] /\ block = Block(root, node)
    BY <1>1, CarefulFacts DEF IInv
  <2>2. Found(block.address) = {node} /\ FreedNode(block.address) = node
    BY <1>1, <2>1, CarefulFound DEF IInv
  <2> QED BY <2>1, <2>2
<1>2. CASE client = "shell"
  <2>1. block = Block(0, Leaf) /\ Leaf \in g_BuddyTree[0] /\ block.address = 0
    BY <1>2, LeafFacts DEF IInv, ShellInv
  <2>2. Found(0) # {} /\ FreedNode(0) = Leaf
    BY <1>2, ShellFound DEF IInv
  <2> QED BY <2>1, <2>2, LeafFacts
<1> QED BY <1>1, <1>2 DEF IInv, KeepsTrees

\* The roots, the nodes and the addresses the allocator handles are ones it has.
THEOREM BuddyTypes ==
    ASSUME SmallSizes, KeepsTrees
    PROVE  Spec => []TypeOK
<1>1. IInv => TypeOK
  <2> SUFFICES ASSUME IInv PROVE TypeOK
    OBVIOUS
  <2>1. UsedNodes \subseteq Nodes
    BY UsedFacts
  <2>2. g_BuddyTree \in [Roots -> SUBSET Nodes]
    BY <2>1 DEF IInv, KeepsTrees, CarefulInv, ShellInv
  <2>3. ASSUME NEW block \in inUse
        PROVE  block \in Blocks
    <3>1. PICK root \in Roots, node \in UsedNodes : block = Block(root, node)
      BY InUseFacts
    <3>2. /\ block = [address |-> block.address, node |-> block.node]
          /\ block.node \in Nodes /\ block.address \in 0 .. g_RootCount * ALLOC_LIMIT - 1
      BY <2>1, <3>1, BlockFacts DEF Block
    <3> QED BY <3>2 DEF Blocks
  <2> QED BY <2>2, <2>3 DEF TypeOK, IInv
<1> QED BY <1>1, BuddyInvariant, PTL

(* Every block in use has its flag set, so that none is handed out twice,  *)
(* whatever the shell writes in the block its tree lies in.                *)
THEOREM FlagsKept ==
    ASSUME SmallSizes, KeepsTrees
    PROVE  Spec => []FlagMeansAllocated
<1>1. IInv => FlagMeansAllocated
  BY InUseFacts, BlockFacts DEF FlagMeansAllocated
<1> QED BY <1>1, BuddyInvariant, PTL

(* k_free, which is given no size, ends at the block that was handed out.  *)
THEOREM FreesWhatWasGiven ==
    ASSUME SmallSizes, KeepsTrees
    PROVE  Spec => []FreeFindsBlock
<1>1. IInv => FreeFindsBlock
  BY InUseFacts, BlockFacts DEF FreeFindsBlock
<1> QED BY <1>1, BuddyInvariant, PTL

(* A request is refused only when every block of its size overlaps one in  *)
(* use: nothing the allocator once gave is lost.                           *)
THEOREM NothingLost ==
    ASSUME SmallSizes, KeepsTrees
    PROVE  Spec => []RefusedOnlyWhenFull
<1>1. ASSUME IInv, NEW size \in Sizes, Asks(size), Candidates(size) = {},
             NEW root \in Roots, NEW node \in NodesOf(Align_MemSize(size))
      PROVE  \E block \in inUse :
                 Extent(block) \cap Memory(Caculate_Mem(root, node), BlockSize(LevelOf(node))) # {}
  <2>1. size \in {1, 2, 3}
    BY BuddyAssumption DEF SmallSizes, LEAST_LIMIT
  <2>2. node \in UsedNodes /\ node \in 2 * Quarter .. 8 * Quarter - 1
    BY <2>1, AskedNode
  <2>3. CASE client = "shell"
    <3>1. <<root, node>> \in Candidates(size)
      BY <1>1, <2>1, <2>3, ShellEmpty DEF IInv, Asks
    <3> QED BY <1>1, <3>1
  <2>4. CASE client = "careful"
    <3>1. CarefulInv
      BY <1>1, <2>4 DEF IInv
    <3>2. ~Free(root, node)
      <4>1. Free(root, node) => <<root, node>> \in Candidates(size)
        BY DEF Candidates
      <4> QED BY <1>1, <4>1
    <3>3. PICK m \in g_BuddyTree[root] : ~Apart(node, m)
      BY <2>2, <3>1, <3>2, FreeMeansApart
    <3>4. m \in UsedNodes /\ Block(root, m) \in inUse
      BY <3>1, CarefulFacts
    <3>5. PICK y \in Int : y = root * ALLOC_LIMIT
      BY Powers DEF Roots
    <3>6. Extent(Block(root, m)) = y + OffsetOf(m) .. y + OffsetOf(m) + SizeOf(m) - 1
      BY <3>4, <3>5, BlockFacts DEF Extent, Memory
    <3>7. Memory(Caculate_Mem(root, node), BlockSize(LevelOf(node)))
              = y + OffsetOf(node) .. y + OffsetOf(node) + SizeOf(node) - 1
      BY <2>2, <3>5, NodeFacts DEF Memory
    <3>8. \E x \in Int : x \in y + OffsetOf(m) .. y + OffsetOf(m) + SizeOf(m) - 1
                         /\ x \in y + OffsetOf(node) .. y + OffsetOf(node) + SizeOf(node) - 1
      <4>1. OffsetOf(m) \in Nat /\ SizeOf(m) \in {1, 2, 4} /\ OffsetOf(node) \in Nat /\ SizeOf(node) \in {1, 2, 4}
        BY <2>2, <3>4, UsedFacts
      <4>2. CASE OffsetOf(m) <= OffsetOf(node)
        <5>1. y + OffsetOf(node) \in y + OffsetOf(m) .. y + OffsetOf(m) + SizeOf(m) - 1
              /\ y + OffsetOf(node) \in y + OffsetOf(node) .. y + OffsetOf(node) + SizeOf(node) - 1
          BY <3>3, <4>1, <4>2 DEF Apart
        <5> QED BY <4>1, <5>1
      <4>3. CASE OffsetOf(node) <= OffsetOf(m)
        <5>1. y + OffsetOf(m) \in y + OffsetOf(m) .. y + OffsetOf(m) + SizeOf(m) - 1
              /\ y + OffsetOf(m) \in y + OffsetOf(node) .. y + OffsetOf(node) + SizeOf(node) - 1
          BY <3>3, <4>1, <4>3 DEF Apart
        <5> QED BY <4>1, <5>1
      <4> QED BY <4>1, <4>2, <4>3
    <3> QED BY <3>4, <3>6, <3>7, <3>8
  <2> QED BY <1>1, <2>3, <2>4 DEF IInv, KeepsTrees
<1>2. IInv => RefusedOnlyWhenFull
  BY <1>1 DEF RefusedOnlyWhenFull
<1> QED BY <1>2, BuddyInvariant, PTL

-----------------------------------------------------------------------------
(* The allocator implements Heap.                                          *)

LEMMA ExtentsApart ==
    ASSUME IInv, KeepsTrees, NEW a \in inUse, NEW b \in inUse, a # b
    PROVE  Extent(a) \cap Extent(b) = {}
<1>1. CASE client = "careful"
  <2>1. PICK r \in Roots, n \in UsedNodes : n \in g_BuddyTree[r] /\ a = Block(r, n)
    BY <1>1, CarefulFacts DEF IInv
  <2>2. PICK s \in Roots, m \in UsedNodes : m \in g_BuddyTree[s] /\ b = Block(s, m)
    BY <1>1, CarefulFacts DEF IInv
  <2>3. r = s => Apart(n, m)
    BY <1>1, <2>1, <2>2 DEF IInv, CarefulInv, TreeIs
  <2> QED BY <2>1, <2>2, <2>3, Disjoint
<1>2. CASE client = "shell"
  BY <1>2 DEF IInv, ShellInv
<1> QED BY <1>1, <1>2 DEF IInv, KeepsTrees

(* Blocks in use never overlap, and giving one back leaves the others.     *)
THEOREM HeapImplemented ==
    ASSUME SmallSizes, KeepsTrees
    PROVE  Spec => ImplementsHeap
<1> DEFINE used == {Extent(block) : block \in inUse}
<1>1. IInv => Abstract!HeapInit
  BY ExtentsApart DEF Abstract!HeapInit
<1>2. ASSUME IInv, [Next]_vars
      PROVE  [Abstract!HeapNext]_used
  <2>1. CASE UNCHANGED inUse
    BY <2>1
  <2>2. ASSUME NEW block, Allocates(block)
        PROVE  Abstract!HeapNext
    <3>1. PICK root \in Roots, node \in UsedNodes : block = Block(root, node)
      BY <2>2 DEF Allocates
    <3>2. PICK a \in Abstract!Addresses, b \in Abstract!Addresses : Extent(block) = a .. b
      BY <3>1, NotEmpty DEF Abstract!Addresses
    <3>3. Extent(block) # {}
      BY <3>1, NotEmpty
    <3>4. Extent(block) \subseteq Abstract!Addresses
      BY <3>2, Powers, BuddyAssumption DEF Abstract!Addresses
    <3>5. inUse' = inUse \cup {block} /\ \A c \in inUse : Extent(c) \cap Extent(block) = {}
      BY <2>2 DEF Allocates
    <3>6. used' = used \cup {Extent(block)}
      BY <3>5
    <3>7. Abstract!Allocate(Extent(block))
      BY <3>3, <3>4, <3>5, <3>6 DEF Abstract!Allocate
    <3> QED BY <3>2, <3>7 DEF Abstract!HeapNext
  <2>3. ASSUME NEW block \in inUse, inUse' = inUse \ {block}
        PROVE  Abstract!HeapNext
    <3>1. \A c \in inUse : Extent(c) # {}
      BY <1>2, InUseFacts, NotEmpty
    <3>2. \A c \in inUse : c # block => Extent(c) # Extent(block)
      BY <1>2, <3>1, ExtentsApart
    <3>3. used' = used \ {Extent(block)}
      BY <2>3, <3>2
    <3>4. Abstract!Release(Extent(block))
      BY <3>3 DEF Abstract!Release
    <3> QED BY <3>4 DEF Abstract!HeapNext
  <2> QED BY <1>2, <2>1, <2>2, <2>3, BuddySteps
<1> QED BY <1>1, <1>2, BuddyInvariant, PTL DEF Spec, ImplementsHeap, Abstract!HeapSpec
=============================================================================
