----------------------------- MODULE BuddyMemory -----------------------------
(***************************************************************************)
(* The buddy allocator (Memory.c).  Memory is cut into roots of            *)
(* ALLOC_LIMIT bytes, each halved down to blocks of LEAST_LIMIT bytes,     *)
(* here the unit of size and address.  The tree of a root has one byte for *)
(* each block, node 1 for the whole root and nodes 2n and 2n + 1 for the   *)
(* halves of node n; the byte says whether the block is allocated.         *)
(*                                                                         *)
(* Init_KernelMemory puts the trees at KMEM_ADDR, where Caculate_Mem has   *)
(* the memory begin, so the tree of a root lies in its own first four      *)
(* blocks: who writes to these, or frees them, writes to the tree.         *)
(***************************************************************************)
EXTENDS Integers, FiniteSets, FiniteSetsExt

CONSTANTS
    Depth,          \* level of the smallest blocks (11)
    g_RootCount,    \* number of roots
    Sizes,          \* the sizes asked for, in blocks of LEAST_LIMIT (bound: see README)
    Clients         \* who uses the allocator, out of ClientKinds

\* shell:   one block of LEAST_LIMIT at a time, in which it writes what it likes
\*          (an argument of the command line), the only use in the kernel
\* careful: has allocated the blocks the trees lie in, and keeps them unwritten
\* any:     any number of blocks of LEAST_LIMIT, which it does not even write
ClientKinds == {"shell", "careful", "any"}

LEAST_LIMIT == 1
ALLOC_LIMIT == 2 ^ Depth
BUDDY_MAXCOUNT == 2 * ALLOC_LIMIT
TREE_BLOCKS == 4

ASSUME BuddyAssumption ==
    /\ Depth \in Nat /\ Depth >= 3
    /\ g_RootCount \in Nat \ {0}
    /\ \A size \in Sizes : size \in LEAST_LIMIT .. ALLOC_LIMIT
    /\ Clients \subseteq ClientKinds

Roots == 0 .. g_RootCount - 1
Levels == 0 .. Depth
NodesOf(level) == 2 ^ level .. 2 ^ (level + 1) - 1
Nodes == 1 .. BUDDY_MAXCOUNT - 1

VARIABLES
    g_BuddyTree,    \* for each root the nodes whose byte has BUDDYFLAG_ALLOCED
    inUse,          \* blocks handed out and not given back
    client

vars == <<g_BuddyTree, inUse, client>>

-----------------------------------------------------------------------------
(* Sizes and addresses.                                                    *)

BlockSize(level) == ALLOC_LIMIT \div 2 ^ level
LevelOf(node) == CHOOSE level \in Levels : node \in NodesOf(level)

\* Align_MemSize halves ALLOC_LIMIT until it is no larger than the size, so a
\* size that is no power of two gets a smaller block.
Align_MemSize(size) == Min({level \in Levels : BlockSize(level) <= size})

\* Caculate_Mem: where the block of a node begins.
Caculate_Mem_Slip(root, node) ==
    LET level == LevelOf(node)
    IN  root * ALLOC_LIMIT + BlockSize(level) * (node - 2 ^ level + 1)
Caculate_Mem(root, node) ==
    LET level == LevelOf(node)
    IN  root * ALLOC_LIMIT + BlockSize(level) * (node - 2 ^ level)
Memory(address, size) == address .. address + size - 1

\* The nodes of a root whose bytes lie in a range of memory.
NodesIn(root, memory) ==
    LET perBlock == BUDDY_MAXCOUNT \div TREE_BLOCKS
    IN  {node \in Nodes : root * ALLOC_LIMIT + node \div perBlock \in memory}

-----------------------------------------------------------------------------
(* k_malloc.                                                               *)

Ancestors(node) == {node \div 2 ^ k : k \in 0 .. LevelOf(node)}
Is_ParentAlloced_Slip(root, node) == node \in g_BuddyTree[root]
Is_ParentAlloced(root, node) == Ancestors(node) \cap g_BuddyTree[root] # {}
\* Only the two halves are asked, not what they are divided into.
Is_ChildAlloced_Slip(root, node) == node \in g_BuddyTree[root]
Is_ChildAlloced(root, node) ==
    LET halves == {2 * node, 2 * node + 1} \cap Nodes
    IN  ({node} \cup halves) \cap g_BuddyTree[root] # {}

Free(root, node) == ~Is_ParentAlloced(root, node) /\ ~Is_ChildAlloced(root, node)
Candidates(size) ==
    {c \in Roots \X NodesOf(Align_MemSize(size)) : Free(c[1], c[2])}

\* The first in the order of roots, and in a root of nodes.
FirstCandidate(size) ==
    CHOOSE c \in Candidates(size) : \A d \in Candidates(size) :
        c[1] < d[1] \/ (c[1] = d[1] /\ c[2] <= d[2])

\* Bounds: what the client asks for.
Asks(size) ==
    /\ client = "shell" => inUse = {} /\ size = LEAST_LIMIT
    /\ client = "any" => size = LEAST_LIMIT

k_malloc(size) ==
    LET root == FirstCandidate(size)[1]
        node == FirstCandidate(size)[2]
    IN  /\ Asks(size)
        /\ Candidates(size) # {}
        /\ g_BuddyTree' = [g_BuddyTree EXCEPT ![root] = @ \cup {node}]
        /\ inUse' = inUse \cup {[address |-> Caculate_Mem(root, node), node |-> node]}
        /\ UNCHANGED client

-----------------------------------------------------------------------------
(* k_free: from the smallest block that begins at the address upwards,     *)
(* the first that is allocated.                                            *)
RootOf(address) == address \div ALLOC_LIMIT
BeginsAt(address) == {node \in Nodes : Caculate_Mem(RootOf(address), node) = address}
Found(address) == BeginsAt(address) \cap g_BuddyTree[RootOf(address)]
FreedNode_Slip(address) == Min(Found(address))
FreedNode(address) == Max(Found(address))

\* Free_Buddy clears the memory of the block, and what lies in it of the tree.
Cleared_Slip(root, address, size) == {}
Cleared(root, address, size) == NodesIn(root, Memory(address, size))

Reserved(block) == client = "careful" /\ block.address % ALLOC_LIMIT < TREE_BLOCKS

k_free(block) ==
    LET root == RootOf(block.address)
        node == FreedNode(block.address)
    IN  /\ ~Reserved(block)
        /\ Found(block.address) # {}
        /\ g_BuddyTree' = [g_BuddyTree EXCEPT ![root] =
              (@ \ {node}) \ Cleared(root, block.address, BlockSize(LevelOf(node)))]
        /\ inUse' = inUse \ {block}
        /\ UNCHANGED client

-----------------------------------------------------------------------------
(* The shell writes an argument into its block: the bytes of the tree that *)
(* lie there get any value.                                                *)
WriteBlock(block) ==
    LET root == RootOf(block.address)
        bytes == NodesIn(root, Memory(block.address, BlockSize(LevelOf(block.node))))
    IN  /\ client = "shell"
        /\ \E text \in SUBSET bytes :
              g_BuddyTree' = [g_BuddyTree EXCEPT ![root] = (@ \ bytes) \cup text]
        /\ UNCHANGED <<inUse, client>>

\* The blocks of the trees, which a careful client has got before and keeps.
TreeBlocks ==
    {[address |-> root * ALLOC_LIMIT, node |-> ALLOC_LIMIT \div TREE_BLOCKS]
        : root \in Roots}

(* Init_KernelMemory, and the calls a careful client starts with.          *)
Init ==
    /\ client \in Clients
    /\ inUse = IF client = "careful" THEN TreeBlocks ELSE {}
    /\ g_BuddyTree = [root \in Roots |-> IF client = "careful" THEN {ALLOC_LIMIT \div TREE_BLOCKS} ELSE {}]

Next == \/ \E size \in Sizes : k_malloc(size)
        \/ \E block \in inUse : k_free(block) \/ WriteBlock(block)

Spec == Init /\ [][Next]_vars

-----------------------------------------------------------------------------
Blocks == [address : 0 .. g_RootCount * ALLOC_LIMIT - 1, node : Nodes]
TypeOK ==
    /\ g_BuddyTree \in [Roots -> SUBSET Nodes]
    /\ inUse \subseteq Blocks
    /\ client \in Clients

Extent(block) == Memory(block.address, BlockSize(LevelOf(block.node)))

(* Every block in use has its flag set (Memory.h says of the flag that it  *)
(* means allocated).  If it were lost the block would be handed out again. *)
FlagMeansAllocated ==
    \A block \in inUse : block.node \in g_BuddyTree[RootOf(block.address)]

(* No flag is left behind: what is not in use can be allocated, and a      *)
(* request is refused only when every block of its size overlaps one in    *)
(* use.  For the shell this says that what its text did to the tree is     *)
(* undone when it frees its block.                                         *)
RefusedOnlyWhenFull ==
    \A size \in Sizes : Asks(size) /\ Candidates(size) = {} =>
        \A root \in Roots, node \in NodesOf(Align_MemSize(size)) :
            \E block \in inUse :
                Extent(block) \cap Memory(Caculate_Mem(root, node), BlockSize(LevelOf(node))) # {}

(* k_free is given an address and no size: walking up from the smallest    *)
(* block at that address it ends at the block that was handed out.         *)
FreeFindsBlock ==
    \A block \in inUse : Found(block.address) # {} /\ FreedNode(block.address) = block.node

(* The allocator implements Heap: blocks in use are disjoint.              *)
Abstract == INSTANCE Heap WITH HeapSize <- g_RootCount * ALLOC_LIMIT,
                               used <- {Extent(block) : block \in inUse}
ImplementsHeap == Abstract!HeapSpec
=============================================================================
