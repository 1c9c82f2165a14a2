--------------------------- MODULE FileSystemProofs ---------------------------
(***************************************************************************)
(* Proofs about the file system, for any number of inodes and blocks, any   *)
(* number of blocks of a directory and any size of sectors. *************** *)
(* **********************************************************               *)
EXTENDS FileSystemInv, NatLemmas, FiniteSetTheorems, SequenceTheorems

-----------------------------------------------------------------------------
(* Numbers: where an entry of a block is, and which step of a list of      *)
(* pairs an index names.                                                   *)

\* What the assumptions on the constants say of the sets of numbers.
LEMMA ConstantFacts ==
    /\ EntriesPerSector \in Nat /\ EntriesPerSector > 0
    /\ Indices = 0 .. 2 * EntriesPerSector - 1 /\ Indices \subseteq Nat
    /\ 0 \in Indices /\ FILETYPE_FILE \in SUBSET Indices /\ FILETYPE_DIR \in SUBSET Indices
    /\ Inodes \subseteq Nat /\ INODE_ENTRY_BIT \in Inodes /\ INODE_ROOTDIR \in Inodes
    /\ DIR_BLOCKS \in Nat /\ DIR_BLOCKS > 0
    /\ BlockNumbers \subseteq Nat /\ NIL \in BlockNumbers
    /\ Reserved \in Nat /\ BlockCount \in Nat
    /\ SetBitmap_block \subseteq BlockNumbers
BY FileSystemAssumption
   DEF Indices, ENTRY_COUNT, Inodes, INODE_ENTRY_BIT, INODE_ROOTDIR, BlockNumbers, NIL,
       SetBitmap_block, FILETYPE_FILE, FILETYPE_DIR

\* Entry k of a block is in its first sector or in its second.
LEMMA WhereEntry ==
    ASSUME NEW k \in Indices
    PROVE  /\ k < EntriesPerSector => k \div EntriesPerSector = 0 /\ k % EntriesPerSector = k
           /\ k >= EntriesPerSector =>
                 /\ k \div EntriesPerSector = 1 /\ k % EntriesPerSector = k - EntriesPerSector
                 /\ k - EntriesPerSector \in 0 .. EntriesPerSector - 1
<1> DEFINE m == EntriesPerSector
<1>1. m \in Nat \ {0} /\ k \in 0 .. 2 * m - 1
  BY ConstantFacts
<1> HIDE DEF m
<1>2. CASE k < m
  <2>1. (m * 0 + k) \div m = 0 /\ (m * 0 + k) % m = k
    <3>1. k \in 0 .. m - 1 /\ 0 \in Int
      BY <1>1, <1>2
    <3> QED BY <1>1, <3>1, Quotient
  <2>2. m * 0 + k = k
    BY <1>1
  <2>3. k \div m = 0 /\ k % m = k
    BY <2>1, <2>2
  <2> QED BY <1>1, <1>2, <2>3 DEF m
<1>3. CASE k >= m
  <2>1. (m * 1 + (k - m)) \div m = 1 /\ (m * 1 + (k - m)) % m = k - m /\ k - m \in 0 .. m - 1
    <3>1. k - m \in 0 .. m - 1 /\ 1 \in Int
      BY <1>1, <1>3
    <3> QED BY <1>1, <3>1, Quotient
  <2>2. m * 1 + (k - m) = k
    BY <1>1
  <2>3. k \div m = 1 /\ k % m = k - m /\ k - m \in 0 .. m - 1
    BY <2>1, <2>2
  <2> QED BY <1>1, <1>3, <2>3 DEF m
<1> QED BY <1>1, <1>2, <1>3

\* Every place of a list of n pairs is the first or the second of a pair.
LEMMA PairIndex ==
    ASSUME NEW n \in Nat, NEW k \in 1 .. 2 * n
    PROVE  \/ k % 2 = 1 /\ (k + 1) \div 2 \in 1 .. n /\ k = 2 * ((k + 1) \div 2) - 1
           \/ k % 2 = 0 /\ k \div 2 \in 1 .. n /\ k = 2 * (k \div 2)
OBVIOUS

\* A set of numbers has a smallest one, and Smallest is it.
LEMMA SmallestFacts ==
    ASSUME NEW T \in SUBSET Nat, T # {}
    PROVE  Smallest(T) \in T /\ \A m \in T : Smallest(T) <= m
<1>1. \E x \in T : \A y \in T : x <= y
  BY LeastNat
<1> QED BY <1>1 DEF Smallest

-----------------------------------------------------------------------------
(* Types.                                                                  *)

InodeType == [links : 0 .. DIR_BLOCKS, block : [1 .. DIR_BLOCKS -> BlockNumbers]]
BlockType == [Indices -> Entries]

WriteType ==
    UNION {[to : {"block_bitmap"}, bits : SUBSET BlockNumbers],
           [to : {"inode_bitmap"}, bits : SUBSET Inodes],
           [to : {"inode"}, number : Inodes, inode : InodeType],
           [to : {"block", "entry"}, number : BlockNumbers, entries : BlockType],
           [to : {"free_half"}, number : Inodes],
           [to : {"formatted"}]}

TypeInv ==
    /\ TypeOK
    /\ block_table \in [0 .. BlockCount -> [0 .. EntriesPerSector - 1 -> Entries]]
    /\ pending \in Seq(WriteType)

\* Cleared and fresh entries and blocks are entries and blocks.
LEMMA EmptyType ==
    /\ NoEntry \in Entries /\ Header \in Entries
    /\ Empty \in BlockType /\ [Empty EXCEPT ![0] = Header] \in BlockType
BY ConstantFacts DEF NoEntry, Header, Entries, Empty, BlockType

\* The writes that the calls are made of.
LEMMA WriteTypes ==
    /\ \A bits \in SUBSET BlockNumbers : WriteBlockBitmap(bits) \in WriteType
    /\ \A bits \in SUBSET Inodes : WriteInodeBitmap(bits) \in WriteType
    /\ \A n \in Inodes, inode \in InodeType : WriteInode(n, inode) \in WriteType
    /\ \A n \in BlockNumbers, e \in BlockType : WriteBlock(n, e) \in WriteType
    /\ \A n \in BlockNumbers, e \in BlockType : WriteEntry(n, e) \in WriteType
    /\ \A n \in Inodes : [to |-> "free_half", number |-> n] \in WriteType
    /\ SetIsFmat \in WriteType
BY DEF WriteType, WriteBlockBitmap, WriteInodeBitmap, WriteInode, WriteBlock, WriteEntry, SetIsFmat

\* What a write carries, by its kind.
LEMMA WriteFields ==
    ASSUME NEW w \in WriteType
    PROVE  /\ w.to \in {"block_bitmap", "inode_bitmap", "inode", "block", "entry", "free_half", "formatted"}
           /\ w.to = "block_bitmap" => w.bits \in SUBSET BlockNumbers
           /\ w.to = "inode_bitmap" => w.bits \in SUBSET Inodes
           /\ w.to = "inode" => w.number \in Inodes /\ w.inode \in InodeType
           /\ w.to \in {"block", "entry"} => w.number \in BlockNumbers /\ w.entries \in BlockType
           /\ w.to = "free_half" => w.number \in Inodes
BY DEF WriteType

\* ReadSector of a block, entry by entry.
LEMMA BlockTyped ==
    ASSUME TypeInv, NEW n \in BlockNumbers
    PROVE  /\ Block(n) \in BlockType
           /\ \A k \in Indices : Block(n)[k] =
                 IF k < EntriesPerSector THEN block_table[n][k]
                                         ELSE block_table[n + 1][k - EntriesPerSector]
<1>1. ASSUME NEW k \in Indices
      PROVE  /\ Block(n)[k] = IF k < EntriesPerSector THEN block_table[n][k]
                                         ELSE block_table[n + 1][k - EntriesPerSector]
             /\ Block(n)[k] \in Entries
  <2>1. Block(n)[k] = block_table[n + k \div EntriesPerSector][k % EntriesPerSector]
    BY DEF Block
  <2>2. n \in 0 .. BlockCount /\ n + 1 \in 0 .. BlockCount /\ n + 0 = n /\ k \in Nat
        /\ EntriesPerSector \in Nat
    BY ConstantFacts DEF BlockNumbers
  <2>3. CASE k < EntriesPerSector
    <3>1. k \in 0 .. EntriesPerSector - 1
      BY <2>2, <2>3
    <3>2. Block(n)[k] = block_table[n][k]
      BY <2>1, <2>2, <2>3, WhereEntry
    <3> QED BY <2>2, <2>3, <3>1, <3>2 DEF TypeInv
  <2>4. CASE k >= EntriesPerSector
    <3>1. k - EntriesPerSector \in 0 .. EntriesPerSector - 1
      BY <2>4, WhereEntry
    <3>2. Block(n)[k] = block_table[n + 1][k - EntriesPerSector]
      BY <2>1, <2>4, WhereEntry
    <3> QED BY <2>2, <2>4, <3>1, <3>2 DEF TypeInv
  <2> QED BY <2>2, <2>3, <2>4
<1>2. Block(n) = [k \in Indices |-> Block(n)[k]]
  BY DEF Block
<1> QED BY <1>1, <1>2 DEF BlockType

-----------------------------------------------------------------------------
(* The blocks that MakeDir gets: unmarked ones, in ascending order.        *)

Fresh(s) ==
    /\ s \in Seq(BlockNumbers)
    /\ \A i \in 1 .. Len(s) : s[i] \in FreeBlocks
    /\ \A i, j \in 1 .. Len(s) : i < j => s[i] < s[j]
    /\ \A b \in FreeBlocks \ Range(s) : \A i \in 1 .. Len(s) : s[i] < b

\* What a list holds.
LEMMA RangeOf ==
    ASSUME NEW S, NEW s \in Seq(S)
    PROVE  /\ \A x : x \in Range(s) <=> \E i \in 1 .. Len(s) : s[i] = x
           /\ Range(s) \subseteq S
BY DEF Range

\* Alloc_Block adds one block that was not marked and not got before, or none.
LEMMA AllocFresh ==
    ASSUME NEW s, Fresh(s)
    PROVE  /\ Fresh(Alloc_Block(s))
           /\ Len(Alloc_Block(s)) \in Len(s) .. Len(s) + 1
<1> DEFINE free == FreeBlocks \ Range(s)
<1>1. s \in Seq(BlockNumbers) /\ Len(s) \in Nat
  BY DEF Fresh
<1>2. CASE free = {} \/ NIL \in free
  BY <1>1, <1>2 DEF Alloc_Block
<1>3. CASE ~(free = {} \/ NIL \in free)
  <2>1. free \in SUBSET Nat /\ free \subseteq BlockNumbers /\ BlockNumbers \subseteq Nat
    BY ConstantFacts DEF FreeBlocks
  <2>2. PICK b : b = Smallest(free)
    OBVIOUS
  <2>3. b \in free /\ \A m \in free : b <= m
    <3> HIDE DEF free
    <3> QED BY <1>3, <2>1, <2>2, SmallestFacts
  <2>4. Alloc_Block(s) = Append(s, b)
    BY <1>3, <2>2 DEF Alloc_Block
  <2>5. b \in BlockNumbers /\ b \in FreeBlocks /\ b \notin Range(s)
    BY <2>1, <2>3
  <2>6. PICK t : t = Append(s, b)
    OBVIOUS
  <2>7. /\ t \in Seq(BlockNumbers) /\ Len(t) = Len(s) + 1
        /\ \A i \in 1 .. Len(s) : t[i] = s[i]
        /\ t[Len(s) + 1] = b
    BY <1>1, <2>5, <2>6
  <2>8. \A i \in 1 .. Len(s) : s[i] < b /\ s[i] \in FreeBlocks /\ s[i] \in Nat
    <3> TAKE i \in 1 .. Len(s)
    <3>1. s[i] < b
      <4> HIDE DEF free
      <4>1. b \in FreeBlocks \ Range(s)
        BY <2>3 DEF free
      <4> QED BY <4>1 DEF Fresh
    <3>2. s[i] \in FreeBlocks
      BY DEF Fresh
    <3>3. s[i] \in Nat
      BY <3>2, ConstantFacts DEF FreeBlocks
    <3> QED BY <3>1, <3>2, <3>3
  <2>9. \A i \in 1 .. Len(t) : t[i] \in FreeBlocks
    BY <1>1, <2>5, <2>7, <2>8
  <2>10. \A i, j \in 1 .. Len(t) : i < j => t[i] < t[j]
    <3> TAKE i, j \in 1 .. Len(t)
    <3>1. CASE j = Len(s) + 1
      BY <1>1, <2>7, <2>8, <3>1
    <3>2. CASE j # Len(s) + 1
      <4>1. j \in 1 .. Len(s) /\ (i < j => i \in 1 .. Len(s))
        BY <1>1, <2>7, <3>2
      <4> QED BY <2>7, <4>1 DEF Fresh
    <3> QED BY <3>1, <3>2
  <2>11. \A c \in FreeBlocks \ Range(t) : \A i \in 1 .. Len(t) : t[i] < c
    <3> SUFFICES ASSUME NEW c \in FreeBlocks, c \notin Range(t), NEW i \in 1 .. Len(t)
                 PROVE  t[i] < c
      OBVIOUS
    <3>1. \A k \in 1 .. Len(t) : t[k] # c
      BY <2>7, RangeOf
    <3>2. \A k \in 1 .. Len(s) : s[k] # c
      <4> TAKE k \in 1 .. Len(s)
      <4>1. k \in 1 .. Len(t) /\ t[k] = s[k]
        BY <1>1, <2>7
      <4> QED BY <3>1, <4>1
    <3>3. b # c
      <4>1. Len(s) + 1 \in 1 .. Len(t)
        BY <1>1, <2>7
      <4> QED BY <2>7, <3>1, <4>1
    <3>4. c \notin Range(s) /\ c \in Nat /\ b \in Nat
      BY <1>1, <2>1, <2>5, <3>2, RangeOf DEF FreeBlocks
    <3>5. b < c
      BY <2>3, <3>3, <3>4
    <3>6. CASE i = Len(s) + 1
      BY <2>7, <3>5, <3>6
    <3>7. CASE i # Len(s) + 1
      <4>1. i \in 1 .. Len(s)
        BY <1>1, <2>7, <3>7
      <4>2. t[i] = s[i] /\ s[i] < b /\ s[i] \in Nat
        BY <2>7, <2>8, <4>1
      <4> QED BY <3>4, <3>5, <4>2
    <3> QED BY <3>6, <3>7
  <2>12. Fresh(t)
    BY <2>7, <2>9, <2>10, <2>11 DEF Fresh
  <2> QED BY <1>1, <2>4, <2>6, <2>7, <2>12
<1> QED BY <1>2, <1>3

\* The blocks that a mkdir gets are unmarked and different, DIR_BLOCKS at most.
LEMMA GotFresh == Fresh(GotBlocks) /\ Len(GotBlocks) \in 0 .. DIR_BLOCKS
<1> DEFINE D == {s \in Seq(BlockNumbers) : Fresh(s)}
           F == [s \in D |-> Alloc_Block(s)]
           Is(f) == f = [calls \in Nat |-> IF calls = 0 THEN <<>> ELSE Alloc_Block(f[calls - 1])]
<1>1. <<>> \in D /\ F \in [D -> D]
  <2>1. Fresh(<<>>)
    BY DEF Fresh
  <2>2. \A s \in D : Alloc_Block(s) \in D
    BY AllocFresh DEF Fresh
  <2> QED BY <2>1, <2>2
<1>2. PICK f \in [Nat -> D] : f[0] = <<>> /\ \A n \in Nat : f[n + 1] = F[f[n]]
  <2> HIDE DEF F, D, Is
  <2>1. PICK f : Iterates(f, D, <<>>, F)
    BY <1>1, IterationExists
  <2> QED BY <2>1 DEF Iterates
<1>3. Is(f)
  <2> DEFINE g == [calls \in Nat |-> IF calls = 0 THEN <<>> ELSE Alloc_Block(f[calls - 1])]
  <2>1. ASSUME NEW n \in Nat PROVE f[n] = g[n]
    <3>1. CASE n = 0
      BY <1>2, <3>1
    <3>2. CASE n # 0
      <4>1. n - 1 \in Nat /\ (n - 1) + 1 = n
        BY <3>2
      <4>2. f[n] = F[f[n - 1]] /\ f[n - 1] \in D
        <5> HIDE DEF F, D, Is
        <5> QED BY <1>2, <4>1
      <4>3. f[n] = Alloc_Block(f[n - 1])
        BY <4>2
      <4> QED BY <3>2, <4>3
    <3> QED BY <3>1, <3>2
  <2> HIDE DEF D
  <2> QED BY <1>2, <2>1
<1> DEFINE w == CHOOSE f_1 : Is(f_1)
<1>4. Is(w)
  <2> HIDE DEF Is
  <2> QED BY <1>3
<1>5. GotBlocks = w[DIR_BLOCKS]
  BY DEF GotBlocks
<1> HIDE DEF w
<1> DEFINE S == {n \in Nat : Fresh(w[n]) /\ Len(w[n]) \in 0 .. n}
<1>6. 0 \in S
  BY <1>1, <1>4
<1>7. ASSUME NEW n \in Nat, n \in S
      PROVE  n + 1 \in S
  <2>1. n + 1 \in Nat /\ n + 1 # 0 /\ (n + 1) - 1 = n
    OBVIOUS
  <2>2. w[n + 1] = Alloc_Block(w[n])
    BY <1>4, <2>1
  <2>3. Fresh(w[n]) /\ Len(w[n]) \in 0 .. n
    BY <1>7
  <2>4. PICK s : s = w[n]
    OBVIOUS
  <2>5. Fresh(s) /\ Len(s) \in 0 .. n /\ w[n + 1] = Alloc_Block(s)
    BY <2>2, <2>3, <2>4
  <2>6. Fresh(Alloc_Block(s)) /\ Len(Alloc_Block(s)) \in Len(s) .. Len(s) + 1
    BY <2>5, AllocFresh
  <2>7. PICK t : t = Alloc_Block(s)
    OBVIOUS
  <2>8. Len(t) \in Len(s) .. Len(s) + 1 /\ Len(s) \in 0 .. n /\ Fresh(t)
    BY <2>5, <2>6, <2>7
  <2>9. Len(t) \in 0 .. n + 1
    <3> HIDE DEF S, D, F, Is
    <3> QED BY <2>8
  <2> QED BY <2>1, <2>5, <2>7, <2>8, <2>9
<1>8. Nat \subseteq S
  <2> HIDE DEF S
  <2> QED BY <1>6, <1>7, SetInduction
<1> QED BY <1>5, <1>8, ConstantFacts

-----------------------------------------------------------------------------
(* The lists of writes, write by write.                                    *)

\* A part of a list holds what the list may hold.
LEMMA TakenFacts ==
    ASSUME NEW S, NEW s \in Seq(S), NEW n \in 0 .. Len(s)
    PROVE  Taken(s, n) \subseteq S
BY DEF Taken

\* A list of n pairs of things is a list of 2n of them.
LEMMA PairsType ==
    ASSUME NEW S, NEW n \in Nat, NEW s, s = [k \in 1 .. 2 * n |-> s[k]],
           \A m \in 1 .. n : s[2 * m - 1] \in S /\ s[2 * m] \in S
    PROVE  s \in Seq(S) /\ Len(s) = 2 * n
<1>1. \A k \in 1 .. 2 * n : s[k] \in S
  <2> TAKE k \in 1 .. 2 * n
  <2>1. CASE k % 2 = 1 /\ (k + 1) \div 2 \in 1 .. n /\ k = 2 * ((k + 1) \div 2) - 1
    BY <2>1
  <2>2. CASE k % 2 = 0 /\ k \div 2 \in 1 .. n /\ k = 2 * (k \div 2)
    BY <2>2
  <2> QED BY <2>1, <2>2, PairIndex
<1>2. 2 * n \in Nat
  OBVIOUS
<1> QED BY <1>1, <1>2

IsAlloc(s, blocks) ==
    /\ s \in Seq(WriteType) /\ Len(s) = 2 * Len(blocks)
    /\ \A m \in 1 .. Len(blocks) :
          /\ s[2 * m - 1] = WriteBlockBitmap(block_bitmap \cup Taken(blocks, m))
          /\ s[2 * m] = WriteBlock(blocks[m], [Empty EXCEPT ![0] = Header])

\* The writes that mark and initialise blocks, pair by pair.
LEMMA AllocIndex ==
    ASSUME NEW blocks \in Seq(BlockNumbers), block_bitmap \subseteq BlockNumbers
    PROVE  IsAlloc(AllocWrites(blocks), blocks)
<1> DEFINE s == AllocWrites(blocks)
<1>1. s = [k \in 1 .. 2 * Len(blocks) |-> s[k]]
  BY DEF AllocWrites
<1>2. ASSUME NEW m \in 1 .. Len(blocks)
      PROVE  /\ s[2 * m - 1] = WriteBlockBitmap(block_bitmap \cup Taken(blocks, m))
             /\ s[2 * m] = WriteBlock(blocks[m], [Empty EXCEPT ![0] = Header])
             /\ s[2 * m - 1] \in WriteType /\ s[2 * m] \in WriteType
  <2>0. PICK a, b : a = 2 * m - 1 /\ b = 2 * m
    OBVIOUS
  <2>1. /\ a \in 1 .. 2 * Len(blocks) /\ a % 2 = 1 /\ (a + 1) \div 2 = m
        /\ b \in 1 .. 2 * Len(blocks) /\ b % 2 = 0 /\ b \div 2 = m
    BY <2>0
  <2>2. /\ s[2 * m - 1] = WriteBlockBitmap(block_bitmap \cup Taken(blocks, m))
        /\ s[2 * m] = WriteBlock(blocks[m], [Empty EXCEPT ![0] = Header])
    <3>1. s[a] = WriteBlockBitmap(block_bitmap \cup Taken(blocks, m))
      BY <2>1 DEF AllocWrites
    <3>2. s[b] = WriteBlock(blocks[m], [Empty EXCEPT ![0] = Header])
      BY <2>1 DEF AllocWrites
    <3> HIDE DEF s
    <3> QED BY <2>0, <3>1, <3>2
  <2>3. blocks[m] \in BlockNumbers /\ block_bitmap \cup Taken(blocks, m) \in SUBSET BlockNumbers
    BY TakenFacts
  <2> HIDE DEF s
  <2> QED BY <2>2, <2>3, EmptyType, WriteTypes
<1> HIDE DEF s
<1>3. s \in Seq(WriteType) /\ Len(s) = 2 * Len(blocks)
  <2>1. Len(blocks) \in Nat
    OBVIOUS
  <2> QED BY <1>1, <1>2, <2>1, PairsType
<1> QED BY <1>2, <1>3 DEF IsAlloc, s

IsFree(s, blocks, bits) ==
    /\ s \in Seq(WriteType) /\ Len(s) = 2 * Len(blocks)
    /\ \A m \in 1 .. Len(blocks) :
          /\ s[2 * m - 1] = WriteBlockBitmap(bits \ Taken(blocks, m))
          /\ s[2 * m] = WriteBlock(blocks[m], Empty)

\* The writes of Free_Block on one block after the other, pair by pair.
LEMMA FreeIndex ==
    ASSUME NEW blocks \in Seq(BlockNumbers), NEW bits \in SUBSET BlockNumbers
    PROVE  IsFree(Free_Block(blocks, bits), blocks, bits)
<1> DEFINE s == Free_Block(blocks, bits)
<1>1. s = [k \in 1 .. 2 * Len(blocks) |-> s[k]]
  BY DEF Free_Block
<1>2. ASSUME NEW m \in 1 .. Len(blocks)
      PROVE  /\ s[2 * m - 1] = WriteBlockBitmap(bits \ Taken(blocks, m))
             /\ s[2 * m] = WriteBlock(blocks[m], Empty)
             /\ s[2 * m - 1] \in WriteType /\ s[2 * m] \in WriteType
  <2>0. PICK a, b : a = 2 * m - 1 /\ b = 2 * m
    OBVIOUS
  <2>1. /\ a \in 1 .. 2 * Len(blocks) /\ a % 2 = 1 /\ (a + 1) \div 2 = m
        /\ b \in 1 .. 2 * Len(blocks) /\ b % 2 = 0 /\ b \div 2 = m
    BY <2>0
  <2>2. /\ s[2 * m - 1] = WriteBlockBitmap(bits \ Taken(blocks, m))
        /\ s[2 * m] = WriteBlock(blocks[m], Empty)
    <3>1. s[a] = WriteBlockBitmap(bits \ Taken(blocks, m))
      BY <2>1 DEF Free_Block
    <3>2. s[b] = WriteBlock(blocks[m], Empty)
      BY <2>1 DEF Free_Block
    <3> HIDE DEF s
    <3> QED BY <2>0, <3>1, <3>2
  <2>3. blocks[m] \in BlockNumbers /\ bits \ Taken(blocks, m) \in SUBSET BlockNumbers
    OBVIOUS
  <2> HIDE DEF s
  <2> QED BY <2>2, <2>3, EmptyType, WriteTypes
<1> HIDE DEF s
<1>3. s \in Seq(WriteType) /\ Len(s) = 2 * Len(blocks)
  <2>1. Len(blocks) \in Nat
    OBVIOUS
  <2> QED BY <1>1, <1>2, <2>1, PairsType
<1> QED BY <1>2, <1>3 DEF IsFree, s

-----------------------------------------------------------------------------
(* What the calls find in the working directory.                           *)

\* A search by block and then by entry has a first match.
LEMMA LeastPair ==
    ASSUME NEW M \in SUBSET (Nat \X Nat), M # {}
    PROVE  \E p \in M : \A q \in M : p[1] < q[1] \/ (p[1] = q[1] /\ p[2] <= q[2])
<1> DEFINE A == {p[1] : p \in M}
<1>1. PICK a \in A : \A x \in A : a <= x
  <2>1. A \in SUBSET Nat /\ A # {}
    OBVIOUS
  <2> HIDE DEF A
  <2> QED BY <2>1, LeastNat
<1> DEFINE B == {p[2] : p \in {q \in M : q[1] = a}}
<1>2. PICK b \in B : \A x \in B : b <= x
  <2>1. B \in SUBSET Nat /\ B # {}
    BY <1>1
  <2> HIDE DEF B
  <2> QED BY <2>1, LeastNat
<1>3. PICK p \in M : p[1] = a /\ p[2] = b
  BY <1>2
<1>4. ASSUME NEW q \in M
      PROVE  p[1] < q[1] \/ (p[1] = q[1] /\ p[2] <= q[2])
  <2>1. q[1] \in A /\ a <= q[1] /\ a \in Nat /\ q[1] \in Nat
    BY <1>1
  <2>2. q[1] = a => q[2] \in B /\ b <= q[2]
    BY <1>2
  <2> QED BY <1>3, <2>1, <2>2
<1> QED BY <1>4

\* A block of the working directory is a block.
LEMMA DirBlockType ==
    ASSUME TypeInv, NEW b \in 1 .. DIR_BLOCKS
    PROVE  DirBlock(b) \in BlockNumbers
<1>1. inode_NowDir \in Inodes /\ inode_table \in [Inodes -> InodeType]
  BY DEF TypeInv, TypeOK, InodeType
<1>2. inode_table[inode_NowDir] \in InodeType
  BY <1>1
<1> QED BY <1>2 DEF DirBlock, InodeType

\* Find_withFilename returns an entry that matches, in the first sector of a block.
LEMMA FoundFacts ==
    ASSUME TypeInv, NEW name, Matches(name) # {}
    PROVE  /\ Find_withFilename(name) \in Matches(name)
           /\ FoundBlock(name) \in BlockNumbers
           /\ FoundIndex(name) \in 1 .. EntriesPerSector - 1
           /\ FoundIndex(name) \in Indices
           /\ FoundEntry(name) \in Entries
<1>1. Matches(name) \in SUBSET (Nat \X Nat)
  BY ConstantFacts DEF Matches, Seen
<1>2. Find_withFilename(name) \in Matches(name)
  <2> HIDE DEF Matches
  <2> QED BY <1>1, LeastPair DEF Find_withFilename
<1>3. /\ Find_withFilename(name)[1] \in 1 .. DIR_BLOCKS
      /\ FoundIndex(name) \in 1 .. EntriesPerSector - 1
  BY <1>2 DEF Matches, Seen, FoundIndex
<1>4. FoundBlock(name) \in BlockNumbers
  BY <1>3, DirBlockType DEF FoundBlock
<1>5. FoundIndex(name) \in Indices
  BY <1>3, ConstantFacts
<1> QED BY <1>2, <1>3, <1>4, <1>5, BlockTyped DEF FoundEntry, BlockType

\* Return_EmptyIndex returns the first entry that is not in use.
LEMMA RoomFacts ==
    ASSUME TypeInv, NotFull # {}
    PROVE  /\ RoomBlock \in BlockNumbers
           /\ EmptyIndex \in Indices
           /\ EmptyIndex \notin Block(RoomBlock)[0].type
           /\ \A k \in Indices \ Block(RoomBlock)[0].type : EmptyIndex <= k
<1>1. NotFull \in SUBSET Nat
  BY ConstantFacts DEF NotFull
<1>2. Smallest(NotFull) \in NotFull
  BY <1>1, SmallestFacts
<1>3. Smallest(NotFull) \in 1 .. DIR_BLOCKS /\ Block(RoomBlock)[0].type # Indices
  BY <1>2 DEF NotFull, RoomBlock
<1>4. RoomBlock \in BlockNumbers
  BY <1>3, DirBlockType DEF RoomBlock
<1>5. Block(RoomBlock)[0].type \subseteq Indices
  BY <1>4, BlockTyped, ConstantFacts DEF BlockType, Entries
<1> DEFINE free == Indices \ Block(RoomBlock)[0].type
<1>6. free # {} /\ free \in SUBSET Nat
  BY <1>3, <1>5, ConstantFacts
<1>7. Smallest(free) \in free /\ \A k \in free : Smallest(free) <= k
  <2> HIDE DEF free
  <2> QED BY <1>6, SmallestFacts
<1> QED BY <1>4, <1>7 DEF EmptyIndex

\* Alloc_inode returns an unmarked inode or INODE_ENTRY_BIT.
LEMMA InodeFacts ==
    /\ Alloc_inode \in Inodes
    /\ Alloc_inode # INODE_ENTRY_BIT => Alloc_inode \in FreeInodes
<1>1. FreeInodes # {} => Smallest(FreeInodes) \in FreeInodes
  BY SmallestFacts, ConstantFacts DEF FreeInodes
<1> QED BY <1>1, ConstantFacts DEF Alloc_inode, FreeInodes

\* A block with an entry more is a block.
LEMMA WithEntryType ==
    ASSUME TypeInv, NotFull # {}, NEW n \in Inodes, NEW type \in SUBSET Indices, NEW name \in FileNames
    PROVE  WithEntry(n, type, name) \in BlockType
<1> DEFINE b == Block(RoomBlock)
           e == [inode |-> n, type |-> type, name |-> name]
           i == EmptyIndex
<1>1. b \in [Indices -> Entries] /\ i \in Indices /\ 0 \in Indices /\ e \in Entries
  BY RoomFacts, BlockTyped, ConstantFacts DEF BlockType, Entries
<1>2. [b[0] EXCEPT !.type = @ \cup {i}] \in Entries
  BY <1>1 DEF Entries
<1>3. WithEntry(n, type, name) = [[b EXCEPT ![0].type = @ \cup {i}] EXCEPT ![i] = e]
  BY DEF WithEntry
<1> HIDE DEF b, i, e
<1> QED BY <1>1, <1>2, <1>3 DEF BlockType

\* A block with an entry less is a block.
LEMMA WithoutEntryType ==
    ASSUME TypeInv, NEW name, Matches(name) # {}
    PROVE  WithoutEntry(name) \in BlockType
<1> DEFINE b == Block(FoundBlock(name))
           i == FoundIndex(name)
           c == [b EXCEPT ![i] = NoEntry]
<1>1. b \in [Indices -> Entries] /\ i \in Indices /\ 0 \in Indices
  BY FoundFacts, BlockTyped, ConstantFacts DEF BlockType
<1>2. c \in [Indices -> Entries]
  <2> HIDE DEF b, i
  <2> QED BY <1>1, EmptyType
<1>3. WithoutEntry(name) = [c EXCEPT ![0].type = @ \ {i}]
  BY DEF WithoutEntry
<1> HIDE DEF b, i, c
<1>4. [c[0] EXCEPT !.type = @ \ {i}] \in Entries
  BY <1>1, <1>2 DEF Entries
<1> QED BY <1>1, <1>2, <1>3, <1>4 DEF BlockType

-----------------------------------------------------------------------------
(* Types, step by step.                                                    *)

\* What lists are put together from.
LEMMA SeqPieces ==
    ASSUME NEW S
    PROVE  /\ <<>> \in Seq(S)
           /\ \A x \in S : <<x>> \in Seq(S) /\ Len(<<x>>) = 1 /\ <<x>>[1] = x
           /\ \A s, t \in Seq(S) : s \o t \in Seq(S)
BY ConcatProperties

\* The writes of Format are writes, and the blocks of the root exist.
LEMMA FormatType == FormatWrites \in Seq(WriteType) /\ RootBlocks \in [1 .. DIR_BLOCKS -> BlockNumbers]
<1>1. /\ \A k \in 1 .. DIR_BLOCKS : RootBlocks[k] \in BlockNumbers
      /\ \A k \in 1 .. DIR_BLOCKS : 0 .. RootBlocks[k] \in SUBSET BlockNumbers
      /\ RootBlocks \in [1 .. DIR_BLOCKS -> BlockNumbers]
  BY FileSystemAssumption DEF RootBlocks, BlockNumbers
<1>2. [links |-> DIR_BLOCKS, block |-> RootBlocks] \in InodeType
  BY <1>1, ConstantFacts DEF InodeType
<1>3. {} \in SUBSET Inodes /\ {0} \in SUBSET Inodes /\ {0, INODE_ROOTDIR} \in SUBSET Inodes
  BY ConstantFacts DEF INODE_ENTRY_BIT
<1> DEFINE a == <<WriteBlockBitmap(SetBitmap_block), WriteInodeBitmap({}), WriteInodeBitmap({0}),
                  WriteInodeBitmap({0, INODE_ROOTDIR})>>
           b == [k \in 1 .. DIR_BLOCKS |-> WriteBlockBitmap(0 .. RootBlocks[k])]
           c == <<WriteInode(INODE_ROOTDIR, [links |-> DIR_BLOCKS, block |-> RootBlocks])>>
           d == [k \in 1 .. DIR_BLOCKS |-> WriteBlock(RootBlocks[k], [Empty EXCEPT ![0] = Header])]
           e == <<SetIsFmat>>
<1>4. a \in Seq(WriteType)
  BY <1>3, WriteTypes, ConstantFacts
<1>5. b \in Seq(WriteType)
  <2>1. \A k \in 1 .. DIR_BLOCKS : WriteBlockBitmap(0 .. RootBlocks[k]) \in WriteType
    BY <1>1, WriteTypes
  <2> QED BY <2>1, ConstantFacts
<1>6. c \in Seq(WriteType)
  BY <1>2, WriteTypes, ConstantFacts
<1>7. d \in Seq(WriteType)
  <2>1. \A k \in 1 .. DIR_BLOCKS :
            WriteBlock(RootBlocks[k], [Empty EXCEPT ![0] = Header]) \in WriteType
    BY <1>1, EmptyType, WriteTypes
  <2>2. PICK h : h = [Empty EXCEPT ![0] = Header]
    OBVIOUS
  <2>3. d = [k \in 1 .. DIR_BLOCKS |-> WriteBlock(RootBlocks[k], h)]
        /\ \A k \in 1 .. DIR_BLOCKS : WriteBlock(RootBlocks[k], h) \in WriteType
    BY <2>1, <2>2
  <2> HIDE DEF d
  <2> QED BY <2>3, ConstantFacts
<1>8. e \in Seq(WriteType)
  BY WriteTypes
<1>9. FormatWrites = a \o b \o c \o d \o e
  BY DEF FormatWrites
<1> HIDE DEF a, b, c, d, e
<1> QED BY <1>1, <1>4, <1>5, <1>6, <1>7, <1>8, <1>9, SeqPieces

\* The writes of touch are writes.
LEMMA CreateType ==
    ASSUME TypeInv, NEW name \in FileNames, New(name)
    PROVE  CreateFileWrites(name) \in Seq(WriteType)
<1> DEFINE n == Alloc_inode
           a == WriteInodeBitmap(inode_bitmap \cup {n})
           b == WriteEntry(RoomBlock, WithEntry(n, FILETYPE_FILE, name))
           c == WriteInode(n, [inode_table[n] EXCEPT !.links = 0])
<1>1. n \in Inodes /\ NotFull # {}
  BY InodeFacts DEF New
<1> HIDE DEF n
<1>2. inode_bitmap \cup {n} \in SUBSET Inodes
  BY <1>1 DEF TypeInv, TypeOK
<1>3. [inode_table[n] EXCEPT !.links = 0] \in InodeType
  <2>1. inode_table[n] \in InodeType
    BY <1>1 DEF TypeInv, TypeOK, InodeType
  <2>2. PICK d : d = inode_table[n]
    OBVIOUS
  <2>3. d \in InodeType /\ 0 \in 0 .. DIR_BLOCKS
    BY <2>1, <2>2, ConstantFacts
  <2>4. [d EXCEPT !.links = 0] \in InodeType
    BY <2>3 DEF InodeType
  <2> QED BY <2>2, <2>4
<1>4. WithEntry(n, FILETYPE_FILE, name) \in BlockType
  BY <1>1, ConstantFacts, WithEntryType
<1>5. a \in WriteType /\ b \in WriteType /\ c \in WriteType
  BY <1>1, <1>2, <1>3, <1>4, RoomFacts, WriteTypes
<1>6. CreateFileWrites(name) = <<a, b, c>>
  BY DEF CreateFileWrites, n
<1> HIDE DEF a, b, c
<1> QED BY <1>5, <1>6

\* The writes of mkdir are writes, whether it succeeds or not.
LEMMA MakeDirType ==
    ASSUME TypeInv, NEW name \in FileNames, New(name)
    PROVE  MakeDirWrites(name) \in Seq(WriteType)
<1> DEFINE n == Alloc_inode
           blocks == GotBlocks
           marked == block_bitmap \cup Range(blocks)
           a == WriteInodeBitmap(inode_bitmap \cup {n})
           b == WriteEntry(RoomBlock, WithEntry(n, FILETYPE_DIR, name))
           c == WriteInode(n, [links |-> DIR_BLOCKS, block |-> blocks])
           d == [to |-> "free_half", number |-> n]
           writes == AllocWrites(blocks)
           nil == MarkNIL
           freed == Free_Block(<<NIL>> \o Reverse(blocks), marked)
<1>1. n \in Inodes /\ NotFull # {} /\ inode_bitmap \subseteq Inodes /\ block_bitmap \subseteq BlockNumbers
  BY InodeFacts DEF New, TypeInv, TypeOK
<1>2. blocks \in Seq(BlockNumbers)
  BY GotFresh DEF Fresh
<1>3. writes \in Seq(WriteType)
  BY <1>1, <1>2, AllocIndex DEF IsAlloc
<1>4. marked \in SUBSET BlockNumbers
  BY <1>1, <1>2, RangeOf
<1>10. nil \in Seq(WriteType)
  <2>1. block_bitmap \cup {NIL} \in SUBSET BlockNumbers
    BY <1>1, ConstantFacts
  <2>2. WriteBlockBitmap(block_bitmap \cup {NIL}) \in WriteType
    BY <2>1, WriteTypes
  <2> QED BY <2>2 DEF MarkNIL
<1>5. freed \in Seq(WriteType)
  <2>1. <<NIL>> \o Reverse(blocks) \in Seq(BlockNumbers)
    <3>1. Reverse(blocks) \in Seq(BlockNumbers)
      BY <1>2 DEF Reverse
    <3>2. <<NIL>> \in Seq(BlockNumbers)
      BY ConstantFacts
    <3> QED BY <3>1, <3>2, SeqPieces
  <2> HIDE DEF blocks, marked
  <2> QED BY <1>4, <2>1, FreeIndex DEF IsFree
<1> HIDE DEF n
<1>6. a \in WriteType /\ b \in WriteType /\ d \in WriteType
  <2>1. inode_bitmap \cup {n} \in SUBSET Inodes
    BY <1>1
  <2>2. WithEntry(n, FILETYPE_DIR, name) \in BlockType
    BY <1>1, ConstantFacts, WithEntryType
  <2> QED BY <1>1, <2>1, <2>2, RoomFacts, WriteTypes
<1>7. Free_inode(n, inode_bitmap) \in Seq(WriteType)
  <2>1. WriteInodeBitmap(inode_bitmap \ {n}) \in WriteType
    BY <1>1, WriteTypes
  <2> QED BY <2>1 DEF Free_inode
<1>8. CASE Len(blocks) = DIR_BLOCKS
  <2>1. [links |-> DIR_BLOCKS, block |-> blocks] \in InodeType
    BY <1>2, <1>8, ConstantFacts DEF InodeType
  <2>2. c \in WriteType
    BY <1>1, <2>1, WriteTypes
  <2>3. MakeDirWrites(name) = <<a, b>> \o writes \o <<c>>
    BY <1>8 DEF MakeDirWrites, n
  <2> HIDE DEF a, b, c, writes
  <2> QED BY <1>3, <1>6, <2>2, <2>3, SeqPieces
<1>9. CASE Len(blocks) # DIR_BLOCKS
  <2>1. MakeDirWrites(name) =
            <<a, b>> \o writes \o nil \o <<d>> \o Free_inode(n, inode_bitmap) \o freed
    BY <1>9 DEF MakeDirWrites, n
  <2> HIDE DEF a, b, c, d, writes, freed, nil
  <2> QED BY <1>3, <1>5, <1>6, <1>7, <1>10, <2>1, SeqPieces
<1> QED BY <1>8, <1>9

\* The writes of rm and rmdir are writes.
LEMMA RemoveType ==
    ASSUME TypeInv, NEW name, Matches(name) # {}
    PROVE  RemoveWrites(name) \in Seq(WriteType)
<1> DEFINE n == FoundEntry(name).inode
           inode == inode_table[n]
           a == WriteEntry(FoundBlock(name), WithoutEntry(name))
           b == Free_Block(SubSeq(inode.block, 1, inode.links), block_bitmap)
<1>1. n \in Inodes
  BY FoundFacts DEF Entries
<1>2. a \in WriteType
  BY FoundFacts, WithoutEntryType, WriteTypes
<1>3. b \in Seq(WriteType)
  <2>1. inode \in InodeType
    BY <1>1 DEF TypeInv, TypeOK, InodeType
  <2>2. block_bitmap \in SUBSET BlockNumbers
    BY DEF TypeInv, TypeOK
  <2>3. SubSeq(inode.block, 1, inode.links) \in Seq(BlockNumbers)
    BY <2>1, ConstantFacts DEF InodeType
  <2> QED BY <2>2, <2>3, FreeIndex DEF IsFree
<1>4. Free_inode(n, inode_bitmap) \in Seq(WriteType)
  <2>1. WriteInodeBitmap(inode_bitmap \ {n}) \in WriteType
    BY WriteTypes DEF TypeInv, TypeOK
  <2> QED BY <2>1 DEF Free_inode
<1>5. RemoveWrites(name) = <<a>> \o b \o Free_inode(n, inode_bitmap)
  BY DEF RemoveWrites
<1> HIDE DEF a, b, n
<1> QED BY <1>2, <1>3, <1>4, <1>5, SeqPieces

\* The write of ren is a write.
LEMMA RenameType ==
    ASSUME TypeInv, NEW old, NEW new \in FileNames, Matches(old) # {}
    PROVE  <<WriteEntry(FoundBlock(old),
                [Block(FoundBlock(old)) EXCEPT ![FoundIndex(old)].name = new])>> \in Seq(WriteType)
<1> DEFINE b == Block(FoundBlock(old))
           i == FoundIndex(old)
           c == [b EXCEPT ![i].name = new]
<1>1. b \in [Indices -> Entries] /\ i \in Indices
  BY FoundFacts, BlockTyped DEF BlockType
<1> HIDE DEF b, i
<1>2. [b[i] EXCEPT !.name = new] \in Entries
  BY <1>1 DEF Entries
<1>3. c \in BlockType
  BY <1>1, <1>2 DEF BlockType
<1>4. WriteEntry(FoundBlock(old), c) \in WriteType
  <2> HIDE DEF c
  <2> QED BY <1>3, FoundFacts, WriteTypes
<1> QED BY <1>4 DEF b, i

\* The write of WriteFile is a write.
LEMMA OverwriteType ==
    ASSUME TypeInv, NEW b \in BlockNumbers, NEW bits \in SUBSET Indices
    PROVE  <<WriteBlock(b, [Block(b) EXCEPT ![0].type = bits])>> \in Seq(WriteType)
<1> DEFINE e == Block(b)
           c == [e EXCEPT ![0].type = bits]
<1>1. e \in [Indices -> Entries] /\ 0 \in Indices
  BY BlockTyped, ConstantFacts DEF BlockType
<1> HIDE DEF e
<1>2. [e[0] EXCEPT !.type = bits] \in Entries
  BY <1>1 DEF Entries
<1>3. c \in BlockType
  BY <1>1, <1>2 DEF BlockType
<1>4. WriteBlock(b, c) \in WriteType
  <2> HIDE DEF c
  <2> QED BY <1>3, WriteTypes
<1> QED BY <1>4 DEF e

\* A sector of the block table after a write.
LEMMA SectorWritten ==
    ASSUME TypeInv, NEW w \in WriteType, w.to \in {"block", "entry"}, NEW n \in 0 .. BlockCount,
           n = w.number \/ n = w.number + 1, NEW k \in 0 .. EntriesPerSector - 1
    PROVE  /\ (n - w.number) * EntriesPerSector + k \in Indices
           /\ w.entries[(n - w.number) * EntriesPerSector + k] \in Entries
<1>1. w.number \in Nat /\ w.entries \in [Indices -> Entries]
  BY WriteFields, ConstantFacts DEF BlockType
<1>2. (n - w.number) * EntriesPerSector + k \in Indices
  <2>1. CASE n = w.number
    <3>1. (n - w.number) * EntriesPerSector + k = k
      BY <1>1, <2>1, ConstantFacts
    <3> QED BY <3>1, ConstantFacts
  <2>2. CASE n = w.number + 1
    <3>1. (n - w.number) * EntriesPerSector + k = EntriesPerSector + k
      BY <1>1, <2>2, ConstantFacts, SMTT(30)
    <3> QED BY <3>1, ConstantFacts
  <2> QED BY <2>1, <2>2
<1> QED BY <1>1, <1>2

\* A write to the disk keeps the types.
LEMMA WriteTypeStep ==
    ASSUME TypeInv, Write
    PROVE  TypeInv'
<1>1. PICK w : w = Head(pending)
  OBVIOUS
<1>2. w \in WriteType /\ pending' \in Seq(WriteType)
  BY <1>1 DEF Write, TypeInv
<1>3. block_bitmap' \subseteq BlockNumbers /\ inode_bitmap' \subseteq Inodes
  BY <1>1, <1>2, WriteFields DEF Write, TypeInv, TypeOK
<1>4. inode_table' \in [Inodes -> InodeType]
  <2>1. inode_table \in [Inodes -> InodeType]
    BY DEF TypeInv, TypeOK, InodeType
  <2>2. inode_table' = IF w.to = "inode" THEN [inode_table EXCEPT ![w.number] = w.inode]
                                         ELSE inode_table
    BY <1>1 DEF Write
  <2>3. w.to = "inode" => w.number \in Inodes /\ w.inode \in InodeType
    BY <1>2, WriteFields
  <2> QED BY <2>1, <2>2, <2>3
<1>5. block_table' \in [0 .. BlockCount -> [0 .. EntriesPerSector - 1 -> Entries]]
  <2> DEFINE At(n) == n = w.number \/ n = w.number + 1
  <2>1. block_table \in [0 .. BlockCount -> [0 .. EntriesPerSector - 1 -> Entries]]
    BY DEF TypeInv
  <2>2. CASE w.to \in {"block", "entry"}
    <3>1. block_table' = [n \in 0 .. BlockCount |->
                 IF At(n) THEN [k \in 0 .. EntriesPerSector - 1 |->
                                  w.entries[(n - w.number) * EntriesPerSector + k]]
                          ELSE block_table[n]]
      BY <1>1, <2>1, <2>2 DEF Write
    <3>2. ASSUME NEW n \in 0 .. BlockCount
          PROVE  block_table'[n] \in [0 .. EntriesPerSector - 1 -> Entries]
      <4>1. CASE At(n)
        <5>1. \A k \in 0 .. EntriesPerSector - 1 :
                  w.entries[(n - w.number) * EntriesPerSector + k] \in Entries
          BY <1>2, <2>2, <4>1, SectorWritten
        <5> QED BY <3>1, <4>1, <5>1
      <4>2. CASE ~At(n)
        BY <2>1, <3>1, <4>2
      <4> QED BY <4>1, <4>2
    <3> QED BY <3>1, <3>2
  <2>3. CASE w.to \notin {"block", "entry"}
    BY <1>1, <2>1, <2>3 DEF Write
  <2> QED BY <2>2, <2>3
<1>6. formatted' \in BOOLEAN /\ mounted' \in BOOLEAN /\ damage' \subseteq Damages
  BY DEF Write, TypeInv, TypeOK
<1>7. half' \subseteq Inodes
  BY <1>1, <1>2, WriteFields DEF Write, TypeInv, TypeOK
<1>8. inode_NowDir' \in Inodes /\ crashed' \in BOOLEAN
  BY DEF Write, TypeInv, TypeOK
<1>9. inode_table' \in [Inodes -> [links : 0 .. DIR_BLOCKS, block : [1 .. DIR_BLOCKS -> BlockNumbers]]]
  BY <1>4 DEF InodeType
<1> QED BY <1>2, <1>3, <1>5, <1>6, <1>7, <1>8, <1>9 DEF TypeInv, TypeOK

\* A step that leaves the disk alone keeps the types if those of memory are kept.
LEMMA TypeUnchanged ==
    ASSUME TypeInv, UNCHANGED diskVars, inode_NowDir' \in Inodes, pending' \in Seq(WriteType),
           mounted' \in BOOLEAN, half' \subseteq Inodes, crashed' \in BOOLEAN,
           damage' \subseteq Damages
    PROVE  TypeInv'
BY DEF TypeInv, TypeOK, diskVars

\* The kinds of damage.
LEMMA HarmTypes ==
    /\ UsesHalfMade \subseteq Damages
    /\ \A blocks, d : Overlaps(blocks, d) \subseteq Damages
    /\ \A index : Hides(index) \subseteq Damages
    /\ \A b : Overwrites(b) \subseteq Damages
BY DEF UsesHalfMade, Overlaps, Hides, Overwrites, Damages

\* A call that only starts keeps the types.
LEMMA PendType ==
    ASSUME TypeInv, NEW s \in Seq(WriteType), NEW harm \in SUBSET Damages, Pend(s, harm)
    PROVE  TypeInv'
<1>1. damage' \subseteq Damages
  BY HarmTypes DEF Pend, TypeInv, TypeOK
<1> QED BY <1>1, TypeUnchanged DEF Pend, TypeInv, TypeOK

\* So does a change of the working directory.
LEMMA EnterType ==
    ASSUME TypeInv, NEW n \in Inodes, Enter(n)
    PROVE  TypeInv'
<1>1. damage' \subseteq Damages
  BY DEF Enter, Damages, TypeInv, TypeOK
<1> QED BY <1>1, TypeUnchanged DEF Enter, TypeInv, TypeOK

\* Every call keeps the types.
LEMMA CallTypeStep ==
    ASSUME TypeInv, NEW name \in FileNames, Call(name)
    PROVE  TypeInv'
<1>1. CASE CreateFile(name)
  BY <1>1, CreateType, HarmTypes, PendType DEF CreateFile
<1>2. CASE MakeDir(name)
  <2>1. Hides(EmptyIndex) \cup Overlaps(Range(GotBlocks), Alloc_inode) \in SUBSET Damages
    BY HarmTypes
  <2> QED BY <1>2, <2>1, MakeDirType, PendType DEF MakeDir
<1>3. CASE DeleteFile(name)
  <2>1. Matches(name) # {} /\ Pend(RemoveWrites(name), {})
    BY <1>3 DEF DeleteFile
  <2> QED BY <2>1, RemoveType, PendType
<1>4. CASE RemoveDir(name)
  <2>1. PICK n : Matches(name) # {} /\ Pend(RemoveWrites(name), Overlaps(BlocksOf(n), n))
    BY <1>4 DEF RemoveDir
  <2> QED BY <2>1, RemoveType, HarmTypes, PendType
<1>5. CASE WriteFile(name)
  <2> DEFINE b == inode_table[FoundEntry(name).inode].block[1]
  <2>1. Matches(name) # {}
        /\ \E bits \in {{}, Indices} :
              Pend(<<WriteBlock(b, [Block(b) EXCEPT ![0].type = bits])>>, Overwrites(b))
    BY <1>5 DEF WriteFile
  <2>2. b \in BlockNumbers
    <3>1. FoundEntry(name).inode \in Inodes
      BY <2>1, FoundFacts DEF Entries
    <3>2. inode_table[FoundEntry(name).inode] \in InodeType
      BY <3>1 DEF TypeInv, TypeOK, InodeType
    <3> QED BY <3>2, ConstantFacts DEF InodeType
  <2> HIDE DEF b
  <2>3. PICK bits \in {{}, Indices} :
            Pend(<<WriteBlock(b, [Block(b) EXCEPT ![0].type = bits])>>, Overwrites(b))
    BY <2>1
  <2>4. bits \in SUBSET Indices
    OBVIOUS
  <2> QED BY <2>2, <2>3, <2>4, OverwriteType, HarmTypes, PendType
<1>6. CASE ChangeDirectory(name)
  <2>1. Matches(name) # {} /\ Enter(FoundEntry(name).inode)
    BY <1>6 DEF ChangeDirectory
  <2>2. FoundEntry(name).inode \in Inodes
    BY <2>1, FoundFacts DEF Entries
  <2> QED BY <2>1, <2>2, EnterType
<1>7. ASSUME NEW new \in FileNames, RenameFile(name, new)
      PROVE  TypeInv'
  <2>1. Matches(name) # {}
        /\ Pend(<<WriteEntry(FoundBlock(name),
                  [Block(FoundBlock(name)) EXCEPT ![FoundIndex(name)].name = new])>>, {})
    BY <1>7 DEF RenameFile
  <2>2. PICK s : s = <<WriteEntry(FoundBlock(name),
                         [Block(FoundBlock(name)) EXCEPT ![FoundIndex(name)].name = new])>>
    OBVIOUS
  <2>3. s \in Seq(WriteType)
    BY <2>1, <2>2, RenameType
  <2>4. Pend(s, {})
    BY <2>1, <2>2
  <2> QED BY <2>3, <2>4, PendType
<1> QED BY <1>1, <1>2, <1>3, <1>4, <1>5, <1>6, <1>7 DEF Call

\* The types hold of a disk from the factory.
LEMMA TypeInit == Init => TypeInv
<1> SUFFICES ASSUME Init
             PROVE  TypeInv
  OBVIOUS
<1>2. inode_table \in [Inodes -> [links : 0 .. DIR_BLOCKS, block : [1 .. DIR_BLOCKS -> BlockNumbers]]]
  BY FileSystemAssumption DEF Init, Inodes, BlockNumbers
<1>3. block_table \in [0 .. BlockCount -> [0 .. EntriesPerSector - 1 -> Entries]]
  BY EmptyType DEF Init
<1>4. pending \in Seq(WriteType)
  BY DEF Init
<1> QED BY <1>2, <1>3, <1>4, ConstantFacts DEF Init, TypeInv, TypeOK

\* Every step keeps the types.
LEMMA TypeStep == TypeInv /\ [Next]_vars => TypeInv'
<1> SUFFICES ASSUME TypeInv, [Next]_vars
             PROVE  TypeInv'
  OBVIOUS
<1>1. CASE Format
  <2>1. pending' \in Seq(WriteType) /\ mounted' \in BOOLEAN
    BY <1>1, FormatType DEF Format, TypeInv, TypeOK
  <2> QED BY <1>1, <2>1, TypeUnchanged, ConstantFacts DEF Format, historyVars, TypeInv, TypeOK
<1>2. CASE Write
  BY <1>2, WriteTypeStep
<1>3. CASE Crash
  <2>1. Building \subseteq Inodes
    <3>1. \A j \in 1 .. Len(pending) : pending[j].to \in {"inode", "free_half"} =>
              pending[j].number \in Inodes
      BY WriteFields DEF TypeInv
    <3> QED BY <3>1 DEF Building
  <2>2. half' \subseteq Inodes /\ pending' \in Seq(WriteType)
    BY <1>3, <2>1 DEF Crash, TypeInv, TypeOK
  <2> QED BY <1>3, <2>2, TypeUnchanged DEF Crash, TypeInv, TypeOK
<1>4. CASE cd_Root
  BY <1>4, EnterType, ConstantFacts DEF cd_Root
<1>5. ASSUME NEW name \in FileNames, Call(name)
      PROVE  TypeInv'
  BY <1>5, CallTypeStep
<1>6. CASE UNCHANGED vars
  BY <1>6, TypeUnchanged DEF vars, memoryVars, historyVars, TypeInv, TypeOK
<1> QED BY <1>1, <1>2, <1>3, <1>4, <1>5, <1>6 DEF Next

(* Whatever is called, written and cut short, bitmaps, inodes and entries  *)
(* name inodes and blocks that exist.                                      *)
THEOREM FileSystemTypes == Spec => []TypeOK
<1>1. Spec => []TypeInv
  BY TypeInit, TypeStep, PTL DEF Spec
<1>2. TypeInv => TypeOK
  BY DEF TypeInv
<1> QED BY <1>1, <1>2, PTL

-----------------------------------------------------------------------------
(* The directories are the least set that holds the root and what is below *)
(* what it holds: as many rounds as there are inodes reach all of them.    *)

IsReach(R, below) ==
    /\ R \subseteq Inodes
    /\ INODE_ROOTDIR \in R
    /\ \A d \in R : below[d] \subseteq R
    /\ \A X : INODE_ROOTDIR \in X /\ (\A d \in X \cap R : below[d] \subseteq X) => R \subseteq X

\* After as many rounds as there are inodes, Reachable is the least set of
\* directories with the root and what is below its members.
LEMMA ReachFacts ==
    ASSUME NEW below \in [Inodes -> SUBSET Inodes]
    PROVE  IsReach(Reachable(below), below)
<1> DEFINE F == [x \in SUBSET Inodes |-> x \cup UNION {below[d] : d \in x}]
           IC == InodeCount
           Is(g) == g = [n \in 0 .. IC |->
                            IF n = 0 THEN {INODE_ROOTDIR}
                            ELSE UNION {{d} \cup below[d] : d \in g[n - 1]}]
<1>1. {INODE_ROOTDIR} \in SUBSET Inodes /\ F \in [SUBSET Inodes -> SUBSET Inodes]
  BY ConstantFacts
<1>2. PICK f \in [Nat -> SUBSET Inodes] :
          f[0] = {INODE_ROOTDIR} /\ \A n \in Nat : f[n + 1] = F[f[n]]
  <2> HIDE DEF F, Is
  <2>1. PICK f : Iterates(f, SUBSET Inodes, {INODE_ROOTDIR}, F)
    BY <1>1, IterationExists
  <2> QED BY <2>1 DEF Iterates
<1>3. \A n \in Nat : f[n + 1] = f[n] \cup UNION {below[d] : d \in f[n]}
  BY <1>2
<1>4. IC \in Nat /\ IsFiniteSet(Inodes) /\ Cardinality(Inodes) = IC
  <2>1. 0 \in Int /\ IC - 1 \in Int /\ IC \in Nat /\ Inodes = 0 .. IC - 1 /\ ~(0 > IC - 1)
    BY FileSystemAssumption DEF Inodes
  <2>2. IsFiniteSet(0 .. IC - 1) /\ Cardinality(0 .. IC - 1) = (IC - 1) - 0 + 1
    <3> HIDE DEF IC
    <3> QED BY <2>1, FS_Interval
  <2> QED BY <2>1, <2>2
<1> HIDE DEF F, IC
<1>5. Is([n \in 0 .. IC |-> f[n]])
  <2> DEFINE g == [n \in 0 .. IC |-> f[n]]
  <2>1. ASSUME NEW n \in 0 .. IC
        PROVE  g[n] = IF n = 0 THEN {INODE_ROOTDIR}
                      ELSE UNION {{d} \cup below[d] : d \in g[n - 1]}
    <3>1. CASE n = 0
      BY <1>2, <3>1
    <3>2. CASE n # 0
      <4>1. n - 1 \in Nat /\ (n - 1) + 1 = n /\ n - 1 \in 0 .. IC
        BY <1>4, <3>2
      <4> QED BY <1>3, <3>2, <4>1
    <3> QED BY <3>1, <3>2
  <2> QED BY <2>1
<1> DEFINE w == CHOOSE g : Is(g)
<1>6. Is(w)
  <2> HIDE DEF Is
  <2> QED BY <1>5
<1>7. Reachable(below) = w[IC]
  BY DEF Reachable, IC
<1> HIDE DEF w
<1>8. w[IC] = f[IC]
  <2> DEFINE S == {n \in Nat : n <= IC => w[n] = f[n]}
  <2>1. 0 \in S
    BY <1>2, <1>4, <1>6
  <2>2. ASSUME NEW n \in Nat, n \in S
        PROVE  n + 1 \in S
    <3>1. n + 1 \in Nat /\ n + 1 # 0 /\ (n + 1) - 1 = n
      OBVIOUS
    <3>2. ASSUME n + 1 <= IC
          PROVE  w[n + 1] = f[n + 1]
      <4>1. n + 1 \in 0 .. IC /\ n <= IC
        BY <1>4, <3>2
      <4>2. w[n + 1] = w[n] \cup UNION {below[d] : d \in w[n]}
        BY <1>6, <3>1, <4>1
      <4>3. w[n] = f[n]
        BY <2>2, <4>1
      <4> QED BY <1>3, <4>2, <4>3
    <3> QED BY <3>1, <3>2
  <2>3. Nat \subseteq S
    <3> HIDE DEF S
    <3> QED BY <2>1, <2>2, SetInduction
  <2> QED BY <1>4, <2>3
<1> HIDE DEF Is
<1> DEFINE R == f[IC]
<1>9. \A n \in Nat : f[n] \subseteq Inodes /\ f[n] \subseteq f[n + 1]
  BY <1>2, <1>3
<1>10. \A n \in Nat : INODE_ROOTDIR \in f[n]
  <2> DEFINE S == {n \in Nat : INODE_ROOTDIR \in f[n]}
  <2>1. 0 \in S
    BY <1>2
  <2>2. \A n \in Nat : n \in S => n + 1 \in S
    BY <1>9
  <2>3. Nat \subseteq S
    <3> HIDE DEF S
    <3> QED BY <2>1, <2>2, SetInduction
  <2> QED BY <2>3
<1>11. f[IC + 1] = f[IC]
  <2> SUFFICES ASSUME f[IC + 1] # f[IC]
               PROVE  FALSE
    OBVIOUS
  <2>1. ASSUME NEW n \in Nat, n <= IC
        PROVE  f[n + 1] # f[n]
    <3> SUFFICES ASSUME f[n + 1] = f[n]
                 PROVE  FALSE
      OBVIOUS
    <3> DEFINE S == {j \in Nat : f[n + j] = f[n]}
    <3>1. 0 \in S
      OBVIOUS
    <3>2. ASSUME NEW j \in Nat, j \in S
          PROVE  j + 1 \in S
      <4>1. n + j \in Nat /\ (n + j) + 1 = n + (j + 1) /\ j + 1 \in Nat
        OBVIOUS
      <4>2. f[(n + j) + 1] = f[n + 1]
        BY <1>3, <3>2, <4>1
      <4>3. f[n + (j + 1)] = f[n]
        BY <4>1, <4>2
      <4> QED BY <4>1, <4>3
    <3>3. Nat \subseteq S
      <4> HIDE DEF S
      <4> QED BY <3>1, <3>2, SetInduction
    <3>4. PICK a, b : a = IC - n /\ b = IC + 1 - n
      OBVIOUS
    <3>5. a \in Nat /\ b \in Nat /\ n + a = IC /\ n + b = IC + 1
      BY <1>4, <2>1, <3>4
    <3>6. f[n + a] = f[n] /\ f[n + b] = f[n]
      BY <3>3, <3>5
    <3> QED BY <3>5, <3>6
  <2> DEFINE T == {n \in Nat : n <= IC + 1 => Cardinality(f[n]) >= n + 1}
  <2>2. \A n \in Nat : IsFiniteSet(f[n]) /\ Cardinality(f[n]) \in Nat /\ Cardinality(f[n]) <= IC
    BY <1>4, <1>9, FS_Subset, FS_CardinalityType
  <2>3. 0 \in T
    <3>1. Cardinality({INODE_ROOTDIR}) = 1
      BY FS_Singleton
    <3>2. Cardinality(f[0]) = 1
      BY <1>2, <3>1
    <3> QED BY <3>2
  <2>4. ASSUME NEW n \in Nat, n \in T
        PROVE  n + 1 \in T
    <3>1. ASSUME n + 1 <= IC + 1
          PROVE  Cardinality(f[n + 1]) >= (n + 1) + 1
      <4>1. n <= IC /\ n <= IC + 1 /\ n + 1 \in Nat
        BY <1>4, <3>1
      <4>2. f[n] \subseteq f[n + 1] /\ f[n] # f[n + 1]
        BY <1>9, <2>1, <4>1
      <4>3. Cardinality(f[n]) <= Cardinality(f[n + 1]) /\ Cardinality(f[n]) # Cardinality(f[n + 1])
        <5>1. IsFiniteSet(f[n + 1])
          BY <2>2, <4>1
        <5> QED BY <4>2, <5>1, FS_Subset
      <4>4. Cardinality(f[n]) >= n + 1
        BY <2>4, <4>1
      <4>5. Cardinality(f[n]) \in Nat /\ Cardinality(f[n + 1]) \in Nat
        BY <2>2, <4>1
      <4> QED BY <4>3, <4>4, <4>5
    <3> QED BY <3>1
  <2>5. Nat \subseteq T
    <3> HIDE DEF T
    <3> QED BY <2>3, <2>4, SetInduction
  <2>6. IC + 1 \in Nat
    BY <1>4
  <2>7. Cardinality(f[IC + 1]) >= (IC + 1) + 1
    BY <2>5, <2>6
  <2> QED BY <1>4, <2>2, <2>6, <2>7
<1>12. \A d \in R : below[d] \subseteq R
  BY <1>3, <1>4, <1>11
<1>13. ASSUME NEW X, INODE_ROOTDIR \in X, \A d \in X \cap R : below[d] \subseteq X
       PROVE  R \subseteq X
  <2> DEFINE S == {n \in Nat : n <= IC => f[n] \subseteq X /\ f[n] \subseteq R}
  <2>1. 0 \in S
    BY <1>2, <1>4, <1>10, <1>13
  <2>2. ASSUME NEW n \in Nat, n \in S
        PROVE  n + 1 \in S
    <3>1. n + 1 \in Nat /\ (n + 1 <= IC => n <= IC)
      BY <1>4
    <3>2. ASSUME n + 1 <= IC
          PROVE  f[n + 1] \subseteq X /\ f[n + 1] \subseteq R
      <4>1. f[n] \subseteq X /\ f[n] \subseteq R
        BY <2>2, <3>1, <3>2
      <4>2. \A d \in f[n] : below[d] \subseteq X /\ below[d] \subseteq R
        BY <1>12, <1>13, <4>1
      <4> HIDE DEF R
      <4> QED BY <1>3, <4>1, <4>2
    <3> QED BY <3>1, <3>2
  <2>3. Nat \subseteq S
    <3> HIDE DEF S
    <3> QED BY <2>1, <2>2, SetInduction
  <2> QED BY <1>4, <2>3
<1>14. R \subseteq Inodes /\ INODE_ROOTDIR \in R
  BY <1>4, <1>9, <1>10
<1> HIDE DEF R
<1>15. IsReach(R, below)
  BY <1>12, <1>13, <1>14 DEF IsReach
<1> QED BY <1>7, <1>8, <1>15 DEF R

\* What is reached depends only on what is below what is reached.
LEMMA ReachSame ==
    ASSUME NEW R, NEW S, NEW f, NEW g, IsReach(R, f), IsReach(S, g), \A d \in R : g[d] = f[d]
    PROVE  S = R
<1>1. S \subseteq R
  BY DEF IsReach
<1>2. R \subseteq S
  BY DEF IsReach
<1> QED BY <1>1, <1>2

\* One directory more, empty and under one that was there.
LEMMA ReachAdds ==
    ASSUME NEW R, NEW S, NEW f, NEW g, IsReach(R, f), IsReach(S, g), NEW n, g[n] = {},
           NEW a \in R, n \in g[a],
           \A d \in R : f[d] \subseteq g[d] /\ g[d] \subseteq f[d] \cup {n}
    PROVE  S = R \cup {n}
<1>1. S \subseteq R \cup {n}
  <2> DEFINE X == R \cup {n}
  <2>1. \A d \in X \cap S : g[d] \subseteq X
    BY DEF IsReach
  <2> QED BY <2>1 DEF IsReach
<1>2. R \subseteq S
  <2>1. \A d \in S \cap R : f[d] \subseteq S
    BY DEF IsReach
  <2> QED BY <2>1 DEF IsReach
<1>3. n \in S
  BY <1>2 DEF IsReach
<1> QED BY <1>1, <1>2, <1>3

\* One without anything below it less, or none less.
LEMMA ReachDrops ==
    ASSUME NEW R, NEW S, NEW f, NEW g, IsReach(R, f), IsReach(S, g), NEW n, n # INODE_ROOTDIR,
           n \in R => f[n] = {}, \A d \in R \ {n} : g[d] = f[d] \ {n}
    PROVE  S = R \ {n}
<1>1. S \subseteq R \ {n}
  <2> DEFINE X == R \ {n}
  <2>1. INODE_ROOTDIR \in X /\ \A d \in X \cap S : g[d] \subseteq X
    BY DEF IsReach
  <2> QED BY <2>1 DEF IsReach
<1>2. R \subseteq S \cup {n}
  <2> DEFINE X == S \cup {n}
  <2>1. \A d \in X \cap R : f[d] \subseteq X
    <3> TAKE d \in X \cap R
    <3>1. CASE d = n
      BY <3>1
    <3>2. CASE d # n
      <4>1. d \in S /\ g[d] = f[d] \ {n} /\ g[d] \subseteq S
        BY <3>2 DEF IsReach
      <4> QED BY <4>1
    <3> QED BY <3>1, <3>2
  <2>2. INODE_ROOTDIR \in X
    BY DEF IsReach
  <2> HIDE DEF X
  <2>3. R \subseteq X
    BY <2>1, <2>2 DEF IsReach
  <2> QED BY <2>3 DEF X
<1> QED BY <1>1, <1>2

-----------------------------------------------------------------------------
(* What a directory holds.                                                 *)

Child(d, k) ==
    [dir |-> d, name |-> Slot(d, k).name, inode |-> Slot(d, k).inode,
     isDir |-> Slot(d, k).type = FILETYPE_DIR]

\* The blocks of an inode exist.
LEMMA InodeTyped ==
    TypeInv => \A d \in Inodes :
        /\ inode_table[d] \in InodeType
        /\ \A i \in 1 .. DIR_BLOCKS : inode_table[d].block[i] \in BlockNumbers
        /\ BlocksOf(d) = {inode_table[d].block[i] : i \in 1 .. DIR_BLOCKS}
        /\ First(d) \in BlockNumbers /\ First(d) \in BlocksOf(d)
<1> SUFFICES ASSUME TypeInv, NEW d \in Inodes
             PROVE  /\ inode_table[d] \in InodeType
                    /\ \A i \in 1 .. DIR_BLOCKS : inode_table[d].block[i] \in BlockNumbers
                    /\ BlocksOf(d) = {inode_table[d].block[i] : i \in 1 .. DIR_BLOCKS}
                    /\ First(d) \in BlockNumbers /\ First(d) \in BlocksOf(d)
  OBVIOUS
<1>1. inode_table[d] \in InodeType
  BY DEF TypeInv, TypeOK, InodeType
<1>2. inode_table[d].block \in [1 .. DIR_BLOCKS -> BlockNumbers]
  BY <1>1 DEF InodeType
<1>3. BlocksOf(d) = {inode_table[d].block[i] : i \in 1 .. DIR_BLOCKS}
  BY <1>2 DEF BlocksOf, Range
<1>4. 1 \in 1 .. DIR_BLOCKS
  BY ConstantFacts
<1> QED BY <1>1, <1>2, <1>3, <1>4 DEF First

\* The entries of a sector are entries.
LEMMA SectorTyped ==
    TypeInv => \A n \in 0 .. BlockCount : \A k \in 0 .. EntriesPerSector - 1 :
        block_table[n][k] \in Entries
BY DEF TypeInv

\* The inodes of the entries of a directory exist.
LEMMA ChildrenTyped ==
    TypeInv => \A d \in Inodes : \A e \in Children(d) : e.inode \in Inodes
<1> SUFFICES ASSUME TypeInv, NEW d \in Inodes, NEW b \in Range(inode_table[d].block),
                    NEW k \in Block(b)[0].type \ {0}
             PROVE  Block(b)[k].inode \in Inodes
  BY DEF Children
<1>1. b \in BlockNumbers
  <2>1. BlocksOf(d) = {inode_table[d].block[i] : i \in 1 .. DIR_BLOCKS}
        /\ \A i \in 1 .. DIR_BLOCKS : inode_table[d].block[i] \in BlockNumbers
    BY InodeTyped
  <2>2. b \in BlocksOf(d)
    BY DEF BlocksOf
  <2> QED BY <2>1, <2>2
<1>2. Block(b) \in [Indices -> Entries] /\ 0 \in Indices
  BY <1>1, BlockTyped, ConstantFacts DEF BlockType
<1>3. k \in Indices
  BY <1>2 DEF Entries
<1> QED BY <1>2, <1>3 DEF Entries

BelowMap == [d \in Inodes |-> Below(d)]

\* The directories are what can be reached from the root.
LEMMA DirectoriesReach == TypeInv => IsReach(Directories, BelowMap)
<1> SUFFICES ASSUME TypeInv
             PROVE  IsReach(Directories, BelowMap)
  OBVIOUS
<1>1. BelowMap \in [Inodes -> SUBSET Inodes]
  BY ChildrenTyped DEF Below, BelowMap
<1>2. Directories = Reachable(BelowMap)
  BY DEF Directories, BelowMap
<1> QED BY <1>1, <1>2, ReachFacts

\* The entries of a directory whose headers are in order are those in use in its
\* first sector.
LEMMA ChildrenFacts ==
    TypeInv => \A d \in Inodes : HeadersOK(d) =>
        /\ Used(d) \subseteq 1 .. EntriesPerSector - 1
        /\ Children(d) = {Child(d, k) : k \in Used(d)}
<1> SUFFICES ASSUME TypeInv, NEW d \in Inodes, HeadersOK(d)
             PROVE  /\ Used(d) \subseteq 1 .. EntriesPerSector - 1
                    /\ Children(d) = {Child(d, k) : k \in Used(d)}
  OBVIOUS
<1> DEFINE In(b) == {Block(b)[k] : k \in Block(b)[0].type \ {0}}
           Row(e) == [dir |-> d, name |-> e.name, inode |-> e.inode, isDir |-> e.type = FILETYPE_DIR]
<1>1. Used(d) \subseteq 1 .. EntriesPerSector - 1
  BY ConstantFacts DEF HeadersOK, Used
<1>2. BlocksOf(d) = {inode_table[d].block[i] : i \in 1 .. DIR_BLOCKS}
      /\ \A b \in BlocksOf(d) : b \in BlockNumbers
  BY InodeTyped
<1>3. \A b \in BlockNumbers : \A k \in 0 .. EntriesPerSector - 1 : Block(b)[k] = block_table[b][k]
  <2> TAKE b \in BlockNumbers
  <2> TAKE k \in 0 .. EntriesPerSector - 1
  <2>1. k \in Indices /\ k < EntriesPerSector
    BY ConstantFacts
  <2> QED BY <2>1, BlockTyped
<1>4. 0 \in 0 .. EntriesPerSector - 1
  BY ConstantFacts
<1>5. In(First(d)) = {Slot(d, k) : k \in Used(d)}
  <2>1. First(d) \in BlockNumbers
    BY InodeTyped
  <2>2. Block(First(d))[0].type \ {0} = Used(d)
    BY <1>3, <1>4, <2>1 DEF Used
  <2>3. \A k \in Used(d) : Block(First(d))[k] = Slot(d, k)
    <3> TAKE k \in Used(d)
    <3>1. k \in 0 .. EntriesPerSector - 1
      BY <1>1
    <3> QED BY <1>3, <2>1, <3>1 DEF Slot
  <2> QED BY <2>2, <2>3
<1>6. ASSUME NEW i \in 2 .. DIR_BLOCKS
      PROVE  In(inode_table[d].block[i]) = {}
  <2>1. i \in 1 .. DIR_BLOCKS
    OBVIOUS
  <2>2. inode_table[d].block[i] \in BlockNumbers
    BY <2>1, InodeTyped
  <2>3. Block(inode_table[d].block[i])[0].type = {0}
    BY <1>3, <1>4, <2>2 DEF HeadersOK
  <2> QED BY <2>3
<1>7. Children(d) = UNION {{Row(e) : e \in In(b)} : b \in BlocksOf(d)}
  BY DEF Children, BlocksOf
<1>8. ASSUME NEW x
      PROVE  x \in Children(d) <=> \E k \in Used(d) : x = Child(d, k)
  <2>1. x \in Children(d) <=> \E i \in 1 .. DIR_BLOCKS : \E e \in In(inode_table[d].block[i]) : x = Row(e)
    <3> HIDE DEF In, Row
    <3> QED BY <1>2, <1>7
  <2>2. 1 \in 1 .. DIR_BLOCKS /\ \A i \in 1 .. DIR_BLOCKS : i = 1 \/ i \in 2 .. DIR_BLOCKS
    BY ConstantFacts
  <2>3. x \in Children(d) <=> \E e \in In(First(d)) : x = Row(e)
    <3> HIDE DEF In, Row
    <3> QED BY <1>6, <2>1, <2>2 DEF First
  <2>4. (\E e \in In(First(d)) : x = Row(e)) <=> \E k \in Used(d) : x = Row(Slot(d, k))
    <3> HIDE DEF In, Row
    <3> QED BY <1>5
  <2> QED BY <2>3, <2>4 DEF Child
<1> QED BY <1>1, <1>8

AllHeadersOK == \A d \in Directories : HeadersOK(d)

BelowIsUsed ==
    \A d \in Inodes : HeadersOK(d) =>
        Below(d) = {n \in Inodes :
                      /\ n \notin Building \cup half
                      /\ \E k \in Used(d) : Slot(d, k).inode = n /\ Slot(d, k).type = FILETYPE_DIR}

\* Below a directory are the directories it has entries for and that are made.
LEMMA BelowFacts == TypeInv => BelowIsUsed
<1> SUFFICES ASSUME TypeInv, NEW d \in Inodes, HeadersOK(d)
             PROVE  Below(d) = {n \in Inodes :
                      /\ n \notin Building \cup half
                      /\ \E k \in Used(d) : Slot(d, k).inode = n /\ Slot(d, k).type = FILETYPE_DIR}
  BY DEF BelowIsUsed
<1>1. Children(d) = {Child(d, k) : k \in Used(d)}
  BY ChildrenFacts
<1>2. \A n : n \in Below(d) <=> n \notin Building \cup half /\ \E e \in Children(d) : e.isDir /\ e.inode = n
  BY DEF Below
<1>3. \A n : (\E e \in Children(d) : e.isDir /\ e.inode = n) <=>
          \E k \in Used(d) : Child(d, k).isDir /\ Child(d, k).inode = n
  BY <1>1
<1>4. \A k : Child(d, k).isDir = (Slot(d, k).type = FILETYPE_DIR) /\ Child(d, k).inode = Slot(d, k).inode
  BY DEF Child
<1>5. \A n \in Below(d) : n \in Inodes
  BY ChildrenTyped DEF Below
<1>6. \A n : n \in Below(d) <=>
          /\ n \in Inodes /\ n \notin Building \cup half
          /\ \E k \in Used(d) : Slot(d, k).inode = n /\ Slot(d, k).type = FILETYPE_DIR
  <2> TAKE n
  <2>1. (\E k \in Used(d) : Child(d, k).isDir /\ Child(d, k).inode = n) <=>
            \E k \in Used(d) : Slot(d, k).inode = n /\ Slot(d, k).type = FILETYPE_DIR
    BY <1>4
  <2>2. n \in Below(d) <=>
            /\ n \notin Building \cup half
            /\ \E k \in Used(d) : Slot(d, k).inode = n /\ Slot(d, k).type = FILETYPE_DIR
    BY <1>2, <1>3, <2>1
  <2> QED BY <1>5, <2>2
<1>7. Below(d) = {n \in Below(d) : TRUE}
  BY DEF Below
<1> QED BY <1>6, <1>7

SlotsAre ==
    /\ Directories \subseteq Inodes /\ INODE_ROOTDIR \in Directories
    /\ \A d \in Directories : \A k \in Used(d) : k \in 1 .. EntriesPerSector - 1 /\ <<d, k>> \in Slots
    /\ \A d \in Directories : d # INODE_ROOTDIR =>
          d \notin Building \cup half
          /\ \E p \in Slots : InodeOf(p) = d /\ Slot(p[1], p[2]).type = FILETYPE_DIR
    /\ \A p \in Slots : Slot(p[1], p[2]).type = FILETYPE_DIR /\ InodeOf(p) \notin Building \cup half =>
          InodeOf(p) \in Directories
    /\ \A p \in Slots : /\ p[1] \in Directories /\ p[2] \in Used(p[1])
                        /\ p[2] \in 1 .. EntriesPerSector - 1 /\ p = <<p[1], p[2]>>
                        /\ Slot(p[1], p[2]) \in Entries

\* The slots are the places of the entries in use.
LEMMA SlotFacts == TypeInv /\ AllHeadersOK => SlotsAre
<1> SUFFICES ASSUME TypeInv, AllHeadersOK
             PROVE  SlotsAre
  OBVIOUS
<1>1. IsReach(Directories, BelowMap)
  BY DirectoriesReach
<1>2. Directories \subseteq Inodes /\ INODE_ROOTDIR \in Directories
  BY <1>1 DEF IsReach
<1>3. \A d \in Directories : \A k \in Used(d) : k \in 1 .. EntriesPerSector - 1 /\ <<d, k>> \in Slots
  BY <1>2, ChildrenFacts DEF AllHeadersOK, Slots
<1>4. ASSUME NEW p \in Slots
      PROVE  /\ p[1] \in Directories /\ p[2] \in Used(p[1]) /\ p[2] \in 1 .. EntriesPerSector - 1
             /\ p = <<p[1], p[2]>>
             /\ Slot(p[1], p[2]) \in Entries
  <2>1. p[1] \in Directories /\ p[2] \in Used(p[1]) /\ p[2] \in 1 .. EntriesPerSector - 1
        /\ p = <<p[1], p[2]>>
    BY DEF Slots
  <2>2. First(p[1]) \in BlockNumbers
    BY <1>2, <2>1, InodeTyped
  <2>3. First(p[1]) \in 0 .. BlockCount
    BY <2>2, ConstantFacts DEF BlockNumbers
  <2>4. p[2] \in 0 .. EntriesPerSector - 1
    BY <2>1, ConstantFacts
  <2> QED BY <2>1, <2>3, <2>4, SectorTyped DEF Slot
<1>5. ASSUME NEW d \in Directories, NEW n
      PROVE  n \in BelowMap[d] <=>
                 n \notin Building \cup half
                 /\ \E k \in Used(d) : Slot(d, k).inode = n /\ Slot(d, k).type = FILETYPE_DIR
  <2>1. d \in Inodes /\ HeadersOK(d)
    BY <1>2 DEF AllHeadersOK
  <2>2. BelowMap[d] = {x \in Inodes :
            /\ x \notin Building \cup half
            /\ \E k \in Used(d) : Slot(d, k).inode = x /\ Slot(d, k).type = FILETYPE_DIR}
    BY <2>1, BelowFacts DEF BelowMap, BelowIsUsed
  <2>3. \A k \in Used(d) : Slot(d, k).inode \in Inodes
    <3> TAKE k \in Used(d)
    <3>1. <<d, k>> \in Slots
      BY <1>3
    <3>2. Slot(d, k) \in Entries
      BY <1>4, <3>1
    <3> QED BY <3>2 DEF Entries
  <2> QED BY <2>2, <2>3
<1>6. ASSUME NEW p \in Slots, Slot(p[1], p[2]).type = FILETYPE_DIR, InodeOf(p) \notin Building \cup half
      PROVE  InodeOf(p) \in Directories
  <2>1. InodeOf(p) \in BelowMap[p[1]]
    BY <1>4, <1>5, <1>6 DEF InodeOf
  <2> QED BY <1>1, <1>4, <2>1 DEF IsReach
<1> DEFINE Held(d) ==
        d # INODE_ROOTDIR =>
            d \notin Building \cup half
            /\ \E p \in Slots : InodeOf(p) = d /\ Slot(p[1], p[2]).type = FILETYPE_DIR
           X == {d \in Inodes : Held(d)}
<1>7. ASSUME NEW d \in X \cap Directories, NEW n \in BelowMap[d]
      PROVE  n \in X
  <2>1. n \notin Building \cup half
    BY <1>5
  <2>2. PICK k \in Used(d) : Slot(d, k).inode = n /\ Slot(d, k).type = FILETYPE_DIR
    BY <1>5
  <2>3. <<d, k>> \in Slots /\ InodeOf(<<d, k>>) = n /\ Slot(<<d, k>>[1], <<d, k>>[2]).type = FILETYPE_DIR
    BY <1>3, <2>2 DEF InodeOf
  <2>4. n \in Inodes
    <3>1. Slot(<<d, k>>[1], <<d, k>>[2]) \in Entries
      BY <1>4, <2>3
    <3> QED BY <2>2, <3>1 DEF Entries
  <2> QED BY <2>1, <2>3, <2>4
<1>8. INODE_ROOTDIR \in X
  BY <1>2
<1>9. Directories \subseteq X
  <2> HIDE DEF X
  <2> QED BY <1>1, <1>7, <1>8 DEF IsReach
<1> QED BY <1>2, <1>3, <1>4, <1>6, <1>9 DEF SlotsAre

-----------------------------------------------------------------------------
(* Directories that a step leaves alone.                                   *)

DirKept(d) ==
    /\ inode_table'[d] = inode_table[d]
    /\ \A i \in 1 .. DIR_BLOCKS :
          block_table'[inode_table[d].block[i]] = block_table[inode_table[d].block[i]]

\* A directory left alone has its blocks and entries as before.
LEMMA KeptFacts ==
    ASSUME NEW d, DirKept(d)
    PROVE  /\ First(d)' = First(d) /\ BlocksOf(d)' = BlocksOf(d) /\ Used(d)' = Used(d)
           /\ \A k : Slot(d, k)' = Slot(d, k)
           /\ HeadersOK(d) => HeadersOK(d)'
<1>1. First(d)' = First(d) /\ BlocksOf(d)' = BlocksOf(d)
  BY DEF DirKept, First, BlocksOf
<1>2. \A i \in 1 .. DIR_BLOCKS :
          block_table'[inode_table'[d].block[i]] = block_table[inode_table[d].block[i]]
  BY DEF DirKept
<1>3. block_table'[First(d)'] = block_table[First(d)]
  BY <1>2, ConstantFacts DEF First
<1>4. Used(d)' = Used(d) /\ \A k : Slot(d, k)' = Slot(d, k)
  BY <1>3 DEF Used, Slot
<1>5. HeadersOK(d) => HeadersOK(d)'
  <2>1. \A i \in 2 .. DIR_BLOCKS : i \in 1 .. DIR_BLOCKS
    OBVIOUS
  <2> QED BY <1>2, <1>3, <2>1 DEF HeadersOK
<1> QED BY <1>1, <1>4, <1>5

TreeKept ==
    /\ Directories' = Directories /\ Slots' = Slots /\ AllHeadersOK'
    /\ \A d \in Directories : BlocksOf(d)' = BlocksOf(d) /\ First(d)' = First(d) /\ Used(d)' = Used(d)
    /\ \A d \in Directories : \A k : Slot(d, k)' = Slot(d, k)
    /\ \A p \in Slots : InodeOf(p)' = InodeOf(p)

\* The entries stay where they are and what they are.
SlotsSame == Slots' = Slots /\ \A p \in Slots : Slot(p[1], p[2])' = Slot(p[1], p[2])

\* One entry is made, removed, or gets another name.
SlotsChange ==
    \E q : \/ /\ q \notin Slots /\ Slots' = Slots \cup {q}
             /\ \A p \in Slots : Slot(p[1], p[2])' = Slot(p[1], p[2])
          \/ /\ q \in Slots /\ Slots' = Slots \ {q} /\ q[1] # InodeOf(q)
             /\ \A p \in Slots' : Slot(p[1], p[2])' = Slot(p[1], p[2])
          \/ /\ q \in Slots /\ Slots' = Slots
             /\ Slot(q[1], q[2])'.inode = Slot(q[1], q[2]).inode
             /\ Slot(q[1], q[2])'.type = Slot(q[1], q[2]).type
             /\ \A p \in Slots \ {q} : Slot(p[1], p[2])' = Slot(p[1], p[2])

\* If all directories are left alone the entries keep their places and contents.
LEMMA KeptSlots ==
    ASSUME SlotsAre, TreeKept
    PROVE  SlotsSame
BY DEF SlotsAre, TreeKept, SlotsSame

\* If all directories are left alone the tree stays the same.
LEMMA SameTree ==
    ASSUME TypeInv, TypeInv', AllHeadersOK, \A d \in Directories : DirKept(d),
           \A p \in Slots : Slot(p[1], p[2]).type = FILETYPE_DIR =>
               (InodeOf(p) \in Building \cup half <=> InodeOf(p) \in Building' \cup half')
    PROVE  TreeKept
<1>1. IsReach(Directories, BelowMap)
  BY DirectoriesReach
<1>2. IsReach(Directories', BelowMap')
  <2>1. (TypeInv => IsReach(Directories, BelowMap))'
    BY DirectoriesReach, PTL
  <2> QED BY <2>1 DEF IsReach
<1>3. ASSUME NEW d \in Directories
      PROVE  BelowMap'[d] = BelowMap[d]
  <2>1. d \in Inodes /\ HeadersOK(d)
    BY <1>1 DEF AllHeadersOK, IsReach
  <2>2. HeadersOK(d)' /\ Used(d)' = Used(d) /\ \A k : Slot(d, k)' = Slot(d, k)
    BY <2>1, KeptFacts
  <2>3. Below(d) = {n \in Inodes :
            /\ n \notin Building \cup half
            /\ \E k \in Used(d) : Slot(d, k).inode = n /\ Slot(d, k).type = FILETYPE_DIR}
    BY <2>1, BelowFacts DEF BelowIsUsed
  <2>4. Below(d)' = {n \in Inodes :
            /\ n \notin Building' \cup half'
            /\ \E k \in Used(d)' : Slot(d, k)'.inode = n /\ Slot(d, k)'.type = FILETYPE_DIR}
    <3>1. (TypeInv => BelowIsUsed)'
      BY BelowFacts, PTL
    <3> QED BY <2>1, <2>2, <3>1 DEF BelowIsUsed
  <2>5. \A k \in Used(d) : <<d, k>> \in Slots /\ <<d, k>>[1] = d /\ <<d, k>>[2] = k
    BY SlotFacts DEF SlotsAre
  <2>6. \A k \in Used(d) : Slot(d, k).type = FILETYPE_DIR =>
            (Slot(d, k).inode \in Building \cup half <=> Slot(d, k).inode \in Building' \cup half')
    BY <2>5 DEF InodeOf
  <2>7. Below(d)' = Below(d)
    BY <2>2, <2>3, <2>4, <2>6
  <2> QED BY <2>1, <2>7 DEF BelowMap
<1>4. Directories' = Directories
  <2>1. PICK R, S, f, g : R = Directories /\ S = Directories' /\ f = BelowMap /\ g = BelowMap'
    OBVIOUS
  <2>2. IsReach(R, f) /\ IsReach(S, g) /\ \A d \in R : g[d] = f[d]
    BY <1>1, <1>2, <1>3, <2>1
  <2>3. S = R
    BY <2>2, ReachSame
  <2> QED BY <2>1, <2>3
<1>5. /\ \A d \in Directories : BlocksOf(d)' = BlocksOf(d) /\ First(d)' = First(d) /\ Used(d)' = Used(d)
      /\ \A d \in Directories : \A k : Slot(d, k)' = Slot(d, k)
      /\ \A d \in Directories : HeadersOK(d)'
  BY KeptFacts DEF AllHeadersOK
<1>6. Slots' = Slots
  BY <1>4, <1>5 DEF Slots
<1>7. \A p \in Slots : InodeOf(p)' = InodeOf(p)
  BY <1>5, SlotFacts DEF InodeOf, SlotsAre
<1> QED BY <1>4, <1>5, <1>6, <1>7 DEF TreeKept, AllHeadersOK

-----------------------------------------------------------------------------
(* The last step of a kind.                                                *)

\* LastIn is the largest.
LEMMA LastIs ==
    ASSUME NEW T \in SUBSET Nat, NEW j \in T, \A i \in T : i <= j
    PROVE  LastIn(T) = j
<1>1. LastIn(T) \in T /\ \A i \in T : i <= LastIn(T)
  BY DEF LastIn
<1>2. PICK x : x = LastIn(T)
  OBVIOUS
<1>3. x <= j /\ j <= x /\ x \in Nat /\ j \in Nat
  BY <1>1, <1>2
<1> QED BY <1>2, <1>3

\* A set of steps has a last one.
LEMMA LastFacts ==
    ASSUME NEW n \in Nat, NEW T \in SUBSET (1 .. n), T # {}
    PROVE  LastIn(T) \in T /\ \A i \in T : i <= LastIn(T)
<1> DEFINE U == {n - j : j \in T}
<1>1. U \in SUBSET Nat /\ U # {}
  <2>1. \A j \in T : n - j \in Nat
    <3> TAKE j \in T
    <3>1. j \in 1 .. n
      OBVIOUS
    <3> QED BY <3>1
  <2>2. PICK j : j \in T
    OBVIOUS
  <2> QED BY <2>1, <2>2
<1>2. PICK x \in U : \A y \in U : x <= y
  <2> HIDE DEF U
  <2> QED BY <1>1, LeastNat
<1>3. PICK j \in T : x = n - j
  BY <1>2
<1>4. \A i \in T : i <= j
  <2> TAKE i \in T
  <2>1. n - i \in U /\ i \in Nat /\ j \in Nat
    OBVIOUS
  <2>2. n - j <= n - i
    BY <1>2, <1>3, <2>1
  <2> QED BY <2>1, <2>2
<1>5. T \in SUBSET Nat
  OBVIOUS
<1>6. LastIn(T) = j
  BY <1>4, <1>5, LastIs
<1> QED BY <1>4, <1>6

\* The last step, when the steps are counted from the second on.
LEMMA LastShift ==
    ASSUME NEW n \in Nat, NEW T \in SUBSET (1 .. n + 1), NEW U \in SUBSET (1 .. n),
           \A j \in 1 .. n : j \in U <=> j + 1 \in T, T # {}
    PROVE  /\ U = {} => LastIn(T) = 1
           /\ U # {} => LastIn(U) \in U /\ LastIn(T) = LastIn(U) + 1
<1>1. T \in SUBSET Nat
  OBVIOUS
<1>2. CASE U = {}
  <2>1. \A i \in T : i = 1
    <3> TAKE i \in T
    <3>1. i \in 1 .. n + 1
      OBVIOUS
    <3>2. i # 1 => i - 1 \in 1 .. n /\ (i - 1) + 1 = i
      BY <3>1
    <3>3. i # 1 => i - 1 \in U
      BY <3>2
    <3> QED BY <1>2, <3>3
  <2>2. 1 \in T /\ \A i \in T : i <= 1
    <3>1. PICK i : i \in T
      OBVIOUS
    <3> QED BY <2>1, <3>1
  <2> QED BY <1>1, <1>2, <2>2, LastIs
<1>3. CASE U # {}
  <2>1. U \in SUBSET (1 .. n)
    OBVIOUS
  <2>2. PICK j : j = LastIn(U)
    OBVIOUS
  <2>3. j \in U /\ \A i \in U : i <= j
    BY <1>3, <2>1, <2>2, LastFacts
  <2>4. j + 1 \in T /\ j \in Nat
    BY <2>3
  <2>5. \A i \in T : i <= j + 1
    <3> TAKE i \in T
    <3>1. i \in 1 .. n + 1
      OBVIOUS
    <3>2. CASE i = 1
      BY <2>4, <3>2
    <3>3. CASE i # 1
      <4>1. i - 1 \in U
        BY <3>1, <3>3
      <4>2. i - 1 <= j
        BY <2>3, <4>1
      <4> QED BY <2>4, <3>1, <4>2
    <3> QED BY <3>2, <3>3
  <2>6. LastIn(T) = j + 1
    BY <1>1, <2>4, <2>5, LastIs
  <2> QED BY <1>3, <2>2, <2>3, <2>6
<1> QED BY <1>2, <1>3

-----------------------------------------------------------------------------
(* A write is the first step of the call, and what the call leaves behind  *)
(* stays the same.                                                         *)

\* The steps of the call in progress are writes.
LEMMA PendingFacts ==
    TypeInv => /\ Len(pending) \in Nat
               /\ \A j \in Steps : pending[j] \in WriteType
               /\ \A kind : StepsTo(kind) \subseteq Steps
BY DEF TypeInv, Steps, StepsTo

\* What a write does to the list of writes.
LEMMA WriteShift ==
    ASSUME TypeInv, Write
    PROVE  /\ Len(pending) \in Nat /\ Len(pending) >= 1 /\ 1 \in Steps /\ pending[1] \in WriteType
           /\ Head(pending) = pending[1]
           /\ Len(pending') = Len(pending) - 1 /\ Len(pending') \in Nat
           /\ Steps' = 1 .. Len(pending) - 1
           /\ \A j \in Steps' : j + 1 \in Steps /\ pending'[j] = pending[j + 1]
           /\ \A j \in Steps : j # 1 => j - 1 \in Steps' /\ pending'[j - 1] = pending[j]
<1>1. pending \in Seq(WriteType) /\ pending # <<>> /\ pending' = Tail(pending)
  BY DEF Write, TypeInv
<1>2. /\ Len(pending) \in Nat /\ Len(pending) >= 1
      /\ Len(pending') = Len(pending) - 1
      /\ \A j \in 1 .. Len(pending) - 1 : pending'[j] = pending[j + 1]
      /\ pending[1] \in WriteType /\ Head(pending) = pending[1]
  BY <1>1
<1>3. Steps' = 1 .. Len(pending) - 1
  BY <1>2 DEF Steps
<1>4. \A j \in Steps : j # 1 => j - 1 \in Steps' /\ pending'[j - 1] = pending[j]
  <2> SUFFICES ASSUME NEW j \in 1 .. Len(pending), j # 1
               PROVE  j - 1 \in Steps' /\ pending'[j - 1] = pending[j]
    BY DEF Steps
  <2>1. PICK i : i = j - 1
    OBVIOUS
  <2>2. i \in 1 .. Len(pending) - 1 /\ i + 1 = j
    BY <1>2, <2>1
  <2> QED BY <1>2, <1>3, <2>1, <2>2
<1> QED BY <1>2, <1>3, <1>4 DEF Steps

\* ... and to the steps of a kind.
LEMMA StepsShift ==
    ASSUME TypeInv, Write
    PROVE  /\ \A kind : StepsTo(kind)' = {j \in 1 .. Len(pending) - 1 : j + 1 \in StepsTo(kind)}
           /\ \A kind : \A j \in StepsTo(kind)' : j + 1 \in StepsTo(kind) /\ pending'[j] = pending[j + 1]
           /\ \A kind : \A j \in StepsTo(kind) : j # 1 => j - 1 \in StepsTo(kind)'
           /\ \A kind : 1 \in StepsTo(kind) <=> pending[1].to = kind
           /\ \A kind : StepsTo(kind) = {} => StepsTo(kind)' = {}
           /\ \A kind : pending[1].to # kind /\ StepsTo(kind)' = {} => StepsTo(kind) = {}
           /\ \A j \in Steps' : Freed(j + 1) <=> Freed(j)' \/ pending[1].to = "free_half"
<1>1. /\ Len(pending) \in Nat /\ Len(pending) >= 1 /\ 1 \in Steps
      /\ Steps' = 1 .. Len(pending) - 1
      /\ \A j \in Steps' : j + 1 \in Steps /\ pending'[j] = pending[j + 1]
      /\ \A j \in Steps : j # 1 => j - 1 \in Steps' /\ pending'[j - 1] = pending[j]
  BY WriteShift
<1>2. ASSUME NEW kind
      PROVE  /\ StepsTo(kind)' = {j \in 1 .. Len(pending) - 1 : j + 1 \in StepsTo(kind)}
             /\ \A j \in StepsTo(kind)' : j + 1 \in StepsTo(kind) /\ pending'[j] = pending[j + 1]
             /\ \A j \in StepsTo(kind) : j # 1 => j - 1 \in StepsTo(kind)'
             /\ 1 \in StepsTo(kind) <=> pending[1].to = kind
  <2>1. StepsTo(kind)' = {j \in 1 .. Len(pending) - 1 : pending[j + 1].to = kind}
    BY <1>1 DEF StepsTo
  <2>2. \A j \in 1 .. Len(pending) - 1 : j + 1 \in StepsTo(kind) <=> pending[j + 1].to = kind
    BY <1>1 DEF StepsTo
  <2>3. \A j \in StepsTo(kind) : j # 1 => j - 1 \in StepsTo(kind)'
    BY <1>1 DEF StepsTo
  <2> QED BY <1>1, <2>1, <2>2, <2>3 DEF StepsTo
<1>3. ASSUME NEW j \in Steps'
      PROVE  Freed(j + 1) <=> Freed(j)' \/ pending[1].to = "free_half"
  <2>1. j \in Nat /\ j >= 1 /\ j <= Len(pending) - 1
    BY <1>1
  <2>2. Freed(j + 1) <=> \E i \in 1 .. j : pending[i].to = "free_half"
    BY <2>1 DEF Freed
  <2>3. \A i \in 1 .. j - 1 : pending'[i] = pending[i + 1]
    BY <1>1, <2>1
  <2>4. Freed(j)' <=> \E i \in 1 .. j - 1 : pending[i + 1].to = "free_half"
    BY <2>3 DEF Freed
  <2>5. (\E i \in 1 .. j : pending[i].to = "free_half") <=>
            (\E i \in 1 .. j - 1 : pending[i + 1].to = "free_half") \/ pending[1].to = "free_half"
    <3>1. \A i \in 1 .. j : i = 1 \/ (i - 1 \in 1 .. j - 1 /\ (i - 1) + 1 = i)
      BY <2>1
    <3>2. \A i \in 1 .. j - 1 : i + 1 \in 1 .. j
      BY <2>1
    <3>3. 1 \in 1 .. j
      BY <2>1
    <3> QED BY <3>1, <3>2, <3>3
  <2> QED BY <2>2, <2>4, <2>5
<1>4. ASSUME NEW kind
      PROVE  /\ StepsTo(kind) = {} => StepsTo(kind)' = {}
             /\ pending[1].to # kind /\ StepsTo(kind)' = {} => StepsTo(kind) = {}
  BY <1>2
<1> QED BY <1>2, <1>3, <1>4

\* What the disk will be at the end does not change with a write on the way there.
LEMMA EndsKept ==
    ASSUME TypeInv, Write
    PROVE  /\ BlockBitsAtEnd' = BlockBitsAtEnd
           /\ InodeBitsAtEnd' = InodeBitsAtEnd
           /\ \A b \in BlockNumbers : HeaderAtEnd(b)' = HeaderAtEnd(b)
<1> DEFINE n == Len(pending) - 1
<1>1. PICK w : w = pending[1]
  OBVIOUS
<1>2. n \in Nat /\ Len(pending) = n + 1 /\ w \in WriteType /\ Head(pending) = w /\ Steps = 1 .. n + 1
  BY <1>1, WriteShift DEF Steps
<1>3. \A j \in 1 .. n : pending'[j] = pending[j + 1]
  BY WriteShift
<1>4. \A kind : StepsTo(kind)' = {j \in 1 .. n : j + 1 \in StepsTo(kind)}
                /\ (1 \in StepsTo(kind) <=> w.to = kind) /\ StepsTo(kind) \in SUBSET (1 .. n + 1)
  BY <1>1, <1>2, StepsShift, PendingFacts
<1>5. /\ block_bitmap' = IF w.to = "block_bitmap" THEN w.bits ELSE block_bitmap
      /\ inode_bitmap' = IF w.to = "inode_bitmap" THEN w.bits ELSE inode_bitmap
  BY <1>1, <1>2 DEF Write
<1> HIDE DEF n
<1>6. ASSUME NEW T \in SUBSET (1 .. n + 1), NEW U \in SUBSET (1 .. n),
             \A j \in 1 .. n : j \in U <=> j + 1 \in T, T # {}
      PROVE  /\ U = {} => pending[LastIn(T)] = w /\ 1 \in T
             /\ U # {} => pending'[LastIn(U)] = pending[LastIn(T)]
  <2>1. /\ U = {} => LastIn(T) = 1
        /\ U # {} => LastIn(U) \in U /\ LastIn(T) = LastIn(U) + 1
    <3>1. n \in Nat
      BY <1>2
    <3> QED BY <1>6, <3>1, LastShift
  <2>2. U # {} => LastIn(U) \in 1 .. n
    BY <1>6, <2>1
  <2>3. U = {} => 1 \in T
    <3>1. T # {} /\ T \subseteq Nat
      BY <1>6
    <3>2. LastIn(T) \in T
      <4>1. PICK m : m = n + 1
        OBVIOUS
      <4>2. m \in Nat /\ T \in SUBSET (1 .. m)
        BY <1>2, <4>1
      <4> QED BY <1>6, <4>2, LastFacts
    <3> QED BY <2>1, <3>2
  <2> QED BY <1>1, <1>3, <2>1, <2>2, <2>3
<1>7. BlockBitsAtEnd' = BlockBitsAtEnd
  <2>1. PICK T, U : T = StepsTo("block_bitmap") /\ U = StepsTo("block_bitmap")'
    OBVIOUS
  <2>2. T \in SUBSET (1 .. n + 1) /\ U \in SUBSET (1 .. n) /\ (\A j \in 1 .. n : j \in U <=> j + 1 \in T)
        /\ (1 \in T <=> w.to = "block_bitmap")
    BY <1>4, <2>1
  <2>3. BlockBitsAtEnd = IF T = {} THEN block_bitmap ELSE pending[LastIn(T)].bits
    BY <2>1 DEF BlockBitsAtEnd
  <2>4. BlockBitsAtEnd' = IF U = {} THEN block_bitmap' ELSE pending'[LastIn(U)].bits
    BY <2>1 DEF BlockBitsAtEnd, LastIn
  <2>5. CASE T = {}
    BY <1>5, <2>2, <2>3, <2>4, <2>5
  <2>6. CASE T # {} /\ U = {}
    <3>1. pending[LastIn(T)] = w /\ 1 \in T
      BY <1>6, <2>2, <2>6
    <3> QED BY <1>5, <2>2, <2>3, <2>4, <2>6, <3>1
  <2>7. CASE T # {} /\ U # {}
    <3>1. pending'[LastIn(U)] = pending[LastIn(T)]
      BY <1>6, <2>2, <2>7
    <3> QED BY <2>3, <2>4, <2>7, <3>1
  <2> QED BY <2>5, <2>6, <2>7
<1>8. InodeBitsAtEnd' = InodeBitsAtEnd
  <2>1. PICK T, U : T = StepsTo("inode_bitmap") /\ U = StepsTo("inode_bitmap")'
    OBVIOUS
  <2>2. T \in SUBSET (1 .. n + 1) /\ U \in SUBSET (1 .. n) /\ (\A j \in 1 .. n : j \in U <=> j + 1 \in T)
        /\ (1 \in T <=> w.to = "inode_bitmap")
    BY <1>4, <2>1
  <2>3. InodeBitsAtEnd = IF T = {} THEN inode_bitmap ELSE pending[LastIn(T)].bits
    BY <2>1 DEF InodeBitsAtEnd
  <2>4. InodeBitsAtEnd' = IF U = {} THEN inode_bitmap' ELSE pending'[LastIn(U)].bits
    BY <2>1 DEF InodeBitsAtEnd, LastIn
  <2>5. CASE T = {}
    BY <1>5, <2>2, <2>3, <2>4, <2>5
  <2>6. CASE T # {} /\ U = {}
    <3>1. pending[LastIn(T)] = w /\ 1 \in T
      BY <1>6, <2>2, <2>6
    <3> QED BY <1>5, <2>2, <2>3, <2>4, <2>6, <3>1
  <2>7. CASE T # {} /\ U # {}
    <3>1. pending'[LastIn(U)] = pending[LastIn(T)]
      BY <1>6, <2>2, <2>7
    <3> QED BY <2>3, <2>4, <2>7, <3>1
  <2> QED BY <2>5, <2>6, <2>7
<1>9. ASSUME NEW b \in BlockNumbers
      PROVE  HeaderAtEnd(b)' = HeaderAtEnd(b)
  <2>1. PICK T, U : T = Touches(b) /\ U = Touches(b)'
    OBVIOUS
  <2>2. T \in SUBSET (1 .. n + 1) /\ U \in SUBSET (1 .. n) /\ (\A j \in 1 .. n : j \in U <=> j + 1 \in T)
        /\ (1 \in T <=> w.to \in {"block", "entry"} /\ (b = w.number \/ b = w.number + 1))
    <3>1. T \in SUBSET (1 .. n + 1)
      BY <1>4, <2>1 DEF Touches
    <3>2. U = {j \in StepsTo("block")' \cup StepsTo("entry")' :
                  b = pending'[j].number \/ b = pending'[j].number + 1}
      BY <2>1 DEF Touches
    <3>3. U \in SUBSET (1 .. n) /\ (\A j \in 1 .. n : j \in U <=> j + 1 \in T)
      <4>1. ASSUME NEW j
            PROVE  j \in U <=> j \in 1 .. n /\ j + 1 \in T
        <5>1. j \in U <=> j \in 1 .. n
                  /\ (j + 1 \in StepsTo("block") \/ j + 1 \in StepsTo("entry"))
                  /\ (b = pending'[j].number \/ b = pending'[j].number + 1)
          BY <1>4, <3>2
        <5>2. j \in 1 .. n => pending'[j] = pending[j + 1]
          BY <1>3
        <5> QED BY <2>1, <5>1, <5>2 DEF Touches
      <4> QED BY <4>1
    <3>4. 1 \in T <=> w.to \in {"block", "entry"} /\ (b = w.number \/ b = w.number + 1)
      BY <1>1, <1>4, <2>1 DEF Touches
    <3> QED BY <3>1, <3>3, <3>4
  <2> DEFINE header(v) == v.entries[(b - v.number) * EntriesPerSector].type
  <2>3. HeaderAtEnd(b) = IF T = {} THEN block_table[b][0].type ELSE header(pending[LastIn(T)])
    BY <2>1 DEF HeaderAtEnd
  <2>4. HeaderAtEnd(b)' = IF U = {} THEN block_table'[b][0].type ELSE header(pending'[LastIn(U)])
    BY <2>1 DEF HeaderAtEnd, LastIn
  <2>a. block_table \in [0 .. BlockCount -> [0 .. EntriesPerSector - 1 -> Entries]] /\ b \in 0 .. BlockCount
    BY ConstantFacts DEF TypeInv, BlockNumbers
  <2>5. 1 \notin T => block_table'[b] = block_table[b]
    <3>1. ASSUME 1 \notin T, w.to \in {"block", "entry"}
          PROVE  block_table'[b] = block_table[b]
      <4>1. ~(b = w.number \/ b = w.number + 1)
        BY <2>2, <3>1
      <4>2. b \in DOMAIN block_table
        BY <2>a
      <4> QED BY <1>1, <1>2, <3>1, <4>1, <4>2 DEF Write
    <3>2. ASSUME w.to \notin {"block", "entry"}
          PROVE  block_table'[b] = block_table[b]
      BY <1>1, <1>2, <3>2 DEF Write
    <3> QED BY <3>1, <3>2
  <2>6. 1 \in T => block_table'[b][0].type = header(w)
    <3> SUFFICES ASSUME 1 \in T
                 PROVE  block_table'[b][0].type = header(w)
      OBVIOUS
    <3>1. w.to \in {"block", "entry"} /\ (b = w.number \/ b = w.number + 1)
      BY <2>2
    <3>2. block_table'[b] = [k \in 0 .. EntriesPerSector - 1 |->
                                w.entries[(b - w.number) * EntriesPerSector + k]]
      <4>1. b \in DOMAIN block_table
        BY <2>a
      <4> QED BY <1>1, <1>2, <3>1, <4>1 DEF Write
    <3>3. 0 \in 0 .. EntriesPerSector - 1
      BY ConstantFacts
    <3>4. block_table'[b][0] = w.entries[(b - w.number) * EntriesPerSector + 0]
      BY <3>2, <3>3
    <3>5. (b - w.number) * EntriesPerSector + 0 = (b - w.number) * EntriesPerSector
      <4>1. w.number \in BlockNumbers
        BY <1>2, <3>1, WriteFields
      <4>2. b \in Nat /\ w.number \in Nat /\ EntriesPerSector \in Nat
        BY <4>1, ConstantFacts
      <4> QED BY <4>2
    <3> QED BY <3>4, <3>5
  <2> HIDE DEF header
  <2>7. CASE T = {}
    BY <2>2, <2>3, <2>4, <2>5, <2>7
  <2>8. CASE T # {} /\ U = {}
    <3>1. pending[LastIn(T)] = w /\ 1 \in T
      BY <1>6, <2>2, <2>8
    <3> QED BY <2>2, <2>3, <2>4, <2>6, <2>8, <3>1
  <2>9. CASE T # {} /\ U # {}
    <3>1. pending'[LastIn(U)] = pending[LastIn(T)]
      BY <1>6, <2>2, <2>9
    <3> QED BY <2>3, <2>4, <2>9, <3>1
  <2> QED BY <2>7, <2>8, <2>9
<1> QED BY <1>7, <1>8, <1>9

\* What TreeInv says of the step that is next.
LEMMA HeadFacts ==
    ASSUME TypeInv, TreeInv, Write
    PROVE  /\ AllHeadersOK /\ mounted /\ inode_NowDir \in Directories /\ inode_NowDir \notin Gone
           /\ pending[1].to # "formatted"
           /\ pending[1].to # "entry" => Gone = {}
           /\ pending[1].to \notin {"entry", "inode_bitmap"} => StepsTo("entry") = {}
           /\ pending[1].to = "block_bitmap" => BlockBitsStep(1)
           /\ pending[1].to = "block" => BlockStep(1)
           /\ pending[1].to = "inode_bitmap" => InodeBitsStep(1)
           /\ pending[1].to = "entry" => EntryStep(1)
           /\ pending[1].to = "inode" => InodeStep(1)
<1>1. AllHeadersOK
  BY DEF TreeInv, DirectoryInv, AllHeadersOK
<1>2. mounted /\ inode_NowDir \in Directories /\ inode_NowDir \notin Gone
  BY DEF Write, TreeInv
<1>3. 1 \in Steps /\ \A kind : 1 \in StepsTo(kind) <=> pending[1].to = kind
  BY WriteShift, StepsShift
<1>4. ASSUME NEW j \in StepsTo("entry"), pending[1].to # "entry"
      PROVE  /\ Used(inode_NowDir) \ pending[j].entries[0].type = {}
             /\ pending[1].to = "inode_bitmap"
  <2>1. EntryStep(j)
    BY DEF TreeInv, StepInv
  <2>2. j # 1 /\ j \in Steps
    BY <1>3, <1>4 DEF StepsTo
  <2>3. 1 \in 1 .. j - 1
    BY <2>2, PendingFacts DEF Steps
  <2>4. pending[1].to = "inode_bitmap"
    BY <2>1, <2>3 DEF EntryStep
  <2>5. PICK k \in 1 .. EntriesPerSector - 1 : Adds(j, k) \/ Drops(j, k) \/ Renames(j, k)
    BY <2>1 DEF EntryStep
  <2>6. ~Drops(j, k)
    BY <2>2 DEF Drops
  <2>7. Used(inode_NowDir) \subseteq pending[j].entries[0].type
    BY <2>5, <2>6 DEF Adds, Renames, Changes
  <2> QED BY <2>4, <2>7
<1>5. pending[1].to # "entry" => Gone = {}
  BY <1>4 DEF Gone
<1>6. pending[1].to \notin {"entry", "inode_bitmap"} => StepsTo("entry") = {}
  BY <1>4
<1>7. pending[1].to # "formatted"
  BY <1>3 DEF TreeInv, StepInv
<1>8. /\ pending[1].to = "block_bitmap" => BlockBitsStep(1)
      /\ pending[1].to = "block" => BlockStep(1)
      /\ pending[1].to = "inode_bitmap" => InodeBitsStep(1)
      /\ pending[1].to = "entry" => EntryStep(1)
      /\ pending[1].to = "inode" => InodeStep(1)
  BY <1>3 DEF TreeInv, StepInv
<1> QED BY <1>1, <1>2, <1>5, <1>6, <1>7, <1>8

\* Building, by the steps of a kind.
LEMMA BuildingSteps ==
    Building = {pending[k].number : k \in StepsTo("inode") \cup StepsTo("free_half")}
BY DEF Building, StepsTo, Steps

\* What a write other than that of an inode leaves of what is said of the steps to
\* come.
LEMMA AfterWrite ==
    ASSUME TypeInv, TypeInv', TreeInv, Write, pending[1].to # "inode"
    PROVE  /\ Coming' = Coming
           /\ Building' \cup half' = Building \cup half
           /\ pending[1].to # "free_half" => Building' = Building /\ half' = half
           /\ OwnedBlocks' = OwnedBlocks =>
                 /\ \A j \in StepsTo("block_bitmap")' : BlockBitsStep(j)'
                 /\ \A j \in StepsTo("block")' : BlockStep(j)'
           /\ \A j \in Steps' : half' # {} \/ Freed(j)' =>
                 pending'[j].to \in {"block_bitmap", "block", "inode_bitmap"}
           /\ StepsTo("formatted")' = {}
<1>1. PICK w : w = pending[1]
  OBVIOUS
<1>2. /\ Len(pending) \in Nat
      /\ Steps' = 1 .. Len(pending) - 1 /\ Head(pending) = w
      /\ \A j \in Steps' : j + 1 \in Steps /\ pending'[j] = pending[j + 1]
  BY <1>1, WriteShift
<1>3. /\ \A kind : \A j \in StepsTo(kind)' : j + 1 \in StepsTo(kind) /\ pending'[j] = pending[j + 1]
      /\ \A kind : \A j \in StepsTo(kind) : j # 1 => j - 1 \in StepsTo(kind)'
      /\ \A kind : 1 \in StepsTo(kind) <=> w.to = kind
  BY <1>1, StepsShift
<1>4. half' = IF w.to = "free_half" THEN half \cup {w.number} ELSE half
  BY <1>1, <1>2 DEF Write
<1>5. \A kind : \A j \in StepsTo(kind) : j # 1 =>
          /\ j - 1 \in StepsTo(kind)' /\ pending'[j - 1] = pending[j]
  <2> TAKE kind
  <2> TAKE j \in StepsTo(kind)
  <2> HAVE j # 1
  <2>1. j - 1 \in StepsTo(kind)' /\ pending'[j - 1] = pending[(j - 1) + 1]
    BY <1>3
  <2>2. (j - 1) + 1 = j
    BY PendingFacts DEF Steps
  <2> QED BY <2>1, <2>2
<1>6. Building = {pending[k].number : k \in StepsTo("inode") \cup StepsTo("free_half")}
      /\ Building' = {pending'[k].number : k \in StepsTo("inode")' \cup StepsTo("free_half")'}
  BY BuildingSteps DEF Building, StepsTo, Steps
<1>7. Building' \subseteq Building
  BY <1>3, <1>6
<1>8. \A n \in Building : n \in Building' \/ (w.to = "free_half" /\ n = w.number)
  <2> SUFFICES ASSUME NEW k \in StepsTo("inode") \cup StepsTo("free_half")
               PROVE  pending[k].number \in Building' \/ (w.to = "free_half" /\ pending[k].number = w.number)
    BY <1>6
  <2>1. CASE k = 1
    BY <1>1, <1>3, <2>1
  <2>2. CASE k # 1
    BY <1>5, <1>6, <2>2
  <2> QED BY <2>1, <2>2
<1>9. Building' \cup half' = Building \cup half
      /\ (w.to # "free_half" => Building' = Building /\ half' = half)
  <2>1. w.to = "free_half" => w.number \in Building
    BY <1>1, <1>3, <1>6
  <2> QED BY <1>4, <1>7, <1>8, <2>1
<1>10. Coming' = Coming
  <2> DEFINE T == {i \in StepsTo("inode") : pending[i].inode.links = DIR_BLOCKS}
             U == {i \in StepsTo("inode")' : pending'[i].inode.links = DIR_BLOCKS}
  <2>1. \A j \in T : j - 1 \in U /\ pending'[j - 1] = pending[j]
    BY <1>1, <1>3, <1>5
  <2>2. \A j \in U : j + 1 \in T /\ pending[j + 1] = pending'[j]
    BY <1>3
  <2>3. Coming = UNION {Range(pending[j].inode.block) : j \in T}
        /\ Coming' = UNION {Range(pending'[j].inode.block) : j \in U}
    BY DEF Coming
  <2> HIDE DEF T, U
  <2> QED BY <2>1, <2>2, <2>3
<1>11. ASSUME OwnedBlocks' = OwnedBlocks, NEW j \in StepsTo("block_bitmap")'
       PROVE  BlockBitsStep(j)'
  <2>1. BlockBitsStep(j + 1)
    BY <1>3 DEF TreeInv, StepInv
  <2> QED BY <1>3, <1>11, <2>1 DEF BlockBitsStep
<1>12. ASSUME OwnedBlocks' = OwnedBlocks, NEW j \in StepsTo("block")'
       PROVE  BlockStep(j)'
  <2>1. BlockStep(j + 1) /\ j + 1 \in Steps /\ j \in Steps'
    BY <1>3 DEF TreeInv, StepInv, StepsTo
  <2>2. Len(pending) # 1
    BY <1>2, <2>1
  <2>3. pending[j + 1].number \notin OwnedBlocks /\ pending[j + 1].number + 1 \notin OwnedBlocks
    BY <2>1, <2>2 DEF BlockStep
  <2> QED BY <1>3, <1>12, <2>3 DEF BlockStep
<1>13. ASSUME NEW j \in Steps', half' # {} \/ Freed(j)'
       PROVE  pending'[j].to \in {"block_bitmap", "block", "inode_bitmap"}
  <2>1. Freed(j + 1) <=> Freed(j)' \/ w.to = "free_half"
    BY <1>1, StepsShift
  <2>2. half # {} \/ Freed(j + 1)
    BY <1>4, <1>13, <2>1
  <2> QED BY <1>2, <2>2 DEF TreeInv, StepInv
<1>14. StepsTo("formatted")' = {}
  BY StepsShift DEF TreeInv, StepInv
<1> QED BY <1>1, <1>9, <1>10, <1>11, <1>12, <1>13, <1>14

\* The inode that will be written is still to be written.
LEMMA InodeStepAfter ==
    ASSUME TypeInv, TypeInv', TreeInv, Write, pending[1].to # "inode", OwnedBlocks' = OwnedBlocks,
           Directories' \subseteq Directories, NEW j \in StepsTo("inode")',
           \A p \in Slots' : InodeOf(p)' = pending[j + 1].number =>
               (Slot(p[1], p[2])'.type = FILETYPE_DIR <=> pending[j + 1].inode.links = DIR_BLOCKS),
           StepsTo("entry")' = {} => \E p \in Slots' : InodeOf(p)' = pending[j + 1].number
    PROVE  InodeStep(j)'
<1>1. j + 1 \in StepsTo("inode") /\ pending'[j] = pending[j + 1] /\ j \in Nat
      /\ Len(pending') = Len(pending) - 1 /\ Len(pending) \in Nat
  BY StepsShift, WriteShift
<1>2. InodeStep(j + 1)
  BY <1>1 DEF TreeInv, StepInv
<1>3. PICK w : w = pending[j + 1]
  OBVIOUS
<1>4. /\ j + 1 = Len(pending) /\ half = {} /\ StepsTo("free_half") = {}
      /\ w.number \notin Directories \cup {INODE_ENTRY_BIT}
      /\ \/ w.inode.links = 0
         \/ /\ w.inode.links = DIR_BLOCKS
            /\ \A a, b \in 1 .. DIR_BLOCKS : w.inode.block[a] = w.inode.block[b] => a = b
            /\ Coming \cap (OwnedBlocks \cup SetBitmap_block) = {}
            /\ Coming \subseteq BlockBitsAtEnd
            /\ \A b \in Coming : HeaderAtEnd(b) = {0}
  BY <1>2, <1>3 DEF InodeStep
<1>5. j = Len(pending')
  BY <1>1, <1>4
<1>6. pending[1].to # "free_half" /\ StepsTo("free_half")' = {}
  BY <1>4, StepsShift
<1>7. half' = {} /\ Coming' = Coming
  BY <1>4, <1>6, AfterWrite
<1>8. Coming \subseteq BlockNumbers
  <2>1. \A i \in StepsTo("inode") : pending[i].inode \in InodeType
    <3> TAKE i \in StepsTo("inode")
    <3>1. pending[i] \in WriteType /\ pending[i].to = "inode"
      BY PendingFacts DEF StepsTo
    <3> QED BY <3>1, WriteFields
  <2> QED BY <2>1 DEF Coming, InodeType, Range
<1>9. BlockBitsAtEnd' = BlockBitsAtEnd /\ \A b \in Coming : HeaderAtEnd(b)' = HeaderAtEnd(b)
  BY <1>8, EndsKept
<1>10. \/ w.inode.links = 0
       \/ /\ w.inode.links = DIR_BLOCKS
          /\ \A a, b \in 1 .. DIR_BLOCKS : w.inode.block[a] = w.inode.block[b] => a = b
          /\ Coming' \cap (OwnedBlocks' \cup SetBitmap_block) = {}
          /\ Coming' \subseteq BlockBitsAtEnd'
          /\ \A b \in Coming' : HeaderAtEnd(b)' = {0}
  BY <1>4, <1>7, <1>9
<1>11. pending'[j] = w /\ w.number \notin Directories' \cup {INODE_ENTRY_BIT}
  BY <1>1, <1>3, <1>4
<1>12. /\ \A p \in Slots' : InodeOf(p)' = w.number =>
              (Slot(p[1], p[2])'.type = FILETYPE_DIR <=> w.inode.links = DIR_BLOCKS)
       /\ StepsTo("entry")' = {} => \E p \in Slots' : InodeOf(p)' = w.number
  BY <1>3
<1> QED BY <1>5, <1>6, <1>7, <1>10, <1>11, <1>12 DEF InodeStep

\* What stays marked, if the inodes of the entries do not change.
LEMMA ExactAfter ==
    ASSUME TypeInv, TypeInv', TreeInv, Write, pending[1].to # "inode", OwnedBlocks' = OwnedBlocks,
           pending[1].to # "free_half" =>
               ({InodeOf(p) : p \in Slots} \ Gone) \cup Building
                   = ({InodeOf(p) : p \in Slots}' \ Gone') \cup Building'
    PROVE  ExactInv'
<1> SUFFICES ASSUME ~crashed', half' = {}, StepsTo("free_half")' = {}
             PROVE  /\ InodeBitsAtEnd' = {INODE_ENTRY_BIT, INODE_ROOTDIR}
                                \cup ({InodeOf(p) : p \in Slots}' \ Gone') \cup Building'
                    /\ BlockBitsAtEnd' = SetBitmap_block \cup OwnedBlocks' \cup Coming'
  BY DEF ExactInv
<1>1. pending[1].to # "free_half"
  BY WriteShift DEF Write
<1>2. ~crashed /\ half = {} /\ StepsTo("free_half") = {}
  <2>1. half' = half /\ crashed' = crashed
    BY <1>1, AfterWrite DEF Write
  <2> QED BY <1>1, <2>1, StepsShift
<1>3. /\ InodeBitsAtEnd = {INODE_ENTRY_BIT, INODE_ROOTDIR}
                                \cup ({InodeOf(p) : p \in Slots} \ Gone) \cup Building
      /\ BlockBitsAtEnd = SetBitmap_block \cup OwnedBlocks \cup Coming
  BY <1>2 DEF TreeInv, ExactInv
<1>4. Coming' = Coming /\ InodeBitsAtEnd' = InodeBitsAtEnd /\ BlockBitsAtEnd' = BlockBitsAtEnd
  BY AfterWrite, EndsKept
<1> QED BY <1>1, <1>3, <1>4

\* What Format marked stays marked.
LEMMA ReservedAfter ==
    ASSUME TypeInv, TreeInv, Write
    PROVE  ReservedInv'
<1>1. PICK w : w = pending[1]
  OBVIOUS
<1>2. /\ block_bitmap' = IF w.to = "block_bitmap" THEN w.bits ELSE block_bitmap
      /\ inode_bitmap' = IF w.to = "inode_bitmap" THEN w.bits ELSE inode_bitmap
      /\ half' = IF w.to = "free_half" THEN half \cup {w.number} ELSE half
  BY <1>1, WriteShift DEF Write
<1>3. /\ \A kind : \A j \in StepsTo(kind)' : j + 1 \in StepsTo(kind) /\ pending'[j] = pending[j + 1]
      /\ \A kind : 1 \in StepsTo(kind) <=> w.to = kind
  BY <1>1, StepsShift
<1>4. {INODE_ENTRY_BIT, INODE_ROOTDIR} \subseteq inode_bitmap'
  BY <1>1, <1>2, <1>3 DEF TreeInv, ReservedInv
<1>5. \A j \in StepsTo("inode_bitmap")' : {INODE_ENTRY_BIT, INODE_ROOTDIR} \subseteq pending'[j].bits
  BY <1>3 DEF TreeInv, ReservedInv
<1>6. half' = {} => SetBitmap_block \subseteq block_bitmap'
  <2> HAVE half' = {}
  <2>1. half = {}
    BY <1>2
  <2>2. ~Freed(1)
    BY DEF Freed
  <2> QED BY <1>1, <1>2, <1>3, <2>1, <2>2 DEF TreeInv, ReservedInv
<1>7. ASSUME NEW j \in StepsTo("block_bitmap")'
      PROVE  SetBitmap_block \subseteq pending'[j].bits \/ half' # {} \/ Freed(j)'
  <2>1. j + 1 \in StepsTo("block_bitmap") /\ pending'[j] = pending[j + 1] /\ j \in Steps'
    BY <1>3 DEF StepsTo
  <2>2. SetBitmap_block \subseteq pending[j + 1].bits \/ half # {} \/ Freed(j + 1)
    BY <2>1 DEF TreeInv, ReservedInv
  <2>3. Freed(j + 1) => Freed(j)' \/ w.to = "free_half"
    BY <1>1, <2>1, StepsShift
  <2> QED BY <1>2, <2>1, <2>2, <2>3
<1> QED BY <1>4, <1>5, <1>6, <1>7 DEF ReservedInv

-----------------------------------------------------------------------------
(* Writes that do not change the tree.                                     *)

\* The bitmaps and blocks outside the tree are written without touching it.
LEMMA QuietWrite ==
    ASSUME TypeInv, TypeInv', TreeInv, Write,
           pending[1].to \in {"block_bitmap", "inode_bitmap", "block", "free_half"}
    PROVE  TreeInv' /\ TreeKept
<1>1. PICK w : w = pending[1]
  OBVIOUS
<1>2. w \in WriteType /\ Head(pending) = w /\ w.to \in {"block_bitmap", "inode_bitmap", "block", "free_half"}
  BY <1>1, WriteShift
<1>3. AllHeadersOK /\ mounted /\ inode_NowDir \in Directories /\ Gone = {}
  BY <1>1, <1>2, HeadFacts
<1>4. inode_table' = inode_table /\ inode_NowDir' = inode_NowDir /\ crashed' = crashed
      /\ mounted' /\ w.to # "inode" /\ w.to # "entry"
  BY <1>2, <1>3 DEF Write
<1>5. Directories \subseteq Inodes
  BY <1>3, SlotFacts DEF SlotsAre
<1>6. ASSUME NEW d \in Directories
      PROVE  DirKept(d)
  <2>1. CASE w.to = "block"
    <3>1. BlockStep(1) /\ OwnedBlocks = UNION {BlocksOf(c) : c \in Directories}
      BY <1>1, <1>3, <2>1, HeadFacts DEF OwnedBlocks
    <3>2. w.number \notin OwnedBlocks /\ (w.number + 1 \in OwnedBlocks => SecondKept(w))
      BY <1>1, <3>1 DEF BlockStep
    <3>3. ASSUME NEW i \in 1 .. DIR_BLOCKS
          PROVE  block_table'[inode_table[d].block[i]] = block_table[inode_table[d].block[i]]
      <4>1. PICK b : b = inode_table[d].block[i]
        OBVIOUS
      <4>2. b \in BlocksOf(d) /\ b \in BlockNumbers
        BY <1>5, <4>1, InodeTyped
      <4>3. b \in OwnedBlocks
        BY <3>1, <4>2
      <4>4. b \in 0 .. BlockCount /\ b # w.number
            /\ block_table \in [0 .. BlockCount -> [0 .. EntriesPerSector - 1 -> Entries]]
        BY <3>2, <4>2, <4>3, ConstantFacts, SMTT(30) DEF BlockNumbers, TypeInv
      <4>5. block_table'[b] = IF b = w.number \/ b = w.number + 1
                              THEN [k \in 0 .. EntriesPerSector - 1 |->
                                       w.entries[(b - w.number) * EntriesPerSector + k]]
                              ELSE block_table[b]
        BY <1>2, <2>1, <4>4 DEF Write
      <4>6. CASE b = w.number + 1
        <5>0. w.number \in Nat /\ EntriesPerSector \in Nat
          <6>1. w.number \in BlockNumbers
            BY <1>2, <2>1, WriteFields
          <6> QED BY <6>1, ConstantFacts
        <5>1. (b - w.number) * EntriesPerSector = EntriesPerSector
          BY <4>6, <5>0
        <5>2. \A k \in 0 .. EntriesPerSector - 1 : w.entries[EntriesPerSector + k] = block_table[b][k]
          BY <3>2, <4>3, <4>6 DEF SecondKept
        <5>3. block_table'[b] = [k \in 0 .. EntriesPerSector - 1 |-> block_table[b][k]]
          BY <4>5, <4>6, <5>1, <5>2
        <5>4. block_table[b] \in [0 .. EntriesPerSector - 1 -> Entries]
          BY <4>4
        <5> QED BY <4>1, <5>3, <5>4
      <4>7. CASE b # w.number + 1
        BY <4>1, <4>4, <4>5, <4>7
      <4> QED BY <4>6, <4>7
    <3> QED BY <1>4, <3>3 DEF DirKept
  <2>2. CASE w.to # "block"
    <3>1. block_table' = block_table
      BY <1>2, <1>4, <2>2 DEF Write
    <3> QED BY <1>4, <3>1 DEF DirKept
  <2> QED BY <2>1, <2>2
<1>7. TreeKept
  <2>1. Building' \cup half' = Building \cup half
    BY <1>1, <1>4, AfterWrite
  <2> QED BY <1>3, <1>6, <2>1, SameTree
<1>8. Gone' = {}
  <2>1. ASSUME NEW j \in StepsTo("entry")'
        PROVE  Used(inode_NowDir)' \ pending'[j].entries[0].type = {}
    <3>1. j + 1 \in StepsTo("entry") /\ pending'[j] = pending[j + 1]
      BY StepsShift
    <3>2. Used(inode_NowDir)' = Used(inode_NowDir)
      <4>1. PICK d : d = inode_NowDir
        OBVIOUS
      <4>2. Used(d)' = Used(d)
        BY <1>3, <1>7, <4>1 DEF TreeKept
      <4> QED BY <1>4, <4>1, <4>2 DEF Used, First
    <3>3. {Slot(inode_NowDir, k).inode : k \in Used(inode_NowDir) \ pending[j + 1].entries[0].type} = {}
      BY <1>3, <3>1 DEF Gone
    <3> QED BY <3>1, <3>2, <3>3
  <2> QED BY <2>1 DEF Gone
<1>9. OwnedBlocks' = OwnedBlocks
  BY <1>3, <1>7, <1>8 DEF OwnedBlocks, TreeKept
<1>10. DirectoryInv'
  <2>1. \A d \in Directories : BlocksOf(d) \subseteq block_bitmap'
    <3>1. CASE w.to = "block_bitmap"
      BY <1>1, <1>2, <1>3, <3>1, HeadFacts DEF Write, BlockBitsStep, OwnedBlocks
    <3>2. CASE w.to # "block_bitmap"
      <4>1. block_bitmap' = block_bitmap
        BY <1>2, <3>2 DEF Write
      <4>2. \A d \in Directories : \A i \in 1 .. DIR_BLOCKS : inode_table[d].block[i] \in block_bitmap
        BY DEF TreeInv, DirectoryInv, OwnsBlocks
      <4> QED BY <1>5, <4>1, <4>2, InodeTyped
    <3> QED BY <3>1, <3>2
  <2>2. \A d \in Directories : OwnsBlocks(d)'
    <3> TAKE d \in Directories
    <3>1. OwnsBlocks(d)
      BY DEF TreeInv, DirectoryInv
    <3>2. \A i \in 1 .. DIR_BLOCKS : inode_table[d].block[i] \in BlocksOf(d)
      BY <1>5, InodeTyped
    <3> QED BY <1>4, <2>1, <3>1, <3>2 DEF OwnsBlocks
  <2>3. \A c, d \in Directories : c # d => BlocksOf(c) \cap BlocksOf(d) = {}
    BY DEF TreeInv, DirectoryInv
  <2> QED BY <1>7, <2>2, <2>3 DEF DirectoryInv, TreeKept, AllHeadersOK
<1>11. half' = {} => half = {}
  BY <1>2 DEF Write
<1>12. ASSUME NEW p \in Slots, half' = {}
       PROVE  InodeOf(p) \in inode_bitmap'
  <2>1. InodeOf(p) \in inode_bitmap
    BY <1>11, <1>12 DEF TreeInv, EntryInv, EntryOK, InodeOf
  <2>2. CASE w.to = "inode_bitmap"
    <3>1. InodeBitsStep(1) /\ ~Freed(1)
      BY <1>1, <2>2, HeadFacts DEF Freed
    <3> QED BY <1>1, <1>2, <1>3, <1>11, <1>12, <2>2, <3>1 DEF InodeBitsStep, Write
  <2>3. CASE w.to # "inode_bitmap"
    BY <1>2, <2>1, <2>3 DEF Write
  <2> QED BY <2>2, <2>3
<1>13. EntryInv'
  <2>1. ASSUME NEW p \in Slots
        PROVE  EntryOK(Slot(p[1], p[2]))'
    <3>1. PICK e : e = Slot(p[1], p[2])
      OBVIOUS
    <3>2. EntryOK(e) /\ e = Slot(p[1], p[2])'
      <4>1. p[1] \in Directories
        BY <1>3, SlotFacts DEF SlotsAre
      <4> QED BY <1>7, <3>1, <4>1 DEF TreeKept, TreeInv, EntryInv
    <3>3. half' = {} => e.inode \in inode_bitmap'
      BY <1>12, <3>1 DEF InodeOf
    <3>4. Building' \cup half' = Building \cup half
      BY <1>1, <1>4, AfterWrite
    <3>5. EntryOK(e)'
      BY <1>4, <3>2, <3>3, <3>4 DEF EntryOK
    <3> QED BY <3>2, <3>5 DEF EntryOK
  <2>2. \A p \in Slots : p[1] \in Directories /\ Slot(p[1], p[2])' = Slot(p[1], p[2])
    BY <1>3, <1>7, SlotFacts DEF SlotsAre, TreeKept
  <2>3. Slots' = Slots /\ \A p \in Slots : InodeOf(p)' = InodeOf(p)
    BY <1>7 DEF TreeKept
  <2>4. \A p, q \in Slots : InodeOf(p)' = InodeOf(q)' => p = q
    BY <2>3 DEF TreeInv, EntryInv
  <2>5. \A p, q \in Slots :
            p[1] = q[1] /\ Slot(p[1], p[2])'.name = Slot(q[1], q[2])'.name => p = q
    BY <2>2 DEF TreeInv, EntryInv
  <2> QED BY <2>1, <2>3, <2>4, <2>5 DEF EntryInv
<1>14. ASSUME NEW j \in StepsTo("inode_bitmap")'
       PROVE  InodeBitsStep(j)'
  <2>1. j + 1 \in StepsTo("inode_bitmap") /\ pending'[j] = pending[j + 1] /\ j \in Steps'
    BY StepsShift DEF StepsTo
  <2>2. InodeBitsStep(j + 1)
    BY <2>1 DEF TreeInv, StepInv
  <2>3. Freed(j + 1) => Freed(j)' \/ half' # {}
    <3>1. Freed(j + 1) => Freed(j)' \/ w.to = "free_half"
      BY <1>1, <2>1, StepsShift
    <3> QED BY <1>2, <3>1 DEF Write
  <2>4. (\A p \in Slots : InodeOf(p) \in pending[j + 1].bits) \/ half # {} \/ Freed(j + 1)
    BY <1>3, <2>2 DEF InodeBitsStep
  <2>5. (\A p \in Slots' : InodeOf(p)' \in pending[j + 1].bits) \/ half' # {} \/ Freed(j)'
    BY <1>7, <1>11, <2>3, <2>4 DEF TreeKept
  <2> QED BY <1>8, <2>1, <2>5 DEF InodeBitsStep
<1>15. ASSUME NEW j \in StepsTo("inode")'
       PROVE  InodeStep(j)'
  <2>1. j + 1 \in StepsTo("inode")
    BY StepsShift
  <2>2. InodeStep(j + 1)
    BY <2>1 DEF TreeInv, StepInv
  <2>3. PICK n, links : n = pending[j + 1].number /\ links = pending[j + 1].inode.links
    OBVIOUS
  <2>4. \A p \in Slots : InodeOf(p) = n => (Slot(p[1], p[2]).type = FILETYPE_DIR <=> links = DIR_BLOCKS)
    BY <2>2, <2>3 DEF InodeStep
  <2>5. \A p \in Slots' : InodeOf(p)' = n =>
            (Slot(p[1], p[2])'.type = FILETYPE_DIR <=> links = DIR_BLOCKS)
    BY <1>3, <1>7, <2>4, SlotFacts DEF SlotsAre, TreeKept
  <2>6. StepsTo("entry")' = {} => StepsTo("entry") = {}
    BY <1>1, <1>4, StepsShift
  <2>7. StepsTo("entry")' = {} => \E p \in Slots' : InodeOf(p)' = n
    BY <1>7, <2>2, <2>3, <2>6 DEF TreeKept, InodeStep
  <2>8. Directories' \subseteq Directories
    BY <1>7 DEF TreeKept
  <2> QED BY <1>1, <1>4, <1>9, <2>3, <2>5, <2>7, <2>8, InodeStepAfter
<1>16. ASSUME NEW j \in StepsTo("entry")'
       PROVE  EntryStep(j)'
  <2>1. j + 1 \in StepsTo("entry") /\ pending'[j] = pending[j + 1] /\ j \in Steps' /\ j \in Nat
    BY StepsShift, WriteShift DEF StepsTo
  <2>2. EntryStep(j + 1) /\ w.to = "inode_bitmap"
    <3>1. StepsTo("entry") # {}
      BY <2>1
    <3>2. w.to = "inode_bitmap"
      BY <1>1, <1>4, <3>1, HeadFacts
    <3> QED BY <2>1, <3>2 DEF TreeInv, StepInv
  <2>3. PICK d : d = inode_NowDir
    OBVIOUS
  <2>4. /\ d \in Directories /\ inode_NowDir' = d
        /\ First(d)' = First(d) /\ Used(d)' = Used(d) /\ \A i : Slot(d, i)' = Slot(d, i)
    BY <1>3, <1>4, <1>7, <2>3 DEF TreeKept
  <2>5. block_table' = block_table /\ half' = half /\ inode_bitmap' = w.bits /\ Building' = Building
    BY <1>1, <1>2, <1>4, <2>2, AfterWrite DEF Write
  <2>6. \A i \in 1 .. j - 1 : pending'[i].to = "inode_bitmap"
    <3> TAKE i \in 1 .. j - 1
    <3>1. i \in Steps' /\ i + 1 \in 1 .. (j + 1) - 1
      BY <2>1, WriteShift
    <3>2. pending'[i] = pending[i + 1]
      BY <3>1, WriteShift
    <3>3. \A x \in 1 .. (j + 1) - 1 : pending[x].to = "inode_bitmap"
      BY <2>2 DEF EntryStep
    <3> QED BY <3>1, <3>2, <3>3
  <2>7. StepsTo("entry")' = {j}
    <3>1. StepsTo("entry") = {j + 1}
      BY <2>2 DEF EntryStep
    <3>2. ASSUME NEW i \in StepsTo("entry")'
          PROVE  i = j
      <4>1. i + 1 \in StepsTo("entry") /\ i \in Nat
        BY StepsShift, WriteShift
      <4> QED BY <2>1, <3>1, <4>1
    <3> QED BY <3>2
  <2>8. PICK v : v = pending[j + 1]
    OBVIOUS
  <2>9. v.number = First(d) /\ SecondKept(v)
    BY <2>2, <2>3, <2>8 DEF EntryStep
  <2>10. SecondKept(v)'
    BY <2>5, <2>9 DEF SecondKept
  <2>11. PICK k \in 1 .. EntriesPerSector - 1 : Adds(j + 1, k) \/ Renames(j + 1, k)
    <3>1. PICK k \in 1 .. EntriesPerSector - 1 : Adds(j + 1, k) \/ Drops(j + 1, k) \/ Renames(j + 1, k)
      BY <2>2 DEF EntryStep
    <3>2. ~Drops(j + 1, k)
      <4>1. j >= 1
        BY <2>1, WriteShift
      <4> QED BY <2>1, <4>1 DEF Drops
    <3> QED BY <3>1, <3>2
  <2>12. PICK e, used : e = v.entries[k] /\ used = Used(d)
    OBVIOUS
  <2>13. /\ \A x : Changes(v, k, x) => Changes(v, k, x)'
         /\ NewName(e.name) => NewName(e.name)'
    BY <2>3, <2>4 DEF Changes, NewName
  <2>14. CASE Adds(j + 1, k)
    <3>1. /\ k \notin used
          /\ Changes(v, k, used \cup {k})
          /\ e.inode \notin {INODE_ENTRY_BIT, INODE_ROOTDIR}
          /\ e.type \in {FILETYPE_FILE, FILETYPE_DIR}
          /\ NewName(e.name)
          /\ Building = {e.inode}
          /\ \A p \in Slots : InodeOf(p) # e.inode
          /\ \A i \in StepsTo("inode_bitmap") : e.inode \in pending[i].bits \/ (i > j + 1 /\ Freed(i))
          /\ \A i \in StepsTo("inode") : e.type = FILETYPE_DIR <=> pending[i].inode.links = DIR_BLOCKS
      BY <2>3, <2>8, <2>12, <2>14 DEF Adds
    <3>2. e.inode \in inode_bitmap'
      <4>1. 1 \in StepsTo("inode_bitmap")
        BY <1>1, <2>2, StepsShift
      <4>2. ~(1 > j + 1)
        BY <2>1
      <4> QED BY <1>1, <2>5, <3>1, <4>1, <4>2
    <3>3. \A i \in StepsTo("inode_bitmap")' : e.inode \in pending'[i].bits \/ (i > j /\ Freed(i)')
      <4> TAKE i \in StepsTo("inode_bitmap")'
      <4>1. i + 1 \in StepsTo("inode_bitmap") /\ pending'[i] = pending[i + 1] /\ i \in Steps' /\ i \in Nat
        BY StepsShift, WriteShift DEF StepsTo
      <4>2. Freed(i + 1) => Freed(i)'
        BY <1>1, <2>2, <4>1, StepsShift
      <4>3. i + 1 > j + 1 => i > j
        BY <2>1, <4>1
      <4>4. e.inode \in pending[i + 1].bits \/ (i + 1 > j + 1 /\ Freed(i + 1))
        BY <3>1, <4>1
      <4> QED BY <4>1, <4>2, <4>3, <4>4
    <3>4. \A i \in StepsTo("inode")' : e.type = FILETYPE_DIR <=> pending'[i].inode.links = DIR_BLOCKS
      <4> TAKE i \in StepsTo("inode")'
      <4>1. i + 1 \in StepsTo("inode") /\ pending'[i] = pending[i + 1]
        BY StepsShift
      <4> QED BY <3>1, <4>1
    <3>5. \A p \in Slots' : InodeOf(p)' # e.inode
      BY <1>7, <3>1 DEF TreeKept
    <3>6. e = pending'[j].entries[k] /\ v = pending'[j] /\ used = Used(inode_NowDir)'
      <4>1. Used(inode_NowDir)' = Used(d)'
        BY <2>4 DEF Used, First
      <4> QED BY <2>1, <2>4, <2>8, <2>12, <4>1
    <3>7. Changes(v, k, used \cup {k})' /\ NewName(e.name)'
      BY <2>13, <3>1
    <3>8. Adds(j, k)'
      BY <2>5, <3>1, <3>2, <3>3, <3>4, <3>5, <3>6, <3>7 DEF Adds, Changes, NewName
    <3> QED BY <2>1, <2>2, <2>4, <2>5, <2>6, <2>7, <2>8, <2>9, <2>10, <3>8 DEF EntryStep, SecondKept, First
  <2>15. CASE Renames(j + 1, k)
    <3>1. /\ k \in used
          /\ Changes(v, k, used)
          /\ Building = {}
          /\ e = [Slot(d, k) EXCEPT !.name = e.name]
          /\ NewName(e.name)
      BY <2>3, <2>8, <2>12, <2>15 DEF Renames
    <3>2. e = pending'[j].entries[k] /\ v = pending'[j] /\ used = Used(inode_NowDir)'
          /\ Slot(inode_NowDir, k)' = Slot(d, k)
      <4>1. Used(inode_NowDir)' = Used(d)' /\ Slot(inode_NowDir, k)' = Slot(d, k)'
        BY <2>4 DEF Used, First, Slot
      <4> QED BY <2>1, <2>4, <2>8, <2>12, <4>1
    <3>3. Changes(v, k, used)' /\ NewName(e.name)'
      BY <2>13, <3>1
    <3>4. Renames(j, k)'
      BY <2>5, <3>1, <3>2, <3>3 DEF Renames, Changes, NewName
    <3> QED BY <2>1, <2>2, <2>4, <2>5, <2>6, <2>7, <2>8, <2>9, <2>10, <3>4 DEF EntryStep, SecondKept, First
  <2> QED BY <2>11, <2>14, <2>15
<1>17. StepInv'
  <2>1. /\ \A j \in StepsTo("block_bitmap")' : BlockBitsStep(j)'
        /\ \A j \in StepsTo("block")' : BlockStep(j)'
        /\ \A j \in Steps' : half' # {} \/ Freed(j)' =>
                 pending'[j].to \in {"block_bitmap", "block", "inode_bitmap"}
        /\ StepsTo("formatted")' = {}
    BY <1>1, <1>4, <1>9, AfterWrite
  <2> QED BY <1>14, <1>15, <1>16, <2>1 DEF StepInv
<1>18. ExactInv'
  <2>1. {InodeOf(p) : p \in Slots}' = {InodeOf(p) : p \in Slots}
    BY <1>7 DEF TreeKept
  <2>2. w.to # "free_half" => Building' = Building
    BY <1>1, <1>4, AfterWrite
  <2> QED BY <1>1, <1>3, <1>4, <1>8, <1>9, <2>1, <2>2, ExactAfter
<1>19. inode_NowDir' \in Directories' \ Gone'
  BY <1>3, <1>4, <1>7, <1>8 DEF TreeKept
<1>20. ReservedInv'
  BY ReservedAfter
<1> QED BY <1>4, <1>7, <1>10, <1>13, <1>17, <1>18, <1>19, <1>20 DEF TreeInv

-----------------------------------------------------------------------------
(* The inode of a new file or directory is written, as the last step.      *)

\* An inode that is written is a file or an empty directory from then on.
LEMMA InodeWrite ==
    ASSUME TypeInv, TypeInv', TreeInv, Write, pending[1].to = "inode"
    PROVE  TreeInv' /\ SlotsSame
<1>1. PICK w, n : w = pending[1] /\ n = w.number
  OBVIOUS
<1>2. /\ w \in WriteType /\ Head(pending) = w /\ w.to = "inode" /\ n \in Inodes
      /\ w.inode \in InodeType
  BY <1>1, WriteShift, WriteFields
<1>3. AllHeadersOK /\ mounted /\ inode_NowDir \in Directories /\ Gone = {} /\ StepsTo("entry") = {}
      /\ InodeStep(1)
  BY <1>1, <1>2, HeadFacts
<1>4. /\ Len(pending) = 1 /\ half = {} /\ StepsTo("free_half") = {}
      /\ n \notin Directories
      /\ \A p \in Slots : InodeOf(p) = n =>
            (Slot(p[1], p[2]).type = FILETYPE_DIR <=> w.inode.links = DIR_BLOCKS)
      /\ \E p \in Slots : InodeOf(p) = n
      /\ \/ w.inode.links = 0
         \/ /\ w.inode.links = DIR_BLOCKS
            /\ \A a, b \in 1 .. DIR_BLOCKS : w.inode.block[a] = w.inode.block[b] => a = b
            /\ Coming \cap (OwnedBlocks \cup SetBitmap_block) = {}
            /\ Coming \subseteq BlockBitsAtEnd
            /\ \A b \in Coming : HeaderAtEnd(b) = {0}
  BY <1>1, <1>3 DEF InodeStep
<1>5. PICK p0 \in Slots : InodeOf(p0) = n
  BY <1>4
<1>6. Steps' = {} /\ \A kind : StepsTo(kind)' = {}
  <2>1. Steps' = 1 .. Len(pending) - 1
    BY WriteShift
  <2>2. Steps' = {}
    BY <1>4, <2>1
  <2> QED BY <2>2 DEF StepsTo
<1>7. Steps = {1} /\ StepsTo("inode") = {1} /\ StepsTo("block") = {} /\ StepsTo("block_bitmap") = {}
      /\ StepsTo("inode_bitmap") = {}
  BY <1>1, <1>2, <1>4 DEF Steps, StepsTo
<1>8. Building = {n} /\ Building' = {} /\ half' = {}
  <2>1. Building = {n}
    BY <1>1, <1>4, <1>7, BuildingSteps
  <2>2. Building' = {}
    BY <1>6 DEF Building, Steps
  <2> QED BY <1>2, <1>4, <2>1, <2>2 DEF Write
<1>9. /\ block_bitmap' = block_bitmap /\ inode_bitmap' = inode_bitmap /\ block_table' = block_table
      /\ inode_NowDir' = inode_NowDir /\ crashed' = crashed /\ mounted'
      /\ inode_table' = [inode_table EXCEPT ![n] = w.inode] /\ inode_table \in [Inodes -> InodeType]
  BY <1>1, <1>2, <1>3 DEF Write, TypeInv, TypeOK, InodeType
<1>10. /\ BlockBitsAtEnd = block_bitmap /\ InodeBitsAtEnd = inode_bitmap
       /\ \A b : HeaderAtEnd(b) = block_table[b][0].type
       /\ BlockBitsAtEnd' = block_bitmap' /\ InodeBitsAtEnd' = inode_bitmap'
  <2>1. \A b : Touches(b) = {}
    BY <1>3, <1>7 DEF Touches
  <2> QED BY <1>6, <1>7, <2>1 DEF BlockBitsAtEnd, InodeBitsAtEnd, HeaderAtEnd
<1>11. Gone' = {} /\ Coming' = {}
       /\ Coming = IF w.inode.links = DIR_BLOCKS THEN Range(w.inode.block) ELSE {}
  BY <1>1, <1>6, <1>7 DEF Gone, Coming
<1>12. Directories \subseteq Inodes /\ \A d \in Directories : DirKept(d) /\ inode_table'[d] = inode_table[d]
  <2>1. Directories \subseteq Inodes
    BY <1>3, SlotFacts DEF SlotsAre
  <2> QED BY <1>4, <1>9, <2>1 DEF DirKept
<1>13. \A d \in Directories : /\ First(d)' = First(d) /\ BlocksOf(d)' = BlocksOf(d)
                              /\ Used(d)' = Used(d) /\ HeadersOK(d)'
                              /\ \A k : Slot(d, k)' = Slot(d, k)
  BY <1>3, <1>12, KeptFacts DEF AllHeadersOK
<1>14. ASSUME w.inode.links # DIR_BLOCKS
       PROVE  /\ Slots' = Slots /\ DirectoryInv' /\ OwnedBlocks' = OwnedBlocks \cup Coming
              /\ Directories \subseteq Directories'
  <2>1. TreeKept
    <3>1. \A p \in Slots : Slot(p[1], p[2]).type = FILETYPE_DIR =>
               (InodeOf(p) \in Building \cup half <=> InodeOf(p) \in Building' \cup half')
      BY <1>4, <1>8, <1>14
    <3> QED BY <1>3, <1>12, <3>1, SameTree
  <2>2. Directories' = Directories /\ Slots' = Slots /\ Coming = {}
    BY <1>11, <1>14, <2>1 DEF TreeKept
  <2>3. DirectoryInv'
    <3>1. \A d \in Directories : OwnsBlocks(d)'
      BY <1>9, <1>12 DEF TreeInv, DirectoryInv, OwnsBlocks
    <3> QED BY <1>13, <2>2, <3>1 DEF TreeInv, DirectoryInv
  <2>4. OwnedBlocks' = OwnedBlocks
    BY <1>3, <1>11, <1>13, <2>2 DEF OwnedBlocks
  <2> QED BY <1>14, <2>2, <2>3, <2>4
<1>15. ASSUME w.inode.links = DIR_BLOCKS
       PROVE  /\ Slots' = Slots /\ DirectoryInv' /\ OwnedBlocks' = OwnedBlocks \cup Coming
              /\ Directories \subseteq Directories'
  <2>1. Coming = Range(w.inode.block) /\ Coming = {w.inode.block[i] : i \in 1 .. DIR_BLOCKS}
    <3>1. w.inode.block \in [1 .. DIR_BLOCKS -> BlockNumbers]
      BY <1>2 DEF InodeType
    <3> QED BY <1>11, <1>15, <3>1 DEF Range
  <2>2. /\ \A a, b \in 1 .. DIR_BLOCKS : w.inode.block[a] = w.inode.block[b] => a = b
        /\ Coming \cap (OwnedBlocks \cup SetBitmap_block) = {}
        /\ Coming \subseteq block_bitmap
        /\ \A b \in Coming : block_table[b][0].type = {0}
    BY <1>4, <1>10, <1>15, ConstantFacts
  <2>3. inode_table'[n] = w.inode /\ First(n)' = w.inode.block[1] /\ BlocksOf(n)' = Coming
    BY <1>2, <1>9, <2>1 DEF First, BlocksOf
  <2>4. 1 \in 1 .. DIR_BLOCKS /\ \A i \in 2 .. DIR_BLOCKS : i \in 1 .. DIR_BLOCKS
    BY ConstantFacts
  <2>5. HeadersOK(n)' /\ Used(n)' = {}
    <3>1. \A i \in 1 .. DIR_BLOCKS : block_table'[w.inode.block[i]][0].type = {0}
      BY <1>9, <2>1, <2>2
    <3>2. block_table'[First(n)'][0].type = {0}
      BY <2>3, <2>4, <3>1
    <3>3. \A i \in 2 .. DIR_BLOCKS : block_table'[inode_table'[n].block[i]][0].type = {0}
      BY <2>3, <2>4, <3>1
    <3>4. {0} \subseteq 0 .. EntriesPerSector - 1
      BY ConstantFacts
    <3> QED BY <3>2, <3>3, <3>4 DEF HeadersOK, Used
  <2>6. OwnsBlocks(n)'
    <3>1. \A i \in 1 .. DIR_BLOCKS : w.inode.block[i] \in block_bitmap \ SetBitmap_block
      BY <2>1, <2>2
    <3> QED BY <1>9, <1>15, <2>2, <2>3, <3>1 DEF OwnsBlocks
  <2>7. IsReach(Directories, BelowMap)
    BY DirectoriesReach
  <2>8. IsReach(Directories', BelowMap')
    <3>1. (TypeInv => IsReach(Directories, BelowMap))'
      BY DirectoriesReach, PTL
    <3> QED BY <3>1 DEF IsReach
  <2>9. \A d \in Directories : BelowMap[d] =
            {x \in Inodes : /\ x \notin {n}
                            /\ \E k \in Used(d) : Slot(d, k).inode = x /\ Slot(d, k).type = FILETYPE_DIR}
    BY <1>3, <1>4, <1>8, <1>12, BelowFacts DEF BelowIsUsed, BelowMap, AllHeadersOK
  <2>10. (TypeInv => BelowIsUsed)'
    BY BelowFacts, PTL
  <2>11. \A d \in Directories : BelowMap'[d] =
            {x \in Inodes : \E k \in Used(d) : Slot(d, k).inode = x /\ Slot(d, k).type = FILETYPE_DIR}
    <3> TAKE d \in Directories
    <3>1. Below(d)' = {x \in Inodes :
            x \notin {} /\ \E k \in Used(d)' : Slot(d, k)'.inode = x /\ Slot(d, k)'.type = FILETYPE_DIR}
      BY <1>8, <1>12, <1>13, <2>10 DEF BelowIsUsed
    <3> QED BY <1>12, <1>13, <3>1 DEF BelowMap
  <2>12. BelowMap'[n] = {}
    <3>1. Below(n)' = {x \in Inodes :
            x \notin {} /\ \E k \in Used(n)' : Slot(n, k)'.inode = x /\ Slot(n, k)'.type = FILETYPE_DIR}
      BY <1>2, <1>8, <2>5, <2>10 DEF BelowIsUsed
    <3> QED BY <1>2, <2>5, <3>1 DEF BelowMap
  <2>13. p0[1] \in Directories /\ n \in BelowMap'[p0[1]]
    <3>1. p0[1] \in Directories /\ p0[2] \in Used(p0[1])
      BY <1>3, SlotFacts DEF SlotsAre
    <3>2. Slot(p0[1], p0[2]).type = FILETYPE_DIR /\ Slot(p0[1], p0[2]).inode = n
      BY <1>4, <1>5, <1>15 DEF InodeOf
    <3> QED BY <1>2, <2>11, <3>1, <3>2
  <2>14. Directories' = Directories \cup {n}
    <3>1. PICK R, S, f, g, a : /\ R = Directories /\ S = Directories' /\ f = BelowMap /\ g = BelowMap'
                               /\ a = p0[1]
      OBVIOUS
    <3>2. \A d \in R : f[d] \subseteq g[d] /\ g[d] \subseteq f[d] \cup {n}
      BY <2>9, <2>11, <3>1
    <3>3. IsReach(R, f) /\ IsReach(S, g) /\ g[n] = {} /\ a \in R /\ n \in g[a]
      BY <2>7, <2>8, <2>12, <2>13, <3>1
    <3>4. S = R \cup {n}
      BY <3>2, <3>3, ReachAdds
    <3> QED BY <3>1, <3>4
  <2>15. Slots' = Slots
    BY <1>13, <2>5, <2>14 DEF Slots
  <2>16. OwnedBlocks' = OwnedBlocks \cup Coming
    BY <1>3, <1>11, <1>13, <2>3, <2>14 DEF OwnedBlocks
  <2>17. DirectoryInv'
    <3>1. \A d \in Directories : OwnsBlocks(d)' /\ BlocksOf(d) \subseteq OwnedBlocks
      BY <1>3, <1>9, <1>12 DEF TreeInv, DirectoryInv, OwnsBlocks, OwnedBlocks
    <3>2. \A d \in Directories' : HeadersOK(d)' /\ OwnsBlocks(d)'
      BY <1>13, <2>5, <2>6, <2>14, <3>1
    <3>3. \A c, d \in Directories' : c # d => BlocksOf(c)' \cap BlocksOf(d)' = {}
      <4> TAKE c, d \in Directories'
      <4> HAVE c # d
      <4>1. CASE c \in Directories /\ d \in Directories
        BY <1>13, <4>1 DEF TreeInv, DirectoryInv
      <4>2. CASE c = n
        <5>1. d \in Directories
          BY <2>14, <4>2
        <5> QED BY <1>13, <2>2, <2>3, <3>1, <4>2, <5>1
      <4>3. CASE d = n
        <5>1. c \in Directories
          BY <2>14, <4>3
        <5> QED BY <1>13, <2>2, <2>3, <3>1, <4>3, <5>1
      <4> QED BY <2>14, <4>1, <4>2, <4>3
    <3> QED BY <3>2, <3>3 DEF DirectoryInv
  <2> QED BY <2>14, <2>15, <2>16, <2>17
<1>16. Slots' = Slots /\ DirectoryInv' /\ OwnedBlocks' = OwnedBlocks \cup Coming
       /\ Directories \subseteq Directories'
  BY <1>14, <1>15
<1>17. \A p \in Slots : p[1] \in Directories /\ InodeOf(p)' = InodeOf(p)
                        /\ Slot(p[1], p[2])' = Slot(p[1], p[2]) /\ Slot(p[1], p[2]) \in Entries
  BY <1>3, <1>13, SlotFacts DEF SlotsAre, InodeOf
<1>18. EntryInv'
  <2>1. ASSUME NEW p \in Slots
        PROVE  EntryOK(Slot(p[1], p[2]))'
    <3>1. PICK e : e = Slot(p[1], p[2])
      OBVIOUS
    <3>2. EntryOK(e) /\ e = Slot(p[1], p[2])' /\ e.inode \in Inodes /\ InodeOf(p) = e.inode
      BY <1>17, <3>1 DEF TreeInv, EntryInv, InodeOf, Entries
    <3>3. e.type = FILETYPE_FILE => inode_table'[e.inode].links = 0
      <4>1. CASE e.inode = n
        <5>1. e.type = FILETYPE_DIR <=> w.inode.links = DIR_BLOCKS
          BY <1>4, <3>1, <3>2, <4>1
        <5>2. FILETYPE_FILE # FILETYPE_DIR
          BY DEF FILETYPE_FILE, FILETYPE_DIR
        <5>3. inode_table'[n] = w.inode
          BY <1>2, <1>9
        <5> QED BY <1>4, <4>1, <5>1, <5>2, <5>3
      <4>2. CASE e.inode # n
        <5>1. e.inode \notin Building \cup half
          BY <1>4, <1>8, <4>2
        <5>2. inode_table'[e.inode] = inode_table[e.inode]
          BY <1>9, <3>2, <4>2
        <5> QED BY <3>2, <5>1, <5>2 DEF EntryOK
      <4> QED BY <4>1, <4>2
    <3>4. EntryOK(e)'
      BY <1>4, <1>9, <3>2, <3>3 DEF EntryOK
    <3> QED BY <3>2, <3>4 DEF EntryOK
  <2>2. \A p, q \in Slots : InodeOf(p)' = InodeOf(q)' => p = q
    BY <1>17 DEF TreeInv, EntryInv
  <2>3. \A p, q \in Slots :
            p[1] = q[1] /\ Slot(p[1], p[2])'.name = Slot(q[1], q[2])'.name => p = q
    BY <1>17 DEF TreeInv, EntryInv
  <2> QED BY <1>16, <2>1, <2>2, <2>3 DEF EntryInv
<1>19. StepInv'
  BY <1>6 DEF StepInv
<1>20. ExactInv'
  <2> SUFFICES ASSUME ~crashed'
               PROVE  /\ InodeBitsAtEnd' = {INODE_ENTRY_BIT, INODE_ROOTDIR}
                                  \cup ({InodeOf(p) : p \in Slots}' \ Gone') \cup Building'
                      /\ BlockBitsAtEnd' = SetBitmap_block \cup OwnedBlocks' \cup Coming'
    BY DEF ExactInv
  <2>1. /\ InodeBitsAtEnd = {INODE_ENTRY_BIT, INODE_ROOTDIR}
                                \cup ({InodeOf(p) : p \in Slots} \ Gone) \cup Building
        /\ BlockBitsAtEnd = SetBitmap_block \cup OwnedBlocks \cup Coming
    BY <1>4, <1>9 DEF TreeInv, ExactInv
  <2>2. {InodeOf(p) : p \in Slots}' = {InodeOf(p) : p \in Slots} /\ n \in {InodeOf(p) : p \in Slots}
    BY <1>5, <1>16, <1>17
  <2> QED BY <1>3, <1>8, <1>9, <1>10, <1>11, <1>16, <2>1, <2>2
<1>21. pending' = <<>>
  BY <1>4, WriteShift DEF TypeInv
<1>22. ReservedInv'
  BY ReservedAfter
<1>23. SlotsSame
  BY <1>16, <1>17 DEF SlotsSame
<1> QED BY <1>3, <1>9, <1>11, <1>16, <1>18, <1>19, <1>20, <1>21, <1>22, <1>23 DEF TreeInv

-----------------------------------------------------------------------------
(* The block of the working directory is written with an entry made,       *)
(* removed or renamed.  Only its header and that entry change.             *)

\* Writing the block of the working directory changes its header and one entry.
LEMMA EntryChanges ==
    ASSUME TypeInv, TypeInv', TreeInv, Write, NEW w, w = pending[1], w.to = "entry",
           NEW c, c = inode_NowDir
    PROVE  /\ c \in Directories /\ Directories \subseteq Inodes /\ AllHeadersOK
           /\ w.entries[0].type \ {0} \subseteq 1 .. EntriesPerSector - 1
           /\ inode_table' = inode_table /\ inode_bitmap' = inode_bitmap
           /\ block_bitmap' = block_bitmap /\ inode_NowDir' = c /\ mounted'
           /\ half = {} /\ half' = {} /\ Building' = Building /\ c \notin Gone
           /\ StepsTo("entry") = {1} /\ StepsTo("entry")' = {} /\ Gone' = {}
           /\ \A d \in Directories : BlocksOf(d)' = BlocksOf(d) /\ HeadersOK(d)'
           /\ \A d \in Directories \ {c} : Used(d)' = Used(d) /\ \A i : Slot(d, i)' = Slot(d, i)
           /\ Used(c)' = w.entries[0].type \ {0}
           /\ \A i \in 1 .. EntriesPerSector - 1 : Slot(c, i)' = w.entries[i]
<1>1. w \in WriteType /\ Head(pending) = w /\ w.number \in BlockNumbers /\ w.entries \in BlockType
  BY WriteShift, WriteFields
<1>2. AllHeadersOK /\ mounted /\ c \in Directories /\ c \notin Gone /\ EntryStep(1)
  BY HeadFacts
<1>3. /\ half = {} /\ StepsTo("entry") = {1} /\ w.number = First(c) /\ SecondKept(w)
      /\ \E k \in 1 .. EntriesPerSector - 1 : Adds(1, k) \/ Drops(1, k) \/ Renames(1, k)
  BY <1>2 DEF EntryStep
<1>4. Directories \subseteq Inodes
  BY <1>2, SlotFacts DEF SlotsAre
<1>5. /\ inode_table' = inode_table /\ inode_bitmap' = inode_bitmap
      /\ block_bitmap' = block_bitmap /\ inode_NowDir' = c /\ mounted' /\ half' = {}
  BY <1>1, <1>2, <1>3 DEF Write
<1>6. Building' = Building
  BY AfterWrite
<1>7. StepsTo("entry")' = {} /\ Gone' = {}
  <2>1. \A j \in StepsTo("entry")' : j + 1 \in StepsTo("entry") /\ j \in Nat /\ j >= 1
    <3> TAKE j \in StepsTo("entry")'
    <3>1. j + 1 \in StepsTo("entry") /\ j \in 1 .. Len(pending) - 1
      BY StepsShift
    <3> QED BY <3>1, WriteShift
  <2>2. StepsTo("entry")' = {}
    BY <1>3, <2>1
  <2> QED BY <2>2 DEF Gone
<1>8. w.entries[0].type \ {0} \subseteq 1 .. EntriesPerSector - 1 /\ 0 \in w.entries[0].type
  <2>1. Used(c) \subseteq 1 .. EntriesPerSector - 1
    BY <1>2, <1>4, ChildrenFacts DEF AllHeadersOK
  <2>2. PICK k \in 1 .. EntriesPerSector - 1 : Adds(1, k) \/ Drops(1, k) \/ Renames(1, k)
    BY <1>3
  <2>3. PICK used \in SUBSET (1 .. EntriesPerSector - 1) : Changes(w, k, used)
    BY <2>1, <2>2 DEF Adds, Drops, Renames
  <2> QED BY <2>3 DEF Changes
\* Of the blocks of directories only the first of c is written.
<1>9. \A b \in BlockNumbers :
        /\ b = First(c) => \A i \in 0 .. EntriesPerSector - 1 : block_table'[b][i] = w.entries[i]
        /\ b # First(c) => block_table'[b] = block_table[b]
  <2> TAKE b \in BlockNumbers
  <2>1. b \in 0 .. BlockCount /\ w.number \in Nat /\ b \in Nat /\ EntriesPerSector \in Nat
        /\ block_table \in [0 .. BlockCount -> [0 .. EntriesPerSector - 1 -> Entries]]
    BY <1>1, ConstantFacts DEF BlockNumbers, TypeInv
  <2>2. block_table'[b] = IF b = w.number \/ b = w.number + 1
                          THEN [k \in 0 .. EntriesPerSector - 1 |->
                                   w.entries[(b - w.number) * EntriesPerSector + k]]
                          ELSE block_table[b]
    BY <1>1, <2>1 DEF Write
  <2>3. ASSUME b = First(c), NEW i \in 0 .. EntriesPerSector - 1
        PROVE  block_table'[b][i] = w.entries[i]
    <3>1. (b - w.number) * EntriesPerSector = 0
      BY <1>3, <2>1, <2>3
    <3>2. block_table'[b] = [k \in 0 .. EntriesPerSector - 1 |-> w.entries[0 + k]]
      BY <1>3, <2>2, <2>3, <3>1
    <3>3. 0 + i = i
      OBVIOUS
    <3> QED BY <3>2, <3>3
  <2>4. ASSUME b # First(c), b = w.number + 1
        PROVE  block_table'[b] = block_table[b]
    <3>1. (b - w.number) * EntriesPerSector = EntriesPerSector
      BY <2>1, <2>4
    <3>2. \A k \in 0 .. EntriesPerSector - 1 : w.entries[EntriesPerSector + k] = block_table[b][k]
      BY <1>3, <2>4 DEF SecondKept
    <3>3. block_table'[b] = [k \in 0 .. EntriesPerSector - 1 |-> block_table[b][k]]
      BY <2>2, <2>4, <3>1, <3>2
    <3>4. block_table[b] \in [0 .. EntriesPerSector - 1 -> Entries]
      BY <2>1
    <3> QED BY <3>3, <3>4
  <2>5. ASSUME b # First(c), b # w.number + 1
        PROVE  block_table'[b] = block_table[b]
    BY <1>3, <2>2, <2>5
  <2> QED BY <2>3, <2>4, <2>5
<1>10. First(c) \in BlockNumbers /\ First(c)' = First(c)
  BY <1>2, <1>4, <1>5, InodeTyped DEF First
<1>11. Used(c)' = w.entries[0].type \ {0}
       /\ \A i \in 1 .. EntriesPerSector - 1 : Slot(c, i)' = w.entries[i]
  <2>1. \A i \in 0 .. EntriesPerSector - 1 : block_table'[First(c)'][i] = w.entries[i]
    BY <1>9, <1>10
  <2>2. 0 \in 0 .. EntriesPerSector - 1
    BY ConstantFacts
  <2>3. \A i \in 1 .. EntriesPerSector - 1 : i \in 0 .. EntriesPerSector - 1
    OBVIOUS
  <2> QED BY <2>1, <2>2, <2>3 DEF Used, Slot
<1>12. ASSUME NEW d \in Directories \ {c}
       PROVE  DirKept(d)
  <2>1. \A i \in 1 .. DIR_BLOCKS : inode_table[d].block[i] \in BlocksOf(d)
                                   /\ inode_table[d].block[i] \in BlockNumbers
    BY <1>4, InodeTyped
  <2>2. First(c) \notin BlocksOf(d)
    <3>1. First(c) \in BlocksOf(c) /\ BlocksOf(c) \cap BlocksOf(d) = {}
      BY <1>2, <1>4, InodeTyped DEF TreeInv, DirectoryInv
    <3> QED BY <3>1
  <2> QED BY <1>5, <1>9, <2>1, <2>2 DEF DirKept
<1>13. \A d \in Directories \ {c} : /\ Used(d)' = Used(d) /\ HeadersOK(d)'
                                    /\ \A i : Slot(d, i)' = Slot(d, i)
  BY <1>2, <1>12, KeptFacts DEF AllHeadersOK
<1>14. HeadersOK(c)'
  <2>1. HeadersOK(c) /\ OwnsBlocks(c)
    BY <1>2 DEF TreeInv, DirectoryInv
  <2>2. ASSUME NEW i \in 2 .. DIR_BLOCKS
        PROVE  block_table'[inode_table'[c].block[i]][0].type = {0}
    <3>1. i \in 1 .. DIR_BLOCKS /\ i # 1 /\ 1 \in 1 .. DIR_BLOCKS
      BY ConstantFacts
    <3>2. inode_table[c].block[i] \in BlockNumbers /\ inode_table[c].block[i] # First(c)
      BY <1>2, <1>4, <2>1, <3>1, InodeTyped DEF OwnsBlocks, First
    <3>3. block_table'[inode_table[c].block[i]] = block_table[inode_table[c].block[i]]
      BY <1>9, <3>2
    <3> QED BY <1>5, <2>1, <3>3 DEF HeadersOK
  <2>3. block_table'[First(c)'][0].type = w.entries[0].type
    <3>1. 0 \in 0 .. EntriesPerSector - 1
      BY ConstantFacts
    <3> QED BY <1>9, <1>10, <3>1
  <2>4. w.entries[0].type \subseteq 0 .. EntriesPerSector - 1
    <3>1. \A x \in w.entries[0].type : x = 0 \/ x \in 1 .. EntriesPerSector - 1
      BY <1>8
    <3> QED BY <3>1, ConstantFacts
  <2> QED BY <1>8, <2>2, <2>3, <2>4 DEF HeadersOK
<1>15. \A d \in Directories : BlocksOf(d)' = BlocksOf(d)
  BY <1>5 DEF BlocksOf
<1> QED BY <1>2, <1>3, <1>4, <1>5, <1>6, <1>7, <1>8, <1>11, <1>13, <1>14, <1>15

\* What is below a directory, before and after.
LEMMA BelowAfter ==
    ASSUME TypeInv, TypeInv', AllHeadersOK, \A d \in Directories : HeadersOK(d)',
           half = {}, half' = {}, Building' = Building
    PROVE  /\ IsReach(Directories, BelowMap) /\ IsReach(Directories', BelowMap')
           /\ \A d \in Directories :
                 /\ BelowMap[d] = {x \in Inodes : /\ x \notin Building
                                                  /\ \E k \in Used(d) : /\ Slot(d, k).inode = x
                                                                        /\ Slot(d, k).type = FILETYPE_DIR}
                 /\ BelowMap'[d] = {x \in Inodes : /\ x \notin Building
                                                   /\ \E k \in Used(d)' : /\ Slot(d, k)'.inode = x
                                                                          /\ Slot(d, k)'.type = FILETYPE_DIR}
<1>1. IsReach(Directories, BelowMap)
  BY DirectoriesReach
<1>2. IsReach(Directories', BelowMap')
  <2>1. (TypeInv => IsReach(Directories, BelowMap))'
    BY DirectoriesReach, PTL
  <2> QED BY <2>1 DEF IsReach
<1>3. (TypeInv => BelowIsUsed)'
  BY BelowFacts, PTL
<1>4. ASSUME NEW d \in Directories
      PROVE  /\ BelowMap[d] = {x \in Inodes : /\ x \notin Building
                                              /\ \E k \in Used(d) : /\ Slot(d, k).inode = x
                                                                    /\ Slot(d, k).type = FILETYPE_DIR}
             /\ BelowMap'[d] = {x \in Inodes : /\ x \notin Building
                                               /\ \E k \in Used(d)' : /\ Slot(d, k)'.inode = x
                                                                      /\ Slot(d, k)'.type = FILETYPE_DIR}
  <2>1. d \in Inodes /\ HeadersOK(d) /\ HeadersOK(d)'
    BY <1>1 DEF AllHeadersOK, IsReach
  <2>2. Below(d) = {x \in Inodes : /\ x \notin Building \cup half
                                   /\ \E k \in Used(d) : /\ Slot(d, k).inode = x
                                                         /\ Slot(d, k).type = FILETYPE_DIR}
    BY <2>1, BelowFacts DEF BelowIsUsed
  <2>3. Below(d)' = {x \in Inodes : /\ x \notin Building' \cup half'
                                    /\ \E k \in Used(d)' : /\ Slot(d, k)'.inode = x
                                                           /\ Slot(d, k)'.type = FILETYPE_DIR}
    BY <1>3, <2>1 DEF BelowIsUsed
  <2>4. BelowMap[d] = Below(d) /\ BelowMap'[d] = Below(d)'
    BY <2>1 DEF BelowMap
  <2> QED BY <2>2, <2>3, <2>4
<1> QED BY <1>1, <1>2, <1>4

\* What is asked of a write of an entry.
EntryDone ==
    /\ Directories' = Directories \ Gone
    /\ EntryInv'
    /\ SlotsChange
    /\ ({InodeOf(p) : p \in Slots} \ Gone) \cup Building = {InodeOf(p) : p \in Slots}' \cup Building
    /\ \A j \in StepsTo("inode_bitmap") :
          (\A p \in Slots' : InodeOf(p)' \in pending[j].bits) \/ Freed(j)
    /\ \A j \in StepsTo("inode") :
          /\ \A p \in Slots' : InodeOf(p)' = pending[j].number =>
                (Slot(p[1], p[2])'.type = FILETYPE_DIR <=> pending[j].inode.links = DIR_BLOCKS)
          /\ \E p \in Slots' : InodeOf(p)' = pending[j].number

\* The write that makes an entry keeps what is said of the tree.
LEMMA EntryAdded ==
    ASSUME TypeInv, TypeInv', TreeInv, Write, pending[1].to = "entry",
           NEW k \in 1 .. EntriesPerSector - 1, Adds(1, k)
    PROVE  EntryDone
<1>1. PICK w, c, e : w = pending[1] /\ c = inode_NowDir /\ e = w.entries[k]
  OBVIOUS
<1>2. /\ c \in Directories /\ Directories \subseteq Inodes /\ AllHeadersOK
      /\ inode_table' = inode_table /\ inode_bitmap' = inode_bitmap
      /\ half = {} /\ half' = {} /\ Building' = Building
      /\ StepsTo("entry") = {1}
      /\ \A d \in Directories : HeadersOK(d)'
      /\ \A d \in Directories \ {c} : Used(d)' = Used(d) /\ \A i : Slot(d, i)' = Slot(d, i)
      /\ Used(c)' = w.entries[0].type \ {0}
      /\ \A i \in 1 .. EntriesPerSector - 1 : Slot(c, i)' = w.entries[i]
  BY <1>1, EntryChanges
<1>3. /\ k \notin Used(c)
      /\ w.entries[0].type = {0} \cup (Used(c) \cup {k})
      /\ \A i \in 1 .. EntriesPerSector - 1 : i # k => w.entries[i] = Slot(c, i)
      /\ e.inode \notin {INODE_ENTRY_BIT, INODE_ROOTDIR}
      /\ e.type \in {FILETYPE_FILE, FILETYPE_DIR}
      /\ e.name \in FileNames /\ \A i \in Used(c) : Slot(c, i).name # e.name
      /\ Building = {e.inode}
      /\ \A p \in Slots : InodeOf(p) # e.inode
      /\ e.inode \in inode_bitmap
      /\ \A i \in StepsTo("inode_bitmap") : e.inode \in pending[i].bits \/ Freed(i)
      /\ \A i \in StepsTo("inode") : e.type = FILETYPE_DIR <=> pending[i].inode.links = DIR_BLOCKS
  BY <1>1 DEF Adds, Changes, NewName
<1>4. SlotsAre /\ 0 \notin Used(c) /\ Used(c) \subseteq 1 .. EntriesPerSector - 1
  BY <1>2, SlotFacts DEF Used, SlotsAre
<1>5. Used(c)' = Used(c) \cup {k} /\ Slot(c, k)' = e
      /\ \A i \in Used(c) : Slot(c, i)' = Slot(c, i)
  <2>1. \A i \in Used(c) : i # k /\ i \in 1 .. EntriesPerSector - 1
    BY <1>3, <1>4
  <2> QED BY <1>1, <1>2, <1>3, <1>4, <2>1
<1>6. Gone = {}
  BY <1>1, <1>2, <1>3 DEF Gone
<1>7. /\ IsReach(Directories, BelowMap) /\ IsReach(Directories', BelowMap')
      /\ \A d \in Directories :
            /\ BelowMap[d] = {x \in Inodes : x \notin Building /\ \E i \in Used(d) :
                                   Slot(d, i).inode = x /\ Slot(d, i).type = FILETYPE_DIR}
            /\ BelowMap'[d] = {x \in Inodes : x \notin Building /\ \E i \in Used(d)' :
                                   Slot(d, i)'.inode = x /\ Slot(d, i)'.type = FILETYPE_DIR}
  BY <1>2, BelowAfter
<1>8. \A d \in Directories : BelowMap'[d] = BelowMap[d]
  <2> TAKE d \in Directories
  <2>1. \A x \in Inodes \ Building :
            (\E i \in Used(d)' : Slot(d, i)'.inode = x /\ Slot(d, i)'.type = FILETYPE_DIR)
                <=> \E i \in Used(d) : Slot(d, i).inode = x /\ Slot(d, i).type = FILETYPE_DIR
    BY <1>2, <1>3, <1>5
  <2>2. {x \in Inodes : x \notin Building /\ \E i \in Used(d)' :
                   Slot(d, i)'.inode = x /\ Slot(d, i)'.type = FILETYPE_DIR}
            = {x \in Inodes : x \notin Building /\ \E i \in Used(d) :
                   Slot(d, i).inode = x /\ Slot(d, i).type = FILETYPE_DIR}
    BY <2>1
  <2> QED BY <1>7, <2>2
<1>9. Directories' = Directories
  <2>1. PICK R, S, f, g : R = Directories /\ S = Directories' /\ f = BelowMap /\ g = BelowMap'
    OBVIOUS
  <2>2. S = R
    BY <1>7, <1>8, <2>1, ReachSame
  <2> QED BY <2>1, <2>2
<1>10. PICK q : q = <<c, k>>
  OBVIOUS
<1>11. Slots' = Slots \cup {q} /\ q \notin Slots /\ InodeOf(q)' = e.inode /\ Slot(q[1], q[2])' = e
       /\ q[1] = c
  BY <1>2, <1>3, <1>5, <1>9, <1>10 DEF Slots, InodeOf
<1>12. \A p \in Slots : Slot(p[1], p[2])' = Slot(p[1], p[2]) /\ InodeOf(p)' = InodeOf(p)
  <2> TAKE p \in Slots
  <2>1. p[1] \in Directories /\ p[2] \in Used(p[1])
    BY <1>4 DEF SlotsAre
  <2>2. PICK d, i : d = p[1] /\ i = p[2]
    OBVIOUS
  <2>3. Slot(d, i)' = Slot(d, i)
    BY <1>2, <1>5, <2>1, <2>2
  <2> QED BY <2>2, <2>3 DEF InodeOf
<1>13. EntryInv'
  <2>1. ASSUME NEW p \in Slots
        PROVE  EntryOK(Slot(p[1], p[2]))'
    <3>1. PICK x : x = Slot(p[1], p[2])
      OBVIOUS
    <3>2. EntryOK(x) /\ x = Slot(p[1], p[2])'
      BY <1>12, <3>1 DEF TreeInv, EntryInv
    <3>3. EntryOK(x)'
      BY <1>2, <3>2 DEF EntryOK
    <3> QED BY <3>2, <3>3 DEF EntryOK
  <2>2. EntryOK(Slot(q[1], q[2]))'
    BY <1>2, <1>3, <1>11 DEF EntryOK
  <2>3. \A x, y \in Slots : InodeOf(x)' = InodeOf(y)' => x = y
    BY <1>12 DEF TreeInv, EntryInv
  <2>4. \A x \in Slots : InodeOf(x)' # InodeOf(q)'
    BY <1>3, <1>11, <1>12
  <2>5. \A x, y \in Slots :
            x[1] = y[1] /\ Slot(x[1], x[2])'.name = Slot(y[1], y[2])'.name => x = y
    BY <1>12 DEF TreeInv, EntryInv
  <2>6. \A x \in Slots : x[1] = q[1] => Slot(x[1], x[2])'.name # Slot(q[1], q[2])'.name
    BY <1>3, <1>4, <1>11, <1>12 DEF SlotsAre
  <2> QED BY <1>11, <2>1, <2>2, <2>3, <2>4, <2>5, <2>6 DEF EntryInv
<1>14. {InodeOf(p) : p \in Slots}' \cup Building = {InodeOf(p) : p \in Slots} \cup Building
  BY <1>3, <1>11, <1>12
<1>15. ASSUME NEW j \in StepsTo("inode_bitmap")
       PROVE  (\A p \in Slots' : InodeOf(p)' \in pending[j].bits) \/ Freed(j)
  <2>1. InodeBitsStep(j)
    BY DEF TreeInv, StepInv
  <2> QED BY <1>2, <1>3, <1>6, <1>11, <1>12, <2>1 DEF InodeBitsStep
<1>16. ASSUME NEW j \in StepsTo("inode")
       PROVE  /\ \A p \in Slots' : InodeOf(p)' = pending[j].number =>
                    (Slot(p[1], p[2])'.type = FILETYPE_DIR <=> pending[j].inode.links = DIR_BLOCKS)
              /\ \E p \in Slots' : InodeOf(p)' = pending[j].number
  <2>1. pending[j].number = e.inode
    BY <1>3, BuildingSteps
  <2> QED BY <1>3, <1>11, <1>12, <2>1
<1>17. SlotsChange
  BY <1>11, <1>12 DEF SlotsChange
<1> QED BY <1>6, <1>9, <1>13, <1>14, <1>15, <1>16, <1>17 DEF EntryDone

\* So does the write that renames one.
LEMMA EntryRenamed ==
    ASSUME TypeInv, TypeInv', TreeInv, Write, pending[1].to = "entry",
           NEW k \in 1 .. EntriesPerSector - 1, Renames(1, k)
    PROVE  EntryDone
<1>1. PICK w, c, e : w = pending[1] /\ c = inode_NowDir /\ e = w.entries[k]
  OBVIOUS
<1>2. /\ c \in Directories /\ Directories \subseteq Inodes /\ AllHeadersOK
      /\ inode_table' = inode_table /\ inode_bitmap' = inode_bitmap
      /\ half = {} /\ half' = {} /\ Building' = Building
      /\ StepsTo("entry") = {1}
      /\ \A d \in Directories : HeadersOK(d)'
      /\ \A d \in Directories \ {c} : Used(d)' = Used(d) /\ \A i : Slot(d, i)' = Slot(d, i)
      /\ Used(c)' = w.entries[0].type \ {0}
      /\ \A i \in 1 .. EntriesPerSector - 1 : Slot(c, i)' = w.entries[i]
  BY <1>1, EntryChanges
<1>3. /\ k \in Used(c)
      /\ w.entries[0].type = {0} \cup Used(c)
      /\ \A i \in 1 .. EntriesPerSector - 1 : i # k => w.entries[i] = Slot(c, i)
      /\ Building = {}
      /\ e = [Slot(c, k) EXCEPT !.name = e.name]
      /\ e.name \in FileNames /\ \A i \in Used(c) : Slot(c, i).name # e.name
  BY <1>1 DEF Renames, Changes, NewName
<1>4. SlotsAre /\ 0 \notin Used(c) /\ Used(c) \subseteq 1 .. EntriesPerSector - 1
  BY <1>2, SlotFacts DEF Used, SlotsAre
<1>5. Used(c)' = Used(c) /\ Slot(c, k)' = e
      /\ \A i \in Used(c) : i # k => Slot(c, i)' = Slot(c, i)
  BY <1>1, <1>2, <1>3, <1>4
<1>6. Gone = {}
  BY <1>1, <1>2, <1>3 DEF Gone
<1>7. e.inode = Slot(c, k).inode /\ e.type = Slot(c, k).type
  <2>1. <<c, k>> \in Slots
    BY <1>2, <1>3, <1>4 DEF SlotsAre
  <2>2. Slot(c, k) \in Entries
    BY <1>4, <2>1 DEF SlotsAre
  <2> QED BY <1>3, <2>2 DEF Entries
<1>8. \A d \in Directories : Used(d)' = Used(d) /\ \A i \in Used(d) :
          Slot(d, i)'.inode = Slot(d, i).inode /\ Slot(d, i)'.type = Slot(d, i).type
  BY <1>2, <1>5, <1>7
<1>9. Directories' = Directories
  <2>1. /\ IsReach(Directories, BelowMap) /\ IsReach(Directories', BelowMap')
        /\ \A d \in Directories :
              /\ BelowMap[d] = {x \in Inodes : x \notin Building /\ \E i \in Used(d) :
                                     Slot(d, i).inode = x /\ Slot(d, i).type = FILETYPE_DIR}
              /\ BelowMap'[d] = {x \in Inodes : x \notin Building /\ \E i \in Used(d)' :
                                     Slot(d, i)'.inode = x /\ Slot(d, i)'.type = FILETYPE_DIR}
    BY <1>2, BelowAfter
  <2>2. ASSUME NEW d \in Directories
        PROVE  BelowMap'[d] = BelowMap[d]
    <3>1. {x \in Inodes : x \notin Building /\ \E i \in Used(d)' :
                     Slot(d, i)'.inode = x /\ Slot(d, i)'.type = FILETYPE_DIR}
              = {x \in Inodes : x \notin Building /\ \E i \in Used(d) :
                     Slot(d, i).inode = x /\ Slot(d, i).type = FILETYPE_DIR}
      BY <1>8
    <3> QED BY <2>1, <3>1
  <2>3. PICK R, S, f, g : R = Directories /\ S = Directories' /\ f = BelowMap /\ g = BelowMap'
    OBVIOUS
  <2>4. S = R
    BY <2>1, <2>2, <2>3, ReachSame
  <2> QED BY <2>3, <2>4
<1>10. PICK q : q = <<c, k>>
  OBVIOUS
<1>11. Slots' = Slots /\ q \in Slots /\ q[1] = c /\ q[2] = k /\ Slot(q[1], q[2])' = e
  <2>1. Slots' = Slots
    BY <1>8, <1>9 DEF Slots
  <2> QED BY <1>2, <1>3, <1>4, <1>5, <1>10, <2>1 DEF SlotsAre
<1>12. \A p \in Slots : /\ InodeOf(p)' = InodeOf(p)
                        /\ Slot(p[1], p[2])'.type = Slot(p[1], p[2]).type
                        /\ Slot(p[1], p[2])'.inode = Slot(p[1], p[2]).inode
                        /\ p # q => Slot(p[1], p[2])' = Slot(p[1], p[2])
  <2> TAKE p \in Slots
  <2>1. p[1] \in Directories /\ p[2] \in Used(p[1]) /\ p = <<p[1], p[2]>>
    BY <1>4 DEF SlotsAre
  <2>2. PICK d, i : d = p[1] /\ i = p[2]
    OBVIOUS
  <2>3. Slot(d, i)'.inode = Slot(d, i).inode /\ Slot(d, i)'.type = Slot(d, i).type
    BY <1>8, <2>1, <2>2
  <2>4. p # q => Slot(d, i)' = Slot(d, i)
    BY <1>2, <1>5, <1>10, <2>1, <2>2
  <2> QED BY <2>2, <2>3, <2>4 DEF InodeOf
<1>13. EntryInv'
  <2>1. ASSUME NEW p \in Slots
        PROVE  EntryOK(Slot(p[1], p[2]))'
    <3>1. PICK x, y : x = Slot(p[1], p[2]) /\ y = Slot(p[1], p[2])'
      OBVIOUS
    <3>2. EntryOK(x) /\ y.inode = x.inode /\ y.type = x.type /\ y.name \in FileNames
      <4>1. EntryOK(x)
        BY <3>1 DEF TreeInv, EntryInv
      <4>2. p # q => y = x
        BY <1>12, <3>1
      <4>3. p = q => y = e
        BY <1>11, <3>1
      <4> QED BY <1>3, <1>12, <3>1, <4>1, <4>2, <4>3 DEF EntryOK
    <3>3. EntryOK(y)'
      BY <1>2, <3>2 DEF EntryOK
    <3> QED BY <3>1, <3>3 DEF EntryOK
  <2>3. \A x, y \in Slots : InodeOf(x)' = InodeOf(y)' => x = y
    BY <1>12 DEF TreeInv, EntryInv
  <2>5. \A x, y \in Slots : x # q /\ y # q =>
            (x[1] = y[1] /\ Slot(x[1], x[2])'.name = Slot(y[1], y[2])'.name => x = y)
    BY <1>12 DEF TreeInv, EntryInv
  <2>6. \A x \in Slots : x # q /\ x[1] = q[1] => Slot(x[1], x[2])'.name # Slot(q[1], q[2])'.name
    BY <1>3, <1>4, <1>11, <1>12 DEF SlotsAre
  <2>7. \A x, y \in Slots :
            x[1] = y[1] /\ Slot(x[1], x[2])'.name = Slot(y[1], y[2])'.name => x = y
    BY <1>11, <2>5, <2>6
  <2> QED BY <1>11, <2>1, <2>3, <2>7 DEF EntryInv
<1>14. {InodeOf(p) : p \in Slots}' = {InodeOf(p) : p \in Slots}
  BY <1>11, <1>12
<1>15. ASSUME NEW j \in StepsTo("inode_bitmap")
       PROVE  (\A p \in Slots' : InodeOf(p)' \in pending[j].bits) \/ Freed(j)
  <2>1. InodeBitsStep(j)
    BY DEF TreeInv, StepInv
  <2> QED BY <1>2, <1>6, <1>11, <1>12, <2>1 DEF InodeBitsStep
<1>16. StepsTo("inode") = {}
  <2>1. \A j \in StepsTo("inode") : pending[j].number \in Building
    BY BuildingSteps
  <2> QED BY <1>3, <2>1
<1>17. SlotsChange
  BY <1>11, <1>12 DEF SlotsChange
<1> QED BY <1>6, <1>9, <1>13, <1>14, <1>15, <1>16, <1>17 DEF EntryDone

\* So does the write that removes one.
LEMMA EntryDropped ==
    ASSUME TypeInv, TypeInv', TreeInv, Write, pending[1].to = "entry",
           NEW k \in 1 .. EntriesPerSector - 1, Drops(1, k)
    PROVE  EntryDone
<1>1. PICK w, c, n : w = pending[1] /\ c = inode_NowDir /\ n = Slot(c, k).inode
  OBVIOUS
<1>2. /\ c \in Directories /\ Directories \subseteq Inodes /\ AllHeadersOK
      /\ inode_table' = inode_table /\ inode_bitmap' = inode_bitmap
      /\ half = {} /\ half' = {} /\ Building' = Building /\ c \notin Gone
      /\ StepsTo("entry") = {1}
      /\ \A d \in Directories : HeadersOK(d)'
      /\ \A d \in Directories \ {c} : Used(d)' = Used(d) /\ \A i : Slot(d, i)' = Slot(d, i)
      /\ Used(c)' = w.entries[0].type \ {0}
      /\ \A i \in 1 .. EntriesPerSector - 1 : Slot(c, i)' = w.entries[i]
  BY <1>1, EntryChanges
<1>3. /\ k \in Used(c)
      /\ w.entries[0].type = {0} \cup (Used(c) \ {k})
      /\ \A i \in 1 .. EntriesPerSector - 1 : i # k => w.entries[i] = Slot(c, i)
      /\ Building = {}
      /\ Slot(c, k).type = FILETYPE_DIR => Used(n) = {}
  BY <1>1 DEF Drops, Changes
<1>4. SlotsAre /\ 0 \notin Used(c) /\ Used(c) \subseteq 1 .. EntriesPerSector - 1
  BY <1>2, SlotFacts DEF Used, SlotsAre
<1>5. Used(c)' = Used(c) \ {k} /\ \A i \in Used(c)' : Slot(c, i)' = Slot(c, i)
  BY <1>1, <1>2, <1>3, <1>4
<1>6. Gone = {n}
  <2>1. Used(c) \ w.entries[0].type = {k}
    BY <1>3, <1>4
  <2> QED BY <1>1, <1>2, <2>1 DEF Gone
<1>7. PICK q : q = <<c, k>>
  OBVIOUS
<1>8. q \in Slots /\ q[1] = c /\ q[2] = k /\ InodeOf(q) = n /\ n # INODE_ROOTDIR
      /\ \A p \in Slots : InodeOf(p) = n => p = q
  <2>1. q \in Slots /\ q[1] = c /\ q[2] = k
    BY <1>2, <1>3, <1>4, <1>7 DEF SlotsAre
  <2>2. EntryOK(Slot(q[1], q[2]))
    BY <2>1 DEF TreeInv, EntryInv
  <2> QED BY <1>1, <2>1, <2>2 DEF EntryOK, InodeOf, TreeInv, EntryInv
<1>9. n \in Directories => Used(n) = {}
  <2> HAVE n \in Directories
  <2>1. PICK p \in Slots : InodeOf(p) = n /\ Slot(p[1], p[2]).type = FILETYPE_DIR
    BY <1>4, <1>8 DEF SlotsAre
  <2> QED BY <1>3, <1>8, <2>1
<1>10. Directories' = Directories \ {n}
  <2>1. /\ IsReach(Directories, BelowMap) /\ IsReach(Directories', BelowMap')
        /\ \A d \in Directories :
              /\ BelowMap[d] = {x \in Inodes : x \notin Building /\ \E i \in Used(d) :
                                     Slot(d, i).inode = x /\ Slot(d, i).type = FILETYPE_DIR}
              /\ BelowMap'[d] = {x \in Inodes : x \notin Building /\ \E i \in Used(d)' :
                                     Slot(d, i)'.inode = x /\ Slot(d, i)'.type = FILETYPE_DIR}
    BY <1>2, BelowAfter
  <2>2. n \in Directories => BelowMap[n] = {}
    BY <1>9, <2>1
  <2>3. ASSUME NEW d \in Directories \ {n}
        PROVE  BelowMap'[d] = BelowMap[d] \ {n}
    <3>1. \A i \in Used(d) : InodeOf(<<d, i>>) = Slot(d, i).inode /\ <<d, i>> \in Slots
      BY <1>4 DEF SlotsAre, InodeOf
    <3>2. \A i \in Used(d) : Slot(d, i).inode = n <=> d = c /\ i = k
      BY <1>1, <1>7, <1>8, <3>1
    <3>3. \A i : i \in Used(d)' <=> i \in Used(d) /\ ~(d = c /\ i = k)
      BY <1>2, <1>5
    <3>4. \A i \in Used(d)' : Slot(d, i)' = Slot(d, i)
      BY <1>2, <1>5
    <3>5. {x \in Inodes : x \notin Building /\ \E i \in Used(d)' :
                     Slot(d, i)'.inode = x /\ Slot(d, i)'.type = FILETYPE_DIR}
              = {x \in Inodes : x \notin Building /\ \E i \in Used(d) :
                     Slot(d, i).inode = x /\ Slot(d, i).type = FILETYPE_DIR} \ {n}
      BY <3>2, <3>3, <3>4
    <3> QED BY <2>1, <3>5
  <2>4. PICK R, S, f, g : R = Directories /\ S = Directories' /\ f = BelowMap /\ g = BelowMap'
    OBVIOUS
  <2>5. S = R \ {n}
    BY <1>8, <2>1, <2>2, <2>3, <2>4, ReachDrops
  <2> QED BY <2>4, <2>5
<1>11. ASSUME NEW p
       PROVE  p \in Slots' <=> p \in Slots /\ p # q
  <2>1. c # n
    BY <1>2, <1>6
  <2>2. p \in Slots => p[1] \in Directories /\ p[2] \in Used(p[1]) /\ p = <<p[1], p[2]>> /\ p[1] # n
    BY <1>4, <1>9 DEF SlotsAre
  <2>3. p \in Slots' <=>
            p \in Directories' \X (1 .. EntriesPerSector - 1) /\ p[2] \in Used(p[1])'
    BY DEF Slots
  <2>4. p \in Slots <=>
            p \in Directories \X (1 .. EntriesPerSector - 1) /\ p[2] \in Used(p[1])
    BY DEF Slots
  <2>5. ASSUME p \in Directories \X (1 .. EntriesPerSector - 1)
        PROVE  p[2] \in Used(p[1])' <=> p[2] \in Used(p[1]) /\ p # q
    <3>1. PICK d \in Directories, i \in 1 .. EntriesPerSector - 1 : p = <<d, i>>
      BY <2>5
    <3>2. p[1] = d /\ p[2] = i /\ (p = q <=> d = c /\ i = k)
      BY <1>7, <3>1
    <3>3. i \in Used(d)' <=> i \in Used(d) /\ ~(d = c /\ i = k)
      BY <1>2, <1>5
    <3>4. Used(p[1])' = Used(d)'
      BY <3>2
    <3> QED BY <3>2, <3>3, <3>4
  <2> QED BY <1>10, <2>2, <2>3, <2>4, <2>5
<1>12. \A p \in Slots' : /\ p \in Slots /\ InodeOf(p)' = InodeOf(p) /\ InodeOf(p) # n
                         /\ Slot(p[1], p[2])' = Slot(p[1], p[2])
  <2> TAKE p \in Slots'
  <2>1. p \in Slots /\ p # q
    BY <1>11
  <2>2. p[1] \in Directories /\ p[2] \in Used(p[1]) /\ p = <<p[1], p[2]>>
    BY <1>4, <2>1 DEF SlotsAre
  <2>3. PICK d, i : d = p[1] /\ i = p[2]
    OBVIOUS
  <2>4. i \in Used(d)'
    BY <1>2, <1>5, <1>7, <2>1, <2>2, <2>3
  <2>5. Slot(d, i)' = Slot(d, i)
    BY <1>2, <1>5, <2>2, <2>3, <2>4
  <2> QED BY <1>8, <2>1, <2>3, <2>5 DEF InodeOf
<1>13. EntryInv'
  <2>1. ASSUME NEW p \in Slots'
        PROVE  EntryOK(Slot(p[1], p[2]))'
    <3>1. PICK x : x = Slot(p[1], p[2])
      OBVIOUS
    <3>2. EntryOK(x) /\ x = Slot(p[1], p[2])'
      BY <1>12, <3>1 DEF TreeInv, EntryInv
    <3>3. EntryOK(x)'
      BY <1>2, <3>2 DEF EntryOK
    <3> QED BY <3>2, <3>3 DEF EntryOK
  <2>3. \A x, y \in Slots' : InodeOf(x)' = InodeOf(y)' => x = y
    BY <1>12 DEF TreeInv, EntryInv
  <2>5. \A x, y \in Slots' :
            x[1] = y[1] /\ Slot(x[1], x[2])'.name = Slot(y[1], y[2])'.name => x = y
    BY <1>12 DEF TreeInv, EntryInv
  <2> QED BY <2>1, <2>3, <2>5 DEF EntryInv
<1>14. {InodeOf(p) : p \in Slots}' = {InodeOf(p) : p \in Slots} \ {n}
  <2>1. \A p \in Slots : InodeOf(p) # n => p \in Slots' /\ InodeOf(p)' = InodeOf(p)
    BY <1>8, <1>11, <1>12
  <2> QED BY <1>12, <2>1
<1>15. ASSUME NEW j \in StepsTo("inode_bitmap")
       PROVE  (\A p \in Slots' : InodeOf(p)' \in pending[j].bits) \/ Freed(j)
  <2>1. InodeBitsStep(j)
    BY DEF TreeInv, StepInv
  <2> QED BY <1>2, <1>6, <1>12, <2>1 DEF InodeBitsStep
<1>16. StepsTo("inode") = {}
  <2>1. \A j \in StepsTo("inode") : pending[j].number \in Building
    BY BuildingSteps
  <2> QED BY <1>3, <2>1
<1>17. SlotsChange
  <2>1. q[1] # InodeOf(q)
    BY <1>2, <1>6, <1>8
  <2>2. Slots' = Slots \ {q}
    BY <1>11
  <2> QED BY <1>8, <1>12, <2>1, <2>2 DEF SlotsChange
<1> QED BY <1>6, <1>10, <1>13, <1>14, <1>15, <1>16, <1>17 DEF EntryDone

\* So the writes of entries keep the invariant.
LEMMA EntryWrite ==
    ASSUME TypeInv, TypeInv', TreeInv, Write, pending[1].to = "entry"
    PROVE  TreeInv' /\ SlotsChange
<1>1. PICK w, c : w = pending[1] /\ c = inode_NowDir
  OBVIOUS
<1>2. /\ c \in Directories /\ Directories \subseteq Inodes /\ AllHeadersOK
      /\ inode_table' = inode_table
      /\ block_bitmap' = block_bitmap /\ inode_NowDir' = c /\ mounted'
      /\ half = {} /\ half' = {} /\ Building' = Building /\ c \notin Gone
      /\ StepsTo("entry") = {1} /\ StepsTo("entry")' = {} /\ Gone' = {}
      /\ \A d \in Directories : BlocksOf(d)' = BlocksOf(d) /\ HeadersOK(d)'
  BY <1>1, EntryChanges
<1>3. EntryDone
  <2>1. EntryStep(1)
    BY HeadFacts
  <2>2. PICK k \in 1 .. EntriesPerSector - 1 : Adds(1, k) \/ Drops(1, k) \/ Renames(1, k)
    BY <2>1 DEF EntryStep
  <2>3. CASE Adds(1, k)
    BY <2>3, EntryAdded
  <2>4. CASE Drops(1, k)
    BY <2>4, EntryDropped
  <2>5. CASE Renames(1, k)
    BY <2>5, EntryRenamed
  <2> QED BY <2>2, <2>3, <2>4, <2>5
<1>4. Directories' = Directories \ Gone /\ EntryInv' /\ SlotsChange
  BY <1>3 DEF EntryDone
<1>5. OwnedBlocks' = OwnedBlocks
  BY <1>2, <1>4 DEF OwnedBlocks
<1>6. DirectoryInv'
  <2>1. \A d \in Directories : OwnsBlocks(d)'
    BY <1>2 DEF TreeInv, DirectoryInv, OwnsBlocks
  <2>2. \A x, d \in Directories : x # d => BlocksOf(x)' \cap BlocksOf(d)' = {}
    BY <1>2 DEF TreeInv, DirectoryInv
  <2> QED BY <1>2, <1>4, <2>1, <2>2 DEF DirectoryInv
<1>7. ASSUME NEW j \in StepsTo("inode_bitmap")'
      PROVE  InodeBitsStep(j)'
  <2>1. j + 1 \in StepsTo("inode_bitmap") /\ pending'[j] = pending[j + 1] /\ j \in Steps'
    BY StepsShift DEF StepsTo
  <2>2. (\A p \in Slots' : InodeOf(p)' \in pending[j + 1].bits) \/ Freed(j + 1)
    BY <1>3, <2>1 DEF EntryDone
  <2>3. Freed(j + 1) => Freed(j)'
    BY <1>1, <2>1, StepsShift
  <2> QED BY <2>1, <2>2, <2>3 DEF InodeBitsStep
<1>8. ASSUME NEW j \in StepsTo("inode")'
      PROVE  InodeStep(j)'
  <2>1. j + 1 \in StepsTo("inode")
    BY StepsShift
  <2>2. /\ \A p \in Slots' : InodeOf(p)' = pending[j + 1].number =>
               (Slot(p[1], p[2])'.type = FILETYPE_DIR <=> pending[j + 1].inode.links = DIR_BLOCKS)
        /\ \E p \in Slots' : InodeOf(p)' = pending[j + 1].number
    BY <1>3, <2>1 DEF EntryDone
  <2>3. Directories' \subseteq Directories
    BY <1>4
  <2> QED BY <1>5, <2>2, <2>3, InodeStepAfter
<1>9. StepInv'
  <2>1. /\ \A j \in StepsTo("block_bitmap")' : BlockBitsStep(j)'
        /\ \A j \in StepsTo("block")' : BlockStep(j)'
        /\ \A j \in Steps' : half' # {} \/ Freed(j)' =>
                 pending'[j].to \in {"block_bitmap", "block", "inode_bitmap"}
        /\ StepsTo("formatted")' = {}
    BY <1>5, AfterWrite
  <2>2. \A j \in StepsTo("entry")' : EntryStep(j)'
    BY <1>2
  <2> QED BY <1>7, <1>8, <2>1, <2>2 DEF StepInv
<1>10. ExactInv'
  <2>1. ({InodeOf(p) : p \in Slots} \ Gone) \cup Building
            = ({InodeOf(p) : p \in Slots}' \ Gone') \cup Building'
    BY <1>2, <1>3 DEF EntryDone
  <2> QED BY <1>5, <2>1, ExactAfter
<1>11. ReservedInv'
  BY ReservedAfter
<1> QED BY <1>2, <1>4, <1>6, <1>9, <1>10, <1>11 DEF TreeInv

-----------------------------------------------------------------------------
(* Between calls.                                                          *)

\* Calls before which no inode is half made, ...
Changing == Calling /\ half = {}
\* ... and that do nothing to the disk but leave s to be written.
Puts(s) == pending' = s /\ UNCHANGED <<diskVars, inode_NowDir, mounted, half, crashed>>
\* None of the blocks has the first sector of another directory's for its second.
NeighbourBound(blocks, d) == \A b \in blocks : b + 1 \notin OtherBlocks(d)

\* A call that starts and damages nothing, ...
LEMMA PendFacts ==
    ASSUME NEW s, NEW harm, Pend(s, harm), damage' = {}
    PROVE  Puts(s) /\ harm = {} /\ half = {}
<1>1. harm = {} /\ UsesHalfMade = {}
  BY DEF Pend
<1>2. half = {}
  BY <1>1 DEF UsesHalfMade
<1> QED BY <1>1, <1>2 DEF Pend, Puts

\* ... and what it takes care of.
LEMMA HarmFacts ==
    /\ \A index : Hides(index) = {} => index < EntriesPerSector
    /\ \A blocks, d : Overlaps(blocks, d) = {} => NeighbourBound(blocks, d)
    /\ \A b : Overwrites(b) = {} => \A d \in Directories : b \notin BlocksOf(d) /\ b - 1 \notin BlocksOf(d)
<1>1. \A index : Hides(index) = {} => index < EntriesPerSector
  BY DEF Hides
<1>2. ASSUME NEW blocks, NEW d, Overlaps(blocks, d) = {}
      PROVE  NeighbourBound(blocks, d)
  BY <1>2 DEF Overlaps, NeighbourBound
<1>3. ASSUME NEW b, Overwrites(b) = {}
      PROVE  \A d \in Directories : b \notin BlocksOf(d) /\ b - 1 \notin BlocksOf(d)
  BY <1>3 DEF Overwrites
<1> QED BY <1>1, <1>2, <1>3

\* Between calls nothing is built, gone or coming.
LEMMA IdleFacts ==
    ASSUME TypeInv, TreeInv, pending = <<>>
    PROVE  /\ Steps = {} /\ \A kind : StepsTo(kind) = {}
           /\ Building = {} /\ Gone = {} /\ Coming = {}
           /\ OwnedBlocks = UNION {BlocksOf(d) : d \in Directories}
           /\ InodeBitsAtEnd = inode_bitmap /\ BlockBitsAtEnd = block_bitmap
           /\ AllHeadersOK /\ SlotsAre
           /\ mounted => inode_NowDir \in Directories
           /\ OwnedBlocks \subseteq block_bitmap \ SetBitmap_block
           /\ half = {} => /\ \A p \in Slots : InodeOf(p) \in inode_bitmap
                           /\ Directories \subseteq inode_bitmap
           /\ \A p \in Slots : InodeOf(p) \notin {INODE_ENTRY_BIT, INODE_ROOTDIR}
<1>1. Steps = {}
  BY DEF Steps
<1>2. \A kind : StepsTo(kind) = {}
  BY <1>1 DEF StepsTo
<1>3. Building = {}
  BY <1>2, BuildingSteps
<1>4. Gone = {} /\ Coming = {}
  BY <1>2 DEF Gone, Coming
<1>5. InodeBitsAtEnd = inode_bitmap /\ BlockBitsAtEnd = block_bitmap
  BY <1>2 DEF InodeBitsAtEnd, BlockBitsAtEnd
<1>6. OwnedBlocks = UNION {BlocksOf(d) : d \in Directories}
  BY <1>4 DEF OwnedBlocks
<1>7. AllHeadersOK
  BY DEF TreeInv, DirectoryInv, AllHeadersOK
<1>8. SlotsAre
  BY <1>7, SlotFacts
<1>9. OwnedBlocks \subseteq block_bitmap \ SetBitmap_block
  <2>1. \A d \in Directories : BlocksOf(d) \subseteq block_bitmap \ SetBitmap_block
    BY <1>8, InodeTyped DEF TreeInv, DirectoryInv, OwnsBlocks, SlotsAre
  <2> QED BY <1>6, <2>1
<1>10. \A p \in Slots : EntryOK(Slot(p[1], p[2])) /\ InodeOf(p) = Slot(p[1], p[2]).inode
  BY DEF TreeInv, EntryInv, InodeOf
<1>11. half = {} => Directories \subseteq inode_bitmap
  <2> SUFFICES ASSUME half = {}, NEW d \in Directories
               PROVE  d \in inode_bitmap
    OBVIOUS
  <2>1. CASE d = INODE_ROOTDIR
    BY <2>1 DEF TreeInv, ReservedInv
  <2>2. CASE d # INODE_ROOTDIR
    <3>1. PICK p \in Slots : InodeOf(p) = d
      BY <1>8, <2>2 DEF SlotsAre
    <3> QED BY <1>10, <3>1 DEF EntryOK
  <2> QED BY <2>1, <2>2
<1>12. \A p \in Slots : /\ half = {} => InodeOf(p) \in inode_bitmap
                        /\ InodeOf(p) \notin {INODE_ENTRY_BIT, INODE_ROOTDIR}
  BY <1>10 DEF EntryOK
<1> QED BY <1>1, <1>2, <1>3, <1>4, <1>5, <1>6, <1>7, <1>8, <1>9, <1>11, <1>12 DEF TreeInv

\* The first block of the working directory, entry by entry.
LEMMA FirstBlock ==
    ASSUME TypeInv, TreeInv, Calling, NEW c, c = inode_NowDir, NEW f, f = First(c)
    PROVE  /\ c \in Directories /\ c \in Inodes /\ f \in BlockNumbers /\ f = DirBlock(1)
           /\ f \in OwnedBlocks
           /\ Block(f)[0].type = {0} \cup Used(c)
           /\ Used(c) \subseteq 1 .. EntriesPerSector - 1
           /\ \A i \in 1 .. EntriesPerSector - 1 : i \in Indices /\ Block(f)[i] = Slot(c, i)
           /\ \A i \in 0 .. EntriesPerSector - 1 :
                 EntriesPerSector + i \in Indices /\ Block(f)[EntriesPerSector + i] = block_table[f + 1][i]
           /\ \A b \in 2 .. DIR_BLOCKS : Block(DirBlock(b))[0].type = {0}
<1>1. c \in Directories /\ AllHeadersOK /\ SlotsAre /\ OwnedBlocks = UNION {BlocksOf(d) : d \in Directories}
  BY IdleFacts DEF Calling
<1>2. c \in Inodes /\ f \in BlockNumbers /\ f = DirBlock(1) /\ f \in BlocksOf(c)
  BY <1>1, InodeTyped DEF SlotsAre, First, DirBlock
<1>3. \A b \in BlockNumbers : \A i \in 0 .. EntriesPerSector - 1 :
          /\ i \in Indices /\ Block(b)[i] = block_table[b][i]
          /\ EntriesPerSector + i \in Indices /\ Block(b)[EntriesPerSector + i] = block_table[b + 1][i]
  <2> TAKE b \in BlockNumbers
  <2> TAKE i \in 0 .. EntriesPerSector - 1
  <2>1. PICK m : m = EntriesPerSector + i
    OBVIOUS
  <2>2. i \in Indices /\ i < EntriesPerSector /\ m \in Indices /\ ~(m < EntriesPerSector)
        /\ m - EntriesPerSector = i
    BY <2>1, ConstantFacts
  <2>3. Block(b)[i] = block_table[b][i] /\ Block(b)[m] = block_table[b + 1][m - EntriesPerSector]
    BY <2>2, BlockTyped
  <2> QED BY <2>1, <2>2, <2>3
<1>4. 0 \in 0 .. EntriesPerSector - 1 /\ \A i \in 1 .. EntriesPerSector - 1 : i \in 0 .. EntriesPerSector - 1
  BY ConstantFacts
<1>5. HeadersOK(c)
  BY <1>1 DEF AllHeadersOK
<1>6. Block(f)[0].type = {0} \cup Used(c) /\ Used(c) \subseteq 1 .. EntriesPerSector - 1
  <2>1. Block(f)[0].type = block_table[f][0].type
    BY <1>2, <1>3, <1>4
  <2> QED BY <1>1, <1>5, <2>1 DEF HeadersOK, Used, SlotsAre
<1>7. ASSUME NEW b \in 2 .. DIR_BLOCKS
      PROVE  Block(DirBlock(b))[0].type = {0}
  <2>1. b \in 1 .. DIR_BLOCKS
    OBVIOUS
  <2>2. DirBlock(b) \in BlockNumbers /\ DirBlock(b) = inode_table[c].block[b]
    BY <2>1, DirBlockType DEF DirBlock
  <2>3. Block(DirBlock(b))[0].type = block_table[DirBlock(b)][0].type
    BY <1>3, <1>4, <2>2
  <2> QED BY <1>5, <2>2, <2>3 DEF HeadersOK
<1> QED BY <1>1, <1>2, <1>3, <1>4, <1>6, <1>7 DEF Slot

\* Find_withFilename finds the entry of the working directory with that name.
LEMMA Found ==
    ASSUME TypeInv, TreeInv, Calling, NEW name, NEW c, c = inode_NowDir
    PROVE  /\ Matches(name) # {} =>
                 /\ FoundBlock(name) = First(c)
                 /\ FoundIndex(name) \in Used(c)
                 /\ FoundEntry(name) = Slot(c, FoundIndex(name))
                 /\ <<c, FoundIndex(name)>> \in Slots
           /\ Matches(name) = {} => \A i \in Used(c) : Slot(c, i).name # name
<1>1. PICK f : f = First(c)
  OBVIOUS
<1>2. /\ c \in Directories /\ f = DirBlock(1)
      /\ Block(f)[0].type = {0} \cup Used(c)
      /\ Used(c) \subseteq 1 .. EntriesPerSector - 1
      /\ \A i \in 1 .. EntriesPerSector - 1 : i \in Indices /\ Block(f)[i] = Slot(c, i)
      /\ \A b \in 2 .. DIR_BLOCKS : Block(DirBlock(b))[0].type = {0}
  BY <1>1, FirstBlock
<1>3. 1 \in 1 .. DIR_BLOCKS /\ \A b \in 1 .. DIR_BLOCKS : b = 1 \/ b \in 2 .. DIR_BLOCKS
  BY ConstantFacts
<1>4. ASSUME Matches(name) # {}
      PROVE  /\ FoundBlock(name) = First(c)
             /\ FoundIndex(name) \in Used(c)
             /\ FoundEntry(name) = Slot(c, FoundIndex(name))
             /\ <<c, FoundIndex(name)>> \in Slots
  <2>1. Find_withFilename(name) \in Matches(name)
    BY <1>4, FoundFacts
  <2>2. PICK p : p = Find_withFilename(name)
    OBVIOUS
  <2>3. p \in (1 .. DIR_BLOCKS) \X (1 .. EntriesPerSector - 1) /\ p[2] \in Block(DirBlock(p[1]))[0].type
    BY <2>1, <2>2 DEF Matches, Seen
  <2>4. p[1] \in 1 .. DIR_BLOCKS /\ p[2] \in 1 .. EntriesPerSector - 1 /\ p[2] # 0
    BY <2>3
  <2>5. p[1] = 1
    BY <1>2, <1>3, <2>3, <2>4
  <2>6. p[2] \in Used(c)
    BY <1>2, <2>3, <2>4, <2>5
  <2>7. FoundBlock(name) = f /\ FoundIndex(name) = p[2]
    BY <1>2, <2>2, <2>5 DEF FoundBlock, FoundIndex
  <2>8. FoundEntry(name) = Slot(c, FoundIndex(name))
    BY <1>2, <2>4, <2>7 DEF FoundEntry
  <2>9. <<c, FoundIndex(name)>> \in Slots
    BY <1>2, <2>6, <2>7, IdleFacts DEF SlotsAre, Calling
  <2> QED BY <1>1, <2>6, <2>7, <2>8, <2>9
<1>5. ASSUME Matches(name) = {}, NEW i \in Used(c)
      PROVE  Slot(c, i).name # name
  <2>1. PICK p : p = <<1, i>>
    OBVIOUS
  <2>2. p \in (1 .. DIR_BLOCKS) \X (1 .. EntriesPerSector - 1) /\ p[1] = 1 /\ p[2] = i
    BY <1>2, <1>3, <2>1
  <2>3. p \in Seen /\ Block(DirBlock(p[1]))[p[2]] = Slot(c, i)
    BY <1>2, <2>2 DEF Seen
  <2>4. p \notin Matches(name)
    BY <1>5
  <2> QED BY <2>3, <2>4 DEF Matches
<1> QED BY <1>4, <1>5

\* The tree is on the disk.
LEMMA SameDisk ==
    ASSUME TypeInv, TypeInv', DirectoryInv, EntryInv, UNCHANGED diskVars, half' = {} => half = {},
           \A p \in Slots : InodeOf(p) \in Building \cup half <=> InodeOf(p) \in Building' \cup half'
    PROVE  TreeKept /\ DirectoryInv' /\ EntryInv'
<1>1. /\ inode_table' = inode_table /\ block_table' = block_table
      /\ block_bitmap' = block_bitmap /\ inode_bitmap' = inode_bitmap
  BY DEF diskVars
<1>2. AllHeadersOK /\ SlotsAre
  BY SlotFacts DEF DirectoryInv, AllHeadersOK
<1>3. TreeKept
  <2>1. \A d \in Directories : DirKept(d)
    BY <1>1 DEF DirKept
  <2> QED BY <1>2, <2>1, SameTree
<1>4. DirectoryInv'
  <2>1. \A d \in Directories : OwnsBlocks(d)'
    BY <1>1 DEF DirectoryInv, OwnsBlocks
  <2>2. \A x, d \in Directories : x # d => BlocksOf(x) \cap BlocksOf(d) = {}
    BY DEF DirectoryInv
  <2> QED BY <1>3, <2>1, <2>2 DEF DirectoryInv, TreeKept, AllHeadersOK
<1>5. EntryInv'
  <2>1. ASSUME NEW p \in Slots
        PROVE  EntryOK(Slot(p[1], p[2]))'
    <3>1. PICK e : e = Slot(p[1], p[2])
      OBVIOUS
    <3>2. EntryOK(e) /\ e = Slot(p[1], p[2])' /\ e.inode = InodeOf(p)
      <4>1. p[1] \in Directories
        BY <1>2 DEF SlotsAre
      <4> QED BY <1>3, <3>1, <4>1 DEF TreeKept, EntryInv, InodeOf
    <3>3. e.inode \in Building \cup half <=> e.inode \in Building' \cup half'
      BY <3>2
    <3>4. EntryOK(e)'
      BY <1>1, <3>2, <3>3 DEF EntryOK
    <3> QED BY <3>2, <3>4 DEF EntryOK
  <2>2. \A p \in Slots : p[1] \in Directories /\ Slot(p[1], p[2])' = Slot(p[1], p[2])
    BY <1>2, <1>3 DEF SlotsAre, TreeKept
  <2>3. Slots' = Slots /\ \A p \in Slots : InodeOf(p)' = InodeOf(p)
    BY <1>3 DEF TreeKept
  <2>4. \A p, q \in Slots : InodeOf(p)' = InodeOf(q)' => p = q
    BY <2>3 DEF EntryInv
  <2>5. \A p, q \in Slots :
            p[1] = q[1] /\ Slot(p[1], p[2])'.name = Slot(q[1], q[2])'.name => p = q
    BY <2>2 DEF EntryInv
  <2> QED BY <2>1, <2>3, <2>4, <2>5 DEF EntryInv
<1> QED BY <1>3, <1>4, <1>5

\* A call that is only pending leaves the tree as it is.
LEMMA PendKeeps ==
    ASSUME TypeInv, TypeInv', TreeInv, Changing, NEW s, Puts(s), Building' \cap inode_bitmap = {}
    PROVE  /\ TreeKept /\ DirectoryInv' /\ EntryInv' /\ half = {} /\ half' = {} /\ mounted'
           /\ block_bitmap' = block_bitmap /\ inode_bitmap' = inode_bitmap
           /\ block_table' = block_table /\ inode_NowDir' = inode_NowDir /\ crashed' = crashed
           /\ pending' = s
<1>1. pending = <<>> /\ half = {} /\ mounted
  BY DEF Changing, Calling
<1>2. /\ half' = {} /\ mounted' /\ inode_table' = inode_table /\ crashed' = crashed
      /\ block_bitmap' = block_bitmap /\ inode_bitmap' = inode_bitmap
      /\ block_table' = block_table /\ inode_NowDir' = inode_NowDir /\ pending' = s
  BY <1>1 DEF Puts, diskVars
<1>3. /\ AllHeadersOK /\ SlotsAre /\ Building = {}
      /\ \A p \in Slots : InodeOf(p) \in inode_bitmap
  BY <1>1, IdleFacts
<1>4. TreeKept /\ DirectoryInv' /\ EntryInv'
  <2>1. UNCHANGED diskVars
    BY DEF Puts
  <2>2. \A p \in Slots : InodeOf(p) \notin Building \cup half /\ InodeOf(p) \notin Building' \cup half'
    BY <1>1, <1>2, <1>3
  <2> QED BY <1>1, <2>1, <2>2, SameDisk DEF TreeInv
<1> QED BY <1>1, <1>2, <1>4

\* What is left to show of a call.
LEMMA PendTree ==
    ASSUME TypeInv, TypeInv', TreeInv, Changing, NEW s, Puts(s), Building' \cap inode_bitmap = {},
           StepInv', ExactInv', inode_NowDir \notin Gone',
           \A j \in StepsTo("inode_bitmap")' : {INODE_ENTRY_BIT, INODE_ROOTDIR} \subseteq pending'[j].bits,
           \A j \in StepsTo("block_bitmap")' : SetBitmap_block \subseteq pending'[j].bits \/ Freed(j)'
    PROVE  TreeInv' /\ TreeKept
<1>1. /\ TreeKept /\ DirectoryInv' /\ EntryInv' /\ half = {} /\ half' = {} /\ mounted'
      /\ block_bitmap' = block_bitmap /\ inode_bitmap' = inode_bitmap
      /\ inode_NowDir' = inode_NowDir
  BY PendKeeps
<1>2. ReservedInv'
  BY <1>1 DEF TreeInv, ReservedInv
<1>3. inode_NowDir' \in Directories' \ Gone'
  <2>1. inode_NowDir \in Directories
    BY IdleFacts DEF Changing, Calling
  <2> QED BY <1>1, <2>1 DEF TreeKept
<1> QED BY <1>1, <1>2, <1>3 DEF TreeInv

\* A call of one write.
LEMMA OneStep ==
    ASSUME NEW w, pending' = <<w>>
    PROVE  /\ Steps' = {1} /\ pending'[1] = w /\ Len(pending') = 1
           /\ \A kind : StepsTo(kind)' = IF w.to = kind THEN {1} ELSE {}
           /\ ~Freed(1)'
           /\ w.to \notin {"inode", "free_half"} => Building' = {}
           /\ w.to # "inode" => Coming' = {}
           /\ w.to # "entry" => Gone' = {}
<1>1. Steps' = {1} /\ pending'[1] = w /\ Len(pending') = 1
  BY DEF Steps
<1>2. \A kind : StepsTo(kind)' = IF w.to = kind THEN {1} ELSE {}
  BY <1>1 DEF StepsTo
<1>3. ~Freed(1)'
  BY DEF Freed
<1>4. /\ w.to \notin {"inode", "free_half"} => Building' = {}
      /\ w.to # "inode" => Coming' = {}
      /\ w.to # "entry" => Gone' = {}
  BY <1>1, <1>2 DEF Building, Steps, Coming, Gone
<1> QED BY <1>1, <1>2, <1>3, <1>4

\* A call of WriteFile keeps the invariant.
LEMMA WriteFileStep ==
    ASSUME TypeInv, TypeInv', TreeInv, NEW name, WriteFile(name), damage' = {}
    PROVE  TreeInv' /\ TreeKept
<1>1. PICK b : b = inode_table[FoundEntry(name).inode].block[1]
  OBVIOUS
<1>a. /\ Calling
      /\ \E bits \in {{}, Indices} :
            Pend(<<WriteBlock(b, [Block(b) EXCEPT ![0].type = bits])>>, Overwrites(b))
      /\ Matches(name) # {}
  BY <1>1 DEF WriteFile
<1>c. PICK bits \in {{}, Indices} :
          Pend(<<WriteBlock(b, [Block(b) EXCEPT ![0].type = bits])>>, Overwrites(b))
  BY <1>a
<1>2. /\ Changing
      /\ \A d \in Directories : b \notin BlocksOf(d) /\ b - 1 \notin BlocksOf(d)
      /\ Puts(<<WriteBlock(b, [Block(b) EXCEPT ![0].type = bits])>>)
      /\ Matches(name) # {}
  BY <1>a, <1>c, PendFacts, HarmFacts DEF Changing
<1>b. PICK w : w = WriteBlock(b, [Block(b) EXCEPT ![0].type = bits])
  OBVIOUS
<1>3. w.to = "block" /\ w.number = b /\ w.entries = [Block(b) EXCEPT ![0].type = bits] /\ Puts(<<w>>)
  BY <1>2, <1>b DEF WriteBlock
<1>4. /\ Steps' = {1} /\ pending'[1] = w /\ Len(pending') = 1
      /\ \A kind : StepsTo(kind)' = IF w.to = kind THEN {1} ELSE {}
      /\ ~Freed(1)' /\ Building' = {} /\ Coming' = {} /\ Gone' = {}
  BY <1>3, OneStep DEF Puts
<1>5. /\ TreeKept /\ half = {} /\ half' = {}
      /\ block_bitmap' = block_bitmap /\ inode_bitmap' = inode_bitmap
      /\ block_table' = block_table /\ crashed' = crashed
  BY <1>2, <1>3, <1>4, PendKeeps
<1>6. /\ Gone = {} /\ Coming = {} /\ Building = {} /\ InodeBitsAtEnd = inode_bitmap
      /\ BlockBitsAtEnd = block_bitmap /\ OwnedBlocks = UNION {BlocksOf(d) : d \in Directories}
      /\ StepsTo("free_half") = {}
  BY <1>2, IdleFacts DEF Changing, Calling
<1>7. OwnedBlocks' = OwnedBlocks /\ b \notin OwnedBlocks
  BY <1>2, <1>4, <1>5, <1>6 DEF OwnedBlocks, TreeKept
<1>8. SecondKept(w)'
  <2>1. b \in BlockNumbers
    <3>1. FoundEntry(name).inode \in Inodes
      BY <1>2, FoundFacts DEF Entries
    <3> QED BY <1>1, <3>1, InodeTyped, ConstantFacts DEF First
  <2>3. ASSUME NEW i \in 0 .. EntriesPerSector - 1
        PROVE  w.entries[EntriesPerSector + i] = block_table[b + 1][i]
    <3>1. PICK m : m = EntriesPerSector + i
      OBVIOUS
    <3>2. m \in Indices /\ ~(m < EntriesPerSector) /\ m - EntriesPerSector = i /\ m # 0
      BY <3>1, ConstantFacts
    <3>3. Block(b)[m] = block_table[b + 1][i] /\ Block(b) \in [Indices -> Entries]
      BY <2>1, <3>2, BlockTyped DEF BlockType
    <3>4. w.entries[m] = Block(b)[m]
      BY <1>3, <3>2, <3>3
    <3> QED BY <3>1, <3>3, <3>4
  <2> QED BY <1>3, <1>5, <2>3 DEF SecondKept
<1>9. BlockStep(1)'
  BY <1>3, <1>4, <1>7, <1>8 DEF BlockStep
<1>10. StepInv'
  BY <1>3, <1>4, <1>9 DEF StepInv
<1>11. ExactInv'
  <2>1. InodeBitsAtEnd' = inode_bitmap /\ BlockBitsAtEnd' = block_bitmap
    BY <1>3, <1>4, <1>5 DEF InodeBitsAtEnd, BlockBitsAtEnd
  <2>2. {InodeOf(p) : p \in Slots}' = {InodeOf(p) : p \in Slots}
    BY <1>5 DEF TreeKept
  <2> QED BY <1>4, <1>5, <1>6, <1>7, <2>1, <2>2 DEF TreeInv, ExactInv
<1> QED BY <1>2, <1>3, <1>4, <1>10, <1>11, PendTree

\* A call of ren keeps the invariant.
LEMMA RenameStep ==
    ASSUME TypeInv, TypeInv', TreeInv, NEW old, NEW new \in FileNames, RenameFile(old, new), damage' = {}
    PROVE  TreeInv' /\ TreeKept
<1>1. PICK c, f, k : c = inode_NowDir /\ f = First(c) /\ k = FoundIndex(old)
  OBVIOUS
<1>3. /\ Calling /\ Matches(old) # {} /\ Matches(new) = {}
      /\ Pend(<<WriteEntry(FoundBlock(old), [Block(FoundBlock(old)) EXCEPT ![k].name = new])>>, {})
  BY <1>1 DEF RenameFile
<1>2. /\ Changing /\ Matches(old) # {} /\ Matches(new) = {}
      /\ Puts(<<WriteEntry(FoundBlock(old), [Block(FoundBlock(old)) EXCEPT ![k].name = new])>>)
  BY <1>3, PendFacts DEF Changing
<1>4. /\ FoundBlock(old) = f /\ k \in Used(c) /\ <<c, k>> \in Slots
      /\ \A i \in Used(c) : Slot(c, i).name # new
  BY <1>1, <1>2, <1>3, Found
<1>5. /\ c \in Directories /\ f \in BlockNumbers
      /\ Block(f)[0].type = {0} \cup Used(c)
      /\ Used(c) \subseteq 1 .. EntriesPerSector - 1
      /\ \A i \in 1 .. EntriesPerSector - 1 : i \in Indices /\ Block(f)[i] = Slot(c, i)
      /\ \A i \in 0 .. EntriesPerSector - 1 :
             EntriesPerSector + i \in Indices /\ Block(f)[EntriesPerSector + i] = block_table[f + 1][i]
  BY <1>1, <1>3, FirstBlock
<1>6. PICK w : w = WriteEntry(f, [Block(f) EXCEPT ![k].name = new])
  OBVIOUS
<1>7. w.to = "entry" /\ w.number = f /\ w.entries = [Block(f) EXCEPT ![k].name = new] /\ Puts(<<w>>)
  BY <1>2, <1>4, <1>6 DEF WriteEntry
<1>8. /\ Steps' = {1} /\ pending'[1] = w /\ Len(pending') = 1
      /\ \A kind : StepsTo(kind)' = IF w.to = kind THEN {1} ELSE {}
      /\ ~Freed(1)' /\ Building' = {} /\ Coming' = {}
  BY <1>7, OneStep DEF Puts
<1>9. /\ TreeKept /\ half = {} /\ half' = {} /\ inode_NowDir' = c
      /\ block_bitmap' = block_bitmap /\ inode_bitmap' = inode_bitmap
      /\ block_table' = block_table /\ crashed' = crashed
  BY <1>1, <1>2, <1>7, <1>8, PendKeeps
<1>10. /\ Gone = {} /\ Coming = {} /\ Building = {} /\ InodeBitsAtEnd = inode_bitmap
       /\ BlockBitsAtEnd = block_bitmap /\ StepsTo("free_half") = {}
  BY <1>3, IdleFacts DEF Calling
<1>11. First(c)' = f /\ Used(c)' = Used(c) /\ \A i : Slot(c, i)' = Slot(c, i)
  BY <1>1, <1>5, <1>9 DEF TreeKept
<1>12. /\ First(inode_NowDir)' = f /\ Used(inode_NowDir)' = Used(c)
       /\ \A i : Slot(inode_NowDir, i)' = Slot(c, i)
  BY <1>9, <1>11 DEF First, Used, Slot
<1>13. k \in 1 .. EntriesPerSector - 1 /\ k # 0 /\ 0 \in Indices
       /\ Block(f) \in [Indices -> Entries]
  BY <1>4, <1>5, BlockTyped, ConstantFacts DEF BlockType
<1>14. /\ w.entries[k] = [Slot(c, k) EXCEPT !.name = new]
       /\ \A i \in Indices : i # k => w.entries[i] = Block(f)[i]
  BY <1>5, <1>7, <1>13
<1>15. w.entries[k].name = new
  <2>1. Slot(c, k) \in Entries
    BY <1>5, <1>13
  <2> QED BY <1>14, <2>1 DEF Entries
<1>16. w.entries[0].type = {0} \cup Used(c)
  BY <1>5, <1>13, <1>14
<1>17. Gone' = {}
  <2>1. ASSUME NEW j \in StepsTo("entry")'
        PROVE  Used(inode_NowDir)' \ pending'[j].entries[0].type = {}
    BY <1>7, <1>8, <1>12, <1>16
  <2> QED BY <2>1 DEF Gone
<1>18. OwnedBlocks' = OwnedBlocks
  BY <1>9, <1>10, <1>17 DEF OwnedBlocks, TreeKept
<1>19. SecondKept(w)'
  <2>1. ASSUME NEW i \in 0 .. EntriesPerSector - 1
        PROVE  w.entries[EntriesPerSector + i] = block_table[f + 1][i]
    <3>1. PICK m : m = EntriesPerSector + i
      OBVIOUS
    <3>2. m \in Indices /\ m # k
      BY <1>13, <3>1, ConstantFacts
    <3> QED BY <1>5, <1>14, <3>1, <3>2
  <2> QED BY <1>7, <1>9, <2>1 DEF SecondKept
<1>20. Renames(1, k)'
  <2>1. Changes(w, k, Used(c))'
    <3>1. \A i \in 1 .. EntriesPerSector - 1 : i # k => w.entries[i] = Slot(inode_NowDir, i)'
      BY <1>5, <1>12, <1>14
    <3> QED BY <1>11, <1>16, <3>1 DEF Changes
  <2>2. NewName(new)'
    BY <1>4, <1>12 DEF NewName
  <2> QED BY <1>4, <1>8, <1>11, <1>12, <1>14, <1>15, <2>1, <2>2 DEF Renames, Changes, NewName
<1>21. EntryStep(1)'
  <2>1. \A i \in 1 .. 1 - 1 : pending'[i].to = "inode_bitmap"
    OBVIOUS
  <2>2. StepsTo("entry")' = {1}
    BY <1>7, <1>8
  <2> QED BY <1>7, <1>8, <1>9, <1>12, <1>13, <1>19, <1>20, <2>1, <2>2 DEF EntryStep, SecondKept
<1>22. StepInv'
  BY <1>7, <1>8, <1>9, <1>21 DEF StepInv
<1>23. ExactInv'
  <2>1. InodeBitsAtEnd' = inode_bitmap /\ BlockBitsAtEnd' = block_bitmap
    BY <1>7, <1>8, <1>9 DEF InodeBitsAtEnd, BlockBitsAtEnd
  <2>2. {InodeOf(p) : p \in Slots}' = {InodeOf(p) : p \in Slots}
    BY <1>9 DEF TreeKept
  <2> QED BY <1>8, <1>9, <1>10, <1>17, <1>18, <2>1, <2>2 DEF TreeInv, ExactInv
<1> QED BY <1>2, <1>7, <1>8, <1>17, <1>22, <1>23, PendTree

-----------------------------------------------------------------------------
(* rm and rmdir.                                                           *)

IsJoin(u, s, t) ==
    /\ Len(u) = Len(s) + Len(t)
    /\ \A j \in 1 .. Len(s) : u[j] = s[j]
    /\ \A j \in 1 .. Len(t) : u[Len(s) + j] = t[j]
    /\ \A j \in 1 .. Len(s) + Len(t) :
          \/ j \in 1 .. Len(s)
          \/ \E i \in 1 .. Len(t) : j = Len(s) + i

\* Two lists, one behind the other.
LEMMA Joined ==
    ASSUME NEW S, NEW s \in Seq(S), NEW t \in Seq(S), NEW u, u = s \o t
    PROVE  u \in Seq(S) /\ IsJoin(u, s, t)
<1>1. Len(s) \in Nat /\ Len(t) \in Nat
  OBVIOUS
<1>2. Len(s \o t) = Len(s) + Len(t)
      /\ \A j \in 1 .. Len(s) + Len(t) : (s \o t)[j] = IF j <= Len(s) THEN s[j] ELSE t[j - Len(s)]
  OBVIOUS
<1>3. ASSUME NEW j \in 1 .. Len(t)
      PROVE  (s \o t)[Len(s) + j] = t[j]
  <2>1. PICK i : i = Len(s) + j
    OBVIOUS
  <2>2. i \in 1 .. Len(s) + Len(t) /\ ~(i <= Len(s)) /\ i - Len(s) = j
    BY <1>1, <2>1
  <2>3. (s \o t)[i] = t[i - Len(s)]
    BY <1>2, <2>2
  <2> QED BY <2>1, <2>2, <2>3
<1>4. \A j \in 1 .. Len(s) : (s \o t)[j] = s[j]
  BY <1>1, <1>2
<1>5. ASSUME NEW j \in 1 .. Len(s) + Len(t), j \notin 1 .. Len(s)
      PROVE  \E i \in 1 .. Len(t) : j = Len(s) + i
  <2>1. j - Len(s) \in 1 .. Len(t) /\ j = Len(s) + (j - Len(s))
    BY <1>1, <1>5
  <2> QED BY <2>1
<1>6. s \o t \in Seq(S)
  OBVIOUS
<1> QED BY <1>2, <1>3, <1>4, <1>5, <1>6 DEF IsJoin

\* A list of pairs, pair by pair.
LEMMA PairOf ==
    ASSUME NEW m \in Nat, NEW j \in 1 .. 2 * m
    PROVE  \E i \in 1 .. m : j = 2 * i - 1 \/ j = 2 * i
<1>1. CASE j % 2 = 1 /\ (j + 1) \div 2 \in 1 .. m /\ j = 2 * ((j + 1) \div 2) - 1
  BY <1>1
<1>2. CASE j % 2 = 0 /\ j \div 2 \in 1 .. m /\ j = 2 * (j \div 2)
  BY <1>2
<1> QED BY <1>1, <1>2, PairIndex

\* The blocks that DeleteFile and RemoveDir free.
ToFree(n) == SubSeq(inode_table[n].block, 1, inode_table[n].links)

IsRemove(s, w, blocks, n) ==
    /\ Len(s) = 2 * Len(blocks) + 2
    /\ s[1] = w
    /\ s[Len(s)] = WriteInodeBitmap(inode_bitmap \ {n})
    /\ \A i \in 1 .. Len(blocks) :
          /\ s[2 * i] = WriteBlockBitmap(block_bitmap \ Taken(blocks, i))
          /\ s[2 * i + 1] = WriteBlock(blocks[i], Empty)
    /\ \A j \in 1 .. Len(s) : j = 1 \/ j = Len(s) \/ \E i \in 1 .. Len(blocks) : j = 2 * i \/ j = 2 * i + 1

\* The writes of rm and rmdir, one by one.
LEMMA RemoveIndex ==
    ASSUME TypeInv, NEW name, Matches(name) # {}, NEW n, n = FoundEntry(name).inode,
           NEW blocks, blocks = ToFree(n)
    PROVE  /\ blocks \in Seq(BlockNumbers) /\ Len(blocks) = inode_table[n].links
           /\ \A i \in 1 .. Len(blocks) : i \in 1 .. DIR_BLOCKS /\ blocks[i] = inode_table[n].block[i]
           /\ IsRemove(RemoveWrites(name), WriteEntry(FoundBlock(name), WithoutEntry(name)), blocks, n)
<1>1. n \in Inodes
  BY FoundFacts DEF Entries
<1>2. inode_table[n] \in InodeType
  BY <1>1, InodeTyped
<1>3. /\ blocks \in Seq(BlockNumbers) /\ Len(blocks) = inode_table[n].links
      /\ \A i \in 1 .. Len(blocks) : i \in 1 .. DIR_BLOCKS /\ blocks[i] = inode_table[n].block[i]
  <2>1. PICK b, l : b = inode_table[n].block /\ l = inode_table[n].links
    OBVIOUS
  <2>2. b \in Seq(BlockNumbers) /\ Len(b) = DIR_BLOCKS /\ l \in 0 .. DIR_BLOCKS /\ DIR_BLOCKS \in Nat
    BY <1>2, <2>1, ConstantFacts DEF InodeType
  <2>3. SubSeq(b, 1, l) \in Seq(BlockNumbers) /\ Len(SubSeq(b, 1, l)) = l
        /\ \A i \in 1 .. l : i \in 1 .. DIR_BLOCKS /\ SubSeq(b, 1, l)[i] = b[i]
    BY <2>2
  <2> QED BY <2>1, <2>3 DEF ToFree
<1>4. PICK w, F, z : /\ w = WriteEntry(FoundBlock(name), WithoutEntry(name))
                     /\ F = Free_Block(blocks, block_bitmap)
                     /\ z = WriteInodeBitmap(inode_bitmap \ {n})
  OBVIOUS
<1>5. w \in WriteType /\ z \in WriteType
  <2>1. w \in WriteType
    BY <1>4, FoundFacts, WithoutEntryType, WriteTypes
  <2>2. inode_bitmap \ {n} \in SUBSET Inodes
    BY DEF TypeInv, TypeOK
  <2> QED BY <1>4, <2>1, <2>2, WriteTypes
<1>6. block_bitmap \in SUBSET BlockNumbers
  BY DEF TypeInv, TypeOK
<1>7. IsFree(F, blocks, block_bitmap)
  BY <1>3, <1>4, <1>6, FreeIndex
<1>8. PICK m : m = Len(blocks)
  OBVIOUS
<1>9. /\ m \in Nat /\ F \in Seq(WriteType) /\ Len(F) = 2 * m
      /\ \A i \in 1 .. m : /\ F[2 * i - 1] = WriteBlockBitmap(block_bitmap \ Taken(blocks, i))
                           /\ F[2 * i] = WriteBlock(blocks[i], Empty)
  <2>1. Len(blocks) \in Nat
    BY <1>3
  <2>2. /\ F \in Seq(WriteType) /\ Len(F) = 2 * Len(blocks)
        /\ \A i \in 1 .. Len(blocks) : /\ F[2 * i - 1] = WriteBlockBitmap(block_bitmap \ Taken(blocks, i))
                                       /\ F[2 * i] = WriteBlock(blocks[i], Empty)
    BY <1>7 DEF IsFree
  <2> QED BY <1>8, <2>1, <2>2
<1>10. PICK t, s : t = <<w>> \o F /\ s = t \o <<z>>
  OBVIOUS
<1>11. <<w>> \in Seq(WriteType) /\ Len(<<w>>) = 1 /\ <<w>>[1] = w
       /\ <<z>> \in Seq(WriteType) /\ Len(<<z>>) = 1 /\ <<z>>[1] = z
  BY <1>5
<1>12. /\ t \in Seq(WriteType) /\ Len(t) = 1 + 2 * m
       /\ t[1] = w
       /\ \A j \in 1 .. 2 * m : t[1 + j] = F[j]
       /\ \A j \in 1 .. 1 + 2 * m : j = 1 \/ \E i \in 1 .. 2 * m : j = 1 + i
  <2>0. PICK a : a = <<w>>
    OBVIOUS
  <2>1. a = <<w>> /\ a \in Seq(WriteType) /\ Len(a) = 1 /\ a[1] = w
    BY <1>11, <2>0
  <2>2. t \in Seq(WriteType) /\ IsJoin(t, a, F)
    BY <1>9, <1>10, <2>1, Joined
  <2>3. 1 \in 1 .. Len(a)
    BY <2>1
  <2>4. /\ t \in Seq(WriteType) /\ Len(t) = 1 + 2 * m
        /\ \A j \in 1 .. 1 : t[j] = a[j]
        /\ \A j \in 1 .. 2 * m : t[1 + j] = F[j]
        /\ \A j \in 1 .. 1 + 2 * m : j \in 1 .. 1 \/ \E i \in 1 .. 2 * m : j = 1 + i
    BY <1>9, <2>1, <2>2 DEF IsJoin
  <2>5. 1 \in 1 .. 1 /\ \A j \in 1 .. 1 : j = 1
    OBVIOUS
  <2>6. t[1] = a[1]
    BY <2>4, <2>5
  <2>7. \A j \in 1 .. 1 + 2 * m : j = 1 \/ \E i \in 1 .. 2 * m : j = 1 + i
    BY <2>4, <2>5
  <2> QED BY <2>1, <2>4, <2>6, <2>7
<1>13. /\ Len(s) = 2 * m + 2
       /\ \A j \in 1 .. 1 + 2 * m : s[j] = t[j]
       /\ s[2 * m + 2] = z
       /\ \A j \in 1 .. 2 * m + 2 : j \in 1 .. 1 + 2 * m \/ j = 2 * m + 2
  <2>0. PICK a : a = <<z>>
    OBVIOUS
  <2>1. a = <<z>> /\ a \in Seq(WriteType) /\ Len(a) = 1 /\ a[1] = z
    BY <1>11, <2>0
  <2>2. IsJoin(s, t, a)
    BY <1>10, <1>12, <2>1, Joined
  <2>3. PICK l : l = 1 + 2 * m
    OBVIOUS
  <2>4. l \in Nat /\ l + 1 = 2 * m + 2 /\ Len(t) = l /\ Len(a) = 1
    BY <1>9, <1>12, <2>1, <2>3
  <2>5. /\ Len(s) = l + 1
        /\ \A j \in 1 .. l : s[j] = t[j]
        /\ \A j \in 1 .. 1 : s[l + j] = a[j]
        /\ \A j \in 1 .. l + 1 : j \in 1 .. l \/ \E i \in 1 .. 1 : j = l + i
    BY <2>2, <2>4 DEF IsJoin
  <2>6. 1 \in 1 .. 1 /\ \A i \in 1 .. 1 : i = 1
    OBVIOUS
  <2>7. s[l + 1] = z /\ \A j \in 1 .. l + 1 : j \in 1 .. l \/ j = l + 1
    BY <2>1, <2>5, <2>6
  <2> QED BY <2>3, <2>4, <2>5, <2>7
<1>14. ASSUME NEW i \in 1 .. m
       PROVE  /\ s[2 * i] = WriteBlockBitmap(block_bitmap \ Taken(blocks, i))
              /\ s[2 * i + 1] = WriteBlock(blocks[i], Empty)
  <2>1. PICK a, b : a = 2 * i - 1 /\ b = 2 * i
    OBVIOUS
  <2>2. a \in 1 .. 2 * m /\ b \in 1 .. 2 * m /\ 1 + a = 2 * i /\ 1 + b = 2 * i + 1
        /\ 1 + a \in 1 .. 1 + 2 * m /\ 1 + b \in 1 .. 1 + 2 * m
    BY <1>9, <2>1
  <2>3. s[1 + a] = F[a] /\ s[1 + b] = F[b]
    BY <1>12, <1>13, <2>2
  <2> QED BY <1>9, <2>1, <2>2, <2>3
<1>15. ASSUME NEW j \in 1 .. 2 * m + 2
       PROVE  j = 1 \/ j = 2 * m + 2 \/ \E i \in 1 .. m : j = 2 * i \/ j = 2 * i + 1
  <2>1. ASSUME NEW x \in 1 .. 2 * m, j = 1 + x
        PROVE  \E i \in 1 .. m : j = 2 * i \/ j = 2 * i + 1
    <3>1. PICK i \in 1 .. m : x = 2 * i - 1 \/ x = 2 * i
      BY <1>9, PairOf
    <3>2. j = 2 * i \/ j = 2 * i + 1
      BY <2>1, <3>1
    <3> QED BY <3>2
  <2> QED BY <1>12, <1>13, <2>1
<1>16. s[1] = w
  <2>1. 1 \in 1 .. 1 + 2 * m
    BY <1>9
  <2> QED BY <1>12, <1>13, <2>1
<1>17. RemoveWrites(name) = s
  BY <1>4, <1>10 DEF RemoveWrites, Free_inode, ToFree
<1> QED BY <1>3, <1>4, <1>8, <1>13, <1>14, <1>15, <1>16, <1>17 DEF IsRemove

\* What rm and rmdir make sure of before they write.
Removable(name) ==
    LET e == FoundEntry(name)
    IN  e.type = FILETYPE_DIR => Used(e.inode) = {} /\ NeighbourBound(BlocksOf(e.inode), e.inode)

\* What rm and rmdir are about to remove: an entry of the working directory whose
\* blocks nobody else has, and nothing is below it.
LEMMA RemoveFacts ==
    ASSUME TypeInv, TreeInv, Changing, NEW name, Matches(name) # {}, Removable(name),
           NEW c, c = inode_NowDir, NEW k, k = FoundIndex(name), NEW n, n = FoundEntry(name).inode,
           NEW blocks, blocks = ToFree(n)
    PROVE  /\ FoundBlock(name) = First(c) /\ k \in Used(c) /\ <<c, k>> \in Slots
           /\ n = Slot(c, k).inode /\ n \in Inodes
           /\ n \notin {INODE_ENTRY_BIT, INODE_ROOTDIR, c}
           /\ Slot(c, k).type = FILETYPE_DIR => Used(n) = {}
           /\ OwnedBlocks = OtherBlocks(n) \cup Range(blocks)
           /\ \A b \in Range(blocks) : b \notin OtherBlocks(n) /\ b + 1 \notin OtherBlocks(n)
           /\ \A b \in Range(blocks) : b \notin SetBitmap_block
<1>1. /\ FoundBlock(name) = First(c) /\ k \in Used(c) /\ <<c, k>> \in Slots
      /\ FoundEntry(name) = Slot(c, k)
  BY Found DEF Changing
<1>2. /\ SlotsAre /\ AllHeadersOK /\ Building = {} /\ half = {} /\ c \in Directories
      /\ OwnedBlocks = UNION {BlocksOf(d) : d \in Directories}
      /\ \A p \in Slots : InodeOf(p) \notin {INODE_ENTRY_BIT, INODE_ROOTDIR}
  BY IdleFacts DEF Changing, Calling
<1>3. PICK q, e : q = <<c, k>> /\ e = Slot(c, k)
  OBVIOUS
<1>4. q \in Slots /\ InodeOf(q) = n /\ q[1] = c /\ q[2] = k /\ e.inode = n /\ e \in Entries /\ EntryOK(e)
  BY <1>1, <1>2, <1>3 DEF SlotsAre, InodeOf, TreeInv, EntryInv
<1>5. n \in Inodes /\ n \notin {INODE_ENTRY_BIT, INODE_ROOTDIR}
      /\ e.type \in {FILETYPE_FILE, FILETYPE_DIR} /\ e.name \in FileNames
      /\ (e.type = FILETYPE_FILE => inode_table[n].links = 0)
  BY <1>2, <1>4 DEF EntryOK, Entries
<1>6. e.type = FILETYPE_DIR => Used(n) = {} /\ NeighbourBound(BlocksOf(n), n)
  BY <1>1, <1>3, <1>4 DEF Removable
<1>7. n \in Directories <=> e.type = FILETYPE_DIR
  <2>1. ASSUME n \in Directories
        PROVE  e.type = FILETYPE_DIR
    <3>1. PICK p \in Slots : InodeOf(p) = n /\ Slot(p[1], p[2]).type = FILETYPE_DIR
      BY <1>2, <1>5, <2>1 DEF SlotsAre
    <3>2. p = q
      BY <1>4, <3>1 DEF TreeInv, EntryInv
    <3> QED BY <1>3, <1>4, <3>1, <3>2
  <2>2. ASSUME e.type = FILETYPE_DIR
        PROVE  n \in Directories
    BY <1>2, <1>3, <1>4, <2>2 DEF SlotsAre
  <2> QED BY <2>1, <2>2
<1>8. n # c
  BY <1>1, <1>2, <1>6, <1>7
<1>9. /\ blocks \in Seq(BlockNumbers) /\ Len(blocks) = inode_table[n].links
      /\ \A i \in 1 .. Len(blocks) : i \in 1 .. DIR_BLOCKS /\ blocks[i] = inode_table[n].block[i]
  BY RemoveIndex
<1>10. \A b : b \in Range(blocks) <=> \E i \in 1 .. Len(blocks) : blocks[i] = b
  BY <1>9, RangeOf
<1>11. CASE e.type = FILETYPE_FILE
  <2>1. n \notin Directories
    BY <1>7, <1>11 DEF FILETYPE_FILE, FILETYPE_DIR
  <2>2. \A b : b \notin Range(blocks)
    BY <1>5, <1>9, <1>10, <1>11
  <2>3. OwnedBlocks = OtherBlocks(n)
    BY <1>2, <2>1 DEF OtherBlocks
  <2> QED BY <1>1, <1>3, <1>4, <1>5, <1>6, <1>8, <2>2, <2>3
<1>12. CASE e.type = FILETYPE_DIR
  <2>1. n \in Directories /\ OwnsBlocks(n)
    BY <1>7, <1>12 DEF TreeInv, DirectoryInv
  <2>2. Range(blocks) = BlocksOf(n)
    <3>1. Len(blocks) = DIR_BLOCKS /\ BlocksOf(n) = {inode_table[n].block[i] : i \in 1 .. DIR_BLOCKS}
      BY <1>5, <1>9, <2>1, InodeTyped DEF OwnsBlocks
    <3> QED BY <1>9, <1>10, <3>1
  <2>3. \A b \in BlocksOf(n) : b \notin SetBitmap_block
    BY <1>5, <2>1, InodeTyped DEF OwnsBlocks
  <2>4. \A b \in BlocksOf(n) : b \notin OtherBlocks(n) /\ b + 1 \notin OtherBlocks(n)
    BY <1>6, <1>12, <2>1 DEF NeighbourBound, OtherBlocks, TreeInv, DirectoryInv
  <2>5. OwnedBlocks = OtherBlocks(n) \cup BlocksOf(n)
    BY <1>2, <2>1 DEF OtherBlocks
  <2> QED BY <1>1, <1>3, <1>4, <1>5, <1>6, <1>8, <2>2, <2>3, <2>4, <2>5
<1> QED BY <1>5, <1>11, <1>12

\* The writes of rm and rmdir keep the invariant when they are begun.
LEMMA RemoveStep ==
    ASSUME TypeInv, TypeInv', TreeInv, Changing, NEW name, Matches(name) # {}, Removable(name),
           Puts(RemoveWrites(name))
    PROVE  TreeInv' /\ TreeKept
<1>1. PICK c, f, k, n, e : /\ c = inode_NowDir /\ f = First(c) /\ k = FoundIndex(name)
                           /\ n = FoundEntry(name).inode /\ e = WithoutEntry(name)
  OBVIOUS
<1>2. PICK blocks : blocks = ToFree(n)
  OBVIOUS
<1>3. /\ FoundBlock(name) = f /\ k \in Used(c) /\ <<c, k>> \in Slots
      /\ n = Slot(c, k).inode /\ n \in Inodes
      /\ n \notin {INODE_ENTRY_BIT, INODE_ROOTDIR, c}
      /\ Slot(c, k).type = FILETYPE_DIR => Used(n) = {}
      /\ OwnedBlocks = OtherBlocks(n) \cup Range(blocks)
      /\ \A b \in Range(blocks) : b \notin OtherBlocks(n) /\ b + 1 \notin OtherBlocks(n)
      /\ \A b \in Range(blocks) : b \notin SetBitmap_block
  BY <1>1, <1>2, RemoveFacts
<1>4. PICK w, s : w = WriteEntry(f, e) /\ s = RemoveWrites(name)
  OBVIOUS
<1>5. w.to = "entry" /\ w.number = f /\ w.entries = e /\ Puts(s) /\ pending' = s
  BY <1>4 DEF WriteEntry, Puts
<1>6. PICK m : m = Len(blocks)
  OBVIOUS
<1>7. /\ m \in Nat /\ blocks \in Seq(BlockNumbers)
      /\ Len(s) = 2 * m + 2 /\ s[1] = w
      /\ s[2 * m + 2] = WriteInodeBitmap(inode_bitmap \ {n})
      /\ \A i \in 1 .. m :
             /\ s[2 * i] = WriteBlockBitmap(block_bitmap \ Taken(blocks, i))
             /\ s[2 * i + 1] = WriteBlock(blocks[i], Empty)
      /\ \A j \in 1 .. 2 * m + 2 : j = 1 \/ j = 2 * m + 2 \/ \E i \in 1 .. m : j = 2 * i \/ j = 2 * i + 1
  <2>1. IsRemove(s, w, blocks, n) /\ blocks \in Seq(BlockNumbers)
    BY <1>1, <1>2, <1>3, <1>4, RemoveIndex
  <2>2. Len(blocks) \in Nat
    BY <2>1
  <2> QED BY <1>6, <2>1, <2>2 DEF IsRemove
\* The writes, kind by kind.
<1>8. \A i \in 1 .. m : /\ s[2 * i].to = "block_bitmap" /\ s[2 * i].bits = block_bitmap \ Taken(blocks, i)
                        /\ s[2 * i + 1].to = "block" /\ s[2 * i + 1].number = blocks[i]
  <2> TAKE i \in 1 .. m
  <2>1. PICK x, y : x = s[2 * i] /\ y = s[2 * i + 1]
    OBVIOUS
  <2>2. x = WriteBlockBitmap(block_bitmap \ Taken(blocks, i)) /\ y = WriteBlock(blocks[i], Empty)
    BY <1>7, <2>1
  <2>3. x.to = "block_bitmap" /\ x.bits = block_bitmap \ Taken(blocks, i)
        /\ y.to = "block" /\ y.number = blocks[i]
    BY <2>2 DEF WriteBlockBitmap, WriteBlock
  <2> QED BY <2>1, <2>3
<1>9. s[2 * m + 2].to = "inode_bitmap" /\ s[2 * m + 2].bits = inode_bitmap \ {n}
  BY <1>7 DEF WriteInodeBitmap
<1>10. Steps' = 1 .. 2 * m + 2
  BY <1>5, <1>7 DEF Steps
<1>11. \A kind : StepsTo(kind)' = {j \in 1 .. 2 * m + 2 : s[j].to = kind}
  BY <1>5, <1>10 DEF StepsTo
<1>12. \A j \in 1 .. 2 * m + 2 :
           \/ j = 1 /\ s[j].to = "entry"
           \/ j = 2 * m + 2 /\ s[j].to = "inode_bitmap"
           \/ s[j].to = "block_bitmap" /\ \E i \in 1 .. m : j = 2 * i
           \/ s[j].to = "block" /\ \E i \in 1 .. m : j = 2 * i + 1
  <2> TAKE j \in 1 .. 2 * m + 2
  <2>1. ASSUME NEW i \in 1 .. m, j = 2 * i \/ j = 2 * i + 1
        PROVE  \/ s[j].to = "block_bitmap" /\ j = 2 * i
               \/ s[j].to = "block" /\ j = 2 * i + 1
    BY <1>8, <2>1
  <2>2. j = 1 => s[j].to = "entry"
    BY <1>5, <1>7
  <2>3. j = 2 * m + 2 => s[j].to = "inode_bitmap"
    BY <1>9
  <2>4. j = 1 \/ j = 2 * m + 2 \/ \E i \in 1 .. m : j = 2 * i \/ j = 2 * i + 1
    BY <1>7
  <2> QED BY <2>1, <2>2, <2>3, <2>4
<1>13. /\ StepsTo("inode")' = {} /\ StepsTo("free_half")' = {} /\ StepsTo("formatted")' = {}
       /\ StepsTo("entry")' = {1} /\ StepsTo("inode_bitmap")' = {2 * m + 2}
       /\ \A j \in StepsTo("block_bitmap")' : \E i \in 1 .. m : j = 2 * i
       /\ \A j \in StepsTo("block")' : \E i \in 1 .. m : j = 2 * i + 1
       /\ \A i \in 1 .. m : 2 * i \in StepsTo("block_bitmap")'
  <2>1. StepsTo("inode")' = {} /\ StepsTo("free_half")' = {} /\ StepsTo("formatted")' = {}
    BY <1>11, <1>12
  <2>2. 1 \in 1 .. 2 * m + 2 /\ 2 * m + 2 \in 1 .. 2 * m + 2
    BY <1>7
  <2>a. s[1].to = "entry"
    BY <1>5, <1>7
  <2>b. \A j \in 1 .. 2 * m + 2 : /\ s[j].to = "entry" => j = 1
                                  /\ s[j].to = "inode_bitmap" => j = 2 * m + 2
    BY <1>12
  <2>c. PICK z : z = 2 * m + 2
    OBVIOUS
  <2>3. StepsTo("entry")' = {1} /\ StepsTo("inode_bitmap")' = {2 * m + 2}
    BY <1>9, <1>11, <2>2, <2>a, <2>b, <2>c
  <2>4. \A j \in StepsTo("block_bitmap")' : \E i \in 1 .. m : j = 2 * i
    BY <1>11, <1>12
  <2>5. \A j \in StepsTo("block")' : \E i \in 1 .. m : j = 2 * i + 1
    BY <1>11, <1>12
  <2>6. \A i \in 1 .. m : 2 * i \in 1 .. 2 * m + 2
    BY <1>7
  <2>7. \A i \in 1 .. m : 2 * i \in StepsTo("block_bitmap")'
    BY <1>8, <1>11, <2>6
  <2> QED BY <2>1, <2>3, <2>4, <2>5, <2>7
<1>14. Building' = {} /\ Coming' = {}
  <2>1. Building' = {pending'[x].number : x \in StepsTo("inode")' \cup StepsTo("free_half")'}
    BY DEF Building, StepsTo, Steps
  <2> QED BY <1>13, <2>1 DEF Coming
<1>15. ~Freed(1)' /\ \A j \in Steps' : ~Freed(j)'
  <2>1. \A j \in Steps' : \A i \in 1 .. j - 1 : i \in 1 .. 2 * m + 2
    BY <1>7, <1>10
  <2>2. \A j \in Steps' : ~Freed(j)'
    BY <1>5, <1>12, <2>1 DEF Freed
  <2> QED BY <2>2 DEF Freed
<1>16. /\ TreeKept /\ half = {} /\ half' = {} /\ inode_NowDir' = c
       /\ block_bitmap' = block_bitmap /\ inode_bitmap' = inode_bitmap
       /\ block_table' = block_table /\ crashed' = crashed
  BY <1>1, <1>5, <1>14, PendKeeps
<1>17. /\ Gone = {} /\ Coming = {} /\ Building = {} /\ InodeBitsAtEnd = inode_bitmap
       /\ BlockBitsAtEnd = block_bitmap /\ StepsTo("free_half") = {} /\ SlotsAre
       /\ OwnedBlocks \subseteq block_bitmap \ SetBitmap_block
       /\ \A p \in Slots : InodeOf(p) \in inode_bitmap
  BY IdleFacts DEF Changing, Calling
\* The directory block without the entry.
<1>18. /\ c \in Directories /\ f \in BlockNumbers
       /\ Block(f)[0].type = {0} \cup Used(c)
       /\ Used(c) \subseteq 1 .. EntriesPerSector - 1
       /\ \A i \in 1 .. EntriesPerSector - 1 : i \in Indices /\ Block(f)[i] = Slot(c, i)
       /\ \A i \in 0 .. EntriesPerSector - 1 :
              EntriesPerSector + i \in Indices /\ Block(f)[EntriesPerSector + i] = block_table[f + 1][i]
  BY <1>1, FirstBlock DEF Changing
<1>19. k \in 1 .. EntriesPerSector - 1 /\ k # 0 /\ 0 \in Indices /\ k \in Indices
       /\ Block(f) \in [Indices -> Entries]
  BY <1>3, <1>18, BlockTyped, ConstantFacts DEF BlockType
<1>20. /\ e[0].type = {0} \cup (Used(c) \ {k})
       /\ \A i \in Indices : i # k /\ i # 0 => e[i] = Block(f)[i]
  <2>1. PICK g : g = [Block(f) EXCEPT ![k] = NoEntry]
    OBVIOUS
  <2>2. g \in [Indices -> Entries] /\ \A i \in Indices : i # k => g[i] = Block(f)[i]
    BY <1>19, <2>1, EmptyType
  <2>3. e = [g EXCEPT ![0].type = @ \ {k}]
    BY <1>1, <1>3, <2>1 DEF WithoutEntry
  <2>4. e[0] = [g[0] EXCEPT !.type = g[0].type \ {k}] /\ \A i \in Indices : i # 0 => e[i] = g[i]
    BY <1>19, <2>2, <2>3
  <2>5. e[0].type = g[0].type \ {k}
    <3>1. g[0] \in Entries
      BY <1>19, <2>2
    <3> QED BY <2>4, <3>1 DEF Entries
  <2> QED BY <1>18, <1>19, <2>2, <2>4, <2>5
<1>21. /\ First(inode_NowDir)' = f /\ Used(inode_NowDir)' = Used(c)
       /\ \A i : Slot(inode_NowDir, i)' = Slot(c, i)
  <2>1. First(c)' = f /\ Used(c)' = Used(c) /\ \A i : Slot(c, i)' = Slot(c, i)
    BY <1>1, <1>16, <1>18 DEF TreeKept
  <2> QED BY <1>16, <2>1 DEF First, Used, Slot
<1>22. Gone' = {n}
  <2>1. \A j \in StepsTo("entry")' : Used(inode_NowDir)' \ pending'[j].entries[0].type = {k}
    BY <1>3, <1>5, <1>7, <1>13, <1>18, <1>19, <1>20, <1>21
  <2>2. Slot(inode_NowDir, k)'.inode = n
    BY <1>3, <1>21
  <2> QED BY <1>13, <2>1, <2>2 DEF Gone
<1>23. OwnedBlocks' = OtherBlocks(n)
  BY <1>16, <1>22 DEF OwnedBlocks, OtherBlocks, TreeKept
<1>24. SecondKept(w)'
  <2>1. ASSUME NEW i \in 0 .. EntriesPerSector - 1
        PROVE  e[EntriesPerSector + i] = block_table[f + 1][i]
    <3>1. PICK x : x = EntriesPerSector + i
      OBVIOUS
    <3>2. x \in Indices /\ x # k /\ x # 0
      BY <1>19, <3>1, ConstantFacts
    <3> QED BY <1>18, <1>20, <3>1, <3>2
  <2> QED BY <1>5, <1>16, <2>1 DEF SecondKept
<1>25. Drops(1, k)'
  <2>1. Changes(w, k, Used(c) \ {k})'
    <3>1. \A i \in 1 .. EntriesPerSector - 1 : i # k => e[i] = Slot(inode_NowDir, i)'
      <4> TAKE i \in 1 .. EntriesPerSector - 1
      <4>1. i \in Indices /\ i # 0 /\ Block(f)[i] = Slot(c, i)
        BY <1>18
      <4> QED BY <1>20, <1>21, <4>1
    <3>2. Used(c)' = Used(c)
      BY <1>16, <1>18 DEF TreeKept
    <3> QED BY <1>5, <1>20, <3>1, <3>2 DEF Changes
  <2>2. Slot(inode_NowDir, k)'.type = FILETYPE_DIR => Used(Slot(inode_NowDir, k).inode)' = {}
    <3>1. ASSUME Slot(c, k).type = FILETYPE_DIR
          PROVE  Used(n)' = {}
      <4>1. n \in Directories
        BY <1>3, <1>17, <1>16, <3>1 DEF SlotsAre, InodeOf
      <4> QED BY <1>3, <1>16, <3>1, <4>1 DEF TreeKept
    <3>2. Slot(inode_NowDir, k)' = Slot(c, k)
      BY <1>21
    <3> QED BY <1>3, <3>1, <3>2 DEF Used, First
  <2>3. Changes(pending[1], k, Used(inode_NowDir) \ {k})'
    BY <1>5, <1>7, <1>16, <2>1 DEF Changes, Used, First
  <2> QED BY <1>3, <1>14, <1>21, <2>2, <2>3 DEF Drops
<1>26. EntryStep(1)'
  <2>1. \A i \in 1 .. 1 - 1 : pending'[i].to = "inode_bitmap"
    OBVIOUS
  <2> QED BY <1>5, <1>7, <1>13, <1>16, <1>19, <1>21, <1>24, <1>25, <2>1 DEF EntryStep, SecondKept
\* The blocks that are freed are those of the directory.
<1>27. \A i \in 1 .. m : blocks[i] \in Range(blocks) /\ Taken(blocks, i) \subseteq Range(blocks)
  <2>1. \A b : b \in Range(blocks) <=> \E i \in 1 .. m : blocks[i] = b
    BY <1>6, <1>7, RangeOf
  <2>2. \A i \in 1 .. m : \A x \in 1 .. i : x \in 1 .. m
    BY <1>7
  <2> QED BY <2>1, <2>2 DEF Taken
<1>28. \A j \in StepsTo("block_bitmap")' :
           BlockBitsStep(j)' /\ SetBitmap_block \subseteq pending'[j].bits
  <2> TAKE j \in StepsTo("block_bitmap")'
  <2>1. PICK i \in 1 .. m : j = 2 * i
    BY <1>13
  <2>2. pending'[j].bits = block_bitmap \ Taken(blocks, i) /\ Taken(blocks, i) \subseteq Range(blocks)
    BY <1>5, <1>8, <1>27, <2>1
  <2>3. OtherBlocks(n) \subseteq pending'[j].bits
    BY <1>3, <1>17, <2>2
  <2>4. SetBitmap_block \subseteq block_bitmap
    BY <1>16 DEF TreeInv, ReservedInv
  <2> QED BY <1>3, <1>23, <2>2, <2>3, <2>4 DEF BlockBitsStep
<1>29. \A j \in StepsTo("block")' : BlockStep(j)'
  <2> TAKE j \in StepsTo("block")'
  <2>1. PICK i \in 1 .. m : j = 2 * i + 1
    BY <1>13
  <2>2. pending'[j].number = blocks[i] /\ blocks[i] \in Range(blocks)
    BY <1>5, <1>8, <1>27, <2>1
  <2> QED BY <1>3, <1>23, <2>2 DEF BlockStep
<1>30. \A j \in StepsTo("inode_bitmap")' :
           InodeBitsStep(j)' /\ {INODE_ENTRY_BIT, INODE_ROOTDIR} \subseteq pending'[j].bits
  <2>1. \A p \in Slots' : InodeOf(p)' \in inode_bitmap
    BY <1>16, <1>17 DEF TreeKept
  <2>2. {INODE_ENTRY_BIT, INODE_ROOTDIR} \subseteq inode_bitmap
    BY DEF TreeInv, ReservedInv
  <2> QED BY <1>3, <1>5, <1>9, <1>13, <1>22, <2>1, <2>2 DEF InodeBitsStep
<1>31. StepInv'
  BY <1>13, <1>15, <1>16, <1>26, <1>28, <1>29, <1>30 DEF StepInv
<1>32. ExactInv'
  <2> SUFFICES ASSUME ~crashed'
               PROVE  /\ InodeBitsAtEnd' = {INODE_ENTRY_BIT, INODE_ROOTDIR}
                                  \cup ({InodeOf(p) : p \in Slots}' \ Gone') \cup Building'
                      /\ BlockBitsAtEnd' = SetBitmap_block \cup OwnedBlocks' \cup Coming'
    BY DEF ExactInv
  <2>1. /\ inode_bitmap = {INODE_ENTRY_BIT, INODE_ROOTDIR} \cup {InodeOf(p) : p \in Slots}
        /\ block_bitmap = SetBitmap_block \cup OwnedBlocks
    BY <1>16, <1>17 DEF TreeInv, ExactInv
  <2>2. InodeBitsAtEnd' = inode_bitmap \ {n}
    <3>1. PICK T : T = StepsTo("inode_bitmap")'
      OBVIOUS
    <3>2. InodeBitsAtEnd' = IF T = {} THEN inode_bitmap' ELSE s[LastIn(T)].bits
      BY <1>5, <3>1 DEF InodeBitsAtEnd, LastIn
    <3>3. T = {2 * m + 2} /\ 2 * m + 2 \in Nat
      BY <1>7, <1>13, <3>1
    <3>4. LastIn(T) = 2 * m + 2
      <4>1. PICK z : z = 2 * m + 2
        OBVIOUS
      <4>2. z \in T /\ T \in SUBSET Nat /\ \A j \in T : j <= z
        BY <3>3, <4>1
      <4> QED BY <4>1, <4>2, LastIs
    <3> QED BY <1>9, <3>2, <3>3, <3>4
  <2>3. {InodeOf(p) : p \in Slots}' = {InodeOf(p) : p \in Slots}
    BY <1>16 DEF TreeKept
  <2>4. BlockBitsAtEnd' = block_bitmap \ Range(blocks)
    <3>1. PICK T : T = StepsTo("block_bitmap")'
      OBVIOUS
    <3>2. BlockBitsAtEnd' = IF T = {} THEN block_bitmap' ELSE s[LastIn(T)].bits
      BY <1>5, <3>1 DEF BlockBitsAtEnd, LastIn
    <3>3. ASSUME m = 0
          PROVE  T = {} /\ Range(blocks) = {}
      <4>1. \A b : b \in Range(blocks) <=> \E i \in 1 .. Len(blocks) : blocks[i] = b
        BY <1>7, RangeOf
      <4>2. 1 .. m = {}
        BY <3>3
      <4> QED BY <1>6, <1>13, <3>1, <4>1, <4>2
    <3>4. ASSUME m # 0
          PROVE  T # {} /\ LastIn(T) = 2 * m /\ Taken(blocks, m) = Range(blocks) /\ m \in 1 .. m
      <4>1. m \in 1 .. m /\ 2 * m \in T
        BY <1>7, <1>13, <3>1, <3>4
      <4>2. T \in SUBSET Nat /\ \A j \in T : j <= 2 * m
        BY <1>7, <1>13, <3>1
      <4>3. LastIn(T) = 2 * m
        BY <4>1, <4>2, LastIs
      <4>4. Taken(blocks, m) = Range(blocks)
        BY <1>6, <1>7, RangeOf DEF Taken
      <4> QED BY <4>1, <4>3, <4>4
    <3>5. CASE m = 0
      BY <1>16, <3>2, <3>3, <3>5
    <3>6. CASE m # 0
      BY <1>8, <3>2, <3>4, <3>6
    <3> QED BY <3>5, <3>6
  <2> QED BY <1>3, <1>14, <1>22, <1>23, <2>1, <2>2, <2>3, <2>4
<1> QED BY <1>1, <1>3, <1>5, <1>14, <1>22, <1>28, <1>30, <1>31, <1>32, PendTree

\* Calls of rm and rmdir keep the invariant.
LEMMA RemoveCalls ==
    ASSUME TypeInv, TypeInv', TreeInv, NEW name, DeleteFile(name) \/ RemoveDir(name),
           damage' = {}
    PROVE  TreeInv' /\ TreeKept
<1>1. Changing /\ Matches(name) # {} /\ Puts(RemoveWrites(name))
  <2>1. CASE DeleteFile(name)
    <3>1. Calling /\ Matches(name) # {} /\ Pend(RemoveWrites(name), {})
      BY <2>1 DEF DeleteFile
    <3> QED BY <3>1, PendFacts DEF Changing
  <2>2. CASE RemoveDir(name)
    <3>1. /\ Calling /\ Matches(name) # {}
          /\ \E n : Pend(RemoveWrites(name), Overlaps(BlocksOf(n), n))
      BY <2>2 DEF RemoveDir
    <3> QED BY <3>1, PendFacts DEF Changing
  <2> QED BY <2>1, <2>2
<1>2. PICK e : e = FoundEntry(name)
  OBVIOUS
<1>3. CASE DeleteFile(name)
  <2>1. e.type # FILETYPE_DIR
    BY <1>2, <1>3 DEF DeleteFile, FILETYPE_DIR
  <2> QED BY <1>1, <1>2, <2>1, RemoveStep DEF Removable
<1>4. CASE RemoveDir(name)
  <2>1. PICK n : n = e.inode
    OBVIOUS
  <2>2. ~HasChildren(n) /\ NeighbourBound(BlocksOf(n), n)
    <3>1. ~HasChildren(n) /\ Pend(RemoveWrites(name), Overlaps(BlocksOf(n), n))
      BY <1>2, <1>4, <2>1 DEF RemoveDir
    <3> QED BY <3>1, PendFacts, HarmFacts
  <2>3. ASSUME e.type = FILETYPE_DIR
        PROVE  Used(n) = {}
    <3>1. PICK p \in Slots : Slot(p[1], p[2]) = e /\ InodeOf(p) = n
      <4>1. PICK p : p = <<inode_NowDir, FoundIndex(name)>>
        OBVIOUS
      <4>2. p \in Slots /\ Slot(p[1], p[2]) = e
        BY <1>1, <1>2, <4>1, Found DEF Changing
      <4> QED BY <2>1, <4>2 DEF InodeOf
    <3>2. SlotsAre /\ AllHeadersOK /\ Building = {} /\ half = {}
      BY <1>1, IdleFacts DEF Changing, Calling
    <3>3. n \in Directories /\ n \in Inodes /\ HeadersOK(n)
      BY <2>3, <3>1, <3>2 DEF SlotsAre, AllHeadersOK
    <3>4. Used(n) \subseteq 1 .. EntriesPerSector - 1 /\ First(n) \in BlockNumbers
      BY <3>3, ChildrenFacts, InodeTyped
    <3>5. Block(First(n))[0] = block_table[First(n)][0]
      BY <3>4, BlockTyped, ConstantFacts
    <3> QED BY <2>2, <3>4, <3>5 DEF HasChildren, Used, First
  <2> QED BY <1>1, <1>2, <2>1, <2>2, <2>3, RemoveStep DEF Removable
<1> QED BY <1>3, <1>4

-----------------------------------------------------------------------------
(* Nothing pending.                                                        *)

IdleInv ==
    /\ pending = <<>>
    /\ DirectoryInv /\ EntryInv
    /\ {INODE_ENTRY_BIT, INODE_ROOTDIR} \subseteq inode_bitmap
    /\ half = {} => SetBitmap_block \subseteq block_bitmap
    /\ mounted => inode_NowDir \in Directories
    /\ ~crashed /\ half = {} =>
          /\ inode_bitmap = {INODE_ENTRY_BIT, INODE_ROOTDIR} \cup {InodeOf(p) : p \in Slots}
          /\ block_bitmap = SetBitmap_block \cup UNION {BlocksOf(d) : d \in Directories}

\* Without a call in progress there are no steps.
LEMMA NonePending ==
    ASSUME pending = <<>>
    PROVE  /\ \A kind : StepsTo(kind) = {}
           /\ Steps = {} /\ Building = {} /\ Gone = {} /\ Coming = {}
           /\ InodeBitsAtEnd = inode_bitmap /\ BlockBitsAtEnd = block_bitmap
           /\ OwnedBlocks = UNION {BlocksOf(d) : d \in Directories}
<1>1. Steps = {}
  BY DEF Steps
<1>2. \A kind : StepsTo(kind) = {}
  BY <1>1 DEF StepsTo
<1>3. Building = {}
  BY <1>2, BuildingSteps
<1>4. Gone = {} /\ Coming = {}
  BY <1>2 DEF Gone, Coming
<1>5. InodeBitsAtEnd = inode_bitmap /\ BlockBitsAtEnd = block_bitmap
  BY <1>2 DEF InodeBitsAtEnd, BlockBitsAtEnd
<1>6. OwnedBlocks = UNION {BlocksOf(d) : d \in Directories}
  BY <1>4 DEF OwnedBlocks
<1> QED BY <1>1, <1>2, <1>3, <1>4, <1>5, <1>6

\* The invariant between calls is the invariant ...
LEMMA IdleTree == IdleInv => TreeInv
<1> SUFFICES ASSUME IdleInv
             PROVE  TreeInv
  OBVIOUS
<1>1. /\ \A kind : StepsTo(kind) = {}
      /\ Steps = {} /\ Building = {} /\ Gone = {} /\ Coming = {}
      /\ InodeBitsAtEnd = inode_bitmap /\ BlockBitsAtEnd = block_bitmap
      /\ OwnedBlocks = UNION {BlocksOf(d) : d \in Directories}
  BY NonePending DEF IdleInv
<1>2. StepInv /\ ReservedInv
  BY <1>1 DEF StepInv, ReservedInv, IdleInv
<1>3. ExactInv
  BY <1>1 DEF ExactInv, IdleInv
<1> QED BY <1>1, <1>2, <1>3 DEF TreeInv, IdleInv

\* ... and conversely.
LEMMA TreeIdle ==
    ASSUME TreeInv, pending = <<>>
    PROVE  IdleInv
<1>1. /\ \A kind : StepsTo(kind) = {}
      /\ Building = {} /\ Gone = {} /\ Coming = {}
      /\ InodeBitsAtEnd = inode_bitmap /\ BlockBitsAtEnd = block_bitmap
      /\ OwnedBlocks = UNION {BlocksOf(d) : d \in Directories}
  BY NonePending
<1> QED BY <1>1 DEF IdleInv, TreeInv, ReservedInv, ExactInv

\* cd, the remount of a formatted disk, and a crash between two calls.
LEMMA IdleStep ==
    ASSUME TypeInv, TypeInv', TreeInv, pending = <<>>, pending' = <<>>,
           UNCHANGED <<diskVars, half, crashed>>, mounted' => inode_NowDir' \in Directories
    PROVE  TreeInv' /\ TreeKept
<1>1. IdleInv
  BY TreeIdle
<1>2. Building = {} /\ Building' = {}
  BY DEF Building
<1>3. TreeKept /\ DirectoryInv' /\ EntryInv'
  BY <1>2, SameDisk DEF TreeInv
<1>4. /\ half' = half /\ crashed' = crashed /\ inode_bitmap' = inode_bitmap
      /\ block_bitmap' = block_bitmap
  BY DEF diskVars
<1>5. IdleInv'
  <2>1. {InodeOf(p) : p \in Slots}' = {InodeOf(p) : p \in Slots}
        /\ (UNION {BlocksOf(d) : d \in Directories})' = UNION {BlocksOf(d) : d \in Directories}
        /\ Directories' = Directories
    BY <1>3 DEF TreeKept
  <2> QED BY <1>1, <1>3, <1>4, <2>1 DEF IdleInv
<1>6. (IdleInv => TreeInv)'
  BY IdleTree, PTL
<1> QED BY <1>3, <1>5, <1>6

\* What a change of the working directory does.
LEMMA EnterFacts ==
    ASSUME NEW n, Enter(n)
    PROVE  /\ inode_NowDir' = n /\ UNCHANGED <<diskVars, pending, mounted, half, crashed>>
           /\ damage' = {} => n \notin half
<1>1. damage' = {} => n \notin half
  <2>1. damage' = damage \cup IF n \in half THEN {"half made"} ELSE {}
    BY DEF Enter
  <2> QED BY <2>1
<1> QED BY <1>1 DEF Enter

\* cd keeps the invariant: the directory found can be reached.
LEMMA ChangeDirectoryStep ==
    ASSUME TypeInv, TypeInv', TreeInv, NEW name, ChangeDirectory(name), damage' = {}
    PROVE  TreeInv' /\ TreeKept
<1>1. /\ Calling /\ Matches(name) # {} /\ FILETYPE_DIR \subseteq FoundEntry(name).type
      /\ FoundEntry(name).inode \notin half
      /\ inode_NowDir' = FoundEntry(name).inode
      /\ UNCHANGED <<diskVars, pending, mounted, half, crashed>>
  <2>1. /\ Calling /\ Matches(name) # {} /\ FILETYPE_DIR \subseteq FoundEntry(name).type
        /\ Enter(FoundEntry(name).inode)
    BY DEF ChangeDirectory
  <2> QED BY <2>1, EnterFacts
<1>2. pending = <<>> /\ pending' = <<>> /\ UNCHANGED <<diskVars, half, crashed>>
  BY <1>1 DEF Calling
<1>3. PICK p : p = <<inode_NowDir, FoundIndex(name)>>
  OBVIOUS
<1>4. p \in Slots /\ Slot(p[1], p[2]) = FoundEntry(name)
  BY <1>1, <1>3, Found
<1>5. SlotsAre /\ Building = {}
  BY <1>2, IdleFacts
<1>6. Slot(p[1], p[2]).type = FILETYPE_DIR
  <2>1. Slot(p[1], p[2]).type \in {FILETYPE_FILE, FILETYPE_DIR}
    BY <1>4 DEF TreeInv, EntryInv, EntryOK
  <2> QED BY <1>1, <1>4, <2>1 DEF FILETYPE_FILE, FILETYPE_DIR
<1>7. inode_NowDir' \in Directories
  BY <1>1, <1>4, <1>5, <1>6 DEF SlotsAre, InodeOf
<1> QED BY <1>2, <1>7, IdleStep

\* So does cd to the root.
LEMMA RootStep ==
    ASSUME TypeInv, TypeInv', TreeInv, cd_Root
    PROVE  TreeInv' /\ TreeKept
<1>1. pending = <<>> /\ pending' = <<>> /\ UNCHANGED <<diskVars, half, crashed>>
      /\ inode_NowDir' = INODE_ROOTDIR
  BY EnterFacts DEF cd_Root, Calling
<1>2. inode_NowDir' \in Directories
  BY <1>1, IdleFacts DEF SlotsAre
<1> QED BY <1>1, <1>2, IdleStep

\* So does a crash: an inode that was not written is half made from then on.
LEMMA CrashStep ==
    ASSUME TypeInv, TypeInv', TreeInv, formatted, Crash
    PROVE  TreeInv' /\ TreeKept
<1>1. /\ mounted' = FALSE /\ pending' = <<>> /\ UNCHANGED diskVars
      /\ crashed' = (crashed \/ pending # <<>>)
      /\ half' = half \cup IF EntryWritten THEN Building ELSE {}
  BY DEF Crash
<1>2. CASE pending = <<>>
  <2>1. Building = {}
    BY <1>2, NonePending
  <2>2. UNCHANGED <<diskVars, half, crashed>>
    BY <1>1, <1>2, <2>1 DEF TypeInv, TypeOK
  <2> QED BY <1>1, <1>2, <2>2, IdleStep
<1>3. CASE pending # <<>>
  <2>1. Building' = {} /\ crashed'
    <3>1. crashed'
      BY <1>1, <1>3
    <3>2. (pending = <<>> => Building = {})'
      BY NonePending, PTL
    <3> QED BY <1>1, <3>1, <3>2
  <2>2. ASSUME NEW p \in Slots
        PROVE  InodeOf(p) \in Building \cup half <=> InodeOf(p) \in Building' \cup half'
    <3>1. CASE EntryWritten
      BY <1>1, <2>1, <3>1
    <3>2. CASE ~EntryWritten
      <4>1. PICK j \in StepsTo("entry") : TRUE
        BY <3>2 DEF EntryWritten, StepsTo, Steps
      <4>2. PICK k : Adds(j, k) \/ Drops(j, k) \/ Renames(j, k)
        BY <4>1 DEF TreeInv, StepInv, EntryStep
      <4>3. InodeOf(p) \notin Building
        BY <4>2 DEF Adds, Drops, Renames
      <4> QED BY <1>1, <2>1, <3>2, <4>3
    <3> QED BY <3>1, <3>2
  <2>3. half' = {} => half = {}
    BY <1>1
  <2>4. TreeKept /\ DirectoryInv' /\ EntryInv'
    BY <1>1, <2>2, <2>3, SameDisk DEF TreeInv
  <2>5. IdleInv'
    BY <1>1, <2>1, <2>3, <2>4 DEF IdleInv, TreeInv, ReservedInv, diskVars
  <2>6. (IdleInv => TreeInv)'
    BY IdleTree, PTL
  <2> QED BY <2>4, <2>5, <2>6
<1> QED BY <1>2, <1>3

-----------------------------------------------------------------------------
(* Format.                                                                 *)

FormatAt(s, D) ==
    /\ Len(s) = 2 * D + 6
    /\ s[1] = WriteBlockBitmap(SetBitmap_block) /\ s[2] = WriteInodeBitmap({})
    /\ s[3] = WriteInodeBitmap({0}) /\ s[4] = WriteInodeBitmap({0, INODE_ROOTDIR})
    /\ \A k \in 1 .. D : s[4 + k] = WriteBlockBitmap(0 .. RootBlocks[k])
    /\ s[5 + D] = WriteInode(INODE_ROOTDIR, RootInode)
    /\ \A k \in 1 .. D : s[5 + D + k] = WriteBlock(RootBlocks[k], [Empty EXCEPT ![0] = Header])
    /\ s[2 * D + 6] = SetIsFmat

\* A function from 1 to n is a list.
LEMMA ListOf ==
    ASSUME NEW n \in Nat, NEW S, NEW s, s = [k \in 1 .. n |-> s[k]], \A k \in 1 .. n : s[k] \in S
    PROVE  s \in Seq(S) /\ Len(s) = n
OBVIOUS

\* The writes of Format, one by one.
LEMMA FormatIndex ==
    FormatWrites \in Seq(WriteType) /\ FormatAt(FormatWrites, DIR_BLOCKS)
<1> DEFINE D == DIR_BLOCKS
           W == WriteType
           a == <<WriteBlockBitmap(SetBitmap_block), WriteInodeBitmap({}), WriteInodeBitmap({0}),
                  WriteInodeBitmap({0, INODE_ROOTDIR})>>
           b == [k \in 1 .. D |-> WriteBlockBitmap(0 .. RootBlocks[k])]
           c == <<WriteInode(INODE_ROOTDIR, RootInode)>>
           d == [k \in 1 .. D |-> WriteBlock(RootBlocks[k], [Empty EXCEPT ![0] = Header])]
           e == <<SetIsFmat>>
<1>1. FormatWrites = a \o b \o c \o d \o e
  BY DEF FormatWrites, RootInode
<1>2. D \in Nat
  BY ConstantFacts
\* Of any values, whether they are writes or not.
<1> DEFINE S == Range(a) \cup Range(b) \cup Range(c) \cup Range(d) \cup Range(e)
<1>3. /\ a \in Seq(S) /\ b \in Seq(S) /\ c \in Seq(S) /\ d \in Seq(S) /\ e \in Seq(S)
      /\ Len(a) = 4 /\ Len(b) = D /\ Len(c) = 1 /\ Len(d) = D /\ Len(e) = 1
  <2>1. /\ DOMAIN a = 1 .. 4 /\ DOMAIN b = 1 .. D /\ DOMAIN c = 1 .. 1 /\ DOMAIN d = 1 .. D
        /\ DOMAIN e = 1 .. 1
    OBVIOUS
  <2>2. /\ \A k \in 1 .. 4 : a[k] \in S
        /\ \A k \in 1 .. D : b[k] \in S
        /\ \A k \in 1 .. 1 : c[k] \in S
        /\ \A k \in 1 .. D : d[k] \in S
        /\ \A k \in 1 .. 1 : e[k] \in S
    <3> HIDE DEF a, b, c, d, e
    <3> QED BY <2>1 DEF Range
  <2>3. /\ a = [k \in 1 .. 4 |-> a[k]] /\ b = [k \in 1 .. D |-> b[k]] /\ c = [k \in 1 .. 1 |-> c[k]]
        /\ d = [k \in 1 .. D |-> d[k]] /\ e = [k \in 1 .. 1 |-> e[k]]
    OBVIOUS
  <2> HIDE DEF a, b, c, d, e, S, D
  <2>4. 4 \in Nat /\ 1 \in Nat
    OBVIOUS
  <2>5. a \in Seq(S) /\ Len(a) = 4
    BY <2>2, <2>3, <2>4, ListOf
  <2>6. b \in Seq(S) /\ Len(b) = D
    BY <1>2, <2>2, <2>3, ListOf
  <2>7. c \in Seq(S) /\ Len(c) = 1
    BY <2>2, <2>3, <2>4, ListOf
  <2>8. d \in Seq(S) /\ Len(d) = D
    BY <1>2, <2>2, <2>3, ListOf
  <2>9. e \in Seq(S) /\ Len(e) = 1
    BY <2>2, <2>3, <2>4, ListOf
  <2> QED BY <2>5, <2>6, <2>7, <2>8, <2>9
<1>4. /\ a[1] = WriteBlockBitmap(SetBitmap_block) /\ a[2] = WriteInodeBitmap({})
      /\ a[3] = WriteInodeBitmap({0}) /\ a[4] = WriteInodeBitmap({0, INODE_ROOTDIR})
      /\ c[1] = WriteInode(INODE_ROOTDIR, RootInode) /\ e[1] = SetIsFmat
      /\ \A k \in 1 .. D : b[k] = WriteBlockBitmap(0 .. RootBlocks[k])
      /\ \A k \in 1 .. D : d[k] = WriteBlock(RootBlocks[k], [Empty EXCEPT ![0] = Header])
  OBVIOUS
<1> HIDE DEF a, b, c, d, e, S, D
<1>5. PICK t, u, v, s : t = a \o b /\ u = t \o c /\ v = u \o d /\ s = v \o e
  OBVIOUS
<1>6. t \in Seq(S) /\ IsJoin(t, a, b)
  BY <1>3, <1>5, Joined
<1>7. u \in Seq(S) /\ IsJoin(u, t, c)
  BY <1>3, <1>5, <1>6, Joined
<1>8. v \in Seq(S) /\ IsJoin(v, u, d)
  BY <1>3, <1>5, <1>7, Joined
<1>9. IsJoin(s, v, e)
  BY <1>3, <1>5, <1>8, Joined
<1>10. /\ Len(t) = 4 + D /\ \A k \in 1 .. 4 : t[k] = a[k]
       /\ \A k \in 1 .. D : t[4 + k] = b[k]
  BY <1>3, <1>6 DEF IsJoin
<1>11. /\ Len(u) = 5 + D /\ \A k \in 1 .. 4 + D : u[k] = t[k]
       /\ u[5 + D] = c[1]
  <2>1. PICK l : l = 4 + D
    OBVIOUS
  <2>2. l \in Nat /\ l + 1 = 5 + D /\ Len(t) = l /\ 1 \in 1 .. 1
    BY <1>2, <1>10, <2>1
  <2>3. Len(u) = l + 1 /\ (\A k \in 1 .. l : u[k] = t[k]) /\ u[l + 1] = c[1]
    BY <1>3, <1>7, <2>2 DEF IsJoin
  <2> QED BY <2>1, <2>2, <2>3
<1>12. /\ Len(v) = 5 + D + D /\ \A k \in 1 .. 5 + D : v[k] = u[k]
       /\ \A k \in 1 .. D : v[5 + D + k] = d[k]
  <2>1. PICK l : l = 5 + D
    OBVIOUS
  <2>2. l \in Nat /\ Len(u) = l
    BY <1>2, <1>11, <2>1
  <2>3. /\ Len(v) = l + D
        /\ \A k \in 1 .. l : v[k] = u[k]
        /\ \A k \in 1 .. D : v[l + k] = d[k]
    BY <1>3, <1>8, <2>2 DEF IsJoin
  <2> QED BY <2>1, <2>3
<1>13. /\ Len(s) = 2 * D + 6 /\ \A k \in 1 .. 5 + D + D : s[k] = v[k]
       /\ s[2 * D + 6] = e[1]
  <2>1. PICK l : l = 5 + D + D
    OBVIOUS
  <2>2. l \in Nat /\ l + 1 = 2 * D + 6 /\ Len(v) = l /\ 1 \in 1 .. 1
    BY <1>2, <1>12, <2>1
  <2>3. Len(s) = l + 1 /\ (\A k \in 1 .. l : s[k] = v[k]) /\ s[l + 1] = e[1]
    BY <1>3, <1>9, <2>2 DEF IsJoin
  <2> QED BY <2>1, <2>2, <2>3
<1>14. \A k \in 1 .. 5 + D : s[k] = u[k]
  <2> TAKE k \in 1 .. 5 + D
  <2>1. k \in 1 .. 5 + D + D
    BY <1>2
  <2> QED BY <1>12, <1>13, <2>1
<1>15. \A k \in 1 .. 4 + D : s[k] = t[k]
  <2> TAKE k \in 1 .. 4 + D
  <2>1. k \in 1 .. 5 + D
    BY <1>2
  <2> QED BY <1>11, <1>14, <2>1
<1>16. \A k \in 1 .. 4 : s[k] = a[k]
  <2> TAKE k \in 1 .. 4
  <2>1. k \in 1 .. 4 + D
    BY <1>2
  <2> QED BY <1>10, <1>15, <2>1
<1>17. \A k \in 1 .. D : s[4 + k] = b[k] /\ s[5 + D + k] = d[k]
  <2> TAKE k \in 1 .. D
  <2>1. PICK x, y : x = 4 + k /\ y = 5 + D + k
    OBVIOUS
  <2>2. x \in 1 .. 4 + D /\ y \in 1 .. 5 + D + D
    BY <1>2, <2>1
  <2>3. s[x] = t[x] /\ s[y] = v[y]
    BY <1>13, <1>15, <2>2
  <2>4. t[4 + k] = b[k] /\ v[5 + D + k] = d[k]
    BY <1>10, <1>12
  <2> QED BY <2>1, <2>3, <2>4
<1>18. s[5 + D] = c[1]
  <2>1. PICK x : x = 5 + D
    OBVIOUS
  <2>2. x \in 1 .. x
    BY <1>2, <2>1
  <2> QED BY <1>11, <1>14, <2>1, <2>2
<1>19. 1 \in 1 .. 4 /\ 2 \in 1 .. 4 /\ 3 \in 1 .. 4 /\ 4 \in 1 .. 4
  OBVIOUS
<1>20. s[1] = a[1] /\ s[2] = a[2] /\ s[3] = a[3] /\ s[4] = a[4]
  BY <1>16, <1>19
<1>21. FormatAt(s, D)
  BY <1>4, <1>13, <1>17, <1>18, <1>20 DEF FormatAt
<1>22. s = FormatWrites
  BY <1>1, <1>5
<1> QED BY <1>21, <1>22, FormatType DEF D

\* The blocks of the root follow the reserved ones.
LEMMA RootBlockFacts ==
    /\ \A k \in 1 .. DIR_BLOCKS : RootBlocks[k] = Reserved + k - 1 /\ RootBlocks[k] \in BlockNumbers
    /\ \A i, k \in 1 .. DIR_BLOCKS : RootBlocks[i] = RootBlocks[k] => i = k
    /\ \A k \in 1 .. DIR_BLOCKS : RootBlocks[k] \notin SetBitmap_block
    /\ 0 .. RootBlocks[DIR_BLOCKS] = SetBitmap_block \cup Range(RootBlocks)
    /\ Range(RootBlocks) = {RootBlocks[k] : k \in 1 .. DIR_BLOCKS}
<1>1. \A k \in 1 .. DIR_BLOCKS : RootBlocks[k] = Reserved + k - 1
  BY DEF RootBlocks
<1>2. \A k \in 1 .. DIR_BLOCKS : RootBlocks[k] \in BlockNumbers
  BY FormatType
<1>3. \A i, k \in 1 .. DIR_BLOCKS : RootBlocks[i] = RootBlocks[k] => i = k
  <2> TAKE i, k \in 1 .. DIR_BLOCKS
  <2>1. RootBlocks[i] = Reserved + i - 1 /\ RootBlocks[k] = Reserved + k - 1
    BY <1>1
  <2> QED BY <2>1, ConstantFacts
<1>4. \A k \in 1 .. DIR_BLOCKS : RootBlocks[k] \notin SetBitmap_block
  <2> TAKE k \in 1 .. DIR_BLOCKS
  <2>1. RootBlocks[k] = Reserved + k - 1
    BY <1>1
  <2> QED BY <2>1, ConstantFacts DEF SetBitmap_block
<1>5. Range(RootBlocks) = {RootBlocks[k] : k \in 1 .. DIR_BLOCKS}
  BY DEF Range, RootBlocks
<1>6. \A b : b \in 0 .. RootBlocks[DIR_BLOCKS] <=> b \in SetBitmap_block \/ b \in Range(RootBlocks)
  <2> TAKE b
  <2>1. RootBlocks[DIR_BLOCKS] = Reserved + DIR_BLOCKS - 1 /\ DIR_BLOCKS \in 1 .. DIR_BLOCKS
    BY <1>1, ConstantFacts
  <2>2. b \in Range(RootBlocks) <=> \E k \in 1 .. DIR_BLOCKS : b = Reserved + k - 1
    BY <1>1, <1>5
  <2>3. (\E k \in 1 .. DIR_BLOCKS : b = Reserved + k - 1)
            <=> b \in Reserved .. Reserved + DIR_BLOCKS - 1
    <3>1. ASSUME b \in Reserved .. Reserved + DIR_BLOCKS - 1
          PROVE  \E k \in 1 .. DIR_BLOCKS : b = Reserved + k - 1
      <4>1. b - Reserved + 1 \in 1 .. DIR_BLOCKS /\ b = Reserved + (b - Reserved + 1) - 1
        BY <3>1, ConstantFacts
      <4> QED BY <4>1
    <3>2. ASSUME NEW k \in 1 .. DIR_BLOCKS, b = Reserved + k - 1
          PROVE  b \in Reserved .. Reserved + DIR_BLOCKS - 1
      BY <3>2, ConstantFacts
    <3> QED BY <3>1, <3>2
  <2>4. b \in 0 .. Reserved + DIR_BLOCKS - 1 <=>
            b \in SetBitmap_block \/ b \in Reserved .. Reserved + DIR_BLOCKS - 1
    BY ConstantFacts DEF SetBitmap_block
  <2> QED BY <2>1, <2>2, <2>3, <2>4
<1> QED BY <1>1, <1>2, <1>3, <1>4, <1>5, <1>6

\* The writes of Format, kind by kind.
FormatKind(s, D) ==
    /\ Len(s) = 2 * D + 6 /\ D \in Nat /\ D > 0
    /\ \A j \in 1 .. 2 * D + 6 :
          \/ j = 1 /\ s[j].to = "block_bitmap"
          \/ j \in 2 .. 4 /\ s[j].to = "inode_bitmap"
          \/ j \in 5 .. 4 + D /\ s[j].to = "block_bitmap"
          \/ j = 5 + D /\ s[j].to = "inode"
          \/ j \in 6 + D .. 5 + 2 * D /\ s[j].to = "block"
          \/ j = 2 * D + 6 /\ s[j].to = "formatted"
    /\ s[4].bits = {INODE_ENTRY_BIT, INODE_ROOTDIR}
    /\ s[4 + D].bits = SetBitmap_block \cup Range(RootBlocks)
    /\ s[5 + D].number = INODE_ROOTDIR /\ s[5 + D].inode = RootInode
    /\ \A k \in 1 .. D : /\ s[5 + D + k].to = "block" /\ s[5 + D + k].number = RootBlocks[k]
                         /\ s[5 + D + k].entries = [Empty EXCEPT ![0] = Header]

\* The writes of Format, by their kind.
LEMMA FormatKinds ==
    ASSUME NEW s, s = FormatWrites, NEW D, D = DIR_BLOCKS
    PROVE  FormatKind(s, D)
<1>1. FormatAt(s, D)
  BY FormatIndex
<1>2. D \in Nat /\ D > 0
  BY ConstantFacts
<1>3. s[1].to = "block_bitmap" /\ s[2].to = "inode_bitmap" /\ s[3].to = "inode_bitmap"
      /\ s[4].to = "inode_bitmap" /\ s[4].bits = {INODE_ENTRY_BIT, INODE_ROOTDIR}
  BY <1>1 DEF FormatAt, WriteBlockBitmap, WriteInodeBitmap, INODE_ENTRY_BIT
<1>4. \A k \in 1 .. D : s[4 + k].to = "block_bitmap" /\ s[4 + k].bits = 0 .. RootBlocks[k]
  <2> TAKE k \in 1 .. D
  <2>1. s[4 + k] = WriteBlockBitmap(0 .. RootBlocks[k])
    BY <1>1 DEF FormatAt
  <2> QED BY <2>1 DEF WriteBlockBitmap
<1>5. s[5 + D].to = "inode" /\ s[5 + D].number = INODE_ROOTDIR /\ s[5 + D].inode = RootInode
  BY <1>1 DEF FormatAt, WriteInode
<1>6. \A k \in 1 .. D : /\ s[5 + D + k].to = "block" /\ s[5 + D + k].number = RootBlocks[k]
                        /\ s[5 + D + k].entries = [Empty EXCEPT ![0] = Header]
  <2> TAKE k \in 1 .. D
  <2>1. s[5 + D + k] = WriteBlock(RootBlocks[k], [Empty EXCEPT ![0] = Header])
    BY <1>1 DEF FormatAt
  <2> QED BY <2>1 DEF WriteBlock
<1>7. s[2 * D + 6].to = "formatted"
  BY <1>1 DEF FormatAt, SetIsFmat
<1>8. ASSUME NEW j \in 1 .. 2 * D + 6
      PROVE  \/ j = 1 /\ s[j].to = "block_bitmap"
             \/ j \in 2 .. 4 /\ s[j].to = "inode_bitmap"
             \/ j \in 5 .. 4 + D /\ s[j].to = "block_bitmap"
             \/ j = 5 + D /\ s[j].to = "inode"
             \/ j \in 6 + D .. 5 + 2 * D /\ s[j].to = "block"
             \/ j = 2 * D + 6 /\ s[j].to = "formatted"
  <2>1. \/ j = 1 \/ j = 2 \/ j = 3 \/ j = 4 \/ j \in 5 .. 4 + D \/ j = 5 + D
        \/ j \in 6 + D .. 5 + 2 * D \/ j = 2 * D + 6
    BY <1>2
  <2>2. ASSUME j \in 5 .. 4 + D
        PROVE  s[j].to = "block_bitmap"
    <3>1. PICK k : k = j - 4
      OBVIOUS
    <3>2. k \in 1 .. D /\ j = 4 + k
      BY <1>2, <2>2, <3>1
    <3> QED BY <1>4, <3>2
  <2>3. ASSUME j \in 6 + D .. 5 + 2 * D
        PROVE  s[j].to = "block"
    <3>1. PICK k : k = j - 5 - D
      OBVIOUS
    <3>2. k \in 1 .. D /\ j = 5 + D + k
      BY <1>2, <2>3, <3>1
    <3> QED BY <1>6, <3>2
  <2>4. CASE j = 1 \/ j = 2 \/ j = 3 \/ j = 4
    BY <1>3, <2>4
  <2>5. CASE j \in 5 .. 4 + D
    BY <2>2, <2>5
  <2>6. CASE j = 5 + D \/ j = 2 * D + 6
    BY <1>5, <1>7, <2>6
  <2>7. CASE j \in 6 + D .. 5 + 2 * D
    BY <2>3, <2>7
  <2> QED BY <2>1, <2>4, <2>5, <2>6, <2>7
<1>9. s[4 + D].bits = SetBitmap_block \cup Range(RootBlocks)
  <2>1. D \in 1 .. D
    BY <1>2
  <2> QED BY <1>4, <2>1, RootBlockFacts
<1> QED BY <1>1, <1>2, <1>3, <1>5, <1>6, <1>8, <1>9 DEF FormatAt, FormatKind

\* Format begins with what the invariant says of its writes.
LEMMA FormatStart ==
    ASSUME TypeInv, pending = FormatWrites, half = {}, ~mounted, inode_NowDir = INODE_ROOTDIR
    PROVE  FormatInv
<1>1. PICK s, D : s = FormatWrites /\ D = DIR_BLOCKS
  OBVIOUS
<1>2. /\ Len(s) = 2 * D + 6 /\ D \in Nat /\ D > 0
      /\ \A j \in 1 .. 2 * D + 6 :
            \/ j = 1 /\ s[j].to = "block_bitmap"
            \/ j \in 2 .. 4 /\ s[j].to = "inode_bitmap"
            \/ j \in 5 .. 4 + D /\ s[j].to = "block_bitmap"
            \/ j = 5 + D /\ s[j].to = "inode"
            \/ j \in 6 + D .. 5 + 2 * D /\ s[j].to = "block"
            \/ j = 2 * D + 6 /\ s[j].to = "formatted"
      /\ s[4].bits = {INODE_ENTRY_BIT, INODE_ROOTDIR}
      /\ s[4 + D].bits = SetBitmap_block \cup Range(RootBlocks)
      /\ s[5 + D].number = INODE_ROOTDIR /\ s[5 + D].inode = RootInode
      /\ \A k \in 1 .. D : /\ s[5 + D + k].to = "block" /\ s[5 + D + k].number = RootBlocks[k]
                           /\ s[5 + D + k].entries = [Empty EXCEPT ![0] = Header]
  <2>1. FormatKind(s, D)
    BY <1>1, FormatKinds
  <2> QED BY <2>1 DEF FormatKind
<1>3. \A kind : StepsTo(kind) = {j \in 1 .. 2 * D + 6 : s[j].to = kind}
  BY <1>1, <1>2 DEF StepsTo, Steps
<1>4. StepsTo("formatted") = {Len(pending)}
  <2>1. PICK n : n = 2 * D + 6
    OBVIOUS
  <2>2. n \in 1 .. n /\ ~(n \in 1 .. 5 + 2 * D) /\ n # 5 + D
    BY <1>2, <2>1
  <2>3. s[n].to = "formatted"
    BY <1>2, <2>1, <2>2
  <2>4. \A j \in 1 .. n : s[j].to = "formatted" => j = n
    BY <1>2, <2>1
  <2>5. StepsTo("formatted") = {n}
    BY <1>3, <2>1, <2>2, <2>3, <2>4
  <2> QED BY <1>1, <1>2, <2>1, <2>5
<1>5. StepsTo("entry") = {} /\ StepsTo("free_half") = {}
  BY <1>2, <1>3
<1>6. \A j \in StepsTo("inode") : pending[j].number = INODE_ROOTDIR /\ pending[j].inode = RootInode
  BY <1>1, <1>2, <1>3
<1>7. StepsTo("inode") # {}
  <2>1. PICK n : n = 5 + D
    OBVIOUS
  <2>2. n \in 1 .. 2 * D + 6 /\ n \notin 1 .. 4 + D /\ n \notin 6 + D .. 5 + 2 * D /\ n # 2 * D + 6
        /\ n # 1 /\ n \notin 2 .. 4 /\ n \notin 5 .. 4 + D
    BY <1>2, <2>1
  <2>3. s[n].to = "inode"
    BY <1>2, <2>2
  <2> QED BY <1>3, <2>2, <2>3
<1>8. BlockBitsAtEnd = SetBitmap_block \cup Range(RootBlocks)
  <2>1. PICK T, n : T = StepsTo("block_bitmap") /\ n = 4 + D
    OBVIOUS
  <2>2. n \in 1 .. 2 * D + 6 /\ n \in 5 .. 4 + D /\ n # 1 /\ n \notin 2 .. 4 /\ n # 5 + D
        /\ n \notin 6 + D .. 5 + 2 * D /\ n # 2 * D + 6
    BY <1>2, <2>1
  <2>3. n \in T
    BY <1>2, <1>3, <2>1, <2>2
  <2>4. \A j \in T : j \in 1 .. 2 * D + 6 /\ (j = 1 \/ j \in 5 .. 4 + D)
    BY <1>2, <1>3, <2>1
  <2>5. T \in SUBSET Nat /\ \A j \in T : j <= n
    BY <1>2, <2>1, <2>4
  <2>6. LastIn(T) = n
    BY <2>3, <2>5, LastIs
  <2> QED BY <1>1, <1>2, <2>1, <2>3, <2>6 DEF BlockBitsAtEnd
<1>9. InodeBitsAtEnd = {INODE_ENTRY_BIT, INODE_ROOTDIR}
  <2>1. PICK T : T = StepsTo("inode_bitmap")
    OBVIOUS
  <2>2. 4 \in 1 .. 2 * D + 6
    BY <1>2
  <2>3. s[4].to = "inode_bitmap"
    BY <1>2, <2>2
  <2>4. 4 \in T
    BY <1>3, <2>1, <2>2, <2>3
  <2>5. T \in SUBSET Nat /\ \A j \in T : j <= 4
    BY <1>2, <1>3, <2>1
  <2>6. LastIn(T) = 4
    BY <2>4, <2>5, LastIs
  <2> QED BY <1>1, <1>2, <2>1, <2>4, <2>6 DEF InodeBitsAtEnd
<1>10. ASSUME NEW k \in 1 .. DIR_BLOCKS
       PROVE  HeaderAtEnd(RootBlocks[k]) = {0}
  <2>1. PICK b, T, n : b = RootBlocks[k] /\ T = Touches(RootBlocks[k]) /\ n = 5 + D + k
    OBVIOUS
  <2>2. k \in 1 .. D /\ n \in 1 .. 2 * D + 6 /\ n \in 6 + D .. 5 + 2 * D
    BY <1>1, <1>2, <2>1
  <2>3. s[n].to = "block" /\ s[n].number = b /\ s[n].entries = [Empty EXCEPT ![0] = Header]
    BY <1>2, <2>1, <2>2
  <2>4. n \in T
    BY <1>1, <1>3, <2>1, <2>2, <2>3 DEF Touches
  <2>5. ASSUME NEW j \in T
        PROVE  j \in Nat /\ j <= n
    <3>1. j \in StepsTo("block") /\ (b = s[j].number \/ b = s[j].number + 1)
      BY <1>1, <1>5, <2>1 DEF Touches
    <3>2. j \in 6 + D .. 5 + 2 * D
      BY <1>2, <1>3, <3>1
    <3>3. PICK i : i = j - 5 - D
      OBVIOUS
    <3>4. i \in 1 .. D /\ j = 5 + D + i
      BY <1>2, <3>2, <3>3
    <3>5. s[j].number = Reserved + i - 1 /\ b = Reserved + k - 1
      <4>1. s[5 + D + i].number = RootBlocks[i]
        BY <1>2, <3>4
      <4>2. RootBlocks[i] = Reserved + i - 1 /\ RootBlocks[k] = Reserved + k - 1
        BY <1>1, <2>2, <3>4, RootBlockFacts
      <4> QED BY <2>1, <3>4, <4>1, <4>2
    <3> QED BY <1>2, <2>1, <2>2, <3>1, <3>4, <3>5, ConstantFacts
  <2>6. LastIn(T) = n
    BY <2>4, <2>5, LastIs
  <2>7. HeaderAtEnd(b) = s[n].entries[(b - s[n].number) * EntriesPerSector].type
    BY <1>1, <2>1, <2>4, <2>6 DEF HeaderAtEnd
  <2>8. (b - s[n].number) * EntriesPerSector = 0
    <3>1. b \in Nat /\ EntriesPerSector \in Nat
      BY <2>1, RootBlockFacts, ConstantFacts
    <3> QED BY <2>3, <3>1
  <2>9. s[n].entries[0] = Header
    <3>1. Empty \in [Indices -> Entries] /\ 0 \in Indices
      BY EmptyType, ConstantFacts DEF BlockType
    <3> QED BY <2>3, <3>1
  <2> QED BY <2>1, <2>7, <2>8, <2>9 DEF Header
<1> QED BY <1>4, <1>5, <1>6, <1>7, <1>8, <1>9, <1>10 DEF FormatInv

\* The disk when Format is done: nothing but the root.
FreshDisk ==
    /\ pending = <<>> /\ half = {} /\ inode_NowDir = INODE_ROOTDIR
    /\ inode_table[INODE_ROOTDIR] = RootInode
    /\ inode_bitmap = {INODE_ENTRY_BIT, INODE_ROOTDIR}
    /\ block_bitmap = SetBitmap_block \cup Range(RootBlocks)
    /\ \A k \in 1 .. DIR_BLOCKS : block_table[RootBlocks[k]][0].type = {0}

\* A freshly formatted disk has the empty root and nothing else.
LEMMA RootTree == TypeInv /\ FreshDisk => IdleInv /\ Slots = {}
<1> SUFFICES ASSUME TypeInv, FreshDisk
             PROVE  IdleInv /\ Slots = {}
  OBVIOUS
<1> DEFINE r == INODE_ROOTDIR
<1>1. /\ r \in Inodes /\ inode_table[r].links = DIR_BLOCKS /\ inode_table[r].block = RootBlocks
      /\ 1 \in 1 .. DIR_BLOCKS /\ 0 \in 0 .. EntriesPerSector - 1
  BY ConstantFacts DEF FreshDisk, RootInode
<1>2. First(r) = RootBlocks[1] /\ Used(r) = {}
  BY <1>1 DEF First, Used, FreshDisk
<1>3. HeadersOK(r)
  <2>1. \A i \in 2 .. DIR_BLOCKS : i \in 1 .. DIR_BLOCKS
    OBVIOUS
  <2> QED BY <1>1, <1>2, <2>1 DEF HeadersOK, FreshDisk
<1>4. OwnsBlocks(r)
  BY <1>1, RootBlockFacts DEF OwnsBlocks, FreshDisk
<1>5. Directories = {r}
  <2>1. IsReach(Directories, BelowMap)
    BY DirectoriesReach
  <2>2. BelowMap[r] = {}
    <3>1. Below(r) = {}
      BY <1>1, <1>2, <1>3, BelowFacts DEF BelowIsUsed
    <3> QED BY <1>1, <3>1 DEF BelowMap
  <2>3. Directories \subseteq {r}
    <3> DEFINE X == {r}
    <3>1. r \in X /\ \A d \in X \cap Directories : BelowMap[d] \subseteq X
      BY <2>2
    <3> HIDE DEF X
    <3>2. Directories \subseteq X
      BY <2>1, <3>1 DEF IsReach
    <3> QED BY <3>2 DEF X
  <2> QED BY <2>1, <2>3 DEF IsReach
<1>6. Slots = {}
  BY <1>2, <1>5 DEF Slots
<1>7. UNION {BlocksOf(d) : d \in Directories} = Range(RootBlocks)
  BY <1>1, <1>5 DEF BlocksOf
<1>8. DirectoryInv /\ EntryInv
  BY <1>3, <1>4, <1>5, <1>6 DEF DirectoryInv, EntryInv
<1> HIDE DEF r
<1> QED BY <1>5, <1>6, <1>7, <1>8 DEF IdleInv, FreshDisk, r

\* The last write of Format makes it such a disk.
LEMMA FormattedWrite ==
    ASSUME TypeInv, TypeInv', FormatInv, Write, Head(pending).to = "formatted"
    PROVE  TreeInv' /\ Slots' = {}
<1>1. /\ Len(pending) \in Nat /\ pending[1].to = "formatted"
      /\ Steps' = 1 .. Len(pending) - 1
      /\ Len(pending') = Len(pending) - 1 /\ pending # <<>>
      /\ pending' \in Seq(WriteType)
  BY WriteShift DEF Write, TypeInv
<1>2. /\ half = {} /\ inode_NowDir = INODE_ROOTDIR
      /\ StepsTo("formatted") = {Len(pending)}
      /\ StepsTo("entry") = {}
      /\ StepsTo("inode") = {} => inode_table[INODE_ROOTDIR] = RootInode
      /\ BlockBitsAtEnd = SetBitmap_block \cup Range(RootBlocks)
      /\ InodeBitsAtEnd = {INODE_ENTRY_BIT, INODE_ROOTDIR}
      /\ \A k \in 1 .. DIR_BLOCKS : HeaderAtEnd(RootBlocks[k]) = {0}
  BY <1>1 DEF FormatInv
<1>3. Len(pending) = 1
  BY <1>1, <1>2, StepsShift
<1>4. pending' = <<>>
  BY <1>1, <1>3
<1>5. StepsTo("inode") = {} /\ StepsTo("block_bitmap") = {} /\ StepsTo("inode_bitmap") = {}
      /\ StepsTo("block") = {}
  BY <1>1, <1>3 DEF StepsTo, Steps
<1>6. /\ half' = half /\ inode_NowDir' = inode_NowDir /\ inode_table' = inode_table
      /\ block_table' = block_table /\ inode_bitmap' = inode_bitmap /\ block_bitmap' = block_bitmap
  BY DEF Write
<1>7. block_bitmap = BlockBitsAtEnd /\ inode_bitmap = InodeBitsAtEnd
  BY <1>5 DEF BlockBitsAtEnd, InodeBitsAtEnd
<1>8. \A k \in 1 .. DIR_BLOCKS : block_table[RootBlocks[k]][0].type = {0}
  <2> TAKE k \in 1 .. DIR_BLOCKS
  <2>1. Touches(RootBlocks[k]) = {}
    BY <1>2, <1>5 DEF Touches
  <2> QED BY <1>2, <2>1 DEF HeaderAtEnd
<1>9. FreshDisk'
  BY <1>2, <1>4, <1>5, <1>6, <1>7, <1>8 DEF FreshDisk
<1>10. (TypeInv /\ FreshDisk => IdleInv /\ Slots = {})'
  BY RootTree, PTL
<1>11. (IdleInv => TreeInv)'
  BY IdleTree, PTL
<1> QED BY <1>9, <1>10, <1>11

\* The other writes of Format keep what is said of a disk not formatted yet.
LEMMA FormatWrite ==
    ASSUME TypeInv, TypeInv', FormatInv, Write, Head(pending).to # "formatted"
    PROVE  FormatInv'
<1>1. PICK w : w = pending[1]
  OBVIOUS
<1>2. /\ Len(pending) \in Nat /\ Head(pending) = w /\ w.to # "formatted"
      /\ Len(pending') = Len(pending) - 1 /\ pending # <<>>
  BY <1>1, WriteShift DEF Write
<1>3. /\ half = {} /\ ~mounted /\ inode_NowDir = INODE_ROOTDIR
      /\ StepsTo("formatted") = {Len(pending)}
      /\ StepsTo("entry") = {} /\ StepsTo("free_half") = {}
      /\ \A j \in StepsTo("inode") :
            pending[j].number = INODE_ROOTDIR /\ pending[j].inode = RootInode
      /\ StepsTo("inode") = {} => inode_table[INODE_ROOTDIR] = RootInode
      /\ BlockBitsAtEnd = SetBitmap_block \cup Range(RootBlocks)
      /\ InodeBitsAtEnd = {INODE_ENTRY_BIT, INODE_ROOTDIR}
      /\ \A k \in 1 .. DIR_BLOCKS : HeaderAtEnd(RootBlocks[k]) = {0}
  BY <1>2 DEF FormatInv
<1>4. /\ \A kind : StepsTo(kind)' = {j \in 1 .. Len(pending) - 1 : j + 1 \in StepsTo(kind)}
      /\ \A kind : \A j \in StepsTo(kind)' : j + 1 \in StepsTo(kind) /\ pending'[j] = pending[j + 1]
      /\ \A kind : 1 \in StepsTo(kind) <=> w.to = kind
      /\ \A kind : StepsTo(kind) = {} => StepsTo(kind)' = {}
      /\ \A kind : w.to # kind /\ StepsTo(kind)' = {} => StepsTo(kind) = {}
  BY <1>1, StepsShift
<1>5. half' = {} /\ ~mounted' /\ inode_NowDir' = INODE_ROOTDIR
  <2>1. w.to # "free_half"
    BY <1>3, <1>4
  <2>2. half' = half /\ inode_NowDir' = inode_NowDir /\ mounted' = mounted
    BY <1>2, <1>3, <2>1 DEF Write, TypeInv, TypeOK
  <2> QED BY <1>3, <2>2
<1>6. StepsTo("formatted")' = {Len(pending')}
  <2>1. PICK n : n = Len(pending)
    OBVIOUS
  <2>2. StepsTo("formatted") = {n} /\ 1 \notin StepsTo("formatted") /\ n \in Nat /\ n >= 1
    BY <1>2, <1>3, <1>4, <2>1, WriteShift
  <2>3. StepsTo("formatted")' = {j \in 1 .. n - 1 : j + 1 \in {n}}
    BY <1>4, <2>1, <2>2
  <2>4. {j \in 1 .. n - 1 : j + 1 \in {n}} = {n - 1}
    BY <2>2
  <2> QED BY <1>2, <2>1, <2>3, <2>4
<1>7. StepsTo("entry")' = {} /\ StepsTo("free_half")' = {}
  BY <1>3, <1>4
<1>8. \A j \in StepsTo("inode")' :
          pending'[j].number = INODE_ROOTDIR /\ pending'[j].inode = RootInode
  BY <1>3, <1>4
<1>9. StepsTo("inode")' = {} => inode_table'[INODE_ROOTDIR] = RootInode
  <2> SUFFICES ASSUME StepsTo("inode")' = {}
               PROVE  inode_table'[INODE_ROOTDIR] = RootInode
    OBVIOUS
  <2>1. CASE w.to = "inode"
    <3>1. w.number = INODE_ROOTDIR /\ w.inode = RootInode
      BY <1>1, <1>3, <1>4, <2>1
    <3>2. inode_table' = [inode_table EXCEPT ![w.number] = w.inode]
      BY <1>2, <2>1 DEF Write
    <3>3. INODE_ROOTDIR \in DOMAIN inode_table
      BY ConstantFacts DEF TypeInv, TypeOK
    <3> QED BY <3>1, <3>2, <3>3
  <2>2. CASE w.to # "inode"
    <3>1. inode_table' = inode_table
      BY <1>2, <2>2 DEF Write
    <3> QED BY <1>3, <1>4, <2>2, <3>1
  <2> QED BY <2>1, <2>2
<1>10. /\ BlockBitsAtEnd' = SetBitmap_block \cup Range(RootBlocks)
       /\ InodeBitsAtEnd' = {INODE_ENTRY_BIT, INODE_ROOTDIR}
       /\ \A k \in 1 .. DIR_BLOCKS : HeaderAtEnd(RootBlocks[k])' = {0}
  BY <1>3, EndsKept, RootBlockFacts
<1> QED BY <1>5, <1>6, <1>7, <1>8, <1>9, <1>10 DEF FormatInv

\* A start of the machine, with a formatted disk or not, keeps the invariant.
LEMMA FormatStep ==
    ASSUME TypeInv, TypeInv', ~formatted => FormatInv, formatted => TreeInv, Format
    PROVE  (~formatted => FormatInv)' /\ (formatted => TreeInv)' /\ (formatted => TreeKept)
<1>1. /\ ~mounted /\ pending = <<>> /\ inode_NowDir' = INODE_ROOTDIR
      /\ UNCHANGED <<diskVars, half, crashed>> /\ formatted' = formatted
  BY DEF Format, diskVars, historyVars
<1>2. CASE formatted
  <2>1. TreeInv /\ pending' = <<>> /\ formatted'
    BY <1>1, <1>2 DEF Format
  <2>2. INODE_ROOTDIR \in Directories
    BY <1>1, <2>1, IdleFacts DEF SlotsAre
  <2>3. TreeInv' /\ TreeKept
    BY <1>1, <2>1, <2>2, IdleStep
  <2> QED BY <2>1, <2>3
<1>3. CASE ~formatted
  <2>1. pending' = FormatWrites /\ ~formatted' /\ mounted' = mounted
    BY <1>1, <1>3 DEF Format
  <2>2. half' = {}
    BY <1>1, <1>3 DEF FormatInv
  <2>3. FormatWrites' = FormatWrites
    BY DEF FormatWrites, RootBlocks
  <2>4. (TypeInv /\ pending = FormatWrites /\ half = {} /\ ~mounted
            /\ inode_NowDir = INODE_ROOTDIR => FormatInv)'
    <3>1. TypeInv /\ pending = FormatWrites /\ half = {} /\ ~mounted
             /\ inode_NowDir = INODE_ROOTDIR => FormatInv
      BY FormatStart
    <3> QED BY FormatStart, PTL
  <2> QED BY <1>1, <2>1, <2>2, <2>3, <2>4
<1> QED BY <1>2, <1>3

\* A crash before the disk is formatted leaves it to the next Format.
LEMMA FirstCrash ==
    ASSUME FormatInv, ~formatted, Crash
    PROVE  FormatInv' /\ ~formatted'
BY DEF Crash, FormatInv, diskVars

-----------------------------------------------------------------------------
(* touch and mkdir.                                                        *)

\* A list of n different things holds n of them.
LEMMA ImageCount ==
    ASSUME NEW n \in Nat, NEW T, NEW f \in [1 .. n -> T], T = {f[k] : k \in 1 .. n},
           \A i, k \in 1 .. n : f[i] = f[k] => i = k
    PROVE  Cardinality(T) = n
<1>1. f \in Bijection(1 .. n, T)
  <2>1. f \in Injection(1 .. n, T)
    BY DEF Injection, IsInjective
  <2>2. f \in Surjection(1 .. n, T)
    BY DEF Surjection
  <2> QED BY <2>1, <2>2 DEF Bijection
<1>2. ExistsBijection(1 .. n, T)
  BY <1>1 DEF ExistsBijection
<1> QED BY <1>2, FS_CountingElements

\* What touch and mkdir are about to use: an unmarked inode that no entry has, and an
\* unused entry in the first sector of the first block.
LEMMA NewFacts ==
    ASSUME TypeInv, TreeInv, half = {}, NEW name, New(name), EmptyIndex < EntriesPerSector,
           NEW c, c = inode_NowDir, NEW k, k = EmptyIndex, NEW n, n = Alloc_inode
    PROVE  /\ RoomBlock = First(c) /\ k \in 1 .. EntriesPerSector - 1 /\ k \notin Used(c)
           /\ n \in Inodes /\ n \notin inode_bitmap /\ n \notin {INODE_ENTRY_BIT, INODE_ROOTDIR}
           /\ n \notin Directories /\ \A p \in Slots : InodeOf(p) # n
           /\ \A i \in Used(c) : Slot(c, i).name # name
<1>1. /\ Changing /\ Calling /\ pending = <<>> /\ half = {} /\ Matches(name) = {}
      /\ NotFull # {} /\ n # INODE_ENTRY_BIT
  BY DEF New, Changing, Calling
<1>2. PICK f : f = First(c)
  OBVIOUS
<1>3. /\ f = DirBlock(1)
      /\ Block(f)[0].type = {0} \cup Used(c)
      /\ Used(c) \subseteq 1 .. EntriesPerSector - 1
      /\ \A i \in 1 .. EntriesPerSector - 1 : i \in Indices
  BY <1>1, <1>2, FirstBlock
<1>4. Smallest(NotFull) = 1
  <2>1. NotFull \in SUBSET Nat
    BY ConstantFacts DEF NotFull
  <2>2. 1 \in NotFull
    <3>1. EntriesPerSector \in Indices /\ EntriesPerSector \notin {0} \cup Used(c) /\ 1 \in 1 .. DIR_BLOCKS
      BY <1>3, ConstantFacts
    <3> QED BY <1>3, <3>1 DEF NotFull
  <2>3. Smallest(NotFull) \in NotFull /\ Smallest(NotFull) <= 1
    BY <2>1, <2>2, SmallestFacts
  <2>4. Smallest(NotFull) \in 1 .. DIR_BLOCKS
    BY <2>3 DEF NotFull
  <2> QED BY <2>3, <2>4, ConstantFacts
<1>5. RoomBlock = f
  BY <1>3, <1>4 DEF RoomBlock
<1>7. k \in 1 .. EntriesPerSector - 1 /\ k \notin Used(c)
  <2>1. k \in Indices /\ k \notin {0} \cup Used(c)
    BY <1>1, <1>3, <1>5, RoomFacts
  <2> QED BY <2>1, ConstantFacts
<1>8. n \in Inodes /\ n \notin inode_bitmap
  BY <1>1, InodeFacts DEF FreeInodes
<1>9. /\ \A p \in Slots : InodeOf(p) \in inode_bitmap
      /\ Directories \subseteq inode_bitmap /\ INODE_ROOTDIR \in Directories
  BY <1>1, IdleFacts DEF SlotsAre
<1>10. \A x \in Used(c) : Slot(c, x).name # name
  BY <1>1, Found
<1> QED BY <1>1, <1>2, <1>5, <1>7, <1>8, <1>9, <1>10

\* What is the same for a file and a directory, and whether mkdir succeeds or not.
LEMMA NewEntry ==
    ASSUME TypeInv, TypeInv', TreeInv, half = {}, EmptyIndex < EntriesPerSector,
           NEW name \in FileNames, New(name), NEW type \in {FILETYPE_FILE, FILETYPE_DIR},
           NEW n, n = Alloc_inode, NEW s, Puts(s),
           Len(s) > 2, s[1] = WriteInodeBitmap(inode_bitmap \cup {n}),
           s[2] = WriteEntry(RoomBlock, WithEntry(n, type, name)),
           StepsTo("entry")' = {2}, Building' = {n},
           \A i \in StepsTo("inode_bitmap")' : n \in pending'[i].bits \/ (i > 2 /\ Freed(i)'),
           \A i \in StepsTo("inode")' : type = FILETYPE_DIR <=> pending'[i].inode.links = DIR_BLOCKS
    PROVE  EntryStep(2)' /\ Gone' = {}
<1>1. PICK c, f, k, e : /\ c = inode_NowDir /\ f = First(c) /\ k = EmptyIndex
                        /\ e = WithEntry(n, type, name)
  OBVIOUS
<1>2. /\ RoomBlock = f /\ k \in 1 .. EntriesPerSector - 1 /\ k \notin Used(c)
      /\ n \in Inodes /\ n \notin inode_bitmap /\ n \notin {INODE_ENTRY_BIT, INODE_ROOTDIR}
      /\ n \notin Directories /\ \A p \in Slots : InodeOf(p) # n
      /\ \A i \in Used(c) : Slot(c, i).name # name
  BY <1>1, NewFacts
<1>3. Changing /\ Calling
  BY DEF New, Changing
<1>4. /\ c \in Directories /\ f \in BlockNumbers
      /\ Block(f)[0].type = {0} \cup Used(c)
      /\ Used(c) \subseteq 1 .. EntriesPerSector - 1
      /\ \A i \in 1 .. EntriesPerSector - 1 : i \in Indices /\ Block(f)[i] = Slot(c, i)
      /\ \A i \in 0 .. EntriesPerSector - 1 :
             EntriesPerSector + i \in Indices /\ Block(f)[EntriesPerSector + i] = block_table[f + 1][i]
  BY <1>1, <1>3, FirstBlock
<1>5. PICK w : w = s[2]
  OBVIOUS
<1>6. w.to = "entry" /\ w.number = f /\ w.entries = e /\ pending'[2] = w
  BY <1>1, <1>2, <1>5 DEF WriteEntry, Puts
<1>7. s[1].to = "inode_bitmap"
  BY DEF WriteInodeBitmap
<1>8. /\ TreeKept /\ half = {} /\ half' = {} /\ inode_NowDir' = c
      /\ block_table' = block_table /\ pending' = s
  BY <1>1, <1>2, <1>3, PendKeeps
<1>9. k # 0 /\ 0 \in Indices /\ k \in Indices /\ Block(f) \in [Indices -> Entries]
  BY <1>2, <1>4, BlockTyped, ConstantFacts DEF BlockType
<1>10. /\ e[0].type = {0} \cup (Used(c) \cup {k})
       /\ e[k] = [inode |-> n, type |-> type, name |-> name]
       /\ \A i \in Indices : i # k /\ i # 0 => e[i] = Block(f)[i]
  <2>1. PICK g : g = [Block(f) EXCEPT ![0].type = @ \cup {k}]
    OBVIOUS
  <2>2. e = [g EXCEPT ![k] = [inode |-> n, type |-> type, name |-> name]]
    BY <1>1, <1>2, <2>1 DEF WithEntry
  <2>3. /\ DOMAIN g = Indices /\ g[0] = [Block(f)[0] EXCEPT !.type = Block(f)[0].type \cup {k}]
        /\ \A i \in Indices : i # 0 => g[i] = Block(f)[i]
    BY <1>9, <2>1
  <2>4. g[0].type = Block(f)[0].type \cup {k}
    <3>1. Block(f)[0] \in Entries
      BY <1>9
    <3> QED BY <2>3, <3>1 DEF Entries
  <2>5. e[0] = g[0] /\ e[k] = [inode |-> n, type |-> type, name |-> name]
        /\ \A i \in Indices : i # k => e[i] = g[i]
    BY <1>9, <2>1, <2>2
  <2> QED BY <1>4, <2>3, <2>4, <2>5
<1>11. /\ First(inode_NowDir)' = f /\ Used(inode_NowDir)' = Used(c)
       /\ \A i : Slot(inode_NowDir, i)' = Slot(c, i)
  <2>1. First(c)' = f /\ Used(c)' = Used(c) /\ \A i : Slot(c, i)' = Slot(c, i)
    BY <1>1, <1>4, <1>8 DEF TreeKept
  <2> QED BY <1>8, <2>1 DEF First, Used, Slot
<1>12. Gone' = {}
  <2>1. ASSUME NEW j \in StepsTo("entry")'
        PROVE  Used(inode_NowDir)' \ pending'[j].entries[0].type = {}
    BY <1>6, <1>10, <1>11
  <2> QED BY <2>1 DEF Gone
<1>13. SecondKept(w)'
  <2>1. ASSUME NEW i \in 0 .. EntriesPerSector - 1
        PROVE  e[EntriesPerSector + i] = block_table[f + 1][i]
    <3>1. PICK x : x = EntriesPerSector + i
      OBVIOUS
    <3>2. x \in Indices /\ x # k /\ x # 0
      <4>1. k \in 1 .. EntriesPerSector - 1
        BY <1>2
      <4> QED BY <3>1, <4>1, ConstantFacts
    <3> QED BY <1>4, <1>10, <3>1, <3>2
  <2> QED BY <1>6, <1>8, <2>1 DEF SecondKept
<1>14. Adds(2, k)'
  <2>1. Changes(w, k, Used(inode_NowDir) \cup {k})'
    <3>1. ASSUME NEW i \in 1 .. EntriesPerSector - 1, i # k
          PROVE  e[i] = Slot(inode_NowDir, i)'
      <4>1. i \in Indices /\ i # 0 /\ Block(f)[i] = Slot(c, i)
        BY <1>4
      <4> QED BY <1>10, <1>11, <3>1, <4>1
    <3> QED BY <1>6, <1>10, <1>11, <3>1 DEF Changes
  <2>2. NewName(name)'
    BY <1>2, <1>11 DEF NewName
  <2>3. PICK x : x = pending'[2].entries[k]
    OBVIOUS
  <2>4. x.inode = n /\ x.type = type /\ x.name = name
    BY <1>6, <1>10, <2>3
  <2>5. \A p \in Slots' : InodeOf(p)' # n
    BY <1>2, <1>8 DEF TreeKept
  <2>6. Changes(pending[2], k, Used(inode_NowDir) \cup {k})'
    BY <1>6, <2>1 DEF Changes
  <2>7. k \notin Used(inode_NowDir)'
    BY <1>2, <1>11
  <2>8. /\ \A i \in StepsTo("inode_bitmap")' : x.inode \in pending'[i].bits \/ (i > 2 /\ Freed(i)')
        /\ \A i \in StepsTo("inode")' : x.type = FILETYPE_DIR <=> pending'[i].inode.links = DIR_BLOCKS
    BY <2>4
  <2>9. NewName(x.name)'
    BY <2>2, <2>4 DEF NewName
  <2>10. /\ x.inode \notin {INODE_ENTRY_BIT, INODE_ROOTDIR} /\ x.type \in {FILETYPE_FILE, FILETYPE_DIR}
         /\ Building' = {x.inode} /\ \A p \in Slots' : InodeOf(p)' # x.inode
    BY <1>2, <2>4, <2>5
  <2> QED BY <2>3, <2>6, <2>7, <2>8, <2>9, <2>10 DEF Adds, NewName
<1>15. \A i \in 1 .. 2 - 1 : pending'[i].to = "inode_bitmap"
  BY <1>7, <1>8
<1>16. EntryStep(2)'
  BY <1>2, <1>6, <1>8, <1>11, <1>13, <1>14, <1>15 DEF EntryStep, SecondKept
<1> QED BY <1>12, <1>16

\* A call of touch keeps the invariant.
LEMMA CreateFileStep ==
    ASSUME TypeInv, TypeInv', TreeInv, NEW name \in FileNames, CreateFile(name), damage' = {}
    PROVE  TreeInv' /\ TreeKept
<1>1. PICK n, s : n = Alloc_inode /\ s = CreateFileWrites(name)
  OBVIOUS
<1>2. /\ New(name) /\ Puts(s) /\ Changing /\ pending' = s
      /\ half = {} /\ EmptyIndex < EntriesPerSector
  <2>1. New(name) /\ Pend(s, Hides(EmptyIndex))
    BY <1>1 DEF CreateFile
  <2> QED BY <2>1, PendFacts, HarmFacts DEF New, Changing, Puts
<1>3. PICK a, b, c : /\ a = WriteInodeBitmap(inode_bitmap \cup {n})
                     /\ b = WriteEntry(RoomBlock, WithEntry(n, FILETYPE_FILE, name))
                     /\ c = WriteInode(n, [inode_table[n] EXCEPT !.links = 0])
  OBVIOUS
<1>4. s = <<a, b, c>>
  BY <1>1, <1>3 DEF CreateFileWrites
<1>5. /\ n \in Inodes /\ n \notin inode_bitmap /\ n \notin {INODE_ENTRY_BIT, INODE_ROOTDIR}
      /\ n \notin Directories /\ \A p \in Slots : InodeOf(p) # n
  BY <1>1, <1>2, NewFacts
<1>6. /\ a.to = "inode_bitmap" /\ a.bits = inode_bitmap \cup {n}
      /\ b.to = "entry" /\ c.to = "inode" /\ c.number = n /\ c.inode.links = 0
  <2>1. inode_table[n] \in InodeType
    BY <1>5, InodeTyped
  <2>2. [inode_table[n] EXCEPT !.links = 0].links = 0
    BY <2>1 DEF InodeType
  <2> QED BY <1>3, <2>2 DEF WriteInodeBitmap, WriteEntry, WriteInode
<1>7. Len(s) = 3 /\ s[1] = a /\ s[2] = b /\ s[3] = c
  BY <1>4
<1>8. Steps' = {1, 2, 3}
  BY <1>2, <1>7 DEF Steps
<1>9. /\ StepsTo("inode_bitmap")' = {1} /\ StepsTo("entry")' = {2} /\ StepsTo("inode")' = {3}
      /\ StepsTo("block_bitmap")' = {} /\ StepsTo("block")' = {} /\ StepsTo("free_half")' = {}
      /\ StepsTo("formatted")' = {}
  BY <1>2, <1>6, <1>7, <1>8 DEF StepsTo
<1>10. Building' = {n} /\ Coming' = {}
  <2>1. Building' = {pending'[x].number : x \in StepsTo("inode")' \cup StepsTo("free_half")'}
    BY DEF Building, StepsTo, Steps
  <2>2. Coming' = {}
    BY <1>2, <1>6, <1>7, <1>9, ConstantFacts DEF Coming
  <2> QED BY <1>2, <1>6, <1>7, <1>9, <2>1, <2>2
<1>11. \A j \in Steps' : ~Freed(j)'
  <2>1. \A j \in Steps' : \A i \in 1 .. j - 1 : i \in {1, 2, 3}
    BY <1>8
  <2> QED BY <1>2, <1>6, <1>7, <2>1 DEF Freed
<1>12. EntryStep(2)' /\ Gone' = {}
  <2>1. \A i \in StepsTo("inode_bitmap")' : n \in pending'[i].bits \/ (i > 2 /\ Freed(i)')
    BY <1>2, <1>6, <1>7, <1>9
  <2>2. \A i \in StepsTo("inode")' : FILETYPE_FILE = FILETYPE_DIR <=> pending'[i].inode.links = DIR_BLOCKS
    <3>1. FILETYPE_FILE # FILETYPE_DIR
      <4>1. 0 \in FILETYPE_FILE /\ 0 \notin FILETYPE_DIR
        BY DEF FILETYPE_FILE, FILETYPE_DIR
      <4> QED BY <4>1
    <3>2. pending'[3].inode.links = 0 /\ DIR_BLOCKS # 0
      BY <1>2, <1>6, <1>7, ConstantFacts
    <3>3. StepsTo("inode")' = {3}
      BY <1>9
    <3> QED BY <3>1, <3>2, <3>3
  <2>3. Len(s) > 2
    BY <1>7
  <2>4. FILETYPE_FILE \in {FILETYPE_FILE, FILETYPE_DIR}
    OBVIOUS
  <2>5. /\ s[1] = WriteInodeBitmap(inode_bitmap \cup {n})
        /\ s[2] = WriteEntry(RoomBlock, WithEntry(n, FILETYPE_FILE, name))
    BY <1>3, <1>7
  <2> QED BY <1>1, <1>2, <1>9, <1>10, <2>1, <2>2, <2>3, <2>4, <2>5, NewEntry
<1>13. /\ TreeKept /\ half = {} /\ half' = {} /\ inode_NowDir' = inode_NowDir
       /\ block_bitmap' = block_bitmap /\ inode_bitmap' = inode_bitmap /\ crashed' = crashed
  BY <1>2, <1>5, <1>10, PendKeeps
<1>14. /\ Gone = {} /\ Coming = {} /\ Building = {} /\ InodeBitsAtEnd = inode_bitmap
       /\ BlockBitsAtEnd = block_bitmap /\ StepsTo("free_half") = {}
       /\ OwnedBlocks = UNION {BlocksOf(d) : d \in Directories}
       /\ \A p \in Slots : InodeOf(p) \in inode_bitmap
       /\ inode_NowDir \in Directories
  BY <1>2, IdleFacts DEF Changing, Calling
<1>15. InodeStep(3)'
  <2>1. /\ 3 = Len(pending') /\ pending'[3].number = n /\ pending'[3].inode.links = 0
        /\ StepsTo("entry")' # {} /\ StepsTo("free_half")' = {} /\ half' = {}
    BY <1>2, <1>6, <1>7, <1>9, <1>13
  <2>2. n \notin Directories' \cup {INODE_ENTRY_BIT} /\ \A p \in Slots' : InodeOf(p)' # n
    BY <1>5, <1>13 DEF TreeKept
  <2> QED BY <2>1, <2>2 DEF InodeStep
<1>16. \A j \in StepsTo("inode_bitmap")' :
           InodeBitsStep(j)' /\ {INODE_ENTRY_BIT, INODE_ROOTDIR} \subseteq pending'[j].bits
  <2>1. \A p \in Slots' : InodeOf(p)' \in inode_bitmap
    BY <1>13, <1>14 DEF TreeKept
  <2>2. {INODE_ENTRY_BIT, INODE_ROOTDIR} \subseteq inode_bitmap
    BY DEF TreeInv, ReservedInv
  <2> QED BY <1>2, <1>6, <1>7, <1>9, <2>1, <2>2 DEF InodeBitsStep
<1>17. StepInv'
  BY <1>9, <1>11, <1>12, <1>13, <1>15, <1>16 DEF StepInv
<1>18. ExactInv'
  <2> SUFFICES ASSUME ~crashed'
               PROVE  /\ InodeBitsAtEnd' = {INODE_ENTRY_BIT, INODE_ROOTDIR}
                                  \cup ({InodeOf(p) : p \in Slots}' \ Gone') \cup Building'
                      /\ BlockBitsAtEnd' = SetBitmap_block \cup OwnedBlocks' \cup Coming'
    BY DEF ExactInv
  <2>1. /\ inode_bitmap = {INODE_ENTRY_BIT, INODE_ROOTDIR} \cup {InodeOf(p) : p \in Slots}
        /\ block_bitmap = SetBitmap_block \cup OwnedBlocks
    BY <1>13, <1>14 DEF TreeInv, ExactInv
  <2>2. InodeBitsAtEnd' = inode_bitmap \cup {n}
    <3>1. LastIn({1}) = 1
      BY LastIs
    <3>2. InodeBitsAtEnd' = pending'[LastIn({1})].bits
      BY <1>9 DEF InodeBitsAtEnd, LastIn
    <3> QED BY <1>2, <1>6, <1>7, <3>1, <3>2
  <2>3. BlockBitsAtEnd' = block_bitmap
    BY <1>9, <1>13 DEF BlockBitsAtEnd
  <2>4. {InodeOf(p) : p \in Slots}' = {InodeOf(p) : p \in Slots}
    BY <1>13 DEF TreeKept
  <2>5. OwnedBlocks' = OwnedBlocks
    BY <1>12, <1>13, <1>14 DEF OwnedBlocks, TreeKept
  <2> QED BY <1>10, <1>12, <2>1, <2>2, <2>3, <2>4, <2>5
<1>19. /\ Building' \cap inode_bitmap = {} /\ inode_NowDir \notin Gone'
       /\ \A j \in StepsTo("block_bitmap")' : SetBitmap_block \subseteq pending'[j].bits \/ Freed(j)'
  BY <1>5, <1>9, <1>10, <1>12
<1> QED BY <1>2, <1>16, <1>17, <1>18, <1>19, PendTree

-----------------------------------------------------------------------------
(* mkdir.                                                                  *)

\* A list with one element more.
LEMMA Extended ==
    ASSUME NEW S, NEW t \in Seq(S), NEW z \in S, NEW l \in Nat, l = Len(t),
           NEW a, Len(a) = 1, a[1] = z, NEW s, IsJoin(s, t, a)
    PROVE  /\ Len(s) = l + 1 /\ s[l + 1] = z
           /\ \A j \in 1 .. l : s[j] = t[j]
<1>4. 1 \in 1 .. 1
  OBVIOUS
<1>5. /\ Len(s) = l + 1
      /\ \A j \in 1 .. l : s[j] = t[j]
      /\ \A j \in 1 .. 1 : s[l + j] = a[j]
  BY DEF IsJoin
<1> QED BY <1>4, <1>5

\* The writes of a mkdir until it has all the blocks it gets.
IsStart(s, a, b, blocks, m) ==
    /\ s[1] = a /\ s[2] = b
    /\ \A i \in 1 .. m :
          /\ s[2 * i + 1] = WriteBlockBitmap(block_bitmap \cup Taken(blocks, i))
          /\ s[2 * i + 2] = WriteBlock(blocks[i], [Empty EXCEPT ![0] = Header])

\* The writes of mkdir up to the initialisation of the blocks, one by one.
LEMMA StartIndex ==
    ASSUME block_bitmap \subseteq BlockNumbers, NEW blocks \in Seq(BlockNumbers),
           NEW m \in Nat, m = Len(blocks), NEW a, NEW b,
           NEW t, Len(t) = 2, t[1] = a, t[2] = b, NEW A, IsAlloc(A, blocks),
           NEW s, IsJoin(s, t, A)
    PROVE  /\ Len(s) = 2 * m + 2 /\ IsStart(s, a, b, blocks, m)
<1>4. /\ A \in Seq(WriteType) /\ Len(A) = 2 * m
      /\ \A i \in 1 .. m :
            /\ A[2 * i - 1] = WriteBlockBitmap(block_bitmap \cup Taken(blocks, i))
            /\ A[2 * i] = WriteBlock(blocks[i], [Empty EXCEPT ![0] = Header])
  BY DEF IsAlloc
<1>6. /\ Len(s) = 2 + 2 * m
      /\ \A j \in 1 .. 2 : s[j] = t[j]
      /\ \A j \in 1 .. 2 * m : s[2 + j] = A[j]
  BY <1>4 DEF IsJoin
<1>7. ASSUME NEW i \in 1 .. m
      PROVE  /\ s[2 * i + 1] = WriteBlockBitmap(block_bitmap \cup Taken(blocks, i))
             /\ s[2 * i + 2] = WriteBlock(blocks[i], [Empty EXCEPT ![0] = Header])
  <2>1. PICK x, y : x = 2 * i - 1 /\ y = 2 * i
    OBVIOUS
  <2>2. x \in 1 .. 2 * m /\ y \in 1 .. 2 * m /\ 2 + x = 2 * i + 1 /\ 2 + y = 2 * i + 2
    BY <2>1
  <2>3. s[2 + x] = A[x] /\ s[2 + y] = A[y]
    BY <1>6, <2>2
  <2> QED BY <1>4, <2>1, <2>2, <2>3
<1>8. 1 \in 1 .. 2 /\ 2 \in 1 .. 2
  OBVIOUS
<1>9. s[1] = a /\ s[2] = b
  BY <1>6, <1>8
<1>10. IsStart(s, a, b, blocks, m)
  BY <1>7, <1>9 DEF IsStart
<1>11. Len(s) = 2 * m + 2
  <2>1. Len(s) = 2 + 2 * m
    BY <1>6
  <2> QED BY <2>1
<1> QED BY <1>10, <1>11

\* Its writes when it gets all the blocks of a directory, ...
IsMade(s, a, b, c, blocks, m) ==
    /\ Len(s) = 2 * m + 3
    /\ IsStart(s, a, b, blocks, m)
    /\ s[2 * m + 3] = c

\* The beginning of a longer list.
LEMMA StartKept ==
    ASSUME NEW m \in Nat, NEW blocks, NEW a, NEW b, NEW t, IsStart(t, a, b, blocks, m),
           NEW s, \A j \in 1 .. 2 * m + 2 : s[j] = t[j]
    PROVE  IsStart(s, a, b, blocks, m)
<1>1. 1 \in 1 .. 2 * m + 2 /\ 2 \in 1 .. 2 * m + 2
  OBVIOUS
<1>2. \A i \in 1 .. m : 2 * i + 1 \in 1 .. 2 * m + 2 /\ 2 * i + 2 \in 1 .. 2 * m + 2
  OBVIOUS
<1>3. s[1] = t[1] /\ s[2] = t[2]
  BY <1>1
<1>4. \A i \in 1 .. m : s[2 * i + 1] = t[2 * i + 1] /\ s[2 * i + 2] = t[2 * i + 2]
  <2> TAKE i \in 1 .. m
  <2>1. PICK x, y : x = 2 * i + 1 /\ y = 2 * i + 2
    OBVIOUS
  <2>2. x \in 1 .. 2 * m + 2 /\ y \in 1 .. 2 * m + 2
    BY <2>1
  <2> QED BY <2>1, <2>2
<1> QED BY <1>3, <1>4 DEF IsStart

\* The writes of a mkdir that gets all blocks, one by one.
LEMMA MadeIndex ==
    ASSUME TypeInv, NEW name \in FileNames, New(name), NEW n, n = Alloc_inode,
           NEW blocks, blocks = GotBlocks, NEW m \in Nat, m = Len(blocks)
    PROVE  m = DIR_BLOCKS =>
               IsMade(MakeDirWrites(name), WriteInodeBitmap(inode_bitmap \cup {n}),
                      WriteEntry(RoomBlock, WithEntry(n, FILETYPE_DIR, name)),
                      WriteInode(n, [links |-> DIR_BLOCKS, block |-> blocks]), blocks, m)
<1>1. n \in Inodes /\ NotFull # {} /\ inode_bitmap \subseteq Inodes /\ block_bitmap \subseteq BlockNumbers
  BY InodeFacts DEF New, TypeInv, TypeOK
<1>2. blocks \in Seq(BlockNumbers)
  BY GotFresh DEF Fresh
<1>3. PICK a, b, c : /\ a = WriteInodeBitmap(inode_bitmap \cup {n})
                     /\ b = WriteEntry(RoomBlock, WithEntry(n, FILETYPE_DIR, name))
                     /\ c = WriteInode(n, [links |-> DIR_BLOCKS, block |-> blocks])
  OBVIOUS
<1>4. a \in WriteType /\ b \in WriteType
  <2>1. inode_bitmap \cup {n} \in SUBSET Inodes
    BY <1>1
  <2>2. WithEntry(n, FILETYPE_DIR, name) \in BlockType
    BY <1>1, ConstantFacts, WithEntryType
  <2> QED BY <1>1, <1>3, <2>1, <2>2, RoomFacts, WriteTypes
<1>5. PICK p, A, r, t, s : /\ p = <<a, b>> /\ A = AllocWrites(blocks) /\ r = <<c>>
                           /\ t = p \o A /\ s = t \o r
  OBVIOUS
<1>6. t \in Seq(WriteType) /\ Len(t) = 2 * m + 2 /\ IsStart(t, a, b, blocks, m)
  <2>0. IsAlloc(A, blocks)
    BY <1>1, <1>2, <1>5, AllocIndex
  <2>1. p \in Seq(WriteType) /\ Len(p) = 2 /\ p[1] = a /\ p[2] = b /\ A \in Seq(WriteType)
    BY <1>4, <1>5, <2>0 DEF IsAlloc
  <2>2. t \in Seq(WriteType) /\ IsJoin(t, p, A)
    BY <1>5, <2>1, Joined
  <2> QED BY <1>1, <1>2, <2>0, <2>1, <2>2, StartIndex
<1>7. PICK l : l = 2 * m + 2
  OBVIOUS
<1>8. l \in Nat /\ l = Len(t) /\ l + 1 = 2 * m + 3
  BY <1>6, <1>7
<1>9. ASSUME m = DIR_BLOCKS
      PROVE  c \in WriteType /\ MakeDirWrites(name) = s
  <2>1. blocks \in [1 .. DIR_BLOCKS -> BlockNumbers]
    BY <1>2, <1>9, LenProperties
  <2>2. [links |-> DIR_BLOCKS, block |-> blocks] \in InodeType
    BY <2>1, ConstantFacts DEF InodeType
  <2>3. c \in WriteType
    BY <1>1, <1>3, <2>2, WriteTypes
  <2>4. MakeDirWrites(name) = s
    BY <1>3, <1>5, <1>9 DEF MakeDirWrites
  <2> QED BY <2>3, <2>4
<1>10. ASSUME c \in WriteType
       PROVE  IsMade(s, a, b, c, blocks, m)
  <2>1. r \in Seq(WriteType) /\ Len(r) = 1 /\ r[1] = c
    BY <1>5, <1>10
  <2>2. s \in Seq(WriteType) /\ IsJoin(s, t, r)
    BY <1>5, <1>6, <2>1, Joined
  <2>3. Len(s) = l + 1 /\ s[l + 1] = c /\ \A j \in 1 .. l : s[j] = t[j]
    BY <1>6, <1>8, <1>10, <2>1, <2>2, Extended
  <2>4. IsStart(s, a, b, blocks, m)
    BY <1>6, <1>7, <2>3, StartKept
  <2> QED BY <1>8, <2>3, <2>4 DEF IsMade
<1> QED BY <1>3, <1>9, <1>10

\* ... and when it does not.
IsFailed(s, a, b, blocks, m, n, freed) ==
    /\ Len(s) = 4 * m + 6
    /\ IsStart(s, a, b, blocks, m)
    /\ s[2 * m + 3] = [to |-> "free_half", number |-> n]
    /\ s[2 * m + 4] = WriteInodeBitmap(inode_bitmap \ {n})
    /\ \A i \in 1 .. m + 1 :
          /\ s[2 * m + 3 + 2 * i] = WriteBlockBitmap((block_bitmap \cup Range(blocks)) \ Taken(freed, i))
          /\ s[2 * m + 4 + 2 * i] = WriteBlock(freed[i], Empty)

\* What a mkdir that fails frees: block NIL and the blocks it got.
LEMMA FreedFacts ==
    ASSUME NEW blocks \in Seq(BlockNumbers), NEW freed, freed = <<NIL>> \o Reverse(blocks)
    PROVE  /\ freed \in Seq(BlockNumbers) /\ Len(freed) = Len(blocks) + 1
           /\ \A i \in 1 .. Len(freed) : freed[i] = NIL \/ freed[i] \in Range(blocks)
<1>1. PICK a, r : a = <<NIL>> /\ r = Reverse(blocks)
  OBVIOUS
<1>2. a \in Seq(BlockNumbers) /\ Len(a) = 1 /\ a[1] = NIL
  BY <1>1, ConstantFacts
<1>3. PICK m \in Nat : m = Len(blocks)
  OBVIOUS
<1>4. r = [i \in 1 .. m |-> blocks[(m - i) + 1]]
  BY <1>1, <1>3 DEF Reverse
<1>5. \A i \in 1 .. m : blocks[(m - i) + 1] \in BlockNumbers /\ blocks[(m - i) + 1] \in Range(blocks)
  <2> TAKE i \in 1 .. m
  <2>1. PICK x : x = (m - i) + 1
    OBVIOUS
  <2>2. x \in 1 .. m
    BY <1>3, <2>1
  <2>3. blocks[x] \in BlockNumbers /\ blocks[x] \in Range(blocks)
    BY <1>3, <2>2, RangeOf
  <2> QED BY <2>1, <2>3
<1>6. r \in Seq(BlockNumbers) /\ Len(r) = m /\ \A i \in 1 .. m : r[i] \in Range(blocks)
  <2>1. \A i \in 1 .. m : r[i] \in BlockNumbers /\ r[i] \in Range(blocks)
    BY <1>4, <1>5
  <2>2. r = [k \in 1 .. m |-> r[k]]
    BY <1>4
  <2> QED BY <1>3, <2>1, <2>2, ListOf
<1>7. freed \in Seq(BlockNumbers) /\ IsJoin(freed, a, r)
  BY <1>1, <1>2, <1>6, Joined
<1>8. /\ Len(freed) = 1 + m
      /\ \A j \in 1 .. 1 : freed[j] = a[j]
      /\ \A j \in 1 .. m : freed[1 + j] = r[j]
      /\ \A j \in 1 .. 1 + m : j \in 1 .. 1 \/ \E i \in 1 .. m : j = 1 + i
  BY <1>2, <1>6, <1>7 DEF IsJoin
<1>9. \A j \in 1 .. 1 : j = 1
  OBVIOUS
<1>10. \A i \in 1 .. 1 + m : freed[i] = NIL \/ freed[i] \in Range(blocks)
  BY <1>2, <1>6, <1>8, <1>9
<1> QED BY <1>3, <1>7, <1>8, <1>10

\* The writes of a mkdir that does not get all blocks, one by one.
LEMMA FailedIndex ==
    ASSUME TypeInv, NEW name \in FileNames, New(name), NEW n, n = Alloc_inode,
           NEW blocks, blocks = GotBlocks, NEW m, m = Len(blocks), m # DIR_BLOCKS,
           NIL \in block_bitmap,
           NEW freed, freed = <<NIL>> \o Reverse(blocks)
    PROVE  IsFailed(MakeDirWrites(name), WriteInodeBitmap(inode_bitmap \cup {n}),
                    WriteEntry(RoomBlock, WithEntry(n, FILETYPE_DIR, name)), blocks, m, n, freed)
<1>1. n \in Inodes /\ NotFull # {} /\ inode_bitmap \subseteq Inodes /\ block_bitmap \subseteq BlockNumbers
  BY InodeFacts DEF New, TypeInv, TypeOK
<1>2. blocks \in Seq(BlockNumbers) /\ m \in Nat
  BY GotFresh DEF Fresh
<1>3. PICK a, b, h, z, F : /\ a = WriteInodeBitmap(inode_bitmap \cup {n})
                           /\ b = WriteEntry(RoomBlock, WithEntry(n, FILETYPE_DIR, name))
                           /\ h = [to |-> "free_half", number |-> n]
                           /\ z = WriteInodeBitmap(inode_bitmap \ {n})
                           /\ F = Free_Block(freed, block_bitmap \cup Range(blocks))
  OBVIOUS
<1>4. a \in WriteType /\ b \in WriteType /\ h \in WriteType /\ z \in WriteType
  <2>1. inode_bitmap \cup {n} \in SUBSET Inodes /\ inode_bitmap \ {n} \in SUBSET Inodes
    BY <1>1
  <2>2. WithEntry(n, FILETYPE_DIR, name) \in BlockType
    BY <1>1, ConstantFacts, WithEntryType
  <2> QED BY <1>1, <1>3, <2>1, <2>2, RoomFacts, WriteTypes
<1>5. freed \in Seq(BlockNumbers) /\ Len(freed) = m + 1
  BY <1>2, FreedFacts
<1>6. block_bitmap \cup Range(blocks) \in SUBSET BlockNumbers
  BY <1>1, <1>2, RangeOf
<1>7. IsFree(F, freed, block_bitmap \cup Range(blocks))
  BY <1>3, <1>5, <1>6, FreeIndex
<1>8. /\ F \in Seq(WriteType) /\ Len(F) = 2 * (m + 1)
      /\ \A i \in 1 .. m + 1 :
            /\ F[2 * i - 1] = WriteBlockBitmap((block_bitmap \cup Range(blocks)) \ Taken(freed, i))
            /\ F[2 * i] = WriteBlock(freed[i], Empty)
  BY <1>5, <1>7 DEF IsFree
<1>9. PICK p, A, x, y, t, u, v, s :
          /\ p = <<a, b>> /\ A = AllocWrites(blocks) /\ x = <<h>> /\ y = <<z>>
          /\ t = p \o A /\ u = t \o x /\ v = u \o y /\ s = v \o F
  OBVIOUS
<1>11. t \in Seq(WriteType) /\ Len(t) = 2 * m + 2 /\ IsStart(t, a, b, blocks, m)
  <2>0. IsAlloc(A, blocks)
    BY <1>1, <1>2, <1>9, AllocIndex
  <2>1. p \in Seq(WriteType) /\ Len(p) = 2 /\ p[1] = a /\ p[2] = b /\ A \in Seq(WriteType)
    BY <1>4, <1>9, <2>0 DEF IsAlloc
  <2>2. t \in Seq(WriteType) /\ IsJoin(t, p, A)
    BY <1>9, <2>1, Joined
  <2>3. Len(t) = 2 * m + 2 /\ IsStart(t, a, b, blocks, m)
    <3>1. block_bitmap \subseteq BlockNumbers /\ blocks \in Seq(BlockNumbers)
          /\ m \in Nat /\ m = Len(blocks)
      BY <1>1, <1>2
    <3>2. Len(p) = 2 /\ p[1] = a /\ p[2] = b
      BY <2>1
    <3>3. IsJoin(t, p, A)
      BY <2>2
    <3> QED BY <2>0, <3>1, <3>2, <3>3, StartIndex, SMTT(60)
  <2> QED BY <2>2, <2>3
<1>10. MakeDirWrites(name) = s
  <2>1. MarkNIL = <<>>
    BY DEF MarkNIL, FreeBlocks
  <2>2. t \in Seq(WriteType)
    BY <1>11
  <2>3. t \o MarkNIL = t
    BY <2>1, <2>2
  <2>4. MakeDirWrites(name) = ((((p \o A) \o MarkNIL) \o x) \o y) \o F
    BY <1>3, <1>9 DEF MakeDirWrites, Free_inode
  <2> QED BY <1>9, <2>3, <2>4
<1>12. PICK k, l : k = 2 * m + 2 /\ l = 2 * m + 3
  OBVIOUS
<1>13. k \in Nat /\ l \in Nat /\ k = Len(t) /\ k + 1 = l /\ l + 1 = 2 * m + 4
  BY <1>2, <1>11, <1>12
<1>14. /\ u \in Seq(WriteType) /\ Len(u) = k + 1 /\ u[k + 1] = h
       /\ \A j \in 1 .. k : u[j] = t[j]
  <2>1. x \in Seq(WriteType) /\ Len(x) = 1 /\ x[1] = h
    BY <1>4, <1>9
  <2>2. u \in Seq(WriteType) /\ IsJoin(u, t, x)
    BY <1>9, <1>11, <2>1, Joined
  <2>3. t \in Seq(WriteType) /\ k \in Nat /\ k = Len(t)
    BY <1>11, <1>13
  <2>4. h \in WriteType
    BY <1>4
  <2> QED BY <2>1, <2>2, <2>3, <2>4, Extended, SMTT(60)
<1>15. /\ v \in Seq(WriteType) /\ Len(v) = l + 1 /\ v[l + 1] = z
       /\ \A j \in 1 .. l : v[j] = u[j]
  <2>1. y \in Seq(WriteType) /\ Len(y) = 1 /\ y[1] = z
    BY <1>4, <1>9
  <2>2. v \in Seq(WriteType) /\ IsJoin(v, u, y)
    BY <1>9, <1>14, <2>1, Joined
  <2> QED BY <1>4, <1>13, <1>14, <2>2, <2>1, Extended
<1>16. IsJoin(s, v, F)
  BY <1>8, <1>9, <1>15, Joined
<1>17. /\ Len(s) = l + 1 + 2 * (m + 1)
       /\ \A j \in 1 .. l + 1 : s[j] = v[j]
       /\ \A j \in 1 .. 2 * (m + 1) : s[l + 1 + j] = F[j]
  BY <1>8, <1>15, <1>16 DEF IsJoin
<1>18. l \in 1 .. l /\ l \in 1 .. l + 1 /\ l + 1 \in 1 .. l + 1
  BY <1>2, <1>12
<1>19. s[l] = h /\ s[l + 1] = z
  BY <1>13, <1>14, <1>15, <1>17, <1>18
<1>20. \A j \in 1 .. 2 * m + 2 : s[j] = t[j]
  <2>1. \A j \in 1 .. k : j \in 1 .. l /\ j \in 1 .. l + 1
    BY <1>13
  <2> QED BY <1>12, <1>14, <1>15, <1>17, <2>1
<1>21. IsStart(s, a, b, blocks, m)
  BY <1>2, <1>11, <1>20, StartKept
<1>22. \A i \in 1 .. m + 1 :
          /\ s[2 * m + 3 + 2 * i] = WriteBlockBitmap((block_bitmap \cup Range(blocks)) \ Taken(freed, i))
          /\ s[2 * m + 4 + 2 * i] = WriteBlock(freed[i], Empty)
  <2> TAKE i \in 1 .. m + 1
  <2>1. PICK g, j : g = 2 * i - 1 /\ j = 2 * i
    OBVIOUS
  <2>2. /\ g \in 1 .. 2 * (m + 1) /\ j \in 1 .. 2 * (m + 1)
        /\ l + 1 + g = 2 * m + 3 + 2 * i /\ l + 1 + j = 2 * m + 4 + 2 * i
    BY <1>2, <1>12, <2>1
  <2>3. s[l + 1 + g] = F[g] /\ s[l + 1 + j] = F[j]
    BY <1>17, <2>2
  <2> QED BY <1>8, <2>1, <2>2, <2>3
<1>23. Len(s) = 4 * m + 6
  BY <1>2, <1>12, <1>17
<1> QED BY <1>3, <1>10, <1>12, <1>13, <1>19, <1>21, <1>22, <1>23 DEF IsFailed

\* The blocks that a mkdir gets.
LEMMA GotFacts ==
    ASSUME TypeInv, TreeInv, half = {}, NEW name, New(name), EmptyIndex < EntriesPerSector,
           NEW n, n = Alloc_inode, NEW blocks, blocks = GotBlocks, NeighbourBound(Range(blocks), n)
    PROVE  /\ blocks \in Seq(BlockNumbers) /\ Len(blocks) \in 0 .. DIR_BLOCKS
           /\ \A i \in 1 .. Len(blocks) :
                 /\ blocks[i] \in BlockNumbers /\ blocks[i] \in Range(blocks)
                 /\ blocks[i] \notin block_bitmap
                 /\ blocks[i] \notin OwnedBlocks /\ blocks[i] + 1 \notin OwnedBlocks
           /\ \A i, j \in 1 .. Len(blocks) : i < j => blocks[i] < blocks[j]
           /\ OwnedBlocks = UNION {BlocksOf(d) : d \in Directories}
           /\ OwnedBlocks \subseteq block_bitmap \ SetBitmap_block
           /\ SetBitmap_block \subseteq block_bitmap
<1>1. Fresh(blocks) /\ Len(blocks) \in 0 .. DIR_BLOCKS
  BY GotFresh
<1>2. /\ blocks \in Seq(BlockNumbers)
      /\ \A i \in 1 .. Len(blocks) : blocks[i] \in FreeBlocks
      /\ \A i, j \in 1 .. Len(blocks) : i < j => blocks[i] < blocks[j]
  BY <1>1 DEF Fresh
<1>3. \A i \in 1 .. Len(blocks) : blocks[i] \in Range(blocks)
  BY <1>2, RangeOf
<1>4. Changing /\ Calling /\ pending = <<>> /\ half = {}
  BY DEF New, Changing, Calling
<1>5. /\ OwnedBlocks = UNION {BlocksOf(d) : d \in Directories}
      /\ OwnedBlocks \subseteq block_bitmap \ SetBitmap_block
  BY <1>4, IdleFacts
<1>6. SetBitmap_block \subseteq block_bitmap
  BY <1>4 DEF TreeInv, ReservedInv
<1>7. OwnedBlocks = OtherBlocks(n)
  <2>1. n \notin Directories
    BY NewFacts
  <2> QED BY <1>5, <2>1 DEF OtherBlocks
<1>8. \A i \in 1 .. Len(blocks) :
          /\ blocks[i] \in BlockNumbers /\ blocks[i] \notin block_bitmap
          /\ blocks[i] \notin OwnedBlocks /\ blocks[i] + 1 \notin OwnedBlocks
  <2> TAKE i \in 1 .. Len(blocks)
  <2>1. blocks[i] \in BlockNumbers /\ blocks[i] \notin block_bitmap
    BY <1>2 DEF FreeBlocks
  <2>2. blocks[i] + 1 \notin OtherBlocks(n)
    BY <1>3 DEF NeighbourBound
  <2> QED BY <1>5, <1>7, <2>1, <2>2
<1> QED BY <1>1, <1>2, <1>3, <1>5, <1>6, <1>8

StartWrites(s, x, blocks, m) ==
    /\ s[1].to = "inode_bitmap" /\ s[1].bits = x
    /\ s[2].to = "entry"
    /\ \A i \in 1 .. m :
          /\ s[2 * i + 1].to = "block_bitmap"
          /\ s[2 * i + 1].bits = block_bitmap \cup Taken(blocks, i)
          /\ s[2 * i + 2].to = "block" /\ s[2 * i + 2].number = blocks[i]
          /\ s[2 * i + 2].entries[0].type = {0}

\* What the writes carry up to the initialisation of the blocks.
LEMMA StartKinds ==
    ASSUME NEW s, NEW x, NEW f, NEW e, NEW blocks, NEW m \in Nat,
           IsStart(s, WriteInodeBitmap(x), WriteEntry(f, e), blocks, m)
    PROVE  StartWrites(s, x, blocks, m)
<1>1. s[1] = WriteInodeBitmap(x) /\ s[2] = WriteEntry(f, e)
  BY DEF IsStart
<1>2. s[1].to = "inode_bitmap" /\ s[1].bits = x /\ s[2].to = "entry"
  BY <1>1 DEF WriteInodeBitmap, WriteEntry
<1>3. [Empty EXCEPT ![0] = Header][0].type = {0}
  <2>1. [Empty EXCEPT ![0] = Header][0] = Header
    BY ConstantFacts, EmptyType DEF BlockType
  <2> QED BY <2>1 DEF Header
<1>4. ASSUME NEW i \in 1 .. m
      PROVE  /\ s[2 * i + 1].to = "block_bitmap"
             /\ s[2 * i + 1].bits = block_bitmap \cup Taken(blocks, i)
             /\ s[2 * i + 2].to = "block" /\ s[2 * i + 2].number = blocks[i]
             /\ s[2 * i + 2].entries[0].type = {0}
  <2>1. PICK y, z : y = s[2 * i + 1] /\ z = s[2 * i + 2]
    OBVIOUS
  <2>2. y = WriteBlockBitmap(block_bitmap \cup Taken(blocks, i))
        /\ z = WriteBlock(blocks[i], [Empty EXCEPT ![0] = Header])
    BY <2>1 DEF IsStart
  <2>3. PICK g : g = [Empty EXCEPT ![0] = Header]
    OBVIOUS
  <2>4. y.to = "block_bitmap" /\ y.bits = block_bitmap \cup Taken(blocks, i)
        /\ z.to = "block" /\ z.number = blocks[i] /\ z.entries = g
    BY <2>2, <2>3 DEF WriteBlockBitmap, WriteBlock
  <2> QED BY <1>3, <2>1, <2>3, <2>4
<1> QED BY <1>2, <1>4 DEF StartWrites

\* The places of these writes.
LEMMA StartCases ==
    ASSUME NEW m \in Nat, NEW j \in 1 .. 2 * m + 2
    PROVE  j = 1 \/ j = 2 \/ \E i \in 1 .. m : j = 2 * i + 1 \/ j = 2 * i + 2
<1>1. CASE j > 2
  <2>1. PICK x : x = j - 2
    OBVIOUS
  <2>2. x \in 1 .. 2 * m
    BY <1>1, <2>1
  <2>3. PICK i \in 1 .. m : x = 2 * i - 1 \/ x = 2 * i
    BY <2>2, PairOf
  <2>4. j = 2 * i + 1 \/ j = 2 * i + 2
    BY <2>1, <2>3
  <2> QED BY <2>4
<1> QED BY <1>1

\* The places of the writes of a mkdir that fails.
LEMMA FailedCases ==
    ASSUME NEW m \in Nat, NEW j \in 1 .. 4 * m + 6
    PROVE  \/ j = 1 \/ j = 2 \/ j = 2 * m + 3 \/ j = 2 * m + 4
           \/ \E i \in 1 .. m : j = 2 * i + 1 \/ j = 2 * i + 2
           \/ \E i \in 1 .. m + 1 : j = 2 * m + 3 + 2 * i \/ j = 2 * m + 4 + 2 * i
<1>1. CASE j \in 1 .. 2 * m + 2
  BY <1>1, StartCases
<1>2. CASE j > 2 * m + 4
  <2>1. PICK x, l : x = j - (2 * m + 4) /\ l = m + 1
    OBVIOUS
  <2>2. l \in Nat /\ x \in 1 .. 2 * l
    BY <1>2, <2>1
  <2>3. PICK i \in 1 .. l : x = 2 * i - 1 \/ x = 2 * i
    BY <2>2, PairOf
  <2>4. j = 2 * m + 3 + 2 * i \/ j = 2 * m + 4 + 2 * i
    BY <2>1, <2>3
  <2> QED BY <2>1, <2>4
<1> QED BY <1>1, <1>2

FailedWrites(s, blocks, m, n, freed) ==
    /\ s[2 * m + 3].to = "free_half" /\ s[2 * m + 3].number = n
    /\ s[2 * m + 4].to = "inode_bitmap" /\ s[2 * m + 4].bits = inode_bitmap \ {n}
    /\ \A i \in 1 .. m + 1 :
          /\ s[2 * m + 3 + 2 * i].to = "block_bitmap"
          /\ s[2 * m + 3 + 2 * i].bits = (block_bitmap \cup Range(blocks)) \ Taken(freed, i)
          /\ s[2 * m + 4 + 2 * i].to = "block" /\ s[2 * m + 4 + 2 * i].number = freed[i]

\* What the writes of a mkdir that fails carry after these.
LEMMA FailedKinds ==
    ASSUME NEW s, NEW x, NEW f, NEW e, NEW blocks, NEW m \in Nat, NEW n, NEW freed,
           IsFailed(s, WriteInodeBitmap(x), WriteEntry(f, e), blocks, m, n, freed)
    PROVE  FailedWrites(s, blocks, m, n, freed)
<1>1. /\ s[2 * m + 3] = [to |-> "free_half", number |-> n]
      /\ s[2 * m + 4] = WriteInodeBitmap(inode_bitmap \ {n})
  BY DEF IsFailed
<1>2. ASSUME NEW i \in 1 .. m + 1
      PROVE  /\ s[2 * m + 3 + 2 * i].to = "block_bitmap"
             /\ s[2 * m + 3 + 2 * i].bits = (block_bitmap \cup Range(blocks)) \ Taken(freed, i)
             /\ s[2 * m + 4 + 2 * i].to = "block" /\ s[2 * m + 4 + 2 * i].number = freed[i]
  <2>1. PICK y, z : y = s[2 * m + 3 + 2 * i] /\ z = s[2 * m + 4 + 2 * i]
    OBVIOUS
  <2>2. y = WriteBlockBitmap((block_bitmap \cup Range(blocks)) \ Taken(freed, i))
        /\ z = WriteBlock(freed[i], Empty)
    BY <2>1 DEF IsFailed
  <2>3. y.to = "block_bitmap" /\ y.bits = (block_bitmap \cup Range(blocks)) \ Taken(freed, i)
        /\ z.to = "block" /\ z.number = freed[i]
    BY <2>2 DEF WriteBlockBitmap, WriteBlock
  <2> QED BY <2>1, <2>3
<1>3. /\ s[2 * m + 3].to = "free_half" /\ s[2 * m + 3].number = n
  BY <1>1
<1>4. s[2 * m + 4].to = "inode_bitmap" /\ s[2 * m + 4].bits = inode_bitmap \ {n}
  BY <1>1 DEF WriteInodeBitmap
<1> QED BY <1>2, <1>3, <1>4 DEF FailedWrites

\* What holds of a mkdir that damages nothing.
LEMMA MakeDirFacts ==
    ASSUME NEW name, MakeDir(name), damage' = {}
    PROVE  /\ New(name) /\ Changing /\ NeighbourBound(Range(GotBlocks), Alloc_inode)
           /\ Puts(MakeDirWrites(name)) /\ half = {} /\ EmptyIndex < EntriesPerSector
<1>1. PICK h, o : h = Hides(EmptyIndex) /\ o = Overlaps(Range(GotBlocks), Alloc_inode)
  OBVIOUS
<1>2. New(name) /\ Pend(MakeDirWrites(name), h \cup o)
  BY <1>1 DEF MakeDir
<1>3. Puts(MakeDirWrites(name)) /\ h \cup o = {} /\ half = {}
  BY <1>2, PendFacts
<1>4. h = {} /\ o = {}
  BY <1>3
<1> QED BY <1>1, <1>2, <1>3, <1>4, HarmFacts DEF New, Changing

\* A call of mkdir that does not get all blocks keeps the invariant.
LEMMA MakeDirFails ==
    ASSUME TypeInv, TypeInv', TreeInv, NEW name \in FileNames, MakeDir(name), damage' = {},
           Len(GotBlocks) # DIR_BLOCKS
    PROVE  TreeInv' /\ TreeKept
<1>1. PICK n, blocks, s, e : /\ n = Alloc_inode /\ blocks = GotBlocks /\ s = MakeDirWrites(name)
                             /\ e = WithEntry(n, FILETYPE_DIR, name)
  OBVIOUS
<1>2. /\ New(name) /\ Changing /\ NeighbourBound(Range(blocks), n) /\ Puts(s) /\ pending' = s
      /\ half = {} /\ EmptyIndex < EntriesPerSector
  BY <1>1, MakeDirFacts DEF Puts
<1>3. PICK m, freed : m = Len(blocks) /\ freed = <<NIL>> \o Reverse(blocks)
  OBVIOUS
<1>4. /\ blocks \in Seq(BlockNumbers) /\ m \in Nat
      /\ \A i \in 1 .. m :
            /\ blocks[i] \in BlockNumbers /\ blocks[i] \in Range(blocks)
            /\ blocks[i] \notin block_bitmap
            /\ blocks[i] \notin OwnedBlocks /\ blocks[i] + 1 \notin OwnedBlocks
      /\ OwnedBlocks = UNION {BlocksOf(d) : d \in Directories}
      /\ OwnedBlocks \subseteq block_bitmap \ SetBitmap_block
      /\ SetBitmap_block \subseteq block_bitmap
  BY <1>1, <1>2, <1>3, GotFacts
<1>5. /\ n \in Inodes /\ n \notin inode_bitmap /\ n \notin {INODE_ENTRY_BIT, INODE_ROOTDIR}
      /\ n \notin Directories /\ \A p \in Slots : InodeOf(p) # n
  BY <1>1, <1>2, NewFacts
<1>6. IsFailed(s, WriteInodeBitmap(inode_bitmap \cup {n}), WriteEntry(RoomBlock, e), blocks, m, n, freed)
  <2>1. NIL \in block_bitmap
    BY <1>4, FileSystemAssumption DEF NIL, SetBitmap_block
  <2> QED BY <1>1, <1>2, <1>3, <2>1, FailedIndex
<1>7. /\ Len(s) = 4 * m + 6
      /\ IsStart(s, WriteInodeBitmap(inode_bitmap \cup {n}), WriteEntry(RoomBlock, e), blocks, m)
  BY <1>6 DEF IsFailed
<1>8. /\ s[1].to = "inode_bitmap" /\ s[1].bits = inode_bitmap \cup {n}
      /\ s[2].to = "entry"
      /\ \A i \in 1 .. m :
            /\ s[2 * i + 1].to = "block_bitmap"
            /\ s[2 * i + 1].bits = block_bitmap \cup Taken(blocks, i)
            /\ s[2 * i + 2].to = "block" /\ s[2 * i + 2].number = blocks[i]
  <2>1. StartWrites(s, inode_bitmap \cup {n}, blocks, m)
    BY <1>4, <1>7, StartKinds
  <2> QED BY <2>1 DEF StartWrites
<1>9. /\ s[2 * m + 3].to = "free_half" /\ s[2 * m + 3].number = n
      /\ s[2 * m + 4].to = "inode_bitmap" /\ s[2 * m + 4].bits = inode_bitmap \ {n}
      /\ \A i \in 1 .. m + 1 :
            /\ s[2 * m + 3 + 2 * i].to = "block_bitmap"
            /\ s[2 * m + 3 + 2 * i].bits = (block_bitmap \cup Range(blocks)) \ Taken(freed, i)
            /\ s[2 * m + 4 + 2 * i].to = "block" /\ s[2 * m + 4 + 2 * i].number = freed[i]
  <2>1. m \in Nat
    BY <1>4
  <2>2. FailedWrites(s, blocks, m, n, freed)
    BY <1>6, <2>1, FailedKinds
  <2> QED BY <2>2 DEF FailedWrites
\* Which writes are of which kind.
<1>10. PICK h, z, l : h = 2 * m + 3 /\ z = 2 * m + 4 /\ l = 4 * m + 6
  OBVIOUS
<1>11. h \in Nat /\ z = h + 1 /\ l \in Nat /\ h > 2 /\ z > 2 /\ l >= z /\ l > 2
  BY <1>4, <1>10
<1>12. Steps' = 1 .. l
  BY <1>2, <1>7, <1>10 DEF Steps
<1>13. \A kind : StepsTo(kind)' = {j \in 1 .. l : s[j].to = kind}
  BY <1>2, <1>12 DEF StepsTo
<1>14. \A j \in 1 .. l :
           \/ j = 1 /\ s[j].to = "inode_bitmap"
           \/ j = 2 /\ s[j].to = "entry"
           \/ j = h /\ s[j].to = "free_half"
           \/ j = z /\ s[j].to = "inode_bitmap"
           \/ s[j].to = "block_bitmap" /\ \E i \in 1 .. m : j = 2 * i + 1
           \/ s[j].to = "block" /\ \E i \in 1 .. m : j = 2 * i + 2
           \/ s[j].to = "block_bitmap" /\ \E i \in 1 .. m + 1 : j = h + 2 * i
           \/ s[j].to = "block" /\ \E i \in 1 .. m + 1 : j = z + 2 * i
  <2> TAKE j \in 1 .. l
  <2>1. ASSUME NEW i \in 1 .. m, j = 2 * i + 1 \/ j = 2 * i + 2
        PROVE  \/ s[j].to = "block_bitmap" /\ j = 2 * i + 1
               \/ s[j].to = "block" /\ j = 2 * i + 2
    BY <1>8, <2>1
  <2>2. ASSUME NEW i \in 1 .. m + 1, j = 2 * m + 3 + 2 * i \/ j = 2 * m + 4 + 2 * i
        PROVE  \/ s[j].to = "block_bitmap" /\ j = h + 2 * i
               \/ s[j].to = "block" /\ j = z + 2 * i
    BY <1>9, <1>10, <2>2
  <2>3. j \in 1 .. 4 * m + 6
    BY <1>10
  <2>4. \/ j = 1 \/ j = 2 \/ j = 2 * m + 3 \/ j = 2 * m + 4
        \/ \E i \in 1 .. m : j = 2 * i + 1 \/ j = 2 * i + 2
        \/ \E i \in 1 .. m + 1 : j = 2 * m + 3 + 2 * i \/ j = 2 * m + 4 + 2 * i
    BY <1>4, <2>3, FailedCases
  <2>5. s[h].to = "free_half" /\ s[z].to = "inode_bitmap"
    BY <1>9, <1>10
  <2> QED BY <1>8, <1>10, <2>1, <2>2, <2>4, <2>5
<1>15. /\ StepsTo("inode")' = {} /\ StepsTo("formatted")' = {}
       /\ StepsTo("entry")' = {2} /\ StepsTo("free_half")' = {h}
       /\ \A j \in StepsTo("inode_bitmap")' : j = 1 \/ j = z
       /\ \A j \in StepsTo("block_bitmap")' :
             (\E i \in 1 .. m : j = 2 * i + 1) \/ (\E i \in 1 .. m + 1 : j = h + 2 * i)
       /\ \A j \in StepsTo("block")' :
             (\E i \in 1 .. m : j = 2 * i + 2) \/ (\E i \in 1 .. m + 1 : j = z + 2 * i)
  <2>1. StepsTo("inode")' = {} /\ StepsTo("formatted")' = {}
    BY <1>13, <1>14
  <2>2. 2 \in 1 .. l /\ h \in 1 .. l
    BY <1>11
  <2>3. \A j \in 1 .. l : /\ s[j].to = "entry" => j = 2
                          /\ s[j].to = "free_half" => j = h
                          /\ s[j].to = "inode_bitmap" => j = 1 \/ j = z
                          /\ s[j].to = "block_bitmap" =>
                               (\E i \in 1 .. m : j = 2 * i + 1) \/ (\E i \in 1 .. m + 1 : j = h + 2 * i)
                          /\ s[j].to = "block" =>
                               (\E i \in 1 .. m : j = 2 * i + 2) \/ (\E i \in 1 .. m + 1 : j = z + 2 * i)
    BY <1>14
  <2>4. s[2].to = "entry" /\ s[h].to = "free_half"
    BY <1>8, <1>9, <1>10
  <2>5. StepsTo("entry")' = {2} /\ StepsTo("free_half")' = {h}
    BY <1>13, <2>2, <2>3, <2>4
  <2>6. \A j \in StepsTo("inode_bitmap")' : j = 1 \/ j = z
    BY <1>13, <2>3
  <2>7. \A j \in StepsTo("block_bitmap")' :
             (\E i \in 1 .. m : j = 2 * i + 1) \/ (\E i \in 1 .. m + 1 : j = h + 2 * i)
    BY <1>13, <2>3
  <2>8. \A j \in StepsTo("block")' :
             (\E i \in 1 .. m : j = 2 * i + 2) \/ (\E i \in 1 .. m + 1 : j = z + 2 * i)
    BY <1>13, <2>3
  <2> QED BY <2>1, <2>5, <2>6, <2>7, <2>8
<1>16. Building' = {n} /\ Coming' = {}
  <2>1. Building' = {pending'[x].number : x \in StepsTo("inode")' \cup StepsTo("free_half")'}
    BY DEF Building, StepsTo, Steps
  <2>2. pending'[h].number = n
    BY <1>2, <1>9, <1>10
  <2> QED BY <1>15, <2>1, <2>2 DEF Coming
\* What is after the inode is given up.
<1>17. \A j \in Steps' : Freed(j)' <=> j > h
  <2> TAKE j \in Steps'
  <2>1. ASSUME Freed(j)'
        PROVE  j > h
    <3>1. PICK i \in 1 .. j - 1 : pending'[i].to = "free_half"
      BY <2>1 DEF Freed
    <3>2. i \in Steps'
      BY <1>11, <1>12
    <3>3. i \in StepsTo("free_half")'
      BY <1>2, <1>12, <1>13, <3>1, <3>2
    <3>4. i = h
      BY <1>15, <3>3
    <3> QED BY <1>11, <1>12, <3>1, <3>4
  <2>2. ASSUME j > h
        PROVE  Freed(j)'
    <3>1. h \in 1 .. j - 1
      BY <1>11, <1>12, <2>2
    <3>2. pending'[h].to = "free_half"
      BY <1>2, <1>9, <1>10
    <3> QED BY <3>1, <3>2 DEF Freed
  <2> QED BY <2>1, <2>2
<1>18. /\ TreeKept /\ half = {} /\ half' = {} /\ inode_NowDir' = inode_NowDir
       /\ block_bitmap' = block_bitmap /\ inode_bitmap' = inode_bitmap
  BY <1>2, <1>5, <1>16, PendKeeps
<1>19. EntryStep(2)' /\ Gone' = {}
  <2>1. \A i \in StepsTo("inode_bitmap")' : n \in pending'[i].bits \/ (i > 2 /\ Freed(i)')
    <3> TAKE i \in StepsTo("inode_bitmap")'
    <3>1. CASE i = 1
      BY <1>2, <1>8, <3>1
    <3>2. CASE i = z
      <4>1. z > h /\ z \in Steps'
        BY <1>11, <1>12
      <4> QED BY <1>11, <1>17, <3>2, <4>1
    <3> QED BY <1>15, <3>1, <3>2
  <2>2. \A i \in StepsTo("inode")' : FILETYPE_DIR = FILETYPE_DIR <=> pending'[i].inode.links = DIR_BLOCKS
    BY <1>15
  <2>3. Len(s) > 2
    BY <1>7, <1>10, <1>11
  <2>4. FILETYPE_DIR \in {FILETYPE_FILE, FILETYPE_DIR}
    OBVIOUS
  <2>5. /\ s[1] = WriteInodeBitmap(inode_bitmap \cup {n})
        /\ s[2] = WriteEntry(RoomBlock, WithEntry(n, FILETYPE_DIR, name))
    BY <1>1, <1>7 DEF IsStart
  <2> QED BY <1>1, <1>2, <1>15, <1>16, <2>1, <2>2, <2>3, <2>4, <2>5, NewEntry
<1>20. OwnedBlocks' = OwnedBlocks
  BY <1>4, <1>18, <1>19 DEF OwnedBlocks, TreeKept
\* The blocks that are given back, NIL among them.
<1>21. \A i \in 1 .. m + 1 : /\ freed[i] = NIL \/ \E x \in 1 .. m : freed[i] = blocks[x]
                             /\ freed[i] \notin OwnedBlocks /\ freed[i] + 1 \notin OwnedBlocks
  <2>1. Len(freed) = m + 1 /\ \A i \in 1 .. m + 1 : freed[i] = NIL \/ freed[i] \in Range(blocks)
    <3>1. /\ Len(freed) = Len(blocks) + 1
          /\ \A i \in 1 .. Len(freed) : freed[i] = NIL \/ freed[i] \in Range(blocks)
      BY <1>3, <1>4, FreedFacts
    <3> QED BY <1>3, <3>1
  <2>2. \A b \in Range(blocks) : \E x \in 1 .. m : blocks[x] = b
    BY <1>3, <1>4, RangeOf
  <2>3. NIL \notin OwnedBlocks /\ NIL + 1 \notin OwnedBlocks
    <3>1. NIL \in SetBitmap_block /\ NIL + 1 \in SetBitmap_block
      BY FileSystemAssumption DEF NIL, SetBitmap_block
    <3> QED BY <1>4, <3>1
  <2> QED BY <1>4, <2>1, <2>2, <2>3
<1>22. \A i \in 1 .. m + 1 : OwnedBlocks \cap Taken(freed, i) = {}
  <2>1. \A i \in 1 .. m + 1 : \A x \in 1 .. i : x \in 1 .. m + 1
    BY <1>4
  <2> QED BY <1>21, <2>1 DEF Taken
<1>23. \A j \in StepsTo("block_bitmap")' :
           BlockBitsStep(j)' /\ (SetBitmap_block \subseteq pending'[j].bits \/ Freed(j)')
  <2> TAKE j \in StepsTo("block_bitmap")'
  <2>1. CASE \E i \in 1 .. m : j = 2 * i + 1
    <3>1. block_bitmap \subseteq pending'[j].bits
      BY <1>2, <1>8, <2>1
    <3> QED BY <1>4, <1>20, <3>1 DEF BlockBitsStep
  <2>2. CASE \E i \in 1 .. m + 1 : j = h + 2 * i
    <3>1. PICK i \in 1 .. m + 1 : j = h + 2 * i
      BY <2>2
    <3>2. pending'[j].bits = (block_bitmap \cup Range(blocks)) \ Taken(freed, i)
      BY <1>2, <1>9, <1>10, <3>1
    <3>3. OwnedBlocks \subseteq pending'[j].bits
      BY <1>4, <1>22, <3>2
    <3>4. Freed(j)'
      <4>1. j \in Steps' /\ j > h
        BY <1>4, <1>11, <1>12, <1>13, <3>1
      <4> QED BY <1>17, <4>1
    <3> QED BY <1>20, <3>3, <3>4 DEF BlockBitsStep
  <2> QED BY <1>15, <2>1, <2>2
<1>24. \A j \in StepsTo("block")' : BlockStep(j)'
  <2> TAKE j \in StepsTo("block")'
  <2>1. CASE \E i \in 1 .. m : j = 2 * i + 2
    <3>1. PICK i \in 1 .. m : j = 2 * i + 2
      BY <2>1
    <3>2. pending'[j].number = blocks[i]
      BY <1>2, <1>8, <3>1
    <3> QED BY <1>4, <1>20, <3>2 DEF BlockStep
  <2>2. CASE \E i \in 1 .. m + 1 : j = z + 2 * i
    <3>1. PICK i \in 1 .. m + 1 : j = z + 2 * i
      BY <2>2
    <3>2. pending'[j].number = freed[i]
      BY <1>2, <1>9, <1>10, <3>1
    <3> QED BY <1>20, <1>21, <3>2 DEF BlockStep
  <2> QED BY <1>15, <2>1, <2>2
<1>25. \A j \in StepsTo("inode_bitmap")' :
           InodeBitsStep(j)' /\ {INODE_ENTRY_BIT, INODE_ROOTDIR} \subseteq pending'[j].bits
  <2> TAKE j \in StepsTo("inode_bitmap")'
  <2>1. \A p \in Slots' : InodeOf(p)' \in inode_bitmap /\ InodeOf(p)' # n
    <3>1. \A p \in Slots : InodeOf(p) \in inode_bitmap
      BY <1>2, <1>18, IdleFacts DEF Changing, Calling
    <3> QED BY <1>5, <1>18, <3>1 DEF TreeKept
  <2>2. {INODE_ENTRY_BIT, INODE_ROOTDIR} \subseteq inode_bitmap
    BY DEF TreeInv, ReservedInv
  <2>3. inode_bitmap \ {n} \subseteq pending'[j].bits
    BY <1>2, <1>8, <1>9, <1>10, <1>15
  <2> QED BY <1>5, <2>1, <2>2, <2>3 DEF InodeBitsStep
<1>26. \A j \in Steps' : half' # {} \/ Freed(j)' =>
           pending'[j].to \in {"block_bitmap", "block", "inode_bitmap"}
  <2> SUFFICES ASSUME NEW j \in Steps', Freed(j)'
               PROVE  pending'[j].to \in {"block_bitmap", "block", "inode_bitmap"}
    BY <1>18
  <2>1. j > h /\ j \in 1 .. l
    BY <1>12, <1>17
  <2>2. j # 2 /\ j # h
    BY <1>11, <2>1
  <2> QED BY <1>2, <1>14, <2>1, <2>2
<1>27. StepInv'
  BY <1>15, <1>19, <1>23, <1>24, <1>25, <1>26 DEF StepInv
<1>28. ExactInv'
  BY <1>15 DEF ExactInv
<1>29. Building' \cap inode_bitmap = {} /\ inode_NowDir \notin Gone'
  BY <1>5, <1>16, <1>19
<1> QED BY <1>2, <1>23, <1>25, <1>27, <1>28, <1>29, PendTree

\* The places of the writes of a mkdir that succeeds.
LEMMA MadeCases ==
    ASSUME NEW m \in Nat, NEW j \in 1 .. 2 * m + 3
    PROVE  j = 1 \/ j = 2 \/ j = 2 * m + 3 \/ \E i \in 1 .. m : j = 2 * i + 1 \/ j = 2 * i + 2
<1>1. CASE j \in 1 .. 2 * m + 2
  BY <1>1, StartCases
<1> QED BY <1>1

\* A call of mkdir that gets all blocks keeps the invariant.
LEMMA MakeDirSucceeds ==
    ASSUME TypeInv, TypeInv', TreeInv, NEW name \in FileNames, MakeDir(name), damage' = {},
           Len(GotBlocks) = DIR_BLOCKS
    PROVE  TreeInv' /\ TreeKept
<1>1. PICK n, blocks, s, e, c :
          /\ n = Alloc_inode /\ blocks = GotBlocks /\ s = MakeDirWrites(name)
          /\ e = WithEntry(n, FILETYPE_DIR, name)
          /\ c = WriteInode(n, [links |-> DIR_BLOCKS, block |-> blocks])
  OBVIOUS
<1>2. /\ New(name) /\ Changing /\ NeighbourBound(Range(blocks), n) /\ Puts(s) /\ pending' = s
      /\ half = {} /\ EmptyIndex < EntriesPerSector
  BY <1>1, MakeDirFacts DEF Puts
<1>3. PICK m : m = Len(blocks)
  OBVIOUS
<1>4. /\ blocks \in Seq(BlockNumbers) /\ m \in Nat /\ m = DIR_BLOCKS /\ m > 0
      /\ \A i \in 1 .. m :
            /\ blocks[i] \in BlockNumbers /\ blocks[i] \in Range(blocks)
            /\ blocks[i] \notin block_bitmap
            /\ blocks[i] \notin OwnedBlocks /\ blocks[i] + 1 \notin OwnedBlocks
      /\ \A i, j \in 1 .. m : i < j => blocks[i] < blocks[j]
      /\ OwnedBlocks = UNION {BlocksOf(d) : d \in Directories}
      /\ OwnedBlocks \subseteq block_bitmap \ SetBitmap_block
      /\ SetBitmap_block \subseteq block_bitmap
  <2>1. m = DIR_BLOCKS /\ m \in Nat /\ m > 0
    BY <1>1, <1>3, ConstantFacts
  <2>2. /\ blocks \in Seq(BlockNumbers)
        /\ \A i \in 1 .. Len(blocks) :
              /\ blocks[i] \in BlockNumbers /\ blocks[i] \in Range(blocks)
              /\ blocks[i] \notin block_bitmap
              /\ blocks[i] \notin OwnedBlocks /\ blocks[i] + 1 \notin OwnedBlocks
        /\ \A i, j \in 1 .. Len(blocks) : i < j => blocks[i] < blocks[j]
        /\ OwnedBlocks = UNION {BlocksOf(d) : d \in Directories}
        /\ OwnedBlocks \subseteq block_bitmap \ SetBitmap_block
        /\ SetBitmap_block \subseteq block_bitmap
    BY <1>1, <1>2, GotFacts
  <2> QED BY <1>3, <2>1, <2>2
<1>5. /\ n \in Inodes /\ n \notin inode_bitmap /\ n \notin {INODE_ENTRY_BIT, INODE_ROOTDIR}
      /\ n \notin Directories /\ \A p \in Slots : InodeOf(p) # n
  BY <1>1, <1>2, NewFacts
<1>6. IsMade(s, WriteInodeBitmap(inode_bitmap \cup {n}), WriteEntry(RoomBlock, e), c, blocks, m)
  BY <1>1, <1>2, <1>3, <1>4, MadeIndex
<1>7. /\ Len(s) = 2 * m + 3 /\ s[2 * m + 3] = c
      /\ IsStart(s, WriteInodeBitmap(inode_bitmap \cup {n}), WriteEntry(RoomBlock, e), blocks, m)
  BY <1>6 DEF IsMade
<1>8. /\ s[1].to = "inode_bitmap" /\ s[1].bits = inode_bitmap \cup {n}
      /\ s[2].to = "entry"
      /\ \A i \in 1 .. m :
            /\ s[2 * i + 1].to = "block_bitmap"
            /\ s[2 * i + 1].bits = block_bitmap \cup Taken(blocks, i)
            /\ s[2 * i + 2].to = "block" /\ s[2 * i + 2].number = blocks[i]
            /\ s[2 * i + 2].entries[0].type = {0}
  <2>1. m \in Nat
    BY <1>4
  <2>2. StartWrites(s, inode_bitmap \cup {n}, blocks, m)
    BY <1>7, <2>1, StartKinds
  <2> QED BY <2>2 DEF StartWrites
<1>9. c.to = "inode" /\ c.number = n /\ c.inode.links = DIR_BLOCKS /\ c.inode.block = blocks
  BY <1>1 DEF WriteInode
\* Which writes are of which kind.
<1>10. PICK l : l = 2 * m + 3
  OBVIOUS
<1>11. l \in Nat /\ l > 4 /\ s[l] = c
  BY <1>4, <1>7, <1>10
<1>12. Steps' = 1 .. l
  BY <1>2, <1>7, <1>10 DEF Steps
<1>13. \A kind : StepsTo(kind)' = {j \in 1 .. l : s[j].to = kind}
  BY <1>2, <1>12 DEF StepsTo
<1>14. \A j \in 1 .. l :
           \/ j = 1 /\ s[j].to = "inode_bitmap"
           \/ j = 2 /\ s[j].to = "entry"
           \/ j = l /\ s[j].to = "inode"
           \/ s[j].to = "block_bitmap" /\ \E i \in 1 .. m : j = 2 * i + 1
           \/ s[j].to = "block" /\ \E i \in 1 .. m : j = 2 * i + 2
  <2> TAKE j \in 1 .. l
  <2>1. ASSUME NEW i \in 1 .. m, j = 2 * i + 1 \/ j = 2 * i + 2
        PROVE  \/ s[j].to = "block_bitmap" /\ j = 2 * i + 1
               \/ s[j].to = "block" /\ j = 2 * i + 2
    BY <1>8, <2>1
  <2>2. j \in 1 .. 2 * m + 3
    BY <1>10
  <2>3. j = 1 \/ j = 2 \/ j = 2 * m + 3 \/ \E i \in 1 .. m : j = 2 * i + 1 \/ j = 2 * i + 2
    BY <1>4, <2>2, MadeCases
  <2>4. s[l].to = "inode"
    BY <1>9, <1>11
  <2> QED BY <1>8, <1>10, <2>1, <2>3, <2>4
<1>15. /\ StepsTo("inode")' = {l} /\ StepsTo("formatted")' = {} /\ StepsTo("free_half")' = {}
       /\ StepsTo("entry")' = {2} /\ StepsTo("inode_bitmap")' = {1}
       /\ \A j \in StepsTo("block_bitmap")' : \E i \in 1 .. m : j = 2 * i + 1
       /\ \A j \in StepsTo("block")' : \E i \in 1 .. m : j = 2 * i + 2
       /\ \A i \in 1 .. m : 2 * i + 1 \in StepsTo("block_bitmap")' /\ 2 * i + 2 \in StepsTo("block")'
  <2>1. StepsTo("free_half")' = {} /\ StepsTo("formatted")' = {}
    BY <1>13, <1>14
  <2>2. 1 \in 1 .. l /\ 2 \in 1 .. l /\ l \in 1 .. l
    BY <1>11
  <2>3. \A j \in 1 .. l : /\ s[j].to = "entry" => j = 2
                          /\ s[j].to = "inode" => j = l
                          /\ s[j].to = "inode_bitmap" => j = 1
                          /\ s[j].to = "block_bitmap" => \E i \in 1 .. m : j = 2 * i + 1
                          /\ s[j].to = "block" => \E i \in 1 .. m : j = 2 * i + 2
    BY <1>14
  <2>4. s[1].to = "inode_bitmap" /\ s[2].to = "entry" /\ s[l].to = "inode"
    BY <1>8, <1>9, <1>11
  <2>5. StepsTo("entry")' = {2} /\ StepsTo("inode")' = {l} /\ StepsTo("inode_bitmap")' = {1}
    BY <1>13, <2>2, <2>3, <2>4
  <2>6. \A j \in StepsTo("block_bitmap")' : \E i \in 1 .. m : j = 2 * i + 1
    BY <1>13, <2>3
  <2>7. \A j \in StepsTo("block")' : \E i \in 1 .. m : j = 2 * i + 2
    BY <1>13, <2>3
  <2>8. \A i \in 1 .. m : 2 * i + 1 \in StepsTo("block_bitmap")' /\ 2 * i + 2 \in StepsTo("block")'
    <3> TAKE i \in 1 .. m
    <3>1. PICK x, y : x = 2 * i + 1 /\ y = 2 * i + 2
      OBVIOUS
    <3>2. x \in 1 .. l /\ y \in 1 .. l
      BY <1>4, <1>10, <3>1
    <3>3. s[x].to = "block_bitmap" /\ s[y].to = "block"
      BY <1>8, <3>1
    <3>4. x \in StepsTo("block_bitmap")' /\ y \in StepsTo("block")'
      BY <1>13, <3>2, <3>3
    <3> QED BY <3>1, <3>4
  <2> QED BY <2>1, <2>5, <2>6, <2>7, <2>8
<1>16. Building' = {n} /\ Coming' = Range(blocks)
  <2>1. Building' = {pending'[x].number : x \in StepsTo("inode")' \cup StepsTo("free_half")'}
    BY DEF Building, StepsTo, Steps
  <2>2. pending'[l] = c
    BY <1>2, <1>11
  <2>3. {i \in StepsTo("inode")' : pending'[i].inode.links = DIR_BLOCKS} = {l}
    BY <1>9, <1>15, <2>2
  <2>4. Coming' = UNION {Range(pending'[j].inode.block) : j \in {l}}
    BY <2>3 DEF Coming
  <2>5. Coming' = Range(blocks)
    BY <1>9, <2>2, <2>4
  <2> QED BY <1>9, <1>15, <2>1, <2>2, <2>5
<1>17. \A j \in Steps' : ~Freed(j)'
  <2>1. \A j \in Steps' : \A i \in 1 .. j - 1 : i \in 1 .. l
    BY <1>11, <1>12
  <2> QED BY <1>2, <1>14, <2>1 DEF Freed
<1>18. /\ TreeKept /\ half = {} /\ half' = {} /\ inode_NowDir' = inode_NowDir
       /\ block_bitmap' = block_bitmap /\ inode_bitmap' = inode_bitmap /\ crashed' = crashed
  BY <1>2, <1>5, <1>16, PendKeeps
<1>19. EntryStep(2)' /\ Gone' = {}
  <2>1. \A i \in StepsTo("inode_bitmap")' : n \in pending'[i].bits \/ (i > 2 /\ Freed(i)')
    BY <1>2, <1>8, <1>15
  <2>2. \A i \in StepsTo("inode")' : FILETYPE_DIR = FILETYPE_DIR <=> pending'[i].inode.links = DIR_BLOCKS
    BY <1>2, <1>9, <1>11, <1>15
  <2>3. Len(s) > 2
    BY <1>7, <1>10, <1>11
  <2>4. FILETYPE_DIR \in {FILETYPE_FILE, FILETYPE_DIR}
    OBVIOUS
  <2>5. /\ s[1] = WriteInodeBitmap(inode_bitmap \cup {n})
        /\ s[2] = WriteEntry(RoomBlock, WithEntry(n, FILETYPE_DIR, name))
    BY <1>1, <1>7 DEF IsStart
  <2> QED BY <1>1, <1>2, <1>15, <1>16, <2>1, <2>2, <2>3, <2>4, <2>5, NewEntry
<1>20. OwnedBlocks' = OwnedBlocks
  BY <1>4, <1>18, <1>19 DEF OwnedBlocks, TreeKept
<1>21. /\ Gone = {} /\ Coming = {} /\ Building = {} /\ InodeBitsAtEnd = inode_bitmap
       /\ BlockBitsAtEnd = block_bitmap /\ StepsTo("free_half") = {}
       /\ \A p \in Slots : InodeOf(p) \in inode_bitmap
  BY <1>2, <1>18, IdleFacts DEF Changing, Calling
<1>22. \A b : b \in Range(blocks) <=> \E i \in 1 .. m : blocks[i] = b
  BY <1>3, <1>4, RangeOf, ZenonT(40)
\* The last write to the bitmap has all the blocks, ...
<1>23. BlockBitsAtEnd' = block_bitmap \cup Range(blocks)
  <2>1. PICK T, x : T = StepsTo("block_bitmap")' /\ x = 2 * m + 1
    OBVIOUS
  <2>2. x \in T /\ T \in SUBSET Nat
    <3>1. m \in 1 .. m
      BY <1>4
    <3>2. 2 * m + 1 \in StepsTo("block_bitmap")'
      BY <1>15, <3>1
    <3>3. T \in SUBSET Nat
      BY <1>13, <2>1
    <3> QED BY <2>1, <3>2, <3>3
  <2>3. \A j \in T : j <= x
    <3> TAKE j \in T
    <3>1. PICK i \in 1 .. m : j = 2 * i + 1
      BY <1>15, <2>1
    <3> QED BY <1>4, <2>1, <3>1
  <2>4. LastIn(T) = x
    BY <2>2, <2>3, LastIs
  <2>5. BlockBitsAtEnd' = s[LastIn(T)].bits
    BY <1>2, <2>1, <2>2 DEF BlockBitsAtEnd, LastIn
  <2>6. s[x].bits = block_bitmap \cup Taken(blocks, m)
    <3>1. m \in 1 .. m
      BY <1>4
    <3> QED BY <1>8, <2>1, <3>1
  <2>7. Taken(blocks, m) = Range(blocks)
    BY <1>22 DEF Taken
  <2> QED BY <2>4, <2>5, <2>6, <2>7
\* ... and each block keeps the header it was given: the next one has a greater number.
<1>24. ASSUME NEW i \in 1 .. m
       PROVE  HeaderAtEnd(blocks[i])' = {0}
  <2>1. PICK b, x, T : b = blocks[i] /\ x = 2 * i + 2 /\ T = Touches(b)'
    OBVIOUS
  <2>2. /\ T = {j \in StepsTo("block")' \cup StepsTo("entry")' :
                   b = pending'[j].number \/ b = pending'[j].number + 1}
    BY <2>1 DEF Touches
  <2>3. pending'[x] = s[x] /\ s[x].number = b /\ s[x].entries[0].type = {0}
    BY <1>2, <1>8, <2>1
  <2>4. x \in T
    BY <1>15, <2>1, <2>2, <2>3
  <2>5. \A j \in T : j \in Nat /\ j <= x
    <3> TAKE j \in T
    <3>1. CASE j = 2
      BY <2>1, <3>1
    <3>2. CASE j # 2
      <4>1. j \in StepsTo("block")'
        BY <1>15, <2>2, <3>2
      <4>2. PICK k \in 1 .. m : j = 2 * k + 2
        BY <1>15, <4>1
      <4>3. pending'[j].number = blocks[k]
        BY <1>2, <1>8, <4>2
      <4>4. b = blocks[k] \/ b = blocks[k] + 1
        BY <2>2, <4>3
      <4>5. blocks[i] \in Nat /\ blocks[k] \in Nat
        BY <1>4, ConstantFacts
      <4>6. ~(i < k)
        <5>1. i < k => blocks[i] < blocks[k]
          BY <1>4
        <5> QED BY <2>1, <4>4, <4>5, <5>1
      <4> QED BY <1>4, <2>1, <4>2, <4>6
    <3> QED BY <3>1, <3>2
  <2>6. LastIn(T) = x
    BY <2>4, <2>5, LastIs
  <2>7. HeaderAtEnd(b)' = s[x].entries[(b - s[x].number) * EntriesPerSector].type
    <3>1. T # {}
      BY <2>4
    <3>2. HeaderAtEnd(b)' = pending'[LastIn(T)].entries[(b - pending'[LastIn(T)].number) * EntriesPerSector].type
      BY <2>1, <3>1 DEF HeaderAtEnd, LastIn
    <3> QED BY <2>3, <2>6, <3>2
  <2>8. (b - s[x].number) * EntriesPerSector = 0
    <3>1. blocks[i] \in BlockNumbers
      BY <1>4
    <3>2. b \in Nat /\ EntriesPerSector \in Nat
      BY <2>1, <3>1, ConstantFacts
    <3>3. b - b = 0 /\ 0 * EntriesPerSector = 0
      BY <3>2
    <3> QED BY <2>3, <3>3
  <2> QED BY <2>1, <2>3, <2>7, <2>8
<1>25. InodeStep(l)'
  <2>1. /\ l = Len(pending') /\ pending'[l] = c
        /\ StepsTo("entry")' # {} /\ StepsTo("free_half")' = {} /\ half' = {}
    BY <1>2, <1>7, <1>10, <1>11, <1>15, <1>18
  <2>2. n \notin Directories' \cup {INODE_ENTRY_BIT} /\ \A p \in Slots' : InodeOf(p)' # n
    BY <1>5, <1>18 DEF TreeKept
  <2>3. \A i, j \in 1 .. DIR_BLOCKS : blocks[i] = blocks[j] => i = j
    <3> TAKE i, j \in 1 .. DIR_BLOCKS
    <3>1. blocks[i] \in Nat /\ blocks[j] \in Nat
      BY <1>4, ConstantFacts
    <3>2. i < j => blocks[i] < blocks[j]
      BY <1>4
    <3>3. j < i => blocks[j] < blocks[i]
      BY <1>4
    <3> QED BY <1>4, <3>1, <3>2, <3>3
  <2>4. Coming' \cap (OwnedBlocks' \cup SetBitmap_block) = {}
    BY <1>4, <1>16, <1>20, <1>22
  <2>5. Coming' \subseteq BlockBitsAtEnd'
    BY <1>16, <1>23
  <2>6. \A b \in Coming' : HeaderAtEnd(b)' = {0}
    BY <1>16, <1>22, <1>24
  <2>7. \/ c.inode.links = 0
        \/ /\ c.inode.links = DIR_BLOCKS
           /\ \A i, j \in 1 .. DIR_BLOCKS : c.inode.block[i] = c.inode.block[j] => i = j
           /\ Coming' \cap (OwnedBlocks' \cup SetBitmap_block) = {}
           /\ Coming' \subseteq BlockBitsAtEnd'
           /\ \A b \in Coming' : HeaderAtEnd(b)' = {0}
    BY <1>9, <2>3, <2>4, <2>5, <2>6
  <2> QED BY <1>9, <2>1, <2>2, <2>7 DEF InodeStep
<1>26. \A j \in StepsTo("block_bitmap")' :
           BlockBitsStep(j)' /\ SetBitmap_block \subseteq pending'[j].bits
  <2> TAKE j \in StepsTo("block_bitmap")'
  <2>1. PICK i \in 1 .. m : j = 2 * i + 1
    BY <1>15
  <2>2. pending'[j].bits = block_bitmap \cup Taken(blocks, i)
    BY <1>2, <1>8, <2>1
  <2> QED BY <1>4, <1>20, <2>2 DEF BlockBitsStep
<1>27. \A j \in StepsTo("block")' : BlockStep(j)'
  <2> TAKE j \in StepsTo("block")'
  <2>1. PICK i \in 1 .. m : j = 2 * i + 2
    BY <1>15
  <2>2. pending'[j].number = blocks[i]
    BY <1>2, <1>8, <2>1
  <2> QED BY <1>4, <1>20, <2>2 DEF BlockStep
<1>28. \A j \in StepsTo("inode_bitmap")' :
           InodeBitsStep(j)' /\ {INODE_ENTRY_BIT, INODE_ROOTDIR} \subseteq pending'[j].bits
  <2>1. \A p \in Slots' : InodeOf(p)' \in inode_bitmap
    BY <1>18, <1>21 DEF TreeKept
  <2>2. {INODE_ENTRY_BIT, INODE_ROOTDIR} \subseteq inode_bitmap
    BY DEF TreeInv, ReservedInv
  <2>3. \A j \in StepsTo("inode_bitmap")' : inode_bitmap \subseteq pending'[j].bits
    BY <1>2, <1>8, <1>15
  <2> QED BY <2>1, <2>2, <2>3 DEF InodeBitsStep
<1>29. StepInv'
  BY <1>15, <1>17, <1>18, <1>19, <1>25, <1>26, <1>27, <1>28 DEF StepInv
<1>30. ExactInv'
  <2> SUFFICES ASSUME ~crashed'
               PROVE  /\ InodeBitsAtEnd' = {INODE_ENTRY_BIT, INODE_ROOTDIR}
                                  \cup ({InodeOf(p) : p \in Slots}' \ Gone') \cup Building'
                      /\ BlockBitsAtEnd' = SetBitmap_block \cup OwnedBlocks' \cup Coming'
    BY DEF ExactInv
  <2>1. /\ inode_bitmap = {INODE_ENTRY_BIT, INODE_ROOTDIR} \cup {InodeOf(p) : p \in Slots}
        /\ block_bitmap = SetBitmap_block \cup OwnedBlocks
    BY <1>18, <1>21 DEF TreeInv, ExactInv
  <2>2. InodeBitsAtEnd' = inode_bitmap \cup {n}
    <3>1. LastIn({1}) = 1
      BY LastIs
    <3>2. InodeBitsAtEnd' = pending'[LastIn({1})].bits
      BY <1>15 DEF InodeBitsAtEnd, LastIn
    <3> QED BY <1>2, <1>8, <3>1, <3>2
  <2>3. {InodeOf(p) : p \in Slots}' = {InodeOf(p) : p \in Slots}
    BY <1>18 DEF TreeKept
  <2> QED BY <1>16, <1>19, <1>20, <1>23, <2>1, <2>2, <2>3
<1>31. /\ Building' \cap inode_bitmap = {} /\ inode_NowDir \notin Gone'
       /\ \A j \in StepsTo("block_bitmap")' : SetBitmap_block \subseteq pending'[j].bits \/ Freed(j)'
  BY <1>5, <1>16, <1>19, <1>26
<1> QED BY <1>2, <1>28, <1>29, <1>30, <1>31, PendTree

-----------------------------------------------------------------------------
(* The invariant.                                                          *)

FileInv ==
    /\ TypeInv
    /\ ~formatted => FormatInv
    /\ formatted => TreeInv

\* It holds until a call damages directories.
UndamagedInv == TypeInv /\ (damage = {} => FileInv)

\* The invariant holds of a disk from the factory.
LEMMA FileInit == Init => UndamagedInv
<1>1. ASSUME Init
      PROVE  ~formatted /\ FormatInv
  BY <1>1 DEF Init, FormatInv
<1> QED BY <1>1, TypeInit DEF FileInv, UndamagedInv

\* Every call keeps the invariant.
LEMMA CallStep ==
    ASSUME TypeInv, TypeInv', TreeInv, NEW name \in FileNames, Call(name), damage' = {}
    PROVE  TreeInv' /\ TreeKept
<1>1. CASE CreateFile(name)
  BY <1>1, CreateFileStep
<1>2. CASE MakeDir(name)
  <2>1. CASE Len(GotBlocks) = DIR_BLOCKS
    BY <1>2, <2>1, MakeDirSucceeds
  <2>2. CASE Len(GotBlocks) # DIR_BLOCKS
    BY <1>2, <2>2, MakeDirFails
  <2> QED BY <2>1, <2>2
<1>3. CASE DeleteFile(name) \/ RemoveDir(name)
  BY <1>3, RemoveCalls
<1>4. CASE WriteFile(name)
  BY <1>4, WriteFileStep
<1>5. CASE ChangeDirectory(name)
  BY <1>5, ChangeDirectoryStep
<1>6. ASSUME NEW new \in FileNames, RenameFile(name, new)
      PROVE  TreeInv' /\ TreeKept
  BY <1>6, RenameStep
<1> QED BY <1>1, <1>2, <1>3, <1>4, <1>5, <1>6 DEF Call

\* A write to a formatted disk.
LEMMA WriteStep ==
    ASSUME TypeInv, TypeInv', TreeInv, Write
    PROVE  TreeInv' /\ (SlotsSame \/ SlotsChange)
<1>1. pending[1] \in WriteType /\ pending[1].to # "formatted"
  BY WriteShift, HeadFacts
<1>2. pending[1].to \in {"block_bitmap", "inode_bitmap", "inode", "block", "entry", "free_half"}
  BY <1>1, WriteFields
<1>3. CASE pending[1].to \in {"block_bitmap", "inode_bitmap", "block", "free_half"}
  <2>1. SlotsAre
    BY HeadFacts, SlotFacts
  <2> QED BY <1>3, <2>1, QuietWrite, KeptSlots
<1>4. CASE pending[1].to = "inode"
  BY <1>4, InodeWrite
<1>5. CASE pending[1].to = "entry"
  BY <1>5, EntryWrite
<1> QED BY <1>2, <1>3, <1>4, <1>5

\* Only a mounted disk is called upon, and only a formatted one is mounted.
LEMMA CallsFormatted ==
    ASSUME ~formatted => FormatInv, mounted
    PROVE  formatted
BY DEF FormatInv

\* A step that changes nothing keeps it.
LEMMA TreeStutter ==
    ASSUME UNCHANGED vars
    PROVE  TreeInv' = TreeInv /\ SlotsSame
<1>1. /\ block_bitmap' = block_bitmap /\ inode_bitmap' = inode_bitmap /\ inode_table' = inode_table
      /\ block_table' = block_table /\ inode_NowDir' = inode_NowDir /\ pending' = pending
      /\ mounted' = mounted /\ half' = half /\ crashed' = crashed
  BY DEF vars, diskVars, memoryVars, historyVars
<1>2. /\ Steps' = Steps /\ \A kind : StepsTo(kind)' = StepsTo(kind)
      /\ \A j : Freed(j)' = Freed(j)
  BY <1>1 DEF StepsTo, Steps, Freed
<1>3. Building' = Building
  BY <1>1 DEF Building
<1>4. Directories' = Directories /\ \A d : BlocksOf(d)' = BlocksOf(d)
  BY <1>1, <1>3 DEF Directories, Below, Children, Block, BlocksOf
<1>5. /\ \A d : First(d)' = First(d) /\ Used(d)' = Used(d)
      /\ \A d, k : Slot(d, k)' = Slot(d, k)
      /\ \A p : InodeOf(p)' = InodeOf(p)
      /\ \A d : HeadersOK(d)' = HeadersOK(d) /\ OwnsBlocks(d)' = OwnsBlocks(d)
  BY <1>1 DEF First, Used, Slot, InodeOf, HeadersOK, OwnsBlocks
<1>6. Slots' = Slots
  BY <1>4, <1>5 DEF Slots
<1>7. DirectoryInv' = DirectoryInv
  BY <1>4, <1>5 DEF DirectoryInv
<1>8. \A e : EntryOK(e)' = EntryOK(e)
  BY <1>1, <1>3 DEF EntryOK
<1>9. EntryInv' = EntryInv
  BY <1>5, <1>6, <1>8 DEF EntryInv
<1>10. /\ BlockBitsAtEnd' = BlockBitsAtEnd /\ InodeBitsAtEnd' = InodeBitsAtEnd
       /\ \A b : HeaderAtEnd(b)' = HeaderAtEnd(b)
  <2>1. BlockBitsAtEnd' = BlockBitsAtEnd /\ InodeBitsAtEnd' = InodeBitsAtEnd
    <3>1. PICK T, U : T = StepsTo("block_bitmap") /\ U = StepsTo("inode_bitmap")
      OBVIOUS
    <3>2. T = StepsTo("block_bitmap")' /\ U = StepsTo("inode_bitmap")'
      BY <1>2, <3>1
    <3>3. /\ BlockBitsAtEnd' = IF T = {} THEN block_bitmap' ELSE pending'[LastIn(T)].bits
          /\ InodeBitsAtEnd' = IF U = {} THEN inode_bitmap' ELSE pending'[LastIn(U)].bits
      BY <3>2 DEF BlockBitsAtEnd, InodeBitsAtEnd, LastIn
    <3>4. /\ BlockBitsAtEnd = IF T = {} THEN block_bitmap ELSE pending[LastIn(T)].bits
          /\ InodeBitsAtEnd = IF U = {} THEN inode_bitmap ELSE pending[LastIn(U)].bits
      BY <3>1 DEF BlockBitsAtEnd, InodeBitsAtEnd
    <3> QED BY <1>1, <3>3, <3>4
  <2>2. ASSUME NEW b
        PROVE  HeaderAtEnd(b)' = HeaderAtEnd(b)
    <3>1. Touches(b)' = Touches(b)
      BY <1>1, <1>2 DEF Touches
    <3>2. PICK T : T = Touches(b)
      OBVIOUS
    <3>3. HeaderAtEnd(b)' = IF T = {} THEN block_table'[b][0].type
                                      ELSE pending'[LastIn(T)].entries[(b - pending'[LastIn(T)].number) * EntriesPerSector].type
      BY <3>1, <3>2 DEF HeaderAtEnd, LastIn
    <3>4. HeaderAtEnd(b) = IF T = {} THEN block_table[b][0].type
                                     ELSE pending[LastIn(T)].entries[(b - pending[LastIn(T)].number) * EntriesPerSector].type
      BY <3>2 DEF HeaderAtEnd
    <3> QED BY <1>1, <3>3, <3>4
  <2> QED BY <2>1, <2>2
<1>11. Gone' = Gone /\ Coming' = Coming
  BY <1>1, <1>2, <1>5 DEF Gone, Coming
<1>12. OwnedBlocks' = OwnedBlocks
  BY <1>4, <1>11 DEF OwnedBlocks
<1>13. \A w : SecondKept(w)' = SecondKept(w)
  BY <1>1 DEF SecondKept
<1>14. /\ \A j : BlockBitsStep(j)' = BlockBitsStep(j)
       /\ \A j : BlockStep(j)' = BlockStep(j)
       /\ \A j : InodeBitsStep(j)' = InodeBitsStep(j)
  BY <1>1, <1>2, <1>5, <1>6, <1>11, <1>12, <1>13 DEF BlockBitsStep, BlockStep, InodeBitsStep, SecondKept
<1>15. \A j : InodeStep(j)' = InodeStep(j)
  BY <1>1, <1>2, <1>4, <1>5, <1>6, <1>10, <1>11, <1>12 DEF InodeStep
<1>16. \A w, k, used : Changes(w, k, used)' = Changes(w, k, used)
  BY <1>1, <1>5 DEF Changes, Slot, First
<1>17. \A j, k : Adds(j, k)' = Adds(j, k)
  BY <1>1, <1>2, <1>3, <1>5, <1>6, <1>16 DEF Adds, NewName, Changes, Used, Slot, First
<1>18. /\ \A j, k : Drops(j, k)' = Drops(j, k)
       /\ \A j, k : Renames(j, k)' = Renames(j, k)
  <2>1. \A j, k : Drops(j, k)' = Drops(j, k)
    BY <1>1, <1>2, <1>3, <1>5, <1>6 DEF Drops, Changes, Used, Slot, First
  <2>2. \A j, k : Renames(j, k)' = Renames(j, k)
    BY <1>1, <1>2, <1>3, <1>5, <1>6 DEF Renames, NewName, Changes, Used, Slot, First
  <2> QED BY <2>1, <2>2
<1>19. \A j : EntryStep(j)' = EntryStep(j)
  BY <1>1, <1>2, <1>5, <1>13, <1>17, <1>18 DEF EntryStep, SecondKept, First
<1>20. StepInv' = StepInv
  BY <1>1, <1>2, <1>14, <1>15, <1>19 DEF StepInv
<1>21. ExactInv' = ExactInv
  BY <1>1, <1>2, <1>3, <1>5, <1>6, <1>10, <1>11, <1>12 DEF ExactInv
<1>22. ReservedInv' = ReservedInv
  BY <1>1, <1>2 DEF ReservedInv
<1>23. SlotsSame
  BY <1>5, <1>6 DEF SlotsSame
<1>24. TreeInv' = TreeInv
  BY <1>1, <1>4, <1>7, <1>9, <1>11, <1>20, <1>21, <1>22 DEF TreeInv
<1> QED BY <1>23, <1>24

\* What a step does to the entries.
SlotsMove ==
    \/ ~formatted /\ ~formatted'
    \/ ~formatted /\ formatted' /\ Slots' = {}
    \/ formatted /\ formatted' /\ (SlotsSame \/ SlotsChange)

\* Every step keeps it that damages nothing.
LEMMA FileStep ==
    ASSUME FileInv, [Next]_vars, damage' = {}
    PROVE  FileInv' /\ SlotsMove
<1>1. TypeInv /\ TypeInv' /\ (~formatted => FormatInv) /\ (formatted => TreeInv)
  BY TypeStep DEF FileInv
<1>2. formatted /\ TreeKept => SlotsSame
  <2> SUFFICES ASSUME formatted, TreeKept
               PROVE  SlotsSame
    OBVIOUS
  <2>1. SlotsAre
    BY <1>1, SlotFacts DEF TreeInv, DirectoryInv, AllHeadersOK
  <2> QED BY <2>1, KeptSlots
<1>3. CASE Format
  <2>1. (~formatted => FormatInv)' /\ (formatted => TreeInv)' /\ (formatted => TreeKept)
    BY <1>1, <1>3, FormatStep
  <2>2. formatted' = formatted
    BY <1>3 DEF Format, diskVars
  <2> QED BY <1>1, <1>2, <2>1, <2>2 DEF FileInv, SlotsMove
<1>4. CASE Write
  <2>1. formatted' = (formatted \/ Head(pending).to = "formatted")
    BY <1>4 DEF Write
  <2>2. CASE formatted
    <3>1. TreeInv' /\ (SlotsSame \/ SlotsChange)
      BY <1>1, <1>4, <2>2, WriteStep
    <3>2. formatted'
      BY <2>1, <2>2
    <3> QED BY <1>1, <2>2, <3>1, <3>2 DEF FileInv, SlotsMove
  <2>3. CASE ~formatted /\ Head(pending).to = "formatted"
    <3>1. TreeInv' /\ Slots' = {}
      BY <1>1, <1>4, <2>3, FormattedWrite
    <3>2. formatted'
      BY <2>1, <2>3
    <3> QED BY <1>1, <2>3, <3>1, <3>2 DEF FileInv, SlotsMove
  <2>4. CASE ~formatted /\ Head(pending).to # "formatted"
    <3>1. FormatInv'
      BY <1>1, <1>4, <2>4, FormatWrite
    <3>2. ~formatted'
      BY <2>1, <2>4
    <3> QED BY <1>1, <2>4, <3>1, <3>2 DEF FileInv, SlotsMove
  <2> QED BY <2>2, <2>3, <2>4
<1>5. CASE Crash
  <2>1. CASE formatted
    <3>1. TreeInv' /\ TreeKept
      BY <1>1, <1>5, <2>1, CrashStep
    <3>2. formatted' = formatted
      BY <1>5 DEF Crash, diskVars
    <3> QED BY <1>1, <1>2, <2>1, <3>1, <3>2 DEF FileInv, SlotsMove
  <2>2. CASE ~formatted
    <3>1. FormatInv' /\ ~formatted'
      BY <1>1, <1>5, <2>2, FirstCrash
    <3> QED BY <1>1, <2>2, <3>1 DEF FileInv, SlotsMove
  <2> QED BY <2>1, <2>2
<1>6. CASE cd_Root
  <2>1. formatted /\ formatted' = formatted
    BY <1>1, <1>6, CallsFormatted, EnterFacts DEF cd_Root, Calling, diskVars
  <2>2. TreeInv' /\ TreeKept
    BY <1>1, <1>6, <2>1, RootStep
  <2> QED BY <1>1, <1>2, <2>1, <2>2 DEF FileInv, SlotsMove
<1>7. ASSUME NEW name \in FileNames, Call(name)
      PROVE  FileInv' /\ SlotsMove
  <2>1. mounted /\ formatted' = formatted
    BY <1>7 DEF Call, CreateFile, New, MakeDir, DeleteFile, RemoveDir, WriteFile, ChangeDirectory,
                RenameFile, Enter, Calling, Pend, diskVars
  <2>2. formatted
    BY <1>1, <2>1, CallsFormatted
  <2>3. TreeInv' /\ TreeKept
    BY <1>1, <1>7, <2>2, CallStep
  <2> QED BY <1>1, <1>2, <2>1, <2>2, <2>3 DEF FileInv, SlotsMove
<1>8. CASE UNCHANGED vars
  <2>1. FormatInv' = FormatInv
    BY <1>8 DEF vars, diskVars, memoryVars, historyVars, FormatInv, StepsTo, Steps,
                BlockBitsAtEnd, InodeBitsAtEnd, HeaderAtEnd, Touches, LastIn
  <2>2. TreeInv' = TreeInv /\ SlotsSame /\ formatted' = formatted
    BY <1>8, TreeStutter DEF vars, diskVars
  <2> QED BY <1>1, <2>1, <2>2 DEF FileInv, SlotsMove
<1> QED BY <1>3, <1>4, <1>5, <1>6, <1>7, <1>8 DEF Next

\* Damage stays.
LEMMA DamageStays ==
    ASSUME [Next]_vars
    PROVE  damage \subseteq damage'
<1>1. ASSUME Format \/ Write \/ Crash \/ UNCHANGED vars
      PROVE  damage' = damage
  BY <1>1 DEF Format, Write, Crash, vars, historyVars
<1>2. ASSUME NEW n, Enter(n)
      PROVE  damage \subseteq damage'
  BY <1>2 DEF Enter
<1>3. ASSUME NEW s, NEW harm, Pend(s, harm)
      PROVE  damage \subseteq damage'
  BY <1>3 DEF Pend
<1>4. ASSUME NEW name, Call(name)
      PROVE  damage \subseteq damage'
  <2>1. (\E s, harm : Pend(s, harm)) \/ \E n : Enter(n)
    BY <1>4 DEF Call, CreateFile, MakeDir, DeleteFile, RemoveDir, WriteFile, ChangeDirectory, RenameFile
  <2> QED BY <1>2, <1>3, <2>1
<1> QED BY <1>1, <1>2, <1>4 DEF Next, cd_Root

\* The invariant up to the first damage is kept by every step.
LEMMA UndamagedStep == UndamagedInv /\ [Next]_vars => UndamagedInv'
<1> SUFFICES ASSUME UndamagedInv, [Next]_vars
             PROVE  UndamagedInv'
  OBVIOUS
<1>1. TypeInv'
  BY TypeStep DEF UndamagedInv
<1>2. ASSUME damage' = {}
      PROVE  FileInv'
  <2>1. damage = {}
    BY <1>2, DamageStays
  <2> QED BY <1>2, <2>1, FileStep DEF UndamagedInv
<1> QED BY <1>1, <1>2 DEF UndamagedInv

\* The entries of the tree, by the place they have on the disk.
LEMMA TreeFacts ==
    ASSUME TypeInv, DirectoryInv
    PROVE  /\ AllHeadersOK /\ SlotsAre
           /\ \A e : e \in UNION {Children(d) : d \in Directories} <=>
                 \E p \in Slots : e = Child(p[1], p[2])
           /\ {e.inode : e \in UNION {Children(d) : d \in Directories}} = {InodeOf(p) : p \in Slots}
<1>1. AllHeadersOK
  BY DEF DirectoryInv, AllHeadersOK
<1>2. SlotsAre
  BY <1>1, SlotFacts
<1>3. \A d \in Directories : Children(d) = {Child(d, k) : k \in Used(d)}
  BY <1>1, <1>2, ChildrenFacts DEF AllHeadersOK, SlotsAre
<1>4. ASSUME NEW e, e \in UNION {Children(d) : d \in Directories}
      PROVE  \E p \in Slots : e = Child(p[1], p[2])
  <2>1. PICK d \in Directories : \E k \in Used(d) : e = Child(d, k)
    BY <1>3, <1>4
  <2>2. PICK k \in Used(d) : e = Child(d, k)
    BY <2>1
  <2>3. PICK p : p = <<d, k>>
    OBVIOUS
  <2>4. p \in Slots /\ p[1] = d /\ p[2] = k
    BY <1>2, <2>3 DEF SlotsAre
  <2> QED BY <2>2, <2>4
<1>5. ASSUME NEW p \in Slots
      PROVE  Child(p[1], p[2]) \in UNION {Children(d) : d \in Directories}
  <2>1. p[1] \in Directories /\ p[2] \in Used(p[1])
    BY <1>2 DEF SlotsAre
  <2> QED BY <1>3, <2>1
<1>6. \A p \in Slots : Child(p[1], p[2]).inode = InodeOf(p)
  BY DEF Child, InodeOf
<1>7. \A e : e \in UNION {Children(d) : d \in Directories} <=> \E p \in Slots : e = Child(p[1], p[2])
  BY <1>4, <1>5
<1>8. {e.inode : e \in UNION {Children(d) : d \in Directories}} = {InodeOf(p) : p \in Slots}
  <2>1. PICK T : T = UNION {Children(d) : d \in Directories}
    OBVIOUS
  <2>2. \A x : x \in {e.inode : e \in T} <=> x \in {InodeOf(p) : p \in Slots}
    <3> TAKE x
    <3>1. ASSUME x \in {e.inode : e \in T}
          PROVE  x \in {InodeOf(p) : p \in Slots}
      <4>1. PICK e \in T : x = e.inode
        BY <3>1
      <4>2. PICK p \in Slots : e = Child(p[1], p[2])
        BY <1>4, <2>1, <4>1
      <4> QED BY <1>6, <4>1, <4>2
    <3>2. ASSUME x \in {InodeOf(p) : p \in Slots}
          PROVE  x \in {e.inode : e \in T}
      <4>1. PICK p \in Slots : x = InodeOf(p)
        BY <3>2
      <4>2. PICK e : e = Child(p[1], p[2])
        OBVIOUS
      <4>3. e \in T /\ e.inode = x
        BY <1>5, <1>6, <2>1, <4>1, <4>2
      <4> QED BY <4>3
    <3> QED BY <3>1, <3>2
  <2> QED BY <2>1, <2>2
<1> QED BY <1>1, <1>2, <1>7, <1>8

\* The invariant says that entries name marked inodes, ...
LEMMA MarkedEntries == FileInv => EntriesMarked
<1> SUFFICES ASSUME FileInv, formatted, half = {}, NEW e \in tree
             PROVE  e.inode \in inode_bitmap
  BY DEF EntriesMarked
<1>1. TypeInv /\ DirectoryInv /\ EntryInv
  BY DEF FileInv, TreeInv
<1>2. PICK p \in Slots : e = Child(p[1], p[2])
  BY <1>1, TreeFacts DEF tree
<1>3. e.inode = Slot(p[1], p[2]).inode
  BY <1>2 DEF Child
<1>4. EntryOK(Slot(p[1], p[2]))
  BY <1>1 DEF EntryInv
<1> QED BY <1>3, <1>4 DEF EntryOK

\* ... that directories have blocks of their own, ...
LEMMA OwnedByOne == FileInv => DirectoriesOwnBlocks
<1> SUFFICES ASSUME FileInv, formatted
             PROVE  /\ \A d \in Directories : /\ BlocksOf(d) \subseteq block_bitmap \ SetBitmap_block
                                              /\ Cardinality(BlocksOf(d)) = DIR_BLOCKS
                    /\ \A c, d \in Directories : c # d => BlocksOf(c) \cap BlocksOf(d) = {}
  BY DEF DirectoriesOwnBlocks
<1>1. TypeInv /\ DirectoryInv
  BY DEF FileInv, TreeInv
<1>2. ASSUME NEW d \in Directories
      PROVE  /\ BlocksOf(d) \subseteq block_bitmap \ SetBitmap_block
             /\ Cardinality(BlocksOf(d)) = DIR_BLOCKS
  <2>1. d \in Inodes /\ OwnsBlocks(d)
    BY <1>1, TreeFacts DEF SlotsAre, DirectoryInv
  <2>2. BlocksOf(d) = {inode_table[d].block[i] : i \in 1 .. DIR_BLOCKS}
    BY <1>1, <2>1, InodeTyped
  <2>3. /\ \A i \in 1 .. DIR_BLOCKS : inode_table[d].block[i] \in block_bitmap \ SetBitmap_block
        /\ \A i, j \in 1 .. DIR_BLOCKS : inode_table[d].block[i] = inode_table[d].block[j] => i = j
    BY <2>1 DEF OwnsBlocks
  <2>4. BlocksOf(d) \subseteq block_bitmap \ SetBitmap_block
    BY <2>2, <2>3
  <2>5. PICK f, T : f = inode_table[d].block /\ T = BlocksOf(d)
    OBVIOUS
  <2>6. f \in [1 .. DIR_BLOCKS -> T] /\ T = {f[i] : i \in 1 .. DIR_BLOCKS}
    <3>1. T = {f[i] : i \in 1 .. DIR_BLOCKS}
      BY <2>2, <2>5
    <3>2. f \in [1 .. DIR_BLOCKS -> BlockNumbers]
      BY <1>1, <2>1, <2>5, InodeTyped DEF InodeType
    <3> QED BY <3>1, <3>2
  <2>7. \A i, j \in 1 .. DIR_BLOCKS : f[i] = f[j] => i = j
    BY <2>3, <2>5
  <2>8. Cardinality(T) = DIR_BLOCKS
    BY <2>6, <2>7, ImageCount, ConstantFacts
  <2> QED BY <2>4, <2>5, <2>8
<1>3. \A c, d \in Directories : c # d => BlocksOf(c) \cap BlocksOf(d) = {}
  BY <1>1 DEF DirectoryInv
<1> QED BY <1>2, <1>3

\* ... that nothing is marked that is not in use, ...
LEMMA NoneLeaks == FileInv => NothingLeaks
<1> SUFFICES ASSUME FileInv, Calling, ~crashed, half = {}
             PROVE  /\ inode_bitmap = {0, INODE_ROOTDIR} \cup {e.inode : e \in tree}
                    /\ block_bitmap = SetBitmap_block \cup UNION {BlocksOf(d) : d \in Directories}
  BY DEF NothingLeaks
<1>1. mounted /\ pending = <<>> /\ formatted
  BY CallsFormatted DEF Calling, FileInv
<1>2. TypeInv /\ TreeInv /\ DirectoryInv /\ ExactInv
  BY <1>1 DEF FileInv, TreeInv
<1>3. /\ StepsTo("free_half") = {} /\ Building = {} /\ Gone = {} /\ Coming = {}
      /\ OwnedBlocks = UNION {BlocksOf(d) : d \in Directories}
      /\ InodeBitsAtEnd = inode_bitmap /\ BlockBitsAtEnd = block_bitmap
  BY <1>1, NonePending
<1>4. /\ inode_bitmap = {INODE_ENTRY_BIT, INODE_ROOTDIR} \cup {InodeOf(p) : p \in Slots}
      /\ block_bitmap = SetBitmap_block \cup OwnedBlocks
  BY <1>2, <1>3 DEF ExactInv
<1>5. {e.inode : e \in tree} = {InodeOf(p) : p \in Slots}
  BY <1>1, <1>2, TreeFacts DEF tree
<1> QED BY <1>3, <1>4, <1>5 DEF INODE_ENTRY_BIT

\* ... and that the working directory can be reached.
LEMMA StaysSomewhere == FileInv => WorkingDirectoryExists
<1> SUFFICES ASSUME FileInv, mounted
             PROVE  inode_NowDir \in Directories
  BY DEF WorkingDirectoryExists
<1>1. formatted
  BY CallsFormatted DEF FileInv
<1> QED BY <1>1 DEF FileInv, TreeInv

-----------------------------------------------------------------------------
\* The invariant holds up to the first damage.
LEMMA FileAlways == Spec => []UndamagedInv
BY FileInit, UndamagedStep, PTL DEF Spec

(* The invariant of FileSystemInv: until a call does one of the four things *)
(* of Damages, whatever is called, and wherever the machine stops, the      *)
(* directories are disjoint, marked and reachable, every entry has an inode *)
(* of its own, and the writes still to come keep it so.  So only these four *)
(* can damage directories.                                                  *)
THEOREM FileSystemInvariant == Spec => []FInv
<1>1. UndamagedInv => FInv
  BY DEF UndamagedInv, FileInv, FInv, TypeInv
<1> QED BY <1>1, FileAlways, PTL

(* Until then, as long as no entry is only half made, every entry names a   *)
(* marked inode, in the middle of every call too, so Alloc_inode never      *)
(* gives the inode of one file to another.                                  *)
THEOREM FileSystemMarks == Spec => []EntriesMarked
<1>1. UndamagedInv => EntriesMarked
  BY MarkedEntries DEF UndamagedInv, EntriesMarked
<1> QED BY <1>1, FileAlways, PTL

(* Until then the blocks of the directories are marked, not reserved,      *)
(* DIR_BLOCKS of each, and no two directories share one, in the middle of  *)
(* every call and after every crash, whatever the disk held before Format. *)
THEOREM FileSystemOwnership == Spec => []DirectoriesOwnBlocks
<1>1. UndamagedInv => DirectoriesOwnBlocks
  BY OwnedByOne DEF UndamagedInv, DirectoriesOwnBlocks
<1> QED BY <1>1, FileAlways, PTL

(* Between calls, without damage, a call cut short or a mkdir out of       *)
(* blocks, exactly the inodes of the entries and the blocks of directories *)
(* are marked: touch, mkdir, rm and rmdir mark and free what they should.  *)
THEOREM FileSystemNoLeaks == Spec => []NothingLeaks
<1>1. UndamagedInv => NothingLeaks
  BY NoneLeaks DEF UndamagedInv, NothingLeaks
<1> QED BY <1>1, FileAlways, PTL

(* The working directory in Super can be reached from the root: no rmdir,  *)
(* and nothing else but damage, takes it from under the shell.             *)
THEOREM FileSystemWorkingDirectory == Spec => []WorkingDirectoryExists
<1>1. UndamagedInv => WorkingDirectoryExists
  BY StaysSomewhere DEF UndamagedInv, WorkingDirectoryExists
<1> QED BY <1>1, FileAlways, PTL

-----------------------------------------------------------------------------
(* The tree that DirectoryTree speaks of.                                  *)

Place(p) == Child(p[1], p[2])
TreeIs ==
    /\ SlotsAre /\ EntryInv
    /\ \A e : e \in tree <=> \E p \in Slots : e = Place(p)

\* The entries of a formatted disk are those at the places in use.
LEMMA PlacesAre == FileInv /\ formatted => TreeIs
<1> SUFFICES ASSUME FileInv, formatted
             PROVE  TreeIs
  OBVIOUS
<1>1. TypeInv /\ DirectoryInv /\ EntryInv
  BY DEF FileInv, TreeInv
<1>2. /\ SlotsAre
      /\ \A e : e \in UNION {Children(d) : d \in Directories} <=>
            \E p \in Slots : e = Child(p[1], p[2])
  BY <1>1, TreeFacts
<1> QED BY <1>1, <1>2 DEF TreeIs, tree, Place

\* What an entry holds, and by what it is told from others.
PlacesDiffer ==
    /\ \A p \in Slots : /\ Place(p).inode = InodeOf(p) /\ Place(p).dir = p[1]
                        /\ Place(p) \in Abstract!Entry
    /\ \A p, q \in Slots : Place(p).inode = Place(q).inode => p = q
    /\ \A p, q \in Slots : Place(p).dir = Place(q).dir /\ Place(p).name = Place(q).name => p = q

\* No two places hold the same inode, or the same name in the same directory.
LEMMA PlaceFacts == TreeIs => PlacesDiffer
<1> SUFFICES ASSUME TreeIs
             PROVE  /\ \A p \in Slots : /\ Place(p).inode = InodeOf(p) /\ Place(p).dir = p[1]
                                        /\ Place(p).name = Slot(p[1], p[2]).name
                                        /\ Place(p) \in Abstract!Entry
                    /\ \A p, q \in Slots : InodeOf(p) = InodeOf(q) => p = q
                    /\ \A p, q \in Slots : p[1] = q[1]
                            /\ Slot(p[1], p[2]).name = Slot(q[1], q[2]).name => p = q
  BY DEF PlacesDiffer
<1>1. ASSUME NEW p \in Slots
      PROVE  /\ Place(p).inode = InodeOf(p) /\ Place(p).dir = p[1]
             /\ Place(p).name = Slot(p[1], p[2]).name
             /\ Place(p) \in Abstract!Entry
  <2>1. PICK d, s : d = p[1] /\ s = Slot(p[1], p[2])
    OBVIOUS
  <2>2. d \in Inodes /\ s \in Entries
    BY <2>1 DEF TreeIs, SlotsAre
  <2>3. s.inode \in Inodes /\ s.name \in FileNames
    BY <2>1, <2>2 DEF TreeIs, EntryInv, EntryOK, Entries
  <2>4. Place(p) = [dir |-> d, name |-> s.name, inode |-> s.inode, isDir |-> s.type = FILETYPE_DIR]
    BY <2>1 DEF Place, Child
  <2>5. (s.type = FILETYPE_DIR) \in BOOLEAN
    OBVIOUS
  <2> QED BY <2>1, <2>2, <2>3, <2>4, <2>5 DEF InodeOf, Abstract!Entry
<1> QED BY <1>1 DEF TreeIs, EntryInv

\* The entries at places that a step leaves alone.
LEMMA SamePlace ==
    ASSUME NEW p, Slot(p[1], p[2])' = Slot(p[1], p[2])
    PROVE  Place(p)' = Place(p)
BY DEF Place, Child

\* A step that changes one place adds, renames or removes one entry of the tree.
LEMMA TreeSteps ==
    ASSUME TreeIs, TreeIs', SlotsSame \/ SlotsChange
    PROVE  [Abstract!Change]_tree
<1>1. PlacesDiffer /\ \A e : e \in tree <=> \E p \in Slots : e = Place(p)
  BY PlaceFacts DEF TreeIs
<1>2. PlacesDiffer' /\ \A e : e \in tree' <=> \E p \in Slots' : e = Place(p)'
  <2>1. (TreeIs => PlacesDiffer)'
    BY PlaceFacts, PTL
  <2> QED BY <2>1 DEF TreeIs
<1>3. CASE SlotsSame
  <2>1. Slots' = Slots /\ \A p \in Slots : Place(p)' = Place(p)
    BY <1>3, SamePlace DEF SlotsSame
  <2>2. \A e : e \in tree' <=> e \in tree
    BY <1>1, <1>2, <2>1
  <2>3. tree' = tree
    <3>1. PICK T, U : T = tree /\ U = tree'
      OBVIOUS
    <3> QED BY <2>2, <3>1
  <2> QED BY <2>3
<1>4. ASSUME NEW q, q \notin Slots, Slots' = Slots \cup {q},
             \A p \in Slots : Slot(p[1], p[2])' = Slot(p[1], p[2])
      PROVE  Abstract!Change
  <2>1. \A p \in Slots : Place(p)' = Place(p)
    BY <1>4, SamePlace
  <2>2. PICK e, T, U : e = Place(q)' /\ T = tree /\ U = tree'
    OBVIOUS
  <2>3. e \in Abstract!Entry
    BY <1>2, <1>4, <2>2 DEF PlacesDiffer, Abstract!Entry
  <2>4. \A f \in T : f.inode # e.inode /\ ~(f.dir = e.dir /\ f.name = e.name)
    <3> TAKE f \in T
    <3>1. PICK p \in Slots : f = Place(p)
      BY <1>1, <2>2
    <3>2. f = Place(p)' /\ p \in Slots' /\ q \in Slots' /\ p # q
      BY <1>4, <2>1, <3>1
    <3> QED BY <1>2, <2>2, <3>2 DEF PlacesDiffer
  <2>5. U = T \cup {e} /\ e \notin T
    <3>1. \A x : x \in U <=> x \in T \/ x = e
      BY <1>1, <1>2, <1>4, <2>1, <2>2
    <3> QED BY <2>4, <3>1
  <2>6. Abstract!Add(e)
    BY <2>2, <2>3, <2>4, <2>5 DEF Abstract!Add, Abstract!Unused
  <2>7. e \in tree' \ tree
    BY <2>2, <2>5
  <2> QED BY <2>6, <2>7 DEF Abstract!Change
<1>5. ASSUME NEW q \in Slots, Slots' = Slots \ {q}, q[1] # InodeOf(q),
             \A p \in Slots' : Slot(p[1], p[2])' = Slot(p[1], p[2])
      PROVE  Abstract!Change
  <2>1. \A p \in Slots' : p \in Slots /\ Place(p)' = Place(p) /\ InodeOf(p)' = InodeOf(p)
    BY <1>5, SamePlace DEF InodeOf
  <2>2. PICK e, T, U : e = Place(q) /\ T = tree /\ U = tree'
    OBVIOUS
  <2>3. e \in T /\ e.inode = InodeOf(q) /\ e.dir = q[1]
    BY <1>1, <2>2 DEF PlacesDiffer
  <2>4. U = T \ {e}
    <3>1. ASSUME NEW x, x \in U
          PROVE  x \in T /\ x # e
      <4>1. PICK p \in Slots' : x = Place(p)'
        BY <1>2, <2>2, <3>1
      <4>2. x = Place(p) /\ p \in Slots /\ p # q
        BY <1>5, <2>1, <4>1
      <4> QED BY <1>1, <2>2, <4>2 DEF PlacesDiffer
    <3>2. ASSUME NEW x, x \in T, x # e
          PROVE  x \in U
      <4>1. PICK p \in Slots : x = Place(p)
        BY <1>1, <2>2, <3>2
      <4>2. p \in Slots'
        BY <1>5, <2>2, <3>2, <4>1
      <4> QED BY <1>2, <2>1, <2>2, <4>1, <4>2
    <3> QED BY <3>1, <3>2
  \* Nothing is below an inode that no entry names any more, but below the root.
  <2>5. \A f \in T : f.dir # e.inode
    <3> SUFFICES ASSUME NEW f \in T, f.dir = InodeOf(q)
                 PROVE  FALSE
      BY <2>3
    <3>1. PICK p \in Slots : f = Place(p)
      BY <1>1, <2>2
    <3>2. p[1] = InodeOf(q)
      BY <1>1, <3>1 DEF PlacesDiffer
    <3>3. p \in Slots'
      BY <1>5, <3>2
    <3>4. p[1] \in Directories'
      BY <3>3 DEF TreeIs, SlotsAre
    <3>5. p[1] # INODE_ROOTDIR
      BY <3>2 DEF TreeIs, EntryInv, EntryOK, InodeOf
    <3>6. PICK r \in Slots' : InodeOf(r)' = p[1]
      BY <3>4, <3>5 DEF TreeIs, SlotsAre
    <3>7. r \in Slots /\ r # q /\ InodeOf(r) = InodeOf(q)
      BY <1>5, <2>1, <3>2, <3>6
    <3> QED BY <3>7 DEF TreeIs, EntryInv
  <2>6. Abstract!Remove(e)
    BY <2>2, <2>4, <2>5 DEF Abstract!Remove
  <2>7. e \in tree \ tree'
    BY <2>2, <2>3, <2>4
  <2> QED BY <2>6, <2>7 DEF Abstract!Change
<1>6. ASSUME NEW q \in Slots, Slots' = Slots,
             Slot(q[1], q[2])'.inode = Slot(q[1], q[2]).inode,
             Slot(q[1], q[2])'.type = Slot(q[1], q[2]).type,
             \A p \in Slots \ {q} : Slot(p[1], p[2])' = Slot(p[1], p[2])
      PROVE  Abstract!Change \/ tree' = tree
  <2>1. \A p \in Slots \ {q} : Place(p)' = Place(p)
    BY <1>6, SamePlace
  <2>2. PICK e, T, U, g : e = Place(q) /\ T = tree /\ U = tree' /\ g = Place(q)'
    OBVIOUS
  <2>3. PICK name : name = g.name
    OBVIOUS
  <2>4. g = [e EXCEPT !.name = name] /\ name \in FileNames
    <3>1. e \in Abstract!Entry /\ g \in Abstract!Entry
      BY <1>1, <1>2, <1>6, <2>2 DEF PlacesDiffer, Abstract!Entry
    <3>2. g.dir = e.dir /\ g.inode = e.inode /\ g.isDir = e.isDir
      BY <1>6, <2>2 DEF Place, Child
    <3> QED BY <2>3, <3>1, <3>2 DEF Abstract!Entry
  <2>5. U = (T \ {e}) \cup {g}
    <3>1. ASSUME NEW x, x \in U
          PROVE  x \in (T \ {e}) \cup {g}
      <4>1. PICK p \in Slots : x = Place(p)'
        BY <1>2, <1>6, <2>2, <3>1
      <4>2. CASE p = q
        BY <2>2, <4>1, <4>2
      <4>3. CASE p # q
        <5>1. x = Place(p)
          BY <2>1, <4>1, <4>3
        <5> QED BY <1>1, <2>2, <4>3, <5>1 DEF PlacesDiffer
      <4> QED BY <4>2, <4>3
    <3>2. ASSUME NEW x, x \in T, x # e
          PROVE  x \in U
      <4>1. PICK p \in Slots : x = Place(p)
        BY <1>1, <2>2, <3>2
      <4>2. p # q
        BY <2>2, <3>2, <4>1
      <4> QED BY <1>2, <1>6, <2>1, <2>2, <4>1, <4>2
    <3>3. g \in U
      BY <1>2, <1>6, <2>2
    <3> QED BY <3>1, <3>2, <3>3
  <2>6. e \in T
    BY <1>1, <2>2
  <2>7. CASE g = e
    BY <2>2, <2>5, <2>6, <2>7
  <2>8. CASE g # e
    <3>1. e.name # name
      <4>1. e \in Abstract!Entry
        BY <1>1, <2>2 DEF PlacesDiffer, Abstract!Entry
      <4> QED BY <2>4, <2>8, <4>1 DEF Abstract!Entry
    <3>2. \A f \in T : ~(f.dir = e.dir /\ f.name = name)
      <4> SUFFICES ASSUME NEW f \in T, f.dir = e.dir, f.name = name
                   PROVE  FALSE
        OBVIOUS
      <4>1. PICK p \in Slots : f = Place(p)
        BY <1>1, <2>2
      <4>2. p # q
        BY <2>2, <3>1, <4>1
      <4>3. f = Place(p)'
        BY <2>1, <4>1, <4>2
      <4>4. g.dir = f.dir /\ g.name = f.name
        <5>1. g.dir = e.dir
          BY <2>2 DEF Place, Child
        <5> QED BY <2>3, <5>1
      <4> QED BY <1>2, <1>6, <2>2, <4>2, <4>3, <4>4 DEF PlacesDiffer
    <3>3. Abstract!Rename(e, name)
      BY <2>2, <2>4, <2>5, <3>2 DEF Abstract!Rename, Abstract!Unused
    <3>4. e \in tree \ tree'
      BY <2>2, <2>5, <2>6, <2>8
    <3> QED BY <2>4, <3>3, <3>4 DEF Abstract!Change
  <2> QED BY <2>7, <2>8
<1> QED BY <1>3, <1>4, <1>5, <1>6 DEF SlotsChange
\* Every step does one of these to the tree, or nothing.
LEMMA TreeStep ==
    ASSUME FileInv, FileInv', SlotsMove
    PROVE  [Abstract!Change]_tree
<1>1. (FileInv /\ formatted => TreeIs) /\ (FileInv /\ formatted => TreeIs)'
  <2>1. (FileInv /\ formatted => TreeIs)'
    BY PlacesAre, PTL
  <2> QED BY <2>1, PlacesAre
<1>2. CASE ~formatted /\ ~formatted'
  <2>1. tree = {} /\ tree' = {}
    BY <1>2 DEF tree
  <2> QED BY <2>1
<1>3. CASE ~formatted /\ formatted' /\ Slots' = {}
  <2>1. tree = {}
    BY <1>3 DEF tree
  <2>2. \A e : e \notin tree'
    BY <1>1, <1>3 DEF TreeIs
  <2>3. tree' = {}
    <3>1. PICK U : U = tree'
      OBVIOUS
    <3> QED BY <2>2, <3>1
  <2> QED BY <2>1, <2>3
<1>4. CASE formatted /\ formatted' /\ (SlotsSame \/ SlotsChange)
  <2>1. TreeIs /\ TreeIs'
    BY <1>1, <1>4
  <2> QED BY <1>4, <2>1, TreeSteps
<1> QED BY <1>2, <1>3, <1>4 DEF SlotsMove

TreeTyped == tree \subseteq Abstract!Entry

\* The tree holds entries.
LEMMA EntriesTyped == FileInv => TreeTyped
<1> SUFFICES ASSUME FileInv, NEW e \in tree
             PROVE  e \in Abstract!Entry
  BY DEF TreeTyped
<1>1. formatted
  BY DEF tree
<1>2. TreeIs /\ PlacesDiffer
  BY <1>1, PlacesAre, PlaceFacts
<1>3. PICK p \in Slots : e = Place(p)
  BY <1>2 DEF TreeIs
<1> QED BY <1>2, <1>3 DEF PlacesDiffer

\* A disk that is not formatted has no entries.
LEMMA StartsEmpty == Init => Abstract!TreeInit
BY DEF Init, tree, Abstract!TreeInit

EmptyIfGone ==
    \A d \in {e.inode : e \in {f \in tree : f.isDir}} :
        (\A e \in tree' : e.inode # d) => \A e \in tree : e.dir # d

\* In the tree of DirectoryTree a directory goes only when nothing is below it.
LEMMA GoneIsEmpty ==
    ASSUME TreeTyped, [Abstract!Change]_tree
    PROVE  EmptyIfGone
<1> SUFFICES ASSUME NEW x \in tree, \A e \in tree' : e.inode # x.inode
             PROVE  \A e \in tree : e.dir # x.inode
  BY DEF EmptyIfGone
<1>1. x \notin tree'
  OBVIOUS
<1>2. ASSUME NEW e, Abstract!Add(e)
      PROVE  FALSE
  BY <1>1, <1>2 DEF Abstract!Add
<1>3. ASSUME NEW e, Abstract!Remove(e)
      PROVE  \A f \in tree : f.dir # x.inode
  BY <1>1, <1>3 DEF Abstract!Remove
<1>4. ASSUME NEW e, NEW name, Abstract!Rename(e, name)
      PROVE  FALSE
  <2>1. x = e
    BY <1>1, <1>4 DEF Abstract!Rename
  <2>2. [x EXCEPT !.name = name].inode = x.inode
    BY DEF TreeTyped, Abstract!Entry
  <2>3. [x EXCEPT !.name = name] \in tree'
    BY <1>4, <2>1 DEF Abstract!Rename
  <2> QED BY <2>2, <2>3
<1>5. CASE tree' = tree
  BY <1>1, <1>5
<1>6. CASE Abstract!Change
  BY <1>2, <1>3, <1>4, <1>6 DEF Abstract!Change
<1> QED BY <1>5, <1>6

\* Every step does what DirectoryTree says of it.
LEMMA FileTreeStep ==
    ASSUME UndamagedInv, UndamagedInv', [Next]_vars
    PROVE  [Abstract!TreeNext]_(Abstract!treeVars) /\ (damage' = {} => EmptyIfGone)
<1>1. CASE damage' = {}
  <2>1. damage = {}
    BY <1>1, DamageStays
  <2>2. FileInv /\ FileInv'
    BY <1>1, <2>1 DEF UndamagedInv
  <2>3. [Abstract!Change]_tree
    BY <1>1, <2>2, FileStep, TreeStep
  <2>4. TreeTyped
    BY <2>2, EntriesTyped
  <2>5. EmptyIfGone
    BY <2>3, <2>4, GoneIsEmpty
  <2>6. (damage # {})' = (damage # {})
    BY <1>1, <2>1
  <2> QED BY <2>3, <2>5, <2>6 DEF Abstract!TreeNext, Abstract!treeVars
<1>2. CASE damage' # {}
  BY <1>2 DEF Abstract!TreeNext
<1> QED BY <1>1, <1>2

(* The file system implements DirectoryTree, with the entries on the disk   *)
(* for its tree: whatever is called, and wherever a call is cut short, each *)
(* write adds, renames or removes one entry as a call may, or leaves all of *)
(* them, until a call does one of the four things of Damages.               *)
THEOREM FileSystemTree == Spec => ImplementsTree
<1>1. UndamagedInv /\ UndamagedInv' /\ [Next]_vars => [Abstract!TreeNext]_(Abstract!treeVars)
  BY FileTreeStep
<1> QED BY <1>1, FileAlways, StartsEmpty, PTL DEF Spec, ImplementsTree, Abstract!TreeSpec

(* No step takes away the entry of a directory that still has entries,      *)
(* until the first damage.  The run file_system_children shows that an      *)
(* entry where no search sees it is enough for rmdir to lose the children   *)
(* of a directory.                                                          *)
THEOREM FileSystemRemovals == Spec => [][damage' = {} => EmptyIfGone]_vars
<1>1. UndamagedInv /\ UndamagedInv' /\ [Next]_vars => [damage' = {} => EmptyIfGone]_vars
  BY FileTreeStep
<1> QED BY <1>1, FileAlways, PTL DEF Spec
=============================================================================
