---------------------------- MODULE FileSystemInv ----------------------------
(***************************************************************************)
(* The inductive invariant of FileSystem: what is on the disk, what the    *)
(* writes of the call in progress will do to it, and what the disk will be *)
(* when they are done.                                                     *)
(***************************************************************************)
EXTENDS FileSystem

First(d) == inode_table[d].block[1]
Used(d) == block_table[First(d)][0].type \ {0}
Slot(d, k) == block_table[First(d)][k]
Slots == {p \in Directories \X (1 .. EntriesPerSector - 1) : p[2] \in Used(p[1])}
InodeOf(p) == Slot(p[1], p[2]).inode

\* All entries of a directory are in the first sector of its first block.
HeadersOK(d) ==
    /\ 0 \in block_table[First(d)][0].type
    /\ block_table[First(d)][0].type \subseteq 0 .. EntriesPerSector - 1
    /\ \A i \in 2 .. DIR_BLOCKS : block_table[inode_table[d].block[i]][0].type = {0}

\* A directory has its own marked blocks.
OwnsBlocks(d) ==
    LET inode == inode_table[d]
    IN  /\ inode.links = DIR_BLOCKS
        /\ \A i \in 1 .. DIR_BLOCKS : inode.block[i] \in block_bitmap \ SetBitmap_block
        /\ \A i, j \in 1 .. DIR_BLOCKS : inode.block[i] = inode.block[j] => i = j
DirectoryInv ==
    /\ \A d \in Directories : HeadersOK(d) /\ OwnsBlocks(d)
    /\ \A c, d \in Directories : c # d => BlocksOf(c) \cap BlocksOf(d) = {}

\* No two entries have the same inode, no two in a directory the same name, and
\* a file owns no block.
EntryOK(e) ==
    /\ e.inode \notin {INODE_ENTRY_BIT, INODE_ROOTDIR}
    /\ e.type \in {FILETYPE_FILE, FILETYPE_DIR}
    /\ e.name \in FileNames
    /\ e.type = FILETYPE_FILE /\ e.inode \notin Building \cup half => inode_table[e.inode].links = 0
    /\ half = {} => e.inode \in inode_bitmap
EntryInv ==
    /\ \A p \in Slots : EntryOK(Slot(p[1], p[2]))
    /\ \A p, q \in Slots : InodeOf(p) = InodeOf(q) => p = q
    /\ \A p, q \in Slots :
          p[1] = q[1] /\ Slot(p[1], p[2]).name = Slot(q[1], q[2]).name => p = q

-----------------------------------------------------------------------------
(* What the writes to come leave behind.                                   *)

Steps == 1 .. Len(pending)
StepsTo(kind) == {j \in Steps : pending[j].to = kind}
LastIn(T) == CHOOSE j \in T : \A i \in T : i <= j

BlockBitsAtEnd ==
    LET T == StepsTo("block_bitmap")
    IN  IF T = {} THEN block_bitmap ELSE pending[LastIn(T)].bits
InodeBitsAtEnd ==
    LET T == StepsTo("inode_bitmap")
    IN  IF T = {} THEN inode_bitmap ELSE pending[LastIn(T)].bits

\* The header of block b: its first entry is written with it, or as the second
\* sector of the block before.
Touches(b) ==
    {j \in StepsTo("block") \cup StepsTo("entry") : b = pending[j].number \/ b = pending[j].number + 1}
HeaderAtEnd(b) ==
    LET w == pending[LastIn(Touches(b))]
    IN  IF Touches(b) = {} THEN block_table[b][0].type
                           ELSE w.entries[(b - w.number) * EntriesPerSector].type

\* The inode whose entry the call removes, if it is still there, and the blocks
\* of a directory that the call makes.
Gone ==
    UNION {{Slot(inode_NowDir, k).inode : k \in Used(inode_NowDir) \ pending[j].entries[0].type} :
              j \in StepsTo("entry")}
Coming ==
    UNION {Range(pending[j].inode.block) :
              j \in {i \in StepsTo("inode") : pending[i].inode.links = DIR_BLOCKS}}
OwnedBlocks == UNION {BlocksOf(d) : d \in Directories \ Gone}
Freed(j) == \E i \in 1 .. j - 1 : pending[i].to = "free_half"

\* The block w writes is that of the working directory, but for entry k.
Changes(w, k, used) ==
    /\ w.entries[0].type = {0} \cup used
    /\ \A i \in 1 .. EntriesPerSector - 1 : i # k => w.entries[i] = Slot(inode_NowDir, i)
NewName(name) == name \in FileNames /\ \A i \in Used(inode_NowDir) : Slot(inode_NowDir, i).name # name
Adds(j, k) ==
    LET e == pending[j].entries[k]
    IN  /\ k \notin Used(inode_NowDir)
        /\ Changes(pending[j], k, Used(inode_NowDir) \cup {k})
        /\ e.inode \notin {INODE_ENTRY_BIT, INODE_ROOTDIR}
        /\ e.type \in {FILETYPE_FILE, FILETYPE_DIR}
        /\ NewName(e.name)
        /\ Building = {e.inode}
        /\ \A p \in Slots : InodeOf(p) # e.inode
        /\ e.inode \in inode_bitmap \/ j > 1
        /\ \A i \in StepsTo("inode_bitmap") : e.inode \in pending[i].bits \/ (i > j /\ Freed(i))
        /\ \A i \in StepsTo("inode") : e.type = FILETYPE_DIR <=> pending[i].inode.links = DIR_BLOCKS
Drops(j, k) ==
    LET e == Slot(inode_NowDir, k)
    IN  /\ j = 1
        /\ k \in Used(inode_NowDir)
        /\ Changes(pending[j], k, Used(inode_NowDir) \ {k})
        /\ Building = {}
        /\ e.type = FILETYPE_DIR => Used(e.inode) = {}
Renames(j, k) ==
    LET e == pending[j].entries[k]
    IN  /\ k \in Used(inode_NowDir)
        /\ Changes(pending[j], k, Used(inode_NowDir))
        /\ Building = {}
        /\ e = [Slot(inode_NowDir, k) EXCEPT !.name = e.name]
        /\ NewName(e.name)

\* The second sector of the block w writes is written as it is.
SecondKept(w) ==
    \A k \in 0 .. EntriesPerSector - 1 : w.entries[EntriesPerSector + k] = block_table[w.number + 1][k]

BlockBitsStep(j) == OwnedBlocks \subseteq pending[j].bits
BlockStep(j) ==
    LET w == pending[j]
    IN  /\ w.number \notin OwnedBlocks
        /\ w.number + 1 \in OwnedBlocks => Len(pending) = 1 /\ SecondKept(w)
InodeBitsStep(j) ==
    (\A p \in Slots : InodeOf(p) \in Gone \cup pending[j].bits) \/ half # {} \/ Freed(j)
EntryStep(j) ==
    /\ half = {}
    /\ \A i \in 1 .. j - 1 : pending[i].to = "inode_bitmap"
    /\ StepsTo("entry") = {j}
    /\ pending[j].number = First(inode_NowDir)
    /\ SecondKept(pending[j])
    /\ \E k \in 1 .. EntriesPerSector - 1 : Adds(j, k) \/ Drops(j, k) \/ Renames(j, k)
InodeStep(j) ==
    LET w == pending[j]
    IN  /\ j = Len(pending)
        /\ half = {} /\ StepsTo("free_half") = {}
        /\ w.number \notin Directories \cup {INODE_ENTRY_BIT}
        /\ \A p \in Slots : InodeOf(p) = w.number =>
              (Slot(p[1], p[2]).type = FILETYPE_DIR <=> w.inode.links = DIR_BLOCKS)
        /\ StepsTo("entry") = {} => \E p \in Slots : InodeOf(p) = w.number
        /\ \/ w.inode.links = 0
           \/ /\ w.inode.links = DIR_BLOCKS
              /\ \A a, b \in 1 .. DIR_BLOCKS : w.inode.block[a] = w.inode.block[b] => a = b
              /\ Coming \cap (OwnedBlocks \cup SetBitmap_block) = {}
              /\ Coming \subseteq BlockBitsAtEnd
              /\ \A b \in Coming : HeaderAtEnd(b) = {0}
StepInv ==
    /\ \A j \in StepsTo("block_bitmap") : BlockBitsStep(j)
    /\ \A j \in StepsTo("block") : BlockStep(j)
    /\ \A j \in StepsTo("inode_bitmap") : InodeBitsStep(j)
    /\ \A j \in StepsTo("entry") : EntryStep(j)
    /\ \A j \in StepsTo("inode") : InodeStep(j)
    /\ \A j \in Steps : half # {} \/ Freed(j) =>
          pending[j].to \in {"block_bitmap", "block", "inode_bitmap"}
    /\ StepsTo("formatted") = {}

\* Nothing stays marked that is not in use.
ExactInv ==
    ~crashed /\ half = {} /\ StepsTo("free_half") = {} =>
        /\ InodeBitsAtEnd = {INODE_ENTRY_BIT, INODE_ROOTDIR}
                                \cup ({InodeOf(p) : p \in Slots} \ Gone) \cup Building
        /\ BlockBitsAtEnd = SetBitmap_block \cup OwnedBlocks \cup Coming

\* What Format marked stays marked, but for block NIL when a mkdir fails.
ReservedInv ==
    /\ {INODE_ENTRY_BIT, INODE_ROOTDIR} \subseteq inode_bitmap
    /\ \A j \in StepsTo("inode_bitmap") : {INODE_ENTRY_BIT, INODE_ROOTDIR} \subseteq pending[j].bits
    /\ half = {} => SetBitmap_block \subseteq block_bitmap
    /\ \A j \in StepsTo("block_bitmap") :
          SetBitmap_block \subseteq pending[j].bits \/ half # {} \/ Freed(j)

-----------------------------------------------------------------------------
\* The disk before Format is done with it.
RootInode == [links |-> DIR_BLOCKS, block |-> RootBlocks]
FormatInv ==
    /\ half = {} /\ ~mounted
    /\ pending # <<>> =>
          /\ inode_NowDir = INODE_ROOTDIR
          /\ StepsTo("formatted") = {Len(pending)}
          /\ StepsTo("entry") = {} /\ StepsTo("free_half") = {}
          /\ \A j \in StepsTo("inode") :
                pending[j].number = INODE_ROOTDIR /\ pending[j].inode = RootInode
          /\ StepsTo("inode") = {} => inode_table[INODE_ROOTDIR] = RootInode
          /\ BlockBitsAtEnd = SetBitmap_block \cup Range(RootBlocks)
          /\ InodeBitsAtEnd = {INODE_ENTRY_BIT, INODE_ROOTDIR}
          /\ \A k \in 1 .. DIR_BLOCKS : HeaderAtEnd(RootBlocks[k]) = {0}

TreeInv ==
    /\ DirectoryInv /\ EntryInv /\ StepInv /\ ExactInv /\ ReservedInv
    /\ pending # <<>> => mounted
    /\ mounted => inode_NowDir \in Directories \ Gone

FInv ==
    /\ TypeOK
    /\ damage = {} => (~formatted => FormatInv) /\ (formatted => TreeInv)
=============================================================================
