------------------------------ MODULE FileSystem ------------------------------
(***************************************************************************)
(* The file system (FilsSystem.c) and the commands that call it            *)
(* (Command.c).  Only the shell calls it, one call at a time; a call is    *)
(* the sequence of its writes to the disk (pending), and the machine may   *)
(* stop between any two of them (Crash).                                   *)
(*                                                                         *)
(* A sector holds EntriesPerSector directory entries.  A block has two     *)
(* sectors, but block n begins at sector n of the block table, so its      *)
(* second sector is the first of block n + 1.  Entry 0 of a block is its   *)
(* header: file_type there has a bit for each entry in use and for itself. *)
(* file_type is the set of its bits.  Searches shift an unsigned char over *)
(* the header and so look at the entries of the first sector only.         *)
(***************************************************************************)
EXTENDS Integers, FiniteSets, SequencesExt

CONSTANTS
    FileNames,          \* names the commands are given
    NoName,
    InodeCount, BlockCount,
    Reserved,           \* blocks that Format marks, for the tables
    DIR_BLOCKS,         \* blocks of a directory (12)
    EntriesPerSector,   \* (8)
    InodesBefore        \* what the disk may hold where Format puts the table of inodes

ASSUME FileSystemAssumption ==
    /\ NoName \notin FileNames
    /\ InodeCount \in Nat /\ InodeCount > 1
    /\ DIR_BLOCKS \in Nat \ {0} /\ EntriesPerSector \in Nat \ {0}
    /\ Reserved \in Nat /\ Reserved > 1
    /\ BlockCount \in Nat /\ BlockCount >= Reserved + DIR_BLOCKS
    /\ InodesBefore \subseteq [0 .. InodeCount - 1 ->
          [links : 0 .. DIR_BLOCKS, block : [1 .. DIR_BLOCKS -> 0 .. BlockCount - 1]]]

Inodes == 0 .. InodeCount - 1
BlockNumbers == 0 .. BlockCount - 1
ENTRY_COUNT == 2 * EntriesPerSector
NIL == 0
INODE_ENTRY_BIT == 0
INODE_ROOTDIR == 1
FILETYPE_FILE == {0}
FILETYPE_DIR == {1}
Indices == 0 .. ENTRY_COUNT - 1

VARIABLES
    \* the disk
    block_bitmap, inode_bitmap, inode_table, block_table, formatted,
    \* memory: the directory in Super, what is still to be written, whether the
    \* shell runs
    inode_NowDir, pending, mounted,
    \* history: inodes whose entry is on the disk and who themselves never got
    \* there, whether a crash cut a call short, and what calls did that may have
    \* damaged directories
    half, crashed, damage

diskVars == <<block_bitmap, inode_bitmap, inode_table, block_table, formatted>>
memoryVars == <<inode_NowDir, pending, mounted>>
historyVars == <<half, crashed, damage>>
vars == <<diskVars, memoryVars, historyVars>>

NoEntry == [inode |-> INODE_ENTRY_BIT, type |-> {}, name |-> NoName]
Empty == [k \in Indices |-> NoEntry]
Header == [inode |-> INODE_ENTRY_BIT, type |-> {0}, name |-> NoName]

\* ReadSector of a block.
Block(n) == [k \in Indices |-> block_table[n + k \div EntriesPerSector][k % EntriesPerSector]]

-----------------------------------------------------------------------------
(* Writes.                                                                 *)

WriteBlockBitmap(bits) == [to |-> "block_bitmap", bits |-> bits]
WriteInodeBitmap(bits) == [to |-> "inode_bitmap", bits |-> bits]
WriteInode(n, inode) == [to |-> "inode", number |-> n, inode |-> inode]
WriteBlock(n, entries) == [to |-> "block", number |-> n, entries |-> entries]
\* A block of the working directory, with an entry made or removed.
WriteEntry(n, entries) == [to |-> "entry", number |-> n, entries |-> entries]

\* One call of WriteSector reaches the disk.
Write ==
    LET w == Head(pending)
        At(n) == n = w.number \/ n = w.number + 1
    IN  /\ pending # <<>>
        /\ pending' = Tail(pending)
        /\ block_bitmap' = IF w.to = "block_bitmap" THEN w.bits ELSE block_bitmap
        /\ inode_bitmap' = IF w.to = "inode_bitmap" THEN w.bits ELSE inode_bitmap
        /\ inode_table' = IF w.to = "inode" THEN [inode_table EXCEPT ![w.number] = w.inode]
                                           ELSE inode_table
        /\ block_table' = IF w.to \in {"block", "entry"}
                          THEN [n \in DOMAIN block_table |->
                                 IF At(n) THEN [k \in 0 .. EntriesPerSector - 1 |->
                                                  w.entries[(n - w.number) * EntriesPerSector + k]]
                                          ELSE block_table[n]]
                          ELSE block_table
        /\ formatted' = (formatted \/ w.to = "formatted")
        /\ mounted' = (mounted \/ w.to = "formatted")
        /\ half' = IF w.to = "free_half" THEN half \cup {w.number} ELSE half
        /\ UNCHANGED <<inode_NowDir, crashed, damage>>

Smallest(numbers) == CHOOSE n \in numbers : \A m \in numbers : n <= m

\* Alloc_inode: the first unmarked inode, or INODE_ENTRY_BIT.
FreeInodes == Inodes \ inode_bitmap
Alloc_inode == IF FreeInodes = {} THEN INODE_ENTRY_BIT ELSE Smallest(FreeInodes)

\* Alloc_Block: the first unmarked block, or NIL.  MakeDir calls it until it has
\* DIR_BLOCKS of them or gets NIL, which is also the number of block 0.
FreeBlocks == BlockNumbers \ block_bitmap
Alloc_Block_Slip(blocks) ==
    LET free == FreeBlocks \ Range(blocks)
    IN  Append(blocks, IF free = {} THEN BlockCount ELSE Smallest(free))
Alloc_Block(blocks) ==
    LET free == FreeBlocks \ Range(blocks)
    IN  IF free = {} \/ NIL \in free THEN blocks ELSE Append(blocks, Smallest(free))
GotBlocks ==
    LET after[calls \in Nat] == IF calls = 0 THEN <<>> ELSE Alloc_Block(after[calls - 1])
    IN  after[DIR_BLOCKS]
Taken(blocks, n) == {blocks[k] : k \in 1 .. n}

\* Blocks marked and initialised one by one, as MakeDir does it, ...
AllocWrites(blocks) ==
    [k \in 1 .. 2 * Len(blocks) |->
        IF k % 2 = 1 THEN WriteBlockBitmap(block_bitmap \cup Taken(blocks, (k + 1) \div 2))
                     ELSE WriteBlock(blocks[k \div 2], [Empty EXCEPT ![0] = Header])]
\* ... block 0 marked, when it is taken for NIL, ...
MarkNIL == IF NIL \in FreeBlocks THEN <<WriteBlockBitmap(block_bitmap \cup {NIL})>> ELSE <<>>
\* ... and Free_Block on one after the other, when bits are marked.
Free_Block_Slip(blocks, bits) ==
    [k \in 1 .. 2 * Len(blocks) |->
        IF k % 2 = 1 THEN WriteBlockBitmap(bits \ {blocks[(k + 1) \div 2]})
                     ELSE WriteBlock(blocks[k \div 2], Empty)]
Free_Block(blocks, bits) ==
    [k \in 1 .. 2 * Len(blocks) |->
        IF k % 2 = 1 THEN WriteBlockBitmap(bits \ Taken(blocks, (k + 1) \div 2))
                     ELSE WriteBlock(blocks[k \div 2], Empty)]
\* Free_inode clears less of the inode than a field anybody reads.
Free_inode(n, bits) == <<WriteInodeBitmap(bits \ {n})>>

-----------------------------------------------------------------------------
(* Format, if the disk is not marked as formatted.  The bitmaps come from  *)
(* fresh memory, which is taken to be zero; the Reserved blocks are marked *)
(* (SetBitmap_block), inode 0 is taken first.  The table of inodes is not  *)
(* written: it has more sectors than WriteSector accepts in one call, so   *)
(* that inodes are what the disk held before.                              *)
SetBitmap_block == 0 .. Reserved - 1
SetIsFmat == [to |-> "formatted"]
RootBlocks == [k \in 1 .. DIR_BLOCKS |-> Reserved + k - 1]
FormatWrites_Slip ==
    <<WriteBlockBitmap(SetBitmap_block), WriteInodeBitmap({}), WriteInodeBitmap({0}),
      WriteInodeBitmap({0, INODE_ROOTDIR}), SetIsFmat>>
    \o [k \in 1 .. DIR_BLOCKS |-> WriteBlockBitmap(0 .. RootBlocks[k])]
    \o <<WriteInode(INODE_ROOTDIR, [links |-> DIR_BLOCKS, block |-> RootBlocks])>>
    \o [k \in 1 .. DIR_BLOCKS |-> WriteBlock(RootBlocks[k], [Empty EXCEPT ![0] = Header])]
FormatWrites ==
    <<WriteBlockBitmap(SetBitmap_block), WriteInodeBitmap({}), WriteInodeBitmap({0}),
      WriteInodeBitmap({0, INODE_ROOTDIR})>>
    \o [k \in 1 .. DIR_BLOCKS |-> WriteBlockBitmap(0 .. RootBlocks[k])]
    \o <<WriteInode(INODE_ROOTDIR, [links |-> DIR_BLOCKS, block |-> RootBlocks])>>
    \o [k \in 1 .. DIR_BLOCKS |-> WriteBlock(RootBlocks[k], [Empty EXCEPT ![0] = Header])]
    \o <<SetIsFmat>>

Format ==
    /\ ~mounted /\ pending = <<>>
    /\ inode_NowDir' = INODE_ROOTDIR
    /\ IF formatted THEN mounted' = TRUE /\ UNCHANGED pending
                    ELSE pending' = FormatWrites /\ UNCHANGED mounted
    /\ UNCHANGED <<diskVars, historyVars>>

-----------------------------------------------------------------------------
(* Looking up a name in the working directory.                             *)

DirBlock(index) == inode_table[inode_NowDir].block[index]
\* Find_withFilename: the entries its search sees.
Seen == {p \in (1 .. DIR_BLOCKS) \X (1 .. EntriesPerSector - 1) :
            p[2] \in Block(DirBlock(p[1]))[0].type}
Matches(name) == {p \in Seen : Block(DirBlock(p[1]))[p[2]].name = name}
Find_withFilename(name) ==
    CHOOSE p \in Matches(name) : \A q \in Matches(name) :
        p[1] < q[1] \/ (p[1] = q[1] /\ p[2] <= q[2])
FoundBlock(name) == DirBlock(Find_withFilename(name)[1])
FoundIndex(name) == Find_withFilename(name)[2]
FoundEntry(name) == Block(FoundBlock(name))[FoundIndex(name)]

\* Check_isFull, and Return_EmptyIndex of the first block that is not full.
NotFull == {b \in 1 .. DIR_BLOCKS : Block(DirBlock(b))[0].type # Indices}
RoomBlock == DirBlock(Smallest(NotFull))
EmptyIndex_Slip == Cardinality(Block(RoomBlock)[0].type)
EmptyIndex == Smallest(Indices \ Block(RoomBlock)[0].type)

(* The directories that can be reached from the root, without those that   *)
(* are being made, and the blocks they own.                                *)
Building ==
    {pending[k].number : k \in {j \in 1 .. Len(pending) : pending[j].to \in {"inode", "free_half"}}}
Children(d) ==
    UNION {LET block == Block(b)
           IN  {[dir |-> d, name |-> block[k].name, inode |-> block[k].inode,
                 isDir |-> block[k].type = FILETYPE_DIR] : k \in block[0].type \ {0}} :
             b \in Range(inode_table[d].block)}
Below(d) == {e.inode : e \in {f \in Children(d) : f.isDir}} \ (Building \cup half)
Reachable(below) ==
    LET within[n \in 0 .. InodeCount] ==
            IF n = 0 THEN {INODE_ROOTDIR}
                     ELSE UNION {{d} \cup below[d] : d \in within[n - 1]}
    IN  within[InodeCount]
Directories == Reachable([d \in Inodes |-> Below(d)])
BlocksOf(d) == Range(inode_table[d].block)
OtherBlocks(d) == UNION {BlocksOf(c) : c \in Directories \ {d}}

-----------------------------------------------------------------------------
(* Calls.  The shell calls only when the call before is done.              *)
Calling == mounted /\ pending = <<>>

(* What a call may do that damages directories, none of which the code     *)
(* keeps it from: take inodes as it finds them when one is half made;      *)
(* initialise or clear blocks of d, and with one the first sector of       *)
(* another directory's; make an entry where no search sees it; write a     *)
(* text to the sectors of a directory.                                     *)
UsesHalfMade == IF half = {} THEN {} ELSE {"half made"}
Overlaps(blocks, d) == IF {b + 1 : b \in blocks} \cap OtherBlocks(d) = {} THEN {} ELSE {"overlap"}
Hides(index) == IF index < EntriesPerSector THEN {} ELSE {"hidden"}
Overwrites(b) ==
    IF \E d \in Directories : b \in BlocksOf(d) \/ b - 1 \in BlocksOf(d) THEN {"overwritten"} ELSE {}
Damages == {"half made", "overlap", "hidden", "overwritten"}

Pend(writes, harm) ==
    /\ pending' = writes
    /\ damage' = damage \cup harm \cup UsesHalfMade
    /\ UNCHANGED <<diskVars, inode_NowDir, mounted, half, crashed>>

\* The block of the working directory with an entry for a new inode n.
WithEntry(n, type, name) ==
    [[Block(RoomBlock) EXCEPT ![0].type = @ \cup {EmptyIndex}]
        EXCEPT ![EmptyIndex] = [inode |-> n, type |-> type, name |-> name]]
\* ... and without the entry found under a name.
WithoutEntry(name) ==
    [[Block(FoundBlock(name)) EXCEPT ![FoundIndex(name)] = NoEntry]
        EXCEPT ![0].type = @ \ {FoundIndex(name)}]

\* What CreateFile and MakeDir have in common.
New(name) ==
    /\ Calling
    /\ Matches(name) = {}
    /\ NotFull # {}
    /\ Alloc_inode # INODE_ENTRY_BIT

(* touch: CreateFile.  The list of blocks of the inode stays what it was.  *)
CreateFileWrites_Slip(name) ==
    LET n == Alloc_inode
    IN  <<WriteEntry(RoomBlock, WithEntry(n, FILETYPE_FILE, name)),
          WriteInodeBitmap(inode_bitmap \cup {n}),
          WriteInode(n, [inode_table[n] EXCEPT !.links = 0])>>
CreateFileWrites(name) ==
    LET n == Alloc_inode
    IN  <<WriteInodeBitmap(inode_bitmap \cup {n}),
          WriteEntry(RoomBlock, WithEntry(n, FILETYPE_FILE, name)),
          WriteInode(n, [inode_table[n] EXCEPT !.links = 0])>>
CreateFile(name) == New(name) /\ Pend(CreateFileWrites(name), Hides(EmptyIndex))

(* mkdir: MakeDir.  When the blocks do not suffice, inode and blocks are   *)
(* freed, with them block NIL, and the entry stays.                        *)
MakeDirWrites(name) ==
    LET n == Alloc_inode
        blocks == GotBlocks
        marked == block_bitmap \cup Range(blocks)
        entered == <<WriteInodeBitmap(inode_bitmap \cup {n}),
                     WriteEntry(RoomBlock, WithEntry(n, FILETYPE_DIR, name))>>
    IN  IF Len(blocks) = DIR_BLOCKS
        THEN entered \o AllocWrites(blocks)
                \o <<WriteInode(n, [links |-> DIR_BLOCKS, block |-> blocks])>>
        ELSE entered \o AllocWrites(blocks) \o MarkNIL \o <<[to |-> "free_half", number |-> n]>>
                \o Free_inode(n, inode_bitmap)
                \o Free_Block(<<NIL>> \o Reverse(blocks), marked)
MakeDir(name) ==
    /\ New(name)
    /\ Pend(MakeDirWrites(name), Hides(EmptyIndex) \cup Overlaps(Range(GotBlocks), Alloc_inode))

\* What DeleteFile and RemoveDir have in common, for the entry they found.
RemoveWrites(name) ==
    LET n == FoundEntry(name).inode
        inode == inode_table[n]
    IN  <<WriteEntry(FoundBlock(name), WithoutEntry(name))>>
            \o Free_Block(SubSeq(inode.block, 1, inode.links), block_bitmap)
            \o Free_inode(n, inode_bitmap)

(* rm: DeleteFile.                                                         *)
DeleteFile(name) ==
    /\ Calling
    /\ Matches(name) # {}
    /\ FILETYPE_DIR \cap FoundEntry(name).type = {}
    /\ Pend(RemoveWrites(name), {})

(* rmdir: RemoveDir.  It looks for children in the header of the first     *)
(* block of the directory, at the bits of the first sector.                *)
HasChildren(n) ==
    Block(inode_table[n].block[1])[0].type \cap (1 .. EntriesPerSector - 1) # {}
RemoveDir(name) ==
    LET n == FoundEntry(name).inode
    IN  /\ Calling
        /\ Matches(name) # {}
        /\ FILETYPE_FILE \cap FoundEntry(name).type = {}
        /\ ~HasChildren(n)
        /\ Pend(RemoveWrites(name), Overlaps(BlocksOf(n), n))

(* ren: RenameFile.                                                        *)
RenameFile(old, new) ==
    /\ Calling
    /\ Matches(old) # {} /\ Matches(new) = {}
    /\ Pend(<<WriteEntry(FoundBlock(old),
                [Block(FoundBlock(old)) EXCEPT ![FoundIndex(old)].name = new])>>, {})

(* write: WriteFile with a text shorter than a sector.  No block is        *)
(* allocated to a file, so it goes to the block the inode has from before, *)
(* over its entry 0.                                                       *)
WriteFile(name) ==
    LET b == inode_table[FoundEntry(name).inode].block[1]
    IN  /\ Calling
        /\ Matches(name) # {}
        /\ FILETYPE_DIR \cap FoundEntry(name).type = {}
        /\ \E bits \in {{}, Indices} :
              Pend(<<WriteBlock(b, [Block(b) EXCEPT ![0].type = bits])>>, Overwrites(b))

(* cd: ChangeDirectory, or back to the root.                               *)
Enter(n) ==
    /\ inode_NowDir' = n
    /\ damage' = damage \cup IF n \in half THEN {"half made"} ELSE {}
    /\ UNCHANGED <<diskVars, pending, mounted, half, crashed>>
ChangeDirectory_Slip(name) ==
    /\ Calling
    /\ Matches(name) # {}
    /\ Enter(FoundEntry(name).inode)
ChangeDirectory(name) ==
    /\ Calling
    /\ Matches(name) # {}
    /\ FILETYPE_DIR \subseteq FoundEntry(name).type
    /\ Enter(FoundEntry(name).inode)
cd_Root ==
    /\ Calling
    /\ Enter(INODE_ROOTDIR)

(* The machine stops.  An inode whose entry is written and which itself is *)
(* not keeps the fields of whoever had it before.                          *)
EntryWritten == \A k \in 1 .. Len(pending) : pending[k].to # "entry"
Crash ==
    /\ mounted' = FALSE
    /\ pending' = <<>>
    /\ crashed' = (crashed \/ pending # <<>>)
    /\ half' = half \cup IF EntryWritten /\ formatted THEN Building ELSE {}
    /\ UNCHANGED <<diskVars, inode_NowDir, damage>>

-----------------------------------------------------------------------------
\* A disk from the factory, but for the table of inodes.
Init ==
    /\ block_bitmap = {} /\ inode_bitmap = {} /\ formatted = FALSE
    /\ inode_table \in InodesBefore
    /\ block_table = [n \in 0 .. BlockCount |-> [k \in 0 .. EntriesPerSector - 1 |-> NoEntry]]
    /\ inode_NowDir = INODE_ROOTDIR /\ pending = <<>> /\ mounted = FALSE
    /\ half = {} /\ crashed = FALSE /\ damage = {}

Call(name) ==
    \/ CreateFile(name) \/ MakeDir(name) \/ DeleteFile(name) \/ RemoveDir(name)
    \/ WriteFile(name) \/ ChangeDirectory(name)
    \/ \E new \in FileNames : RenameFile(name, new)

Next == Format \/ Write \/ Crash \/ cd_Root \/ \E name \in FileNames : Call(name)

Spec == Init /\ [][Next]_vars

-----------------------------------------------------------------------------
Entries == [inode : Inodes, type : SUBSET Indices, name : FileNames \cup {NoName}]
TypeOK ==
    /\ block_bitmap \subseteq BlockNumbers
    /\ inode_bitmap \subseteq Inodes
    /\ inode_table \in [Inodes -> [links : 0 .. DIR_BLOCKS, block : [1 .. DIR_BLOCKS -> BlockNumbers]]]
    /\ \A n \in 0 .. BlockCount : \A k \in 0 .. EntriesPerSector - 1 : block_table[n][k] \in Entries
    /\ formatted \in BOOLEAN /\ mounted \in BOOLEAN /\ crashed \in BOOLEAN
    /\ inode_NowDir \in Inodes
    /\ half \subseteq Inodes /\ damage \subseteq Damages

tree == IF formatted THEN UNION {Children(d) : d \in Directories} ELSE {}

(* The tree on the disk changes as DirectoryTree says, one entry at a      *)
(* time, also when calls are cut short; half-made entries are in it.  Of   *)
(* what comes after damage nothing is said, here and below.                *)
Abstract == INSTANCE DirectoryTree WITH damaged <- damage # {}
ImplementsTree == Abstract!TreeSpec

(* Every entry names a marked inode, at every point where the machine may  *)
(* stop, so that no later call gives the same inode to another file.       *)
EntriesMarked == formatted /\ half = {} /\ damage = {} => \A e \in tree : e.inode \in inode_bitmap

(* The blocks of the directories are marked and belong to one of them.     *)
DirectoriesOwnBlocks ==
    formatted /\ damage = {} =>
        LET dirs == Directories
        IN  /\ \A d \in dirs : /\ BlocksOf(d) \subseteq block_bitmap \ SetBitmap_block
                             /\ Cardinality(BlocksOf(d)) = DIR_BLOCKS
            /\ \A c, d \in dirs : c # d => BlocksOf(c) \cap BlocksOf(d) = {}

(* Between calls nothing is marked that is not in use, unless a call was   *)
(* cut short or a mkdir ran out of blocks.                                 *)
NothingLeaks ==
    Calling /\ ~crashed /\ half = {} /\ damage = {} =>
        /\ inode_bitmap = {0, INODE_ROOTDIR} \cup {e.inode : e \in tree}
        /\ block_bitmap = SetBitmap_block \cup UNION {BlocksOf(d) : d \in Directories}

(* The shell is in a directory that exists, whatever was removed.          *)
WorkingDirectoryExists == mounted /\ damage = {} => inode_NowDir \in Directories

(* A directory that is removed has no entries, neither files nor           *)
(* directories (rmdir says of one that has: not removeable).               *)
RemovedIsEmpty ==
    [][\A d \in {e.inode : e \in {f \in tree : f.isDir}} :
          (\A e \in tree' : e.inode # d) => \A e \in tree : e.dir # d]_vars
=============================================================================
