---------------------------- MODULE MCFileSystem ----------------------------
(* Instances of the file system.                                           *)
EXTENDS FileSystem
Symmetry == Permutations(FileNames)

\* Where the table of inodes is to be, the disk holds nothing or the inode of a
\* directory, with the blocks that the first directory after the root will get.
Nothing == [links |-> 0, block |-> [k \in 1 .. DIR_BLOCKS |-> NIL]]
Leftover == [links |-> DIR_BLOCKS, block |-> [k \in 1 .. DIR_BLOCKS |-> Reserved + DIR_BLOCKS + k - 1]]
TableBefore == [n \in Inodes |-> IF n % 2 = 0 THEN Leftover ELSE Nothing]
TablesBefore == {TableBefore}

\* Nothing is explored beyond the first damage, ...
Undamaged == damage = {}
\* ... or beyond the first of another kind than an entry where no search sees it.
OnlyHidden == damage \subseteq {"hidden"}
=============================================================================
