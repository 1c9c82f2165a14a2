---------------------------- MODULE DirectoryTree ----------------------------
(***************************************************************************)
(* What the calls of a file system promise about names: an entry is added  *)
(* under a name its directory does not have and with an inode nothing else *)
(* uses, a directory goes only when it is empty, an entry keeps its inode  *)
(* when it gets another name, and nothing else changes.  Once the file     *)
(* system is damaged it promises nothing any more.                         *)
(***************************************************************************)
CONSTANTS Inodes, FileNames

VARIABLES
    tree,       \* the entries
    damaged

treeVars == <<tree, damaged>>

Entry == [dir : Inodes, name : FileNames, inode : Inodes, isDir : BOOLEAN]

Unused(dir, name) == \A e \in tree : ~(e.dir = dir /\ e.name = name)

Add(e) ==
    /\ e \in Entry
    /\ Unused(e.dir, e.name)
    /\ \A f \in tree : f.inode # e.inode
    /\ tree' = tree \cup {e}

Remove(e) ==
    /\ \A f \in tree : f.dir # e.inode
    /\ tree' = tree \ {e}

Rename(e, name) ==
    /\ Unused(e.dir, name)
    /\ tree' = (tree \ {e}) \cup {[e EXCEPT !.name = name]}

TreeInit == tree = {} /\ ~damaged
Change == \/ \E e \in tree' \ tree : Add(e)
          \/ \E e \in tree \ tree' : Remove(e)
          \/ \E e \in tree \ tree', name \in FileNames : Rename(e, name)
TreeNext == \/ Change /\ UNCHANGED damaged
            \/ damaged'
TreeSpec == TreeInit /\ [][TreeNext]_treeVars
=============================================================================
