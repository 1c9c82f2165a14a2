--------------------------------- MODULE Heap ---------------------------------
(***************************************************************************)
(* What an allocator promises: a block handed out overlaps no block that   *)
(* is in use, and giving a block back changes nothing for the others.      *)
(***************************************************************************)
EXTENDS Integers

CONSTANT HeapSize       \* units of memory

VARIABLE used           \* the blocks in use, each a set of addresses

Addresses == 0 .. HeapSize - 1

HeapInit == \A a, b \in used : a = b \/ a \cap b = {}

Allocate(block) ==
    /\ block # {} /\ block \subseteq Addresses
    /\ \A b \in used : b \cap block = {}
    /\ used' = used \cup {block}

Release(block) ==
    /\ block \in used
    /\ used' = used \ {block}

HeapNext == \/ \E a \in Addresses, b \in Addresses : Allocate(a .. b)
            \/ \E b \in used : Release(b)

HeapSpec == HeapInit /\ [][HeapNext]_used
=============================================================================
