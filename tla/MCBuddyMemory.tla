---------------------------- MODULE MCBuddyMemory ----------------------------
(* Instances of the allocator: trees of 16 nodes.                          *)
EXTENDS BuddyMemory
=============================================================================
