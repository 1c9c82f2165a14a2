----------------------------- MODULE MCDiskDriver -----------------------------
(* Instances of the disk driver.                                           *)
EXTENDS DiskDriver
=============================================================================
