---------------------------- MODULE MCIntegrity ----------------------------
(* A memory image and a disk image of one chunk each, in hashing order.  *)
EXTENDS Integrity

MCFiles  == {"memory", "disk"}
MCFileOf == <<"memory", "disk">>
=============================================================================
