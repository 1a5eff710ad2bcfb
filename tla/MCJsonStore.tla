---------------------------- MODULE MCJsonStore -----------------------------
(* JsonStore for TLC: the cfg names the threads, keys, records and inodes.   *)
EXTENDS JsonStore
=============================================================================
