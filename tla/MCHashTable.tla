---------------------------- MODULE MCHashTable ----------------------------
(* Instance of HashTable for TLC.                                          *)
EXTENDS HashTable
=============================================================================
