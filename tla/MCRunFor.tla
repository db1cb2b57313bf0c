------------------------------ MODULE MCRunFor ------------------------------
(* Instances of RunFor for TLC.                                            *)
EXTENDS MCRuntime, RunFor
=============================================================================
