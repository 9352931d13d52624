------------------------------ MODULE MCMibSync ------------------------------
(* A small instance of MibSync for TLC: counters of 0..2, so that they     *)
(* wrap, and an audit delay below the resync delay as in the code.         *)
EXTENDS MibSync
=============================================================================
