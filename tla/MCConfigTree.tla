---------------------------- MODULE MCConfigTree ----------------------------
(* Small instances of ConfigTree for TLC: two children at first, and a     *)
(* third key that may be added.                                            *)
EXTENDS ConfigTree

CONSTANTS a, b, c, v1, v2, t1

TwoChildren == <<a, b>>
=============================================================================
