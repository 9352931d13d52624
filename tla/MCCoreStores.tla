---------------------------- MODULE MCCoreStores ----------------------------
(* Small instances of CoreStores for TLC: a is the first instance of       *)
(* number 1; b has number 2 and c is started in its place once b has       *)
(* ended. That is enough for a Leader to crash at each of its writes, for  *)
(* another instance to take over, and for a slot to be inherited.          *)
EXTENDS CoreStores, TLC

CONSTANTS a, b, c

MCNumber == a :> 1 @@ b :> 2 @@ c :> 2
MCTimestamp == a :> 1 @@ b :> 1 @@ c :> 2
=============================================================================
