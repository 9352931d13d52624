--------------------------- MODULE MCCoordinator ----------------------------
(* A small instance of Coordinator for TLC: two instances and one fault.   *)
(* The fault (a lapsed session, a lost answer or a failed request) can hit *)
(* the holder or the contender, at any point of either one's loops, and    *)
(* each instance may also crash or be stopped at any moment.               *)
EXTENDS Coordinator
=============================================================================
