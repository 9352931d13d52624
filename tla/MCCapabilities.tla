--------------------------- MODULE MCCapabilities ---------------------------
(* A small instance of Capabilities for TLC: three restarts, so that a     *)
(* stale call can meet a second and a third run of the machine, and enough *)
(* changes of the flag to lose and regain sync in each.                    *)
EXTENDS Capabilities
=============================================================================
