---------------------------- MODULE MCTaskRunner ----------------------------
(***************************************************************************)
(* Constants of the task runner for TLC: two exclusive tasks (a MIB upload *)
(* and a Get MDS task) and two that share the channel (a resync and a Get  *)
(* request), at the priorities the code gives them.                        *)
(***************************************************************************)
EXTENDS TaskRunner, TLC

CONSTANTS upload, mds, resync, get

MCTasks == {upload, mds, resync, get}

MCExclusive == {upload, mds}

MCPriority == (upload :> 250) @@ (mds :> 128) @@ (resync :> 240) @@ (get :> 128)
=============================================================================
