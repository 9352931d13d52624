------------------------------ MODULE Election ------------------------------
(***************************************************************************)
(* What the coordinator promises about leadership, without sessions,       *)
(* records or requests: a lock that one instance holds at a time, and the  *)
(* instances that act as leader because they were granted it.              *)
(*                                                                         *)
(* The promise is weaker than "one leader": the lock may be taken away     *)
(* from an instance (its session lapses) and granted to another before the *)
(* first one has noticed. What is left is that nobody acts as leader who   *)
(* was not granted the lock after it last stepped down, and that a running *)
(* leader never steps down from a lock it still has.                       *)
(***************************************************************************)
CONSTANTS Instances, None

VARIABLES
    running,    \* the instances whose process runs
    holder,     \* the instance the lock is granted to, or None
    granted,    \* the instances that were granted it and have not given up
    leaders     \* the instances that act as leader

electionVars == <<running, holder, granted, leaders>>

Init ==
    /\ running = {}
    /\ holder = None
    /\ granted = {}
    /\ leaders = {}

Enter(n) ==
    /\ running' = running \cup {n}
    /\ UNCHANGED <<holder, granted, leaders>>

(* The lock is granted to n, or confirmed.                                 *)
Grant(n) ==
    /\ n \in running
    /\ holder \in {None, n}
    /\ holder' = n
    /\ granted' = granted \cup {n}
    /\ UNCHANGED <<running, leaders>>

(* The lock is taken away; its holder need not know.                       *)
Vacate ==
    /\ holder # None
    /\ holder' = None
    /\ UNCHANGED <<running, granted, leaders>>

Lead(n) ==
    /\ n \in granted
    /\ leaders' = leaders \cup {n}
    /\ UNCHANGED <<running, holder, granted>>

(* n does not take up the lock it was granted.                             *)
Decline(n) ==
    /\ n \in granted \ leaders
    /\ granted' = granted \ {n}
    /\ UNCHANGED <<running, holder, leaders>>

(* n learns that the lock is not its own any more.                         *)
StepDown(n) ==
    /\ n \in leaders
    /\ holder # n
    /\ granted' = granted \ {n}
    /\ leaders' = leaders \ {n}
    /\ UNCHANGED <<running, holder>>

(* The process of n ends, whether it holds the lock or not.                *)
Leave(n) ==
    /\ n \in running
    /\ running' = running \ {n}
    /\ granted' = granted \ {n}
    /\ leaders' = leaders \ {n}
    /\ UNCHANGED holder

Next ==
    \/ Vacate
    \/ \E n \in Instances :
          Enter(n) \/ Grant(n) \/ Lead(n) \/ Decline(n) \/ StepDown(n) \/ Leave(n)

Spec == Init /\ [][Next]_electionVars
=============================================================================
