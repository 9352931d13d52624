------------------------------ MODULE TxStore ------------------------------
(***************************************************************************)
(* What voltha/core/config promises of transactions: a transaction works   *)
(* on the content as it was when it was opened, and its commit brings all  *)
(* of its changes into the current content at once, or none of them when   *)
(* one of them collides with a change made meanwhile.                      *)
(***************************************************************************)
CONSTANTS
    Contents,   \* what a tree can hold: functions from the same set of places
    Txids,      \* transactions
    None        \* the content of a transaction that is not open

VARIABLES
    current,    \* the committed content
    fork,       \* the content when the transaction was opened
    work        \* the content as the transaction sees it

vars == <<current, fork, work>>

Init ==
    /\ current \in Contents
    /\ fork = [t \in Txids |-> None]
    /\ work = [t \in Txids |-> None]

Open(t) ==
    /\ fork[t] = None
    /\ fork' = [fork EXCEPT ![t] = current]
    /\ work' = [work EXCEPT ![t] = current]
    /\ UNCHANGED current

Close(t) ==
    /\ fork[t] # None
    /\ fork' = [fork EXCEPT ![t] = None]
    /\ work' = [work EXCEPT ![t] = None]

(* A single place is written, in the committed content or a transaction's. *)
Written(old, new) ==
    /\ new \in Contents
    /\ \E p \in DOMAIN old : \A q \in DOMAIN old \ {p} : new[q] = old[q]

Write ==
    /\ Written(current, current')
    /\ UNCHANGED <<fork, work>>

WriteIn(t) ==
    /\ work[t] # None
    /\ Written(work[t], work'[t])
    /\ work' = [work EXCEPT ![t] = work'[t]]
    /\ UNCHANGED <<current, fork>>

(* Both sides changed the place since the fork, and differently.           *)
Collision(t, p) ==
    /\ work[t][p] # fork[t][p]
    /\ current[p] # fork[t][p]
    /\ work[t][p] # current[p]

Commit(t) ==
    /\ Close(t)
    /\ \A p \in DOMAIN current : ~Collision(t, p)
    /\ current' = [p \in DOMAIN current |-> IF work[t][p] # fork[t][p] THEN work[t][p] ELSE current[p]]

(* Cancelled, or refused.                                                  *)
Abandon(t) == Close(t) /\ UNCHANGED current

Next ==
    \/ Write
    \/ \E t \in Txids : Open(t) \/ WriteIn(t) \/ Commit(t) \/ Abandon(t)

Spec == Init /\ [][Next]_vars
=============================================================================
