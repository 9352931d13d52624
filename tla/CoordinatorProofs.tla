------------------------- MODULE CoordinatorProofs --------------------------
(***************************************************************************)
(* Proofs about the coordinators, for every set of instances and any       *)
(* number of lapsed sessions and lost answers: a leader that has lost the  *)
(* lock has the loss still to read, and the three loops implement the      *)
(* abstract election.                                                      *)
(***************************************************************************)
EXTENDS Coordinator, TLAPS

(* An instance only ever uses sessions it has created itself, and the      *)
(* leader key names the owner of the session that locks it.                *)
SessionsOwn ==
    /\ \A n \in Instances : session_id[n] # None => Owner(session_id[n]) = n
    /\ leaderKey.session # None => leaderKey.value = Owner(leaderKey.session)

(* The loop of an instance without a membership record is off, and a       *)
(* leader is one that watches the leader key: it steps down before it does *)
(* anything else.                                                          *)
Joined(n) == status[n] \in {"up", "stopping"}

LeaderWatches ==
    \A n \in Instances :
        /\ ~Joined(n) => loop[n] = "off"
        /\ i_am_leader[n] => loop[n] = "watch"

(* What the loop read back is the leader key as it is, unless the key has  *)
(* changed since.                                                          *)
ReadBack ==
    \A n \in Instances : loop[n] = "got" /\ fresh[n] => answer[n] = leaderKey

(* Between the read and the next PUT of an instance the lock can leave it, *)
(* but it cannot come to it: a change it has not read is never in its      *)
(* favour.                                                                 *)
ChangeIsLoss ==
    \A n \in Instances :
        /\ i_am_leader[n] /\ fresh[n] => Holds(n)
        /\ loop[n] \in {"got", "watch"} /\ ~fresh[n] => ~Holds(n)

(* The inductive invariant.                                                *)
IInv ==
    /\ TypeOK
    /\ SessionsOwn
    /\ LeaderWatches
    /\ ReadBack
    /\ ChangeIsLoss

-----------------------------------------------------------------------------
(* The end of a session, whoever causes it: the keys it locked are         *)
(* released and every unread change of the leader key is a loss.           *)
LEMMA InvalidateKeeps ==
    ASSUME IInv, NEW s, Invalidate(s),
           UNCHANGED <<session_id, result, answer, i_am_leader>>,
           status' \in [Instances -> {"off", "starting", "joining", "up", "stopping", "dead"}],
           \A n \in Instances : Joined(n) => Joined(n)',
           redo' \in [Instances -> BOOLEAN],
           faults' \in 0..MaxFaults
    PROVE  IInv'
<1> USE DEF IInv
<1>1. /\ leaderKey' \in Record /\ lockDelay' \in BOOLEAN
      /\ leaderKey'.session # None => leaderKey' = leaderKey
  BY DEF Invalidate, TypeOK, Record
<1>2. /\ loop' \in [Instances -> {"off", "put", "get", "got", "watch", "sleep", "doze", "ended"}]
      /\ \A n \in Instances : loop'[n] = loop[n] \/ (loop[n] = "sleep" /\ loop'[n] = "doze")
  BY DEF Invalidate, TypeOK
<1>3. fresh' \in [Instances -> BOOLEAN]
  BY DEF Invalidate, TypeOK
<1>4. /\ \A n \in Instances : fresh'[n] => fresh[n] /\ leaderKey' = leaderKey
      /\ \/ (\A n \in Instances : fresh'[n] = fresh[n]) /\ leaderKey' = leaderKey
         \/ leaderKey'.session = None
  BY DEF Invalidate, TypeOK, Record
<1>5. memberKey' \in [Instances -> Sessions \cup {None}] /\ sessions' \subseteq Sessions
  BY DEF Invalidate, TypeOK
<1>6. TypeOK'
  BY <1>1, <1>2, <1>3, <1>5 DEF TypeOK
<1>7. SessionsOwn'
  BY <1>1 DEF SessionsOwn
<1>8. LeaderWatches'
  BY <1>2 DEF LeaderWatches
<1>9. ReadBack'
  BY <1>2, <1>4 DEF ReadBack
<1>10. ChangeIsLoss'
  BY <1>2, <1>4 DEF ChangeIsLoss, Holds, LeaderWatches
<1> QED
  BY <1>6, <1>7, <1>8, <1>9, <1>10

(* A step that neither ends a session nor touches the leader key or the    *)
(* loop of any instance.                                                   *)
LEMMA QuietKeeps ==
    ASSUME IInv, UNCHANGED <<leaderKey, loopVars, i_am_leader>>,
           TypeOK',
           \A n \in Instances : Joined(n) => Joined(n)',
           \A n \in Instances : session_id'[n] # None => Owner(session_id'[n]) = n
    PROVE  IInv'
<1>1. SessionsOwn' /\ ReadBack' /\ ChangeIsLoss'
  BY DEF IInv, loopVars, SessionsOwn, ReadBack, ChangeIsLoss, Holds
<1>2. LeaderWatches'
  BY DEF IInv, loopVars, LeaderWatches
<1> QED
  BY <1>1, <1>2 DEF IInv

(* The process of an instance ends.                                        *)
LEMMA EndProcessKeeps ==
    ASSUME IInv, NEW n \in Instances, EndProcess(n)
    PROVE  IInv'
<1> USE DEF IInv, EndProcess, consulVars
<1>1. TypeOK'
  BY DEF TypeOK, Record, NoRecord
<1>2. SessionsOwn' /\ ReadBack' /\ ChangeIsLoss'
  BY DEF TypeOK, SessionsOwn, ReadBack, ChangeIsLoss, Holds
<1>3. LeaderWatches'
  BY DEF TypeOK, LeaderWatches, Joined
<1> QED
  BY <1>1, <1>2, <1>3

(* A new session is typed, owned and alive.                                *)
LEMMA NewSessionOwn ==
    ASSUME IInv, NEW n \in Instances, NewSession(n)
    PROVE  /\ sessions' \subseteq Sessions /\ sessions \subseteq sessions'
           /\ session_id' \in [Instances -> Sessions \cup {None}]
           /\ \A m \in Instances : session_id'[m] # None => Owner(session_id'[m]) = m
<1>1. PICK k \in 1..MaxSessions :
         /\ session_id' = [session_id EXCEPT ![n] = <<n, k>>]
         /\ sessions' = sessions \cup {<<n, k>>}
  BY DEF NewSession
<1>2. <<n, k>> \in Sessions /\ Owner(<<n, k>>) = n
  BY DEF Sessions, Owner
<1> QED
  BY <1>1, <1>2 DEF IInv, TypeOK, SessionsOwn

(* A record that is acquired is locked by a session.                       *)
LEMMA AcquireTyped ==
    ASSUME IInv, NEW n \in Instances, AcquireMembership(n)
    PROVE  memberKey' \in [Instances -> Sessions \cup {None}]
BY DEF AcquireMembership, IInv, TypeOK

-----------------------------------------------------------------------------
(* Sessions and membership: the steps of Consul and of two of the loops.   *)
LEMMA SessionStep ==
    ASSUME IInv, NEW n \in Instances, start(n) \/ stop(n) \/ SessionLoop(n) \/ MembershipLoop(n)
    PROVE  IInv'
<1> USE DEF consulVars, loopVars
<1>1. CASE start(n)
  BY <1>1, QuietKeeps DEF start, IInv, TypeOK, SessionsOwn, Joined
<1>2. CASE stop(n)
  <2>1. /\ status' \in [Instances -> {"off", "starting", "joining", "up", "stopping", "dead"}]
        /\ \A m \in Instances : Joined(m) => Joined(m)'
        /\ faults' \in 0..MaxFaults
    BY <1>2, FaultsAssumption DEF stop, IInv, TypeOK, Joined, Fault
  <2>2. CASE _delete_session(n)
    BY <1>2, <2>1, <2>2, InvalidateKeeps DEF stop, _delete_session, IInv, TypeOK
  <2>3. CASE DeleteFails
    BY <1>2, <2>1, <2>3, QuietKeeps DEF stop, DeleteFails, IInv, TypeOK, SessionsOwn
  <2> QED
    BY <1>2, <2>2, <2>3 DEF stop
<1>3. CASE _create_session(n)
  BY <1>3, NewSessionOwn, QuietKeeps DEF _create_session, IInv, TypeOK, Joined
<1>4. CASE _renew_session_timeout(n)
  <2>1. redo' \in [Instances -> BOOLEAN] /\ faults' \in 0..MaxFaults
    BY <1>4, FaultsAssumption DEF _renew_session_timeout, IInv, TypeOK, Fault
  <2>2. CASE _delete_session(n)
    BY <1>4, <2>1, <2>2, InvalidateKeeps DEF _renew_session_timeout, _delete_session, IInv, TypeOK, Joined
  <2>3. CASE DeleteFails
    BY <1>4, <2>1, <2>3, QuietKeeps
    DEF _renew_session_timeout, DeleteFails, IInv, TypeOK, SessionsOwn, Joined
  <2> QED
    BY <1>4, <2>2, <2>3 DEF _renew_session_timeout
<1>5. CASE _redo_session(n)
  <2>1. redo' \in [Instances -> BOOLEAN] /\ faults' \in 0..MaxFaults
    BY <1>5, FaultsAssumption DEF _redo_session, IInv, TypeOK, Fault
  <2>2. CASE NewSession(n)
    BY <1>5, <2>1, <2>2, NewSessionOwn, QuietKeeps DEF _redo_session, IInv, TypeOK, Joined
  <2>3. CASE UNCHANGED <<session_id, sessions>>
    BY <1>5, <2>1, <2>3, QuietKeeps DEF _redo_session, IInv, TypeOK, SessionsOwn, Joined
  <2> QED
    BY <1>5, <2>2, <2>3 DEF _redo_session
<1>6. CASE _create_membership_record(n)
  <2>1. memberKey' \in [Instances -> Sessions \cup {None}]
    BY <1>6, AcquireTyped DEF _create_membership_record
  <2>2. TypeOK'
    BY <1>6, <2>1 DEF _create_membership_record, IInv, TypeOK
  <2>3. i_am_leader[n] = FALSE
    BY <1>6 DEF _create_membership_record, IInv, TypeOK, LeaderWatches, ChangeIsLoss, Joined
  <2> QED
    BY <1>6, <2>1, <2>2, <2>3
    DEF _create_membership_record, IInv, TypeOK, SessionsOwn, LeaderWatches, ReadBack, ChangeIsLoss, Holds, Joined
<1>7. CASE _maintain_membership_record(n)
  <2>1. memberKey' \in [Instances -> Sessions \cup {None}]
    BY <1>7, AcquireTyped DEF _maintain_membership_record
  <2> QED
    BY <1>7, <2>1, QuietKeeps DEF _maintain_membership_record, IInv, TypeOK, SessionsOwn, Joined
<1> QED
  BY <1>1, <1>2, <1>3, <1>4, <1>5, <1>6, <1>7 DEF SessionLoop, MembershipLoop

(* The leadership tracking loop.  A PUT that is granted changes the key    *)
(* under everybody who has read it, and under nobody who holds it.         *)
LEMMA LeadershipStep ==
    ASSUME IInv, NEW n \in Instances, LeadershipLoop(n) \/ PutAnswerLost(n)
    PROVE  IInv'
<1> USE DEF IInv, consulVars
<1>1. CASE Put(n)
  <2> DEFINE free == leaderKey.session \in {None, session_id[n]} /\ ~lockDelay
  <2>1. session_id[n] \in Sessions /\ session_id[n] # None /\ Owner(session_id[n]) = n
    BY <1>1, NoneAssumption DEF Put, TypeOK, SessionsOwn
  <2>2. ~i_am_leader[n]
    BY <1>1 DEF Put, InLoop, LeaderWatches
  <2>3. loop' = [loop EXCEPT ![n] = "get"] /\ result' = [result EXCEPT ![n] = free]
        /\ UNCHANGED <<sessions, lockDelay, memberKey, status, session_id, redo, answer, i_am_leader, faults>>
    BY <1>1 DEF Put
  <2>4. CASE free
    <3>1. leaderKey' = [session |-> session_id[n], value |-> n] /\ fresh' = [m \in Instances |-> FALSE]
      BY <1>1, <2>4 DEF Put
    <3>2. TypeOK'
      BY <2>1, <2>3, <3>1 DEF TypeOK, Record
    <3>3. SessionsOwn' /\ ReadBack'
      BY <2>1, <2>3, <3>1 DEF SessionsOwn, ReadBack
    <3>4. LeaderWatches'
      BY <1>1, <2>2, <2>3 DEF Put, InLoop, Joined, TypeOK, LeaderWatches
    <3>5. ChangeIsLoss'
      BY <2>3, <3>1 DEF TypeOK, ChangeIsLoss, Holds
    <3> QED
      BY <3>2, <3>3, <3>4, <3>5
  <2>5. CASE ~free
    <3>1. UNCHANGED <<leaderKey, fresh>>
      BY <1>1, <2>5 DEF Put
    <3>2. TypeOK'
      BY <2>3, <3>1 DEF TypeOK
    <3>3. SessionsOwn' /\ ReadBack'
      BY <2>3, <3>1 DEF TypeOK, SessionsOwn, ReadBack
    <3>4. LeaderWatches'
      BY <1>1, <2>2, <2>3 DEF Put, InLoop, Joined, TypeOK, LeaderWatches
    <3>5. ChangeIsLoss'
      BY <2>3, <3>1 DEF TypeOK, ChangeIsLoss, Holds
    <3> QED
      BY <3>2, <3>3, <3>4, <3>5
  <2> QED
    BY <2>4, <2>5
<1>2. CASE Get(n)
  <2>1. TypeOK' /\ SessionsOwn' /\ ReadBack'
    BY <1>2 DEF Get, TypeOK, SessionsOwn, ReadBack
  <2>2. LeaderWatches' /\ ChangeIsLoss'
    BY <1>2 DEF Get, InLoop, Joined, TypeOK, LeaderWatches, ChangeIsLoss, Holds
  <2> QED
    BY <2>1, <2>2
<1>3. CASE Resume(n)
  <2>1. /\ loop[n] = "got" /\ ~i_am_leader[n]
        /\ UNCHANGED <<consulVars, status, session_id, redo, faults>>
    BY <1>3 DEF Resume, InLoop, LeaderWatches
  <2>2. PICK where \in {"ended", "sleep", "watch"} : loop' = [loop EXCEPT ![n] = where]
    BY <1>3 DEF Resume, AfterFinally
  <2>3. /\ i_am_leader' \in [Instances -> BOOLEAN]
        /\ \A m \in Instances \ {n} : i_am_leader'[m] = i_am_leader[m]
        /\ i_am_leader'[n] => where = "watch" /\ answer[n].session = session_id[n] /\ session_id[n] # None
    BY <1>3, <2>1, <2>2 DEF Resume, TypeOK, _assert_leadership, _assert_nonleadership
  <2>4. result' \in [Instances -> BOOLEAN] /\ answer' \in [Instances -> Record]
        /\ \A m \in Instances \ {n} : answer'[m] = answer[m]
    BY <1>3 DEF Resume, TypeOK, Record, NoRecord
  <2>5. fresh' \in [Instances -> BOOLEAN]
        /\ (\A m \in Instances \ {n} : fresh'[m] = fresh[m])
        /\ (fresh'[n] => fresh[n])
        /\ (where = "watch" => fresh'[n] = fresh[n])
    BY <1>3, <2>2 DEF Resume, TypeOK
  <2>6. TypeOK' /\ SessionsOwn'
    BY <2>1, <2>2, <2>3, <2>4, <2>5 DEF TypeOK, SessionsOwn
  <2>7. LeaderWatches'
    BY <2>1, <2>2, <2>3 DEF LeaderWatches, Joined, TypeOK
  <2>8. ReadBack'
    BY <2>1, <2>2, <2>4, <2>5 DEF ReadBack, TypeOK
  <2>9. ChangeIsLoss'
    <3>1. i_am_leader'[n] /\ fresh'[n] => Holds(n)'
      <4> SUFFICES ASSUME i_am_leader'[n], fresh'[n] PROVE Holds(n)'
        OBVIOUS
      <4>1. answer[n] = leaderKey /\ leaderKey.session = session_id[n] /\ session_id[n] # None
        BY <2>1, <2>3, <2>5 DEF ReadBack
      <4> QED
        BY <2>1, <4>1 DEF SessionsOwn, Holds
    <3>2. loop'[n] \in {"got", "watch"} /\ ~fresh'[n] => ~Holds(n)'
      BY <2>1, <2>2, <2>5 DEF TypeOK, ChangeIsLoss, Holds
    <3> QED
      BY <2>1, <2>2, <2>3, <2>5, <3>1, <3>2 DEF TypeOK, ChangeIsLoss, Holds
  <2> QED
    BY <2>6, <2>7, <2>8, <2>9
<1>4. CASE LeaderKeyChange(n)
  <2>1. PICK where \in {"ended", "sleep"} : loop' = [loop EXCEPT ![n] = where]
    BY <1>4 DEF LeaderKeyChange, AfterFinally
  <2>2. /\ i_am_leader' \in [Instances -> BOOLEAN] /\ ~i_am_leader'[n]
        /\ \A m \in Instances \ {n} : i_am_leader'[m] = i_am_leader[m]
    BY <1>4 DEF LeaderKeyChange, TypeOK, _assert_nonleadership
  <2>3. UNCHANGED <<consulVars, status, session_id, redo, result, answer, fresh, faults>>
    BY <1>4 DEF LeaderKeyChange
  <2>4. TypeOK' /\ SessionsOwn' /\ ReadBack'
    BY <2>1, <2>2, <2>3 DEF TypeOK, SessionsOwn, ReadBack
  <2>5. LeaderWatches' /\ ChangeIsLoss'
    BY <1>4, <2>1, <2>2, <2>3 DEF LeaderKeyChange, consul_get_with_timeout, InLoop, Joined, TypeOK, LeaderWatches, ChangeIsLoss, Holds
  <2> QED
    BY <2>4, <2>5
<1>5. CASE Wake(n) \/ PutAnswerLost(n)
  <2>1. /\ loop[n] \in {"sleep", "doze", "get"} /\ loop' = [loop EXCEPT ![n] = "put"]
        /\ result' \in [Instances -> BOOLEAN] /\ faults' \in 0..MaxFaults
        /\ UNCHANGED <<consulVars, status, session_id, redo, answer, fresh, i_am_leader>>
    <3>1. CASE Wake(n)
      BY <3>1 DEF Wake, TypeOK
    <3>2. CASE PutAnswerLost(n)
      BY <3>2, FaultsAssumption DEF PutAnswerLost, InLoop, Fault, TypeOK
    <3> QED
      BY <1>5, <3>1, <3>2
  <2>2. TypeOK' /\ SessionsOwn' /\ ReadBack'
    BY <2>1 DEF TypeOK, SessionsOwn, ReadBack
  <2>3. LeaderWatches' /\ ChangeIsLoss'
    BY <2>1 DEF Joined, TypeOK, LeaderWatches, ChangeIsLoss, Holds
  <2> QED
    BY <2>2, <2>3
<1> QED
  BY <1>1, <1>2, <1>3, <1>4, <1>5 DEF LeadershipLoop

-----------------------------------------------------------------------------
(* The initial state: no process, no key, no session.                      *)
LEMMA InitIInv == Init => IInv
<1> SUFFICES ASSUME Init PROVE IInv
  OBVIOUS
<1>1. TypeOK
  <2>1. NoRecord \in Record
    BY DEF Record, NoRecord
  <2>2. faults \in 0..MaxFaults
    BY FaultsAssumption DEF Init
  <2> QED
    BY <2>1, <2>2 DEF Init, TypeOK
<1> QED
  BY <1>1
  DEF Init, NoRecord, IInv, SessionsOwn, LeaderWatches, ReadBack, ChangeIsLoss, Holds

(* Every step of Consul and of the loops preserves the invariant.          *)
LEMMA NextIInv == IInv /\ [Next]_vars => IInv'
<1> SUFFICES ASSUME IInv, [Next]_vars PROVE IInv'
  OBVIOUS
<1>1. CASE EndLockDelay
  BY <1>1, QuietKeeps DEF EndLockDelay, loopVars, IInv, TypeOK, SessionsOwn, Joined
<1>2. ASSUME NEW s \in Sessions, ExpireAbandoned(s) \/ ExpireInUse(s) PROVE IInv'
  <2>1. Invalidate(s) /\ UNCHANGED <<status, session_id, redo, result, answer, i_am_leader>>
    BY <1>2 DEF ExpireAbandoned, ExpireInUse
  <2>2. faults' \in 0..MaxFaults
    BY <1>2, FaultsAssumption DEF ExpireAbandoned, ExpireInUse, Fault, IInv, TypeOK
  <2> QED
    BY <2>1, <2>2, InvalidateKeeps DEF IInv, TypeOK, Joined
<1>3. ASSUME NEW n \in Instances, stopped(n) \/ Crash(n) PROVE IInv'
  BY <1>3, EndProcessKeeps DEF stopped, Crash
<1>4. CASE UNCHANGED vars
  BY <1>4
  DEF vars, IInv, TypeOK, SessionsOwn, LeaderWatches, Joined, ReadBack, ChangeIsLoss, Holds
<1> QED
  BY <1>1, <1>2, <1>3, <1>4, SessionStep, LeadershipStep DEF Next

(* The inductive invariant holds in every reachable state.                 *)
THEOREM Invariance == Spec => []IInv
BY InitIInv, NextIInv, PTL DEF Spec

(* The keys in Consul and the variables of the three loops have their      *)
(* types.                                                                  *)
THEOREM TypeCorrect == Spec => []TypeOK
BY Invariance, PTL DEF IInv

(* No release of the lock slips through between PUT, GET and the blocking  *)
(* GET of _leadership_tracking_loop: a leader without the lock has the     *)
(* change still to read.                                                   *)
THEOREM LossNotMissed == Spec => []LossIsUnread
<1>1. IInv => LossIsUnread
  BY DEF IInv, TypeOK, LeaderWatches, ChangeIsLoss, LossIsUnread, Leads
<1> QED
  BY <1>1, Invariance, PTL

-----------------------------------------------------------------------------
(* The refinement of the abstract election.  The four variables of         *)
(* Election, one instance at a time.                                       *)
Granted(n) == Leads(n) \/ (Running(n) /\ loop[n] \in {"get", "got"} /\ result[n])
Holder == IF leaderKey.session = None THEN None ELSE leaderKey.value

SameFor(m) ==
    /\ Running(m)' <=> Running(m)
    /\ Granted(m)' <=> Granted(m)
    /\ Leads(m)' <=> Leads(m)

(* Nothing that the election sees has changed.                             *)
LEMMA MapsToStutter ==
    ASSUME \A m \in Instances : SameFor(m), Holder' = Holder
    PROVE  UNCHANGED E!electionVars
BY DEF SameFor, Granted, Holder, E!electionVars

(* At most the lock was taken away.                                        *)
LEMMA MapsToVacate ==
    ASSUME \A m \in Instances : SameFor(m), Holder' \in {Holder, None}
    PROVE  [E!Next]_E!electionVars
<1>1. CASE Holder' = Holder
  BY <1>1, MapsToStutter
<1>2. CASE Holder' = None /\ Holder # None
  <2>1. E!Vacate
    BY <1>2 DEF SameFor, Granted, Holder, E!Vacate
  <2> QED
    BY <2>1 DEF E!Next
<1> QED
  BY <1>1, <1>2

(* Only what the election sees of instance n has changed.                  *)
LEMMA MapsToOne ==
    ASSUME NEW n \in Instances, \A m \in Instances \ {n} : SameFor(m), Holder' = Holder,
           \/ ~Running(n) /\ Running(n)' /\ ~Granted(n) /\ ~Granted(n)' /\ ~Leads(n)'
           \/ Running(n) /\ ~Running(n)' /\ ~Granted(n)' /\ ~Leads(n)'
           \/ /\ Running(n) <=> Running(n)'
              /\ \/ (Granted(n) <=> Granted(n)') /\ (Leads(n) <=> Leads(n)')
                 \/ Granted(n) /\ Granted(n)' /\ ~Leads(n) /\ Leads(n)'
                 \/ Granted(n) /\ ~Granted(n)' /\ ~Leads(n) /\ ~Leads(n)'
                 \/ Leads(n) /\ ~Granted(n)' /\ ~Leads(n)' /\ Holder # n
    PROVE  [E!Next]_E!electionVars
<1> USE DEF SameFor, Granted, Holder
<1>1. CASE ~Running(n) /\ Running(n)' /\ ~Granted(n) /\ ~Granted(n)' /\ ~Leads(n)'
  <2>1. E!Enter(n)
    BY <1>1 DEF E!Enter
  <2> QED
    BY <2>1 DEF E!Next
<1>2. CASE Running(n) /\ ~Running(n)' /\ ~Granted(n)' /\ ~Leads(n)'
  <2>1. E!Leave(n)
    BY <1>2 DEF E!Leave
  <2> QED
    BY <2>1 DEF E!Next
<1>3. CASE (Running(n) <=> Running(n)') /\ (Granted(n) <=> Granted(n)') /\ (Leads(n) <=> Leads(n)')
  BY <1>3, MapsToStutter
<1>4. CASE (Running(n) <=> Running(n)') /\ Granted(n) /\ Granted(n)' /\ ~Leads(n) /\ Leads(n)'
  <2>1. E!Lead(n)
    BY <1>4 DEF E!Lead
  <2> QED
    BY <2>1 DEF E!Next
<1>5. CASE (Running(n) <=> Running(n)') /\ Granted(n) /\ ~Granted(n)' /\ ~Leads(n) /\ ~Leads(n)'
  <2>1. E!Decline(n)
    BY <1>5 DEF E!Decline
  <2> QED
    BY <2>1 DEF E!Next
<1>6. CASE (Running(n) <=> Running(n)') /\ Leads(n) /\ ~Granted(n)' /\ ~Leads(n)' /\ Holder # n
  <2>1. E!StepDown(n)
    BY <1>6 DEF E!StepDown
  <2> QED
    BY <2>1 DEF E!Next
<1> QED
  BY <1>1, <1>2, <1>3, <1>4, <1>5, <1>6

(* The end of a session releases at most the lock.                         *)
LEMMA InvalidateRefines ==
    ASSUME IInv, NEW s, Invalidate(s), UNCHANGED <<result, i_am_leader>>,
           \A m \in Instances : Running(m)' <=> Running(m)
    PROVE  [E!Next]_E!electionVars
<1>1. \A m \in Instances : loop'[m] \in {"get", "got"} <=> loop[m] \in {"get", "got"}
  BY DEF Invalidate, IInv, TypeOK
<1>2. \A m \in Instances : SameFor(m)
  BY <1>1 DEF SameFor, Granted, Leads
<1>3. Holder' \in {Holder, None}
  BY DEF Invalidate, Holder, IInv, TypeOK, Record
<1> QED
  BY <1>2, <1>3, MapsToVacate

(* A step that leaves the leader key, the loops and leadership alone.      *)
LEMMA QuietRefines ==
    ASSUME UNCHANGED <<leaderKey, loopVars, i_am_leader>>,
           \A m \in Instances : Running(m)' <=> Running(m)
    PROVE  [E!Next]_E!electionVars
<1>1. \A m \in Instances : SameFor(m)
  BY DEF SameFor, Granted, Leads, loopVars
<1>2. Holder' = Holder
  BY DEF Holder
<1> QED
  BY <1>1, <1>2, MapsToStutter

(* Every step of the coordinators is a step of the election or none.       *)
LEMMA NextRefines == IInv /\ [Next]_vars => [E!Next]_E!electionVars
<1> SUFFICES ASSUME IInv, [Next]_vars PROVE [E!Next]_E!electionVars
  OBVIOUS
<1> USE DEF IInv, consulVars, loopVars
<1>1. CASE EndLockDelay \/ UNCHANGED vars
  BY <1>1, QuietRefines DEF EndLockDelay, vars, Running
<1>2. ASSUME NEW s \in Sessions, ExpireAbandoned(s) \/ ExpireInUse(s)
      PROVE  [E!Next]_E!electionVars
  BY <1>2, InvalidateRefines DEF ExpireAbandoned, ExpireInUse, Running
<1>3. ASSUME NEW n \in Instances, start(n)
      PROVE  [E!Next]_E!electionVars
  <2>1. ~Running(n) /\ Running(n)' /\ ~Granted(n) /\ ~Granted(n)' /\ ~Leads(n)'
    BY <1>3 DEF start, TypeOK, Running, Granted, Leads, LeaderWatches, Joined
  <2>2. \A m \in Instances \ {n} : SameFor(m)
    BY <1>3 DEF start, TypeOK, SameFor, Granted, Leads, Running
  <2>3. Holder' = Holder
    BY <1>3 DEF start, Holder
  <2> QED
    BY <2>1, <2>2, <2>3, MapsToOne
<1>4. ASSUME NEW n \in Instances, stopped(n) \/ Crash(n)
      PROVE  [E!Next]_E!electionVars
  <2>1. Running(n) /\ EndProcess(n)
    BY <1>4 DEF stopped, Crash, Running
  <2>2. ~Running(n)' /\ ~Granted(n)' /\ ~Leads(n)'
    BY <2>1 DEF EndProcess, TypeOK, Running, Granted, Leads
  <2>3. \A m \in Instances \ {n} : SameFor(m)
    BY <2>1 DEF EndProcess, TypeOK, SameFor, Granted, Leads, Running
  <2>4. Holder' = Holder
    BY <2>1 DEF EndProcess, Holder
  <2> QED
    BY <2>1, <2>2, <2>3, <2>4, MapsToOne
<1>5. ASSUME NEW n \in Instances, stop(n) \/ _renew_session_timeout(n)
      PROVE  [E!Next]_E!electionVars
  <2>1. /\ _delete_session(n) \/ DeleteFails
        /\ UNCHANGED <<result, answer, i_am_leader>>
        /\ \A m \in Instances : Running(m)' <=> Running(m)
    BY <1>5 DEF stop, _renew_session_timeout, TypeOK, Running
  <2> QED
    BY <2>1, InvalidateRefines, QuietRefines DEF _delete_session, DeleteFails
<1>6. ASSUME NEW n \in Instances,
             _create_session(n) \/ _redo_session(n) \/ _maintain_membership_record(n)
      PROVE  [E!Next]_E!electionVars
  BY <1>6, QuietRefines DEF _create_session, _redo_session, _maintain_membership_record, TypeOK, Running
<1>7. ASSUME NEW n \in Instances, _create_membership_record(n) \/ Wake(n) \/ Get(n)
      PROVE  [E!Next]_E!electionVars
  <2>1. /\ UNCHANGED <<leaderKey, result, i_am_leader>>
        /\ \A m \in Instances : Running(m)' <=> Running(m)
        /\ \A m \in Instances : loop'[m] \in {"get", "got"} <=> loop[m] \in {"get", "got"}
    BY <1>7 DEF _create_membership_record, Wake, Get, InLoop, TypeOK, Running, LeaderWatches, Joined
  <2> QED
    BY <2>1, MapsToStutter DEF SameFor, Granted, Leads, Holder
<1>8. ASSUME NEW n \in Instances, Put(n)
      PROVE  [E!Next]_E!electionVars
  <2>1. ~Leads(n) /\ ~Leads(n)' /\ Running(n) /\ ~Granted(n)
    BY <1>8 DEF Put, InLoop, Leads, LeaderWatches, Granted
  <2>2. \A m \in Instances \ {n} : SameFor(m)
    BY <1>8 DEF Put, TypeOK, SameFor, Granted, Leads, Running
  <2>3. \A m \in Instances : (Running(m)' <=> Running(m)) /\ (Leads(m)' <=> Leads(m))
    BY <1>8 DEF Put, Running, Leads
  <2>4. CASE ~result'[n]
    <3>1. ~Granted(n)' /\ Holder' = Holder
      BY <1>8, <2>1, <2>4 DEF Put, TypeOK, Granted, Holder, Leads, Running
    <3> QED
      BY <2>1, <2>2, <2>3, <3>1, MapsToOne
  <2>5. CASE result'[n]
    <3>1. /\ leaderKey.session \in {None, session_id[n]}
          /\ leaderKey' = [session |-> session_id[n], value |-> n]
      BY <1>8, <2>5 DEF Put, TypeOK
    <3>2. session_id[n] # None /\ Owner(session_id[n]) = n
      BY <1>8, NoneAssumption DEF Put, TypeOK, SessionsOwn
    <3>3. Holder \in {None, n} /\ Holder' = n
      BY <3>1, <3>2 DEF Holder, SessionsOwn
    <3>4. Granted(n)'
      BY <1>8, <2>5 DEF Put, InLoop, Running, Granted, TypeOK
    <3>5. E!Grant(n)
      BY <2>1, <2>2, <2>3, <3>3, <3>4 DEF E!Grant, SameFor, Granted, Holder
    <3> QED
      BY <3>5 DEF E!Next
  <2> QED
    BY <2>4, <2>5
<1>9. ASSUME NEW n \in Instances, PutAnswerLost(n) \/ Resume(n)
      PROVE  [E!Next]_E!electionVars
  <2>1. /\ Running(n) /\ Running(n)' /\ loop[n] \in {"get", "got"} /\ ~Leads(n) /\ ~result'[n]
        /\ loop'[n] \notin {"get", "got"}
    BY <1>9
    DEF PutAnswerLost, Resume, InLoop, AfterFinally, TypeOK, Running, Leads, LeaderWatches
  <2>2. \A m \in Instances \ {n} : SameFor(m)
    <3>1. status' = status /\ result' = [result EXCEPT ![n] = FALSE]
      BY <1>9 DEF PutAnswerLost, Resume
    <3>2. \/ loop' = [loop EXCEPT ![n] = "put"]
          \/ loop' = [loop EXCEPT ![n] = "watch"]
          \/ loop' = [loop EXCEPT ![n] = AfterFinally(n)]
      BY <1>9 DEF PutAnswerLost, Resume
    <3>3. \A m \in Instances \ {n} : loop'[m] = loop[m] /\ result'[m] = result[m]
      BY <3>1, <3>2 DEF TypeOK
    <3>4. _assert_leadership(n) \/ _assert_nonleadership(n) \/ UNCHANGED i_am_leader
      BY <1>9 DEF PutAnswerLost, Resume
    <3>5. \A m \in Instances \ {n} : i_am_leader'[m] = i_am_leader[m]
      BY <3>4 DEF _assert_leadership, _assert_nonleadership, TypeOK
    <3> QED
      BY <3>1, <3>3, <3>5 DEF SameFor, Granted, Leads, Running
  <2>3. Holder' = Holder
    BY <1>9 DEF PutAnswerLost, Resume, Holder
  <2>4. Leads(n)' => Granted(n) /\ Granted(n)'
    BY <1>9, <2>1
    DEF PutAnswerLost, Resume, _assert_leadership, _assert_nonleadership, TypeOK, Granted, Leads, Running
  <2>5. ~Leads(n)' => ~Granted(n)'
    BY <2>1 DEF Granted
  <2> QED
    BY <2>1, <2>2, <2>3, <2>4, <2>5, MapsToOne
<1>10. ASSUME NEW n \in Instances, LeaderKeyChange(n)
       PROVE  [E!Next]_E!electionVars
  <2>1. /\ Running(n) /\ Running(n)' /\ loop[n] = "watch" /\ ~fresh[n]
        /\ loop'[n] \notin {"get", "got"} /\ ~Leads(n)'
    BY <1>10 DEF LeaderKeyChange, consul_get_with_timeout, InLoop, AfterFinally, _assert_nonleadership, TypeOK, Running, Leads
  <2>2. \A m \in Instances \ {n} : SameFor(m)
    BY <1>10 DEF LeaderKeyChange, _assert_nonleadership, TypeOK, SameFor, Granted, Leads, Running
  <2>3. Holder' = Holder
    BY <1>10 DEF LeaderKeyChange, Holder
  <2>4. Holder # n
    BY <2>1, NoneAssumption DEF ChangeIsLoss, Holds, Holder
  <2>5. ~Granted(n)' /\ (Granted(n) <=> Leads(n))
    BY <2>1 DEF Granted
  <2> QED
    BY <2>1, <2>2, <2>3, <2>4, <2>5, MapsToOne
<1> QED
  BY <1>1, <1>2, <1>3, <1>4, <1>5, <1>6, <1>7, <1>8, <1>9, <1>10
  DEF Next, SessionLoop, MembershipLoop, LeadershipLoop

(* The sessions, records and requests of the coordinators implement the    *)
(* abstract election: nobody leads without having been granted the lock,   *)
(* and a running leader steps down only from a lock it has lost.           *)
THEOREM Refinement == Spec => ImplementsElection
<1>1. Init => E!Init
  BY DEF Init, NoRecord, E!Init, Running, Leads
<1> QED
  BY <1>1, NextRefines, Invariance, PTL DEF Spec, E!Spec, ImplementsElection
=============================================================================
