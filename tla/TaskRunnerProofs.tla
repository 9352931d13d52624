-------------------------- MODULE TaskRunnerProofs --------------------------
(***************************************************************************)
(* Proofs about the task runner, for every finite set of tasks, every      *)
(* choice of the exclusive ones and all priorities.                        *)
(***************************************************************************)
EXTENDS TaskRunner, FiniteSetTheorems, TLAPS

(* The order of arrival is strict: no two pending tasks share a ticket.    *)
TicketsDistinct ==
    /\ \A t \in Tasks : ticket[t] <= arrivals
    /\ \A t, u \in pending : ticket[t] = ticket[u] => t = u

(* A task that is not queued yet, or only pending, has not been started.   *)
NotStarted ==
    \A t \in Tasks :
        t \in pending \/ deferred[t] = "new" => t \notin starts /\ body[t] = "idle"

(* A scheduled start() of a task whose deferred is outstanding belongs to  *)
(* a running task: stop() and the cancellations call the deferred.         *)
StartsRunning ==
    \A t \in starts : deferred[t] = "waiting" => t \in running

(* The inductive invariant.  The queues hold only tasks whose deferred is  *)
(* outstanding, which keeps them apart from the tasks not yet queued;      *)
(* distinct tickets make Before a total order of the pending tasks, which  *)
(* exclusivity needs when one call starts several tasks.                   *)
IInv ==
    /\ TypeOK
    /\ TicketsDistinct
    /\ NotStarted
    /\ StartsRunning
    /\ QueuedNotCompleted
    /\ RunningTaskHasBody
    /\ OnlyRunningTasksBegin
    /\ StartAssertion
    /\ ExclusiveRunsAlone
    /\ NoLostWakeup

-----------------------------------------------------------------------------
(* ExclusiveRunsAlone of a running queue, and distinct tickets of a set of *)
(* pending tasks, as predicates of the arguments of _run_next_task.        *)
Alone(run) == \A t \in run \cap Exclusive : run = {t}

Distinct(tk, pend) == \A t, u \in pend : tk[t] = tk[u] => t = u

(* Two tasks neither of which comes before the other share a ticket.       *)
LEMMA BeforeTotal ==
    ASSUME NEW tk \in [Tasks -> Nat], NEW t \in Tasks, NEW u \in Tasks,
           ~Before(tk, t, u), ~Before(tk, u, t)
    PROVE  tk[t] = tk[u]
<1>1. Priority[t] \in Nat /\ Priority[u] \in Nat /\ tk[t] \in Nat /\ tk[u] \in Nat
  BY TasksAssumption
<1>2. ~(Priority[t] > Priority[u]) /\ ~(Priority[u] > Priority[t])
  BY DEF Before
<1>3. Priority[t] = Priority[u]
  BY <1>1, <1>2
<1>4. ~(tk[t] < tk[u]) /\ ~(tk[u] < tk[t])
  BY <1>3 DEF Before
<1>5. QED
  BY <1>1, <1>4

(* What one call of _run_next_task does to the queues: if an exclusive     *)
(* task ran alone before the call then it does after it.                   *)
LEMMA AdmittedExclusive ==
    ASSUME NEW run \in SUBSET Tasks, NEW pend \in SUBSET Tasks, NEW tk \in [Tasks -> Nat],
           Distinct(tk, pend), Alone(run)
    PROVE  Alone(run \cup Admitted(run, pend, tk))
<1> DEFINE A == Admitted(run, pend, tk)
<1> SUFFICES ASSUME NEW t \in (run \cup A) \cap Exclusive, NEW u \in run \cup A
             PROVE  u = t
  BY DEF Alone
<1>1. CASE t \in run
  BY <1>1 DEF Admitted, Alone
<1>2. CASE t \in A
  <2>1. run = {} /\ \A v \in pend : ~Before(tk, v, t)
    BY <1>2 DEF Admitted
  <2>2. u \in A /\ u \in pend /\ t \in pend
    BY <1>2, <2>1 DEF Admitted
  <2>3. ~Before(tk, t, u) /\ ~Before(tk, u, t)
    BY <2>1, <2>2, <1>2 DEF Admitted
  <2>4. tk[t] = tk[u]
    BY <2>2, <2>3, BeforeTotal
  <2>5. QED
    BY <2>4, <2>2 DEF Distinct
<1>3. QED
  BY <1>1, <1>2

(* After a call of _run_next_task no pending task could be started by      *)
(* another one.                                                            *)
LEMMA AdmittedExhausted ==
    ASSUME NEW run \in SUBSET Tasks, NEW pend \in SUBSET Tasks, NEW tk \in [Tasks -> Nat]
    PROVE  Admitted(run \cup Admitted(run, pend, tk), pend \ Admitted(run, pend, tk), tk) = {}
<1> DEFINE A == Admitted(run, pend, tk)
<1> SUFFICES ASSUME NEW t \in Admitted(run \cup A, pend \ A, tk)
             PROVE  FALSE
  OBVIOUS
<1>1. t \in pend /\ t \notin A
  BY DEF Admitted
<1> DEFINE before == run \cup {u \in pend : Before(tk, u, t)}
<1> DEFINE after == (run \cup A) \cup {u \in pend \ A : Before(tk, u, t)}
<1>2. before \subseteq after
  OBVIOUS
<1>3. after \cap Exclusive = {} /\ (t \in Exclusive => after = {})
  BY DEF Admitted
<1>4. before \cap Exclusive = {} /\ (t \in Exclusive => before = {})
  BY <1>2, <1>3
<1>5. t \in A
  BY <1>1, <1>4 DEF Admitted
<1>6. QED
  BY <1>1, <1>5

(* The invariant after a call of _run_next_task, for its callers start(),  *)
(* queue_task() and the reactor: only the state they prepare differs.      *)
LEMMA CallKeepsIInv ==
    ASSUME TypeOK, Alone(running),
           NEW pend \in SUBSET Tasks,
           RunNextTask(active', running, pend, ticket'),
           active' \in BOOLEAN, ticket' \in [Tasks -> Nat], arrivals' \in Nat, runNext' \in Nat,
           deferred' \in [Tasks -> DeferredState], body' = body,
           \A t \in Tasks : ticket'[t] <= arrivals',
           Distinct(ticket', pend),
           \A t \in Tasks : t \in pend \/ deferred'[t] = "new" => t \notin starts /\ body[t] = "idle",
           \A t \in starts : deferred'[t] = "waiting" => t \in running,
           \A t \in running \cup pend : deferred'[t] = "waiting",
           RunningTaskHasBody, OnlyRunningTasksBegin,
           ~active' => running = {}
    PROVE  IInv'
<1>1. /\ \E A \in SUBSET pend :
            /\ running' = running \cup A /\ pending' = pend \ A /\ starts' = starts \cup A
            /\ ~active' => A = {}
      /\ Alone(running')
      /\ active' => Admitted(running', pending', ticket') = {}
  <2> DEFINE A == Admitted(running, pend, ticket')
  <2>1. A \subseteq pend
    BY DEF Admitted
  <2>2. CASE active'
    <3>1. running' = running \cup A /\ pending' = pend \ A /\ starts' = starts \cup A
      BY <2>2 DEF RunNextTask
    <3>2. Alone(running \cup A)
      BY AdmittedExclusive DEF TypeOK
    <3>3. Admitted(running \cup A, pend \ A, ticket') = {}
      BY AdmittedExhausted DEF TypeOK
    <3> HIDE DEF A
    <3>4. QED
      BY <2>1, <2>2, <3>1, <3>2, <3>3
  <2>3. CASE ~active'
    BY <2>3 DEF RunNextTask
  <2>4. QED
    BY <2>2, <2>3
<1>2. PICK A \in SUBSET pend :
            /\ running' = running \cup A /\ pending' = pend \ A /\ starts' = starts \cup A
            /\ ~active' => A = {}
  BY <1>1
<1>3. TypeOK'
  BY <1>2 DEF TypeOK
<1>4. TicketsDistinct'
  BY <1>2 DEF TicketsDistinct, Distinct
<1>5. NotStarted' /\ StartsRunning' /\ QueuedNotCompleted'
  BY <1>2 DEF NotStarted, StartsRunning, QueuedNotCompleted
<1>6. RunningTaskHasBody' /\ OnlyRunningTasksBegin'
  BY <1>2 DEF RunningTaskHasBody, OnlyRunningTasksBegin
<1>7. StartAssertion' /\ ExclusiveRunsAlone' /\ NoLostWakeup'
  BY <1>1, <1>2 DEF StartAssertion, ExclusiveRunsAlone, Alone, NoLostWakeup
<1>8. QED
  BY <1>3, <1>4, <1>5, <1>6, <1>7 DEF IInv

-----------------------------------------------------------------------------
(* The initial state: inactive, with empty queues.                         *)
LEMMA InitIInv == Init => IInv
<1> SUFFICES ASSUME Init PROVE IInv
  OBVIOUS
<1> USE DEF Init
<1>1. TypeOK
  BY DEF TypeOK, DeferredState, BodyState
<1>2. TicketsDistinct /\ NotStarted /\ StartsRunning
  BY DEF TicketsDistinct, NotStarted, StartsRunning
<1>3. QueuedNotCompleted /\ RunningTaskHasBody /\ OnlyRunningTasksBegin /\ StartAssertion /\ ExclusiveRunsAlone
  BY DEF QueuedNotCompleted, RunningTaskHasBody, OnlyRunningTasksBegin, StartAssertion, ExclusiveRunsAlone
<1>4. NoLostWakeup
  BY DEF NoLostWakeup
<1>5. QED
  BY <1>1, <1>2, <1>3, <1>4 DEF IInv

(* A task whose deferred is called leaves both queues: the facts shared by *)
(* the cancellations and the failures.                                     *)
LEMMA FailureKeeps ==
    ASSUME IInv, NEW t \in Tasks, NEW extra \in Nat, OnTaskFailure(t, extra),
           UNCHANGED <<active, ticket, arrivals, starts>>,
           body' \in [Tasks -> BodyState],
           \A u \in Tasks \ {t} : body'[u] = body[u],
           body'[t] # "scheduled"
    PROVE  IInv'
<1> USE DEF IInv, OnTaskFailure
<1>1. TypeOK'
  <2>1. deferred' \in [Tasks -> DeferredState]
    BY DEF TypeOK, DeferredState
  <2>2. runNext' \in Nat
    BY DEF TypeOK
  <2>3. QED
    BY <2>1, <2>2 DEF TypeOK
<1>2. TicketsDistinct'
  BY DEF TicketsDistinct
<1>3. NotStarted'
  BY DEF NotStarted, TypeOK
<1>4. StartsRunning' /\ QueuedNotCompleted'
  BY DEF TypeOK, StartsRunning, QueuedNotCompleted
<1>5. RunningTaskHasBody' /\ OnlyRunningTasksBegin'
  BY DEF TypeOK, RunningTaskHasBody, OnlyRunningTasksBegin
<1>6. StartAssertion' /\ ExclusiveRunsAlone'
  BY DEF StartAssertion, ExclusiveRunsAlone
<1>7. NoLostWakeup'
  BY DEF TypeOK, NoLostWakeup
<1>8. QED
  BY <1>1, <1>2, <1>3, <1>4, <1>5, <1>6, <1>7

(* Every step of the runner, of a task and of the reactor preserves the    *)
(* invariant.                                                              *)
LEMMA NextIInv == IInv /\ [Next]_vars => IInv'
<1> SUFFICES ASSUME IInv, [Next]_vars PROVE IInv'
  OBVIOUS
<1> USE DEF IInv
<1>1. CASE Start
  BY <1>1, CallKeepsIInv
  DEF Start, Alone, Distinct, TypeOK, TicketsDistinct, NotStarted, StartsRunning, QueuedNotCompleted, ExclusiveRunsAlone
<1>2. CASE Stop
  <2>1. Cardinality(running) \in Nat
    BY TasksAssumption, FS_Subset, FS_CardinalityType DEF TypeOK
  <2>2. runNext' \in Nat
    BY <1>2, <2>1 DEF Stop, TypeOK
  <2>3. deferred' \in [Tasks -> DeferredState] /\ body' \in [Tasks -> BodyState]
    BY <1>2 DEF Stop, TypeOK, StoppedBody, DeferredState, BodyState
  <2>4. TypeOK'
    BY <1>2, <2>2, <2>3 DEF Stop, TypeOK
  <2>5. TicketsDistinct' /\ QueuedNotCompleted' /\ StartAssertion' /\ ExclusiveRunsAlone'
        /\ NoLostWakeup' /\ RunningTaskHasBody'
    BY <1>2 DEF Stop, TicketsDistinct, QueuedNotCompleted, StartAssertion, ExclusiveRunsAlone,
                NoLostWakeup, RunningTaskHasBody
  <2>6. NotStarted' /\ StartsRunning' /\ OnlyRunningTasksBegin'
    BY <1>2 DEF Stop, TypeOK, StoppedBody, NotStarted, StartsRunning, OnlyRunningTasksBegin
  <2>7. QED
    BY <2>4, <2>5, <2>6
<1>3. CASE RunScheduled
  BY <1>3, CallKeepsIInv
  DEF RunScheduled, Alone, Distinct, TypeOK, TicketsDistinct, NotStarted, StartsRunning, QueuedNotCompleted,
      ExclusiveRunsAlone, StartAssertion
<1>4. ASSUME NEW t \in Tasks, QueueTask(t) PROVE IInv'
  <2>1. /\ RunNextTask(active', running, pending \cup {t}, ticket')
        /\ ticket' = [ticket EXCEPT ![t] = arrivals + 1] /\ arrivals' = arrivals + 1
        /\ deferred' = [deferred EXCEPT ![t] = "waiting"] /\ deferred[t] = "new"
        /\ UNCHANGED <<active, runNext, body>>
    BY <1>4 DEF QueueTask
  <2>2. t \notin pending /\ t \notin running /\ t \notin starts /\ body[t] = "idle"
    BY <2>1 DEF TypeOK, QueuedNotCompleted, NotStarted
  <2>3. ticket' \in [Tasks -> Nat] /\ arrivals' \in Nat /\ deferred' \in [Tasks -> DeferredState]
        /\ active' \in BOOLEAN /\ runNext' \in Nat
    BY <2>1 DEF TypeOK, DeferredState
  <2>4. \A u \in Tasks : ticket'[u] <= arrivals'
    BY <2>1 DEF TypeOK, TicketsDistinct
  <2>5. Distinct(ticket', pending \cup {t})
    BY <2>1 DEF TypeOK, TicketsDistinct, Distinct
  <2>6. \A u \in Tasks : u \in pending \cup {t} \/ deferred'[u] = "new" => u \notin starts /\ body[u] = "idle"
    BY <2>1, <2>2 DEF TypeOK, NotStarted
  <2>7. \A u \in running \cup pending \cup {t} : deferred'[u] = "waiting"
    BY <2>1 DEF TypeOK, QueuedNotCompleted
  <2>8. \A u \in starts : deferred'[u] = "waiting" => u \in running
    BY <2>1, <2>2 DEF TypeOK, StartsRunning
  <2>9. QED
    <3>1. (pending \cup {t}) \in SUBSET Tasks /\ (~active' => running = {}) /\ body' = body
      BY <2>1 DEF TypeOK, StartAssertion
    <3>2. Alone(running)
      BY DEF ExclusiveRunsAlone, Alone
    <3>3. \A u \in running \cup (pending \cup {t}) : deferred'[u] = "waiting"
      BY <2>7
    <3>4. QED
      BY <2>1, <2>3, <2>4, <2>5, <2>6, <2>8, <3>1, <3>2, <3>3, CallKeepsIInv, Zenon
<1>5. ASSUME NEW t \in Tasks, CancelRunning(t) PROVE IInv'
  BY <1>5, FailureKeeps DEF CancelRunning, StoppedBody, BodyState, TypeOK
<1>6. ASSUME NEW t \in Tasks, CancelPending(t) PROVE IInv'
  BY <1>6, FailureKeeps DEF CancelPending, TypeOK, NotStarted
<1>7. ASSUME NEW t \in Tasks, OwnerStop(t) PROVE IInv'
  BY <1>7, FailureKeeps DEF OwnerStop, StoppedBody, BodyState, TypeOK
<1>8. ASSUME NEW t \in Tasks, TaskStart(t) \/ Perform(t) \/ StaleBodyEnds(t) PROVE IInv'
  <2>1. /\ UNCHANGED <<active, pending, ticket, arrivals, running, runNext, deferred>>
        /\ starts' \subseteq starts /\ body' \in [Tasks -> BodyState]
    BY <1>8 DEF TaskStart, Perform, StaleBodyEnds, TypeOK, BodyState
  <2>2. TypeOK' /\ TicketsDistinct' /\ QueuedNotCompleted' /\ StartAssertion' /\ ExclusiveRunsAlone'
        /\ StartsRunning'
    BY <2>1 DEF TypeOK, TicketsDistinct, QueuedNotCompleted, StartAssertion, ExclusiveRunsAlone, StartsRunning
  <2>3. NoLostWakeup'
    BY <2>1 DEF NoLostWakeup
  <2>4. NotStarted'
    BY <1>8, <2>1 DEF TaskStart, Perform, StaleBodyEnds, TypeOK, NotStarted
  <2>5. RunningTaskHasBody' /\ OnlyRunningTasksBegin'
    BY <1>8, <2>1
    DEF TaskStart, Perform, StaleBodyEnds, TypeOK, BodyState, RunningTaskHasBody, OnlyRunningTasksBegin,
        QueuedNotCompleted, StartsRunning
  <2>6. QED
    BY <2>2, <2>3, <2>4, <2>5
<1>9. ASSUME NEW t \in Tasks, TaskSuccess(t) PROVE IInv'
  <2>1. t \notin pending
    BY <1>9 DEF TaskSuccess, NotStarted
  <2>2. TypeOK' /\ TicketsDistinct'
    BY <1>9 DEF TaskSuccess, TypeOK, DeferredState, BodyState, TicketsDistinct
  <2>3. NotStarted' /\ StartsRunning' /\ QueuedNotCompleted'
    BY <1>9, <2>1 DEF TaskSuccess, TypeOK, NotStarted, StartsRunning, QueuedNotCompleted
  <2>4. RunningTaskHasBody' /\ OnlyRunningTasksBegin' /\ StartAssertion' /\ ExclusiveRunsAlone'
    BY <1>9 DEF TaskSuccess, TypeOK, RunningTaskHasBody, OnlyRunningTasksBegin, StartAssertion, ExclusiveRunsAlone
  <2>5. NoLostWakeup'
    BY <1>9 DEF TaskSuccess, TypeOK, NoLostWakeup
  <2>6. QED
    BY <2>2, <2>3, <2>4, <2>5
<1>10. ASSUME NEW t \in Tasks, TaskFailure(t) PROVE IInv'
  BY <1>10, FailureKeeps DEF TaskFailure, BodyState, TypeOK
<1>11. CASE UNCHANGED vars
  BY <1>11
  DEF vars, TypeOK, TicketsDistinct, NotStarted, StartsRunning, QueuedNotCompleted, RunningTaskHasBody,
      OnlyRunningTasksBegin, StartAssertion, ExclusiveRunsAlone, NoLostWakeup
<1>12. QED
  BY <1>1, <1>2, <1>3, <1>4, <1>5, <1>6, <1>7, <1>8, <1>9, <1>10, <1>11 DEF Next, Reactor

(* The inductive invariant holds in every reachable state of the runner.   *)
THEOREM Invariance == Spec => []IInv
BY InitIInv, NextIInv, PTL DEF Spec

(* The queues and the scheduled calls of the runner stay well typed.       *)
THEOREM TypeCorrect == Spec => []TypeOK
BY Invariance, PTL DEF IInv

(* However calls and completions interleave, an exclusive task of the      *)
(* running queue is the only one in it (_run_next_task).                   *)
THEOREM Exclusivity == Spec => []ExclusiveRunsAlone
BY Invariance, PTL DEF IInv

(* The assertion in start() that nothing is running never fails.           *)
THEOREM StartNeverAsserts == Spec => []StartAssertion
BY Invariance, PTL DEF IInv

(* An active runner never sits on a pending task that it could start       *)
(* without a scheduled call of _run_next_task.                             *)
THEOREM WakeupsNotLost == Spec => []NoLostWakeup
BY Invariance, PTL DEF IInv

(* No deferred of a queued task has been called, so no task completes      *)
(* twice.                                                                  *)
THEOREM CompletedOnce == Spec => []QueuedNotCompleted
BY Invariance, PTL DEF IInv

(* A task stopped between _run_next_task and its start() never begins.     *)
THEOREM StoppedNeverBegins == Spec => []OnlyRunningTasksBegin
BY Invariance, PTL DEF IInv
=============================================================================
