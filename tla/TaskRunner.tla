----------------------------- MODULE TaskRunner -----------------------------
(***************************************************************************)
(* The OpenOMCI task runner of one ONU: the object that decides which of   *)
(* the queued tasks may use the OMCI channel (OMCI_CC).                    *)
(*                                                                         *)
(* src/voltha/extensions/omci/tasks/task_runner.py   the runner            *)
(* src/voltha/extensions/omci/tasks/task.py          one task              *)
(* src/voltha/extensions/omci/tasks/mib_upload.py    the body of a task    *)
(*                                                                         *)
(* Everything runs on one Twisted reactor, so a step below is one reactor  *)
(* callback or one call from outside.  The calls the code defers with      *)
(* callLater(0, ...) are the variables runNext and starts and the body     *)
(* state "scheduled"; steps of other actors come between them.             *)
(*                                                                         *)
(* The dictionary priority -> list of _pending_queue is the set pending    *)
(* ordered by priority and then by ticket, the order of arrival.           *)
(***************************************************************************)
EXTENDS Naturals, FiniteSets

CONSTANTS
    Tasks,      \* the task objects; each is queued at most once
    Exclusive,  \* those that need the channel for themselves
    Priority    \* Task.priority, 0..255, 255 is the highest

ASSUME TasksAssumption ==
    /\ IsFiniteSet(Tasks)
    /\ Exclusive \subseteq Tasks
    /\ Priority \in [Tasks -> 0..255]

VARIABLES
    active,    \* TaskRunner._active
    pending,   \* the tasks of _pending_queue
    ticket,    \* order of arrival in _pending_queue; 0 for a task never queued
    arrivals,  \* number of tasks queued so far
    running,   \* the tasks of _running_queue
    runNext,   \* outstanding callLater(0, _run_next_task)
    starts,    \* tasks with an outstanding callLater(0, task.start)
    deferred,  \* what has become of Task.deferred
    body       \* the coroutine of the task, e.g. perform_mib_upload

vars == <<active, pending, ticket, arrivals, running, runNext, starts, deferred, body>>

DeferredState == {"new", "waiting", "success", "failure"}

BodyState == {"idle", "scheduled", "busy"}

(* One type invariant: the queues hold tasks, the counters are naturals.   *)
TypeOK ==
    /\ active \in BOOLEAN
    /\ pending \subseteq Tasks
    /\ ticket \in [Tasks -> Nat]
    /\ arrivals \in Nat
    /\ running \subseteq Tasks
    /\ runNext \in Nat
    /\ starts \subseteq Tasks
    /\ deferred \in [Tasks -> DeferredState]
    /\ body \in [Tasks -> BodyState]

Init ==
    /\ active = FALSE
    /\ pending = {}
    /\ ticket = [t \in Tasks |-> 0]
    /\ arrivals = 0
    /\ running = {}
    /\ runNext = 0
    /\ starts = {}
    /\ deferred = [t \in Tasks |-> "new"]
    /\ body = [t \in Tasks |-> "idle"]

-----------------------------------------------------------------------------
(* The order in which _run_next_task takes tasks: the highest priority     *)
(* first, the head of its list first.  tk is the ticket function.          *)
Before(tk, t, u) ==
    \/ Priority[t] > Priority[u]
    \/ Priority[t] = Priority[u] /\ tk[t] < tk[u]

(* Admitted without the test that keeps an exclusive task waiting for the  *)
(* tasks already running.                                                  *)
AdmittedOverRunning(run, pend, tk) ==
    {t \in pend :
        (run \cup {u \in pend : Before(tk, u, t)}) \cap Exclusive = {}}

(* The tasks one call of _run_next_task starts.  It goes on taking the     *)
(* first pending task until a running task is exclusive or the first       *)
(* pending one is exclusive and something runs; so it starts t exactly     *)
(* when, with everything before t running as well, neither holds.          *)
Admitted(run, pend, tk) ==
    {t \in pend :
        LET occupied == run \cup {u \in pend : Before(tk, u, t)}
        IN  /\ occupied \cap Exclusive = {}
            /\ t \in Exclusive => occupied = {}}

(* _run_next_task() on the queues run and pend: nothing unless active.     *)
RunNextTask(act, run, pend, tk) ==
    LET chosen == IF act THEN Admitted(run, pend, tk) ELSE {}
    IN  /\ running' = run \cup chosen
        /\ pending' = pend \ chosen
        /\ starts' = starts \cup chosen

-----------------------------------------------------------------------------
(* start(): asserts that nothing is running, then starts what it can.      *)
Start ==
    /\ ~active
    /\ running = {}
    /\ active' = TRUE
    /\ RunNextTask(TRUE, running, pending, ticket)
    /\ UNCHANGED <<ticket, arrivals, runNext, deferred, body>>

(* Task.stop(): cancels the deferred and, if it has not begun yet, the     *)
(* body.  A body that waits for an answer is not interrupted.              *)
StoppedBody(S) ==
    [t \in Tasks |-> IF t \in S /\ body[t] = "scheduled" THEN "idle" ELSE body[t]]

(* stop() that forgets to replace the running queue.                       *)
StopKeepsRunning ==
    /\ active
    /\ active' = FALSE
    /\ pending' = {}
    /\ running' = running
    /\ deferred' = [t \in Tasks |-> IF t \in running THEN "failure" ELSE deferred[t]]
    /\ body' = StoppedBody(running)
    /\ runNext' = runNext + Cardinality(running)
    /\ UNCHANGED <<ticket, arrivals, starts>>

(* stop(): both queues are replaced by empty ones and the running tasks    *)
(* are stopped.  Each of them fails; _on_task_failure finds it in neither  *)
(* queue, raises, and its finally clause schedules _run_next_task.  The    *)
(* loop that should kill the pending tasks walks over the priorities and   *)
(* reaches no task: their deferreds stay as they are.                      *)
Stop ==
    /\ active
    /\ active' = FALSE
    /\ pending' = {}
    /\ running' = {}
    /\ deferred' = [t \in Tasks |-> IF t \in running THEN "failure" ELSE deferred[t]]
    /\ body' = StoppedBody(running)
    /\ runNext' = runNext + Cardinality(running)
    /\ UNCHANGED <<ticket, arrivals, starts>>

(* queue_task(task)                                                        *)
QueueTask(t) ==
    /\ deferred[t] = "new"
    /\ deferred' = [deferred EXCEPT ![t] = "waiting"]
    /\ arrivals' = arrivals + 1
    /\ ticket' = [ticket EXCEPT ![t] = arrivals + 1]
    /\ RunNextTask(active, running, pending \cup {t}, ticket')
    /\ UNCHANGED <<active, runNext, body>>

(* _on_task_failure whose finally clause is lost.                          *)
OnTaskFailureNoFinally(t, extra) ==
    /\ deferred' = [deferred EXCEPT ![t] = "failure"]
    /\ running' = running \ {t}
    /\ pending' = pending \ {t}
    /\ runNext' = runNext + extra

(* The error callback _on_task_failure(failure, task) of a queued task,    *)
(* with extra further calls of _run_next_task scheduled by the caller.     *)
OnTaskFailure(t, extra) ==
    /\ deferred' = [deferred EXCEPT ![t] = "failure"]
    /\ running' = running \ {t}
    /\ pending' = pending \ {t}
    /\ runNext' = runNext + 1 + extra

(* cancel_task(task_id) of a running task: stops it and schedules          *)
(* _run_next_task once more than the error callback does.                  *)
CancelRunning(t) ==
    /\ t \in running
    /\ OnTaskFailure(t, 1)
    /\ body' = StoppedBody({t})
    /\ UNCHANGED <<active, ticket, arrivals, starts>>

(* cancel_task(task_id) of a pending task: cancels its deferred.           *)
CancelPending(t) ==
    /\ t \in pending
    /\ OnTaskFailure(t, 0)
    /\ UNCHANGED <<active, ticket, arrivals, starts, body>>

(* The owner of a task (a state machine that leaves its state) calls       *)
(* task.stop() itself, without the runner.  The task may be in neither     *)
(* queue any more, when stop() has dropped it.                             *)
OwnerStop(t) ==
    /\ deferred[t] = "waiting"
    /\ OnTaskFailure(t, 0)
    /\ body' = StoppedBody({t})
    /\ UNCHANGED <<active, ticket, arrivals, starts>>

-----------------------------------------------------------------------------
(* The reactor makes a deferred call of _run_next_task.                    *)
RunScheduled ==
    /\ runNext > 0
    /\ runNext' = runNext - 1
    /\ RunNextTask(active, running, pending, ticket)
    /\ UNCHANGED <<active, ticket, arrivals, deferred, body>>

(* task.start() without its assertion.                                     *)
TaskStartUnchecked(t) ==
    /\ t \in starts
    /\ starts' = starts \ {t}
    /\ body' = [body EXCEPT ![t] = "scheduled"]
    /\ UNCHANGED <<active, pending, ticket, arrivals, running, runNext, deferred>>

(* The reactor makes a deferred call of task.start(): an assertion stops   *)
(* it when the task was stopped in the meantime, else the body is          *)
(* scheduled.                                                              *)
TaskStart(t) ==
    /\ t \in starts
    /\ starts' = starts \ {t}
    /\ body' = [body EXCEPT ![t] = IF deferred[t] = "waiting" THEN "scheduled" ELSE body[t]]
    /\ UNCHANGED <<active, pending, ticket, arrivals, running, runNext, deferred>>

(* The reactor begins the body: it sends its first request and waits.      *)
Perform(t) ==
    /\ body[t] = "scheduled"
    /\ body' = [body EXCEPT ![t] = "busy"]
    /\ UNCHANGED <<active, pending, ticket, arrivals, running, runNext, starts, deferred>>

(* The body ends well: the deferred's callback runs _on_task_success.      *)
TaskSuccess(t) ==
    /\ body[t] = "busy"
    /\ deferred[t] = "waiting"
    /\ body' = [body EXCEPT ![t] = "idle"]
    /\ deferred' = [deferred EXCEPT ![t] = "success"]
    /\ running' = running \ {t}
    /\ runNext' = runNext + 1
    /\ UNCHANGED <<active, pending, ticket, arrivals, starts>>

(* The body ends badly: the deferred's errback runs _on_task_failure.      *)
TaskFailure(t) ==
    /\ body[t] = "busy"
    /\ deferred[t] = "waiting"
    /\ body' = [body EXCEPT ![t] = "idle"]
    /\ OnTaskFailure(t, 0)
    /\ UNCHANGED <<active, ticket, arrivals, starts>>

(* The body of a task stopped in the meantime resumes, sees that it is not *)
(* running any more and ends; it has no deferred left to call.             *)
StaleBodyEnds(t) ==
    /\ body[t] = "busy"
    /\ deferred[t] # "waiting"
    /\ body' = [body EXCEPT ![t] = "idle"]
    /\ UNCHANGED <<active, pending, ticket, arrivals, running, runNext, starts, deferred>>

Reactor(t) == TaskStart(t) \/ Perform(t) \/ TaskSuccess(t) \/ TaskFailure(t) \/ StaleBodyEnds(t)

Next ==
    \/ Start
    \/ Stop
    \/ RunScheduled
    \/ \E t \in Tasks :
        QueueTask(t) \/ CancelRunning(t) \/ CancelPending(t) \/ OwnerStop(t) \/ Reactor(t)

Spec == Init /\ [][Next]_vars

(* The reactor makes every call it was asked to make, and every OMCI       *)
(* request is answered or times out, so a body ends.  Calls from outside   *)
(* are not fair.                                                           *)
FairSpec ==
    /\ Spec
    /\ WF_vars(RunScheduled)
    /\ \A t \in Tasks : WF_vars(Reactor(t))

-----------------------------------------------------------------------------
(* An exclusive task of the running queue runs alone: _run_next_task never *)
(* adds a task beside an exclusive one, nor an exclusive one to others,    *)
(* however queueing, completions and cancellations interleave.             *)
ExclusiveRunsAlone ==
    \A t \in running \cap Exclusive : running = {t}

(* The assertion of start() never fails: whatever was going on when stop() *)
(* was called and whatever calls were still scheduled, an inactive runner  *)
(* has an empty running queue.                                             *)
StartAssertion ==
    ~active => running = {}

(* No lost wake-up: while the runner is active, a pending task that could  *)
(* run now is never left without a scheduled call of _run_next_task that   *)
(* will start it.                                                          *)
NoLostWakeup ==
    active /\ Admitted(running, pending, ticket) # {} => runNext > 0

(* A task in a queue has not completed: its deferred has not been called,  *)
(* so neither its callback nor its error callback can run twice.           *)
QueuedNotCompleted ==
    \A t \in running \cup pending : deferred[t] = "waiting"

(* No task occupies the running queue for nothing: a running task has an   *)
(* outstanding call of start() or a body that is about to run or runs, so  *)
(* its completion will take it out of the queue again.                     *)
RunningTaskHasBody ==
    \A t \in running : t \in starts \/ body[t] # "idle"

(* A body is only ever scheduled for a task that is still running: a task  *)
(* stopped between _run_next_task and its start() never sends a request.   *)
OnlyRunningTasksBegin ==
    \A t \in Tasks : body[t] = "scheduled" => t \in running

(* Under an active runner a pending task completes: its deferred fires     *)
(* unless the runner is stopped first.                                     *)
PendingCompletes ==
    \A t \in Tasks :
        (active /\ t \in pending) ~> (deferred[t] # "waiting" \/ ~active)

(* What the comment "Kill pending tasks" in stop() says: a queued task     *)
(* that is in neither queue has had its deferred called.                   *)
StopKillsPending ==
    \A t \in Tasks : deferred[t] = "waiting" => t \in running \cup pending

(* What the exclusive parameter of a task says: while the body of an       *)
(* exclusive task uses the channel, no other body does.                    *)
ExclusiveChannel ==
    \A t \in Exclusive : body[t] = "busy" => \A u \in Tasks \ {t} : body[u] # "busy"
=============================================================================
