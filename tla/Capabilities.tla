---------------------------- MODULE Capabilities ----------------------------
(***************************************************************************)
(* The state machine that reads the OMCI capabilities of one ONU each time *)
(* its MIB database comes into sync.                                       *)
(*                                                                         *)
(* src/voltha/extensions/omci/state_machines/omci_onu_capabilities.py      *)
(* src/voltha/extensions/omci/tasks/onu_capabilities_task.py               *)
(* src/voltha/extensions/omci/onu_device_entry.py                          *)
(*                                                                         *)
(* The MIB synchronizer (module MibSync) is seen through the flag          *)
(* mib_db_in_sync only, which changes at any time while the device is      *)
(* started; the setter publishes each change to on_mib_sync_event in the   *)
(* same step.                                                              *)
(***************************************************************************)
EXTENDS Naturals, DelayedCalls

CONSTANTS
    MaxRestarts,  \* bound on stop/start cycles
    MaxChanges    \* bound on changes of mib_db_in_sync

ASSUME CapabilitiesAssumption == MaxRestarts \in Nat /\ MaxChanges \in Nat

VARIABLES
    started,    \* OnuDeviceEntry._started
    opening,    \* an outstanding callLater(0, start_state_machines)
    inSync,     \* OnuDeviceEntry.mib_db_in_sync
    state,      \* the state of the machine
    timers,     \* the delayed calls; their slot is _deferred
    task,       \* the deferred of _current_task has not fired
    entities,   \* _supported_entities: "empty", "some" or None
    msgTypes,   \* _supported_msg_types: "empty", "some" or None
    notified,   \* the capabilities event of this visit to idle was published
    restarts,
    changes

results == <<entities, msgTypes>>
vars == <<started, opening, inSync, state, timers, task, results, notified, restarts, changes>>

States == {"disabled", "out_of_sync", "in_sync", "idle"}

(* DEFAULT_TRANSITIONS, without the wildcard stop.                         *)
Transitions == {
    <<"start",            "disabled",    "out_of_sync">>,
    <<"synchronized",     "out_of_sync", "in_sync">>,
    <<"success",          "in_sync",     "idle">>,
    <<"failure",          "in_sync",     "out_of_sync">>,
    <<"not_synchronized", "idle",        "out_of_sync">>}

Timers == {"check_in_sync", "success", "failure"}

Accepts(s, trigger) == \E row \in Transitions : row[1] = trigger /\ row[2] = s

(* buffer_to_message_type has no return statement: each code the ONU       *)
(* reports becomes None and is dropped from the set.                       *)
BufferToMessageType(code) == "None"

(* supported_managed_entities and supported_message_types of the task:     *)
(* None for an empty set.                                                  *)
TaskEntities(classes) == IF classes = {} THEN "None" ELSE "some"

TaskMessageTypes(codes) ==
    IF {BufferToMessageType(c) : c \in codes} \ {"None"} = {} THEN "None" ELSE "some"

-----------------------------------------------------------------------------
(* _cancel_deferred on the delayed calls ts: the one in the slot and then  *)
(* the deferred of the task, whose failure callback schedules failure.     *)
AfterCancel(ts) ==
    IF task THEN CallLater(CancelSlot(ts), "failure") ELSE CancelSlot(ts)

(* What the failure callback does to the results, if it runs.              *)
CancelTask ==
    /\ task' = FALSE
    /\ entities' = IF task THEN "empty" ELSE entities
    /\ msgTypes' = IF task THEN "empty" ELSE msgTypes

(* on_enter_out_of_sync without _cancel_deferred.                          *)
EnterOutOfSyncNoCancel(ts) ==
    /\ state' = "out_of_sync"
    /\ timers' = CallLater(ts, "check_in_sync")
    /\ UNCHANGED <<task, results, notified>>

(* on_enter_out_of_sync that relies on the event alone.                    *)
EnterOutOfSyncNoPoll(ts) ==
    /\ state' = "out_of_sync"
    /\ CancelTask
    /\ timers' = AfterCancel(ts)
    /\ UNCHANGED notified

EnterOutOfSync(ts) ==
    /\ state' = "out_of_sync"
    /\ CancelTask
    /\ timers' = CallLater(AfterCancel(ts), "check_in_sync")
    /\ UNCHANGED notified

EnterInSync(ts) ==
    /\ state' = "in_sync"
    /\ task' = TRUE
    /\ timers' = AfterCancel(ts)
    /\ UNCHANGED <<results, notified>>

(* on_enter_idle: publish_omci_capabilities_event reads the two properties *)
(* supported_*, and len() raises when an attribute is None.                *)
EnterIdle(ts) ==
    /\ state' = "idle"
    /\ CancelTask
    /\ timers' = AfterCancel(ts)
    /\ notified' = (entities' # "None" /\ msgTypes' # "None")

Enter(ts, destination) ==
    \/ destination = "out_of_sync" /\ EnterOutOfSync(ts)
    \/ destination = "in_sync" /\ EnterInSync(ts)
    \/ destination = "idle" /\ EnterIdle(ts)

(* A trigger; one the table does not have for the present state raises     *)
(* MachineError, which the reactor or the event bus logs.                  *)
Trigger(ts, trigger) ==
    IF Accepts(state, trigger)
    THEN \E row \in Transitions : row[1] = trigger /\ row[2] = state /\ Enter(ts, row[3])
    ELSE timers' = ts /\ UNCHANGED <<state, task, results, notified>>

-----------------------------------------------------------------------------
(* The reactor makes the delayed call of success or failure.               *)
Fire(k) ==
    /\ k \in {"success", "failure"}
    /\ \E ts \in AfterCall(timers, k) : Trigger(ts, k)
    /\ UNCHANGED <<started, opening, inSync, restarts, changes>>

(* check_in_sync: synchronized() or poll again later.                      *)
CheckInSync ==
    /\ \E ts \in AfterCall(timers, "check_in_sync") :
        IF inSync THEN Trigger(ts, "synchronized")
        ELSE timers' = CallLater(ts, "check_in_sync") /\ UNCHANGED <<state, task, results, notified>>
    /\ UNCHANGED <<started, opening, inSync, restarts, changes>>

(* on_mib_sync_event, called by the setter of mib_db_in_sync.  The machine *)
(* is subscribed whenever it is not disabled.                              *)
OnMibSyncEvent(value) ==
    IF state = "disabled"
    THEN UNCHANGED <<state, timers, task, results, notified>>
    ELSE Trigger(timers, IF value THEN "synchronized" ELSE "not_synchronized")

(* The MIB synchronizer comes into or falls out of sync.                   *)
MibSyncChanges ==
    /\ started /\ ~opening
    /\ changes < MaxChanges
    /\ changes' = changes + 1
    /\ inSync' = ~inSync
    /\ OnMibSyncEvent(inSync')
    /\ UNCHANGED <<started, opening, restarts>>

(* perform_get_capabilities has read both tables, of which the one of the  *)
(* entities may be empty; success callback.                                *)
TaskSucceeds ==
    /\ task
    /\ task' = FALSE
    /\ \E classes \in {{}, {2}} : entities' = TaskEntities(classes)
    /\ msgTypes' = TaskMessageTypes({4, 29})
    /\ timers' = CallLater(timers, "success")
    /\ UNCHANGED <<started, opening, inSync, state, notified, restarts, changes>>

(* A failure callback that schedules the trigger of the success callback.  *)
TaskFailsAsSuccess ==
    /\ task
    /\ CancelTask
    /\ timers' = CallLater(timers, "success")
    /\ UNCHANGED <<started, opening, inSync, state, notified, restarts, changes>>

(* A request timed out or was refused; failure callback.                   *)
TaskFails ==
    /\ task
    /\ CancelTask
    /\ timers' = CallLater(timers, "failure")
    /\ UNCHANGED <<started, opening, inSync, state, notified, restarts, changes>>

-----------------------------------------------------------------------------
DeviceStart ==
    /\ ~started
    /\ started' = TRUE
    /\ opening' = TRUE
    /\ UNCHANGED <<inSync, state, timers, task, results, notified, restarts, changes>>

(* start_state_machines: the MIB synchronizer first, then this machine.    *)
StartStateMachines ==
    /\ opening
    /\ opening' = FALSE
    /\ EnterOutOfSync(timers)
    /\ UNCHANGED <<started, inSync, restarts, changes>>

(* OnuDeviceEntry.stop(): the MIB synchronizer stops first and clears the  *)
(* flag, which takes an idle machine to out_of_sync; then on_enter_disabled*)
(* cancels what the slot and the task have left, among it the poll that    *)
(* this passage has scheduled.  A device whose machines have not been      *)
(* started yet only loses the call that would start them.                  *)
DeviceStop ==
    /\ started
    /\ restarts < MaxRestarts
    /\ restarts' = restarts + 1
    /\ started' = FALSE
    /\ opening' = FALSE
    /\ inSync' = FALSE
    /\ state' = "disabled"
    /\ task' = FALSE
    /\ timers' = IF opening THEN timers ELSE AfterCancel(timers)
    /\ entities' = "empty" /\ msgTypes' = "empty"
    /\ UNCHANGED <<notified, changes>>

Init ==
    /\ started = FALSE /\ opening = FALSE /\ inSync = FALSE
    /\ state = "disabled"
    /\ timers = NoCalls(Timers)
    /\ task = FALSE
    /\ entities = "empty" /\ msgTypes = "empty"
    /\ notified = FALSE
    /\ restarts = 0 /\ changes = 0

Next ==
    \/ \E k \in Timers : Fire(k)
    \/ CheckInSync
    \/ MibSyncChanges
    \/ TaskSucceeds \/ TaskFails
    \/ DeviceStart \/ StartStateMachines \/ DeviceStop

Spec == Init /\ [][Next]_vars

(* The reactor makes the calls it was asked to make and a task ends.       *)
FairSpec ==
    /\ Spec
    /\ \A k \in Timers : WF_vars(Fire(k))
    /\ WF_vars(CheckInSync)
    /\ WF_vars(StartStateMachines)
    /\ WF_vars(TaskSucceeds \/ TaskFails)

-----------------------------------------------------------------------------
(* The state is well typed.                                                *)
TypeOK ==
    /\ {started, opening, inSync, task, notified} \subseteq BOOLEAN
    /\ state \in States
    /\ timers \in DelayedCalls(Timers)
    /\ entities \in {"empty", "some", "None"}
    /\ msgTypes \in {"empty", "some", "None"}

(* No delayed call is ever lost: each one outstanding is the one _deferred *)
(* refers to, so that the next state cancels it.  The failure call that    *)
(* cancelling a task leaves behind when the machine is stopped is          *)
(* cancelled on the next start and never ends a later visit to in_sync.    *)
NoCallLost ==
    \A k \in Timers : timers.lost[k] = 0

(* An idle machine has what a task read from the ONU, be it that there are *)
(* no entities: a success call never outlives the results it stands for    *)
(* across failures, stops and restarts, which leave an empty set.          *)
IdleKnowsEntities ==
    state = "idle" => entities # "empty"

(* The poll does its work: when the MIB stays in sync the machine leaves   *)
(* out_of_sync, even if it came there after the event, by a failed task.   *)
SyncIsSeen ==
    (state = "out_of_sync" /\ inSync) ~> (state # "out_of_sync" \/ ~inSync)

(* What the docstring of on_enter_idle says first: the subscribers are     *)
(* notified of the capabilities.                                           *)
IdleNotifies ==
    state = "idle" => notified

(* What the docstring of on_enter_idle says next: the machine is idle      *)
(* until the MIB goes out of sync, and no longer.                          *)
IdleMeansInSync ==
    state = "idle" => inSync
=============================================================================
