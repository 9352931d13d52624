-------------------------- MODULE CapabilitiesProofs ------------------------
(***************************************************************************)
(* Proofs about the capabilities state machine, for any number of restarts *)
(* and of changes of mib_db_in_sync.                                       *)
(***************************************************************************)
EXTENDS Capabilities, TLAPS

(* What _deferred may refer to in each state: neither a task that is still *)
(* at work nor a call of an earlier state shares it with another call, and *)
(* success is due only while its results are there.                        *)
SlotFits ==
    \/ state = "disabled" /\ ~task /\ timers.slot \in {"none", "failure"}
    \/ state = "out_of_sync" /\ ~task /\ timers.slot = "check_in_sync"
    \/ /\ state = "in_sync"
       /\ timers.slot \in {"none", "success", "failure"}
       /\ task => timers.slot = "none"
       /\ timers.slot = "success" => entities # "empty"
    \/ state = "idle" /\ ~task /\ timers.slot = "none" /\ entities # "empty"

(* The machine is enabled by start_state_machines and disabled by stop.    *)
EnabledWhenStarted ==
    /\ opening => started /\ state = "disabled"
    /\ ~started => state = "disabled"

(* The inductive invariant.                                                *)
IInv == TypeOK /\ SlotFits /\ EnabledWhenStarted /\ NoCallLost

-----------------------------------------------------------------------------
(* The calls _deferred refers to and no others.                            *)
Held == {ts \in DelayedCalls(Timers) : \A k \in Timers : ts.lost[k] = 0}

(* A call scheduled while the slot is empty, and a slot that is cancelled, *)
(* leave no call without a reference.                                      *)
LEMMA HeldCalls ==
    ASSUME NEW ts \in Held
    PROVE  /\ CancelSlot(ts) \in Held /\ CancelSlot(ts).slot = "none"
           /\ \A k \in Timers : /\ ts.slot = "none" => CallLater(ts, k) \in Held
                                /\ CallLater(ts, k).slot = k
<1>1. CancelSlot(ts) \in Held /\ CancelSlot(ts).slot = "none"
  BY DEF Held, DelayedCalls, CancelSlot
<1>2. ASSUME NEW k \in Timers PROVE (ts.slot = "none" => CallLater(ts, k) \in Held) /\ CallLater(ts, k).slot = k
  BY DEF Held, DelayedCalls, CallLater
<1> QED
  BY <1>1, <1>2

(* The reactor makes only the call in the slot.                            *)
LEMMA HeldAfterCall ==
    ASSUME NEW ts \in Held, NEW k \in Timers, NEW rest \in AfterCall(ts, k)
    PROVE  ts.slot = k /\ rest \in Held /\ rest.slot = "none"
BY HeldCalls DEF AfterCall, Held

(* The invariant has the delayed calls in Held.                            *)
LEMMA TimersHeld == ASSUME IInv PROVE timers \in Held
BY DEF IInv, TypeOK, NoCallLost, Held

(* The invariant from its parts, for the steps that follow.                *)
LEMMA Rejoin ==
    ASSUME timers' \in Held, SlotFits', EnabledWhenStarted',
           {started', opening', inSync', task', notified'} \subseteq BOOLEAN, state' \in States,
           entities' \in {"empty", "some", "None"}, msgTypes' \in {"empty", "some", "None"}
    PROVE  IInv'
BY DEF IInv, TypeOK, NoCallLost, Held

(* on_enter_out_of_sync, with no task at work, leaves only the poll.       *)
LEMMA OutOfSyncKeeps ==
    ASSUME IInv, NEW ts \in Held, ~task, EnterOutOfSync(ts), started, started', ~opening',
           opening' \in BOOLEAN, inSync' \in BOOLEAN, started' \in BOOLEAN
    PROVE  IInv'
<1>1. /\ state' = "out_of_sync" /\ task' = FALSE /\ UNCHANGED <<entities, msgTypes, notified>>
      /\ timers' = CallLater(CancelSlot(ts), "check_in_sync")
  BY DEF EnterOutOfSync, CancelTask, AfterCancel
<1>2. timers' \in Held /\ timers'.slot = "check_in_sync"
  BY <1>1, HeldCalls DEF Timers
<1>3. SlotFits' /\ EnabledWhenStarted'
  BY <1>1, <1>2 DEF SlotFits, EnabledWhenStarted
<1> QED
  BY <1>1, <1>2, <1>3, Rejoin DEF IInv, TypeOK, States

(* A trigger fires with the machine enabled; ts is what is left of the     *)
(* delayed calls.                                                          *)
LEMMA TriggerKeeps ==
    ASSUME IInv, state # "disabled", NEW ts \in Held,
           UNCHANGED <<started, opening>>, inSync' \in BOOLEAN,
           NEW trigger, Trigger(ts, trigger),
           \/ trigger = "synchronized" /\ (state = "out_of_sync" \/ ts = timers)
           \/ trigger = "not_synchronized" /\ ts = timers
           \/ trigger = "success" /\ timers.slot = "success" /\ ts.slot = "none"
           \/ trigger = "failure" /\ timers.slot = "failure" /\ ts.slot = "none"
    PROVE  IInv'
<1> USE DEF IInv
<1>1. started /\ ~opening /\ started' /\ ~opening' /\ started' \in BOOLEAN /\ opening' \in BOOLEAN
  BY DEF EnabledWhenStarted, TypeOK
<1>2. CASE Accepts(state, trigger)
  <2>1. PICK row \in Transitions : row[1] = trigger /\ row[2] = state /\ Enter(ts, row[3])
    BY <1>2 DEF Trigger
  <2>2. \/ trigger = "synchronized" /\ state = "out_of_sync" /\ EnterInSync(ts)
        \/ trigger = "success" /\ state = "in_sync" /\ EnterIdle(ts)
        \/ trigger = "failure" /\ state = "in_sync" /\ EnterOutOfSync(ts)
        \/ trigger = "not_synchronized" /\ state = "idle" /\ EnterOutOfSync(ts)
    BY <2>1 DEF Transitions, Enter
  <2>3. CASE state = "out_of_sync" /\ EnterInSync(ts)
    <3>1. /\ state' = "in_sync" /\ task' = TRUE /\ timers' = CancelSlot(ts)
          /\ UNCHANGED <<entities, msgTypes, notified>>
      BY <2>3 DEF EnterInSync, AfterCancel, results, SlotFits
    <3>2. timers' \in Held /\ timers'.slot = "none"
      BY <3>1, HeldCalls
    <3> QED
      BY <1>1, <3>1, <3>2, Rejoin DEF SlotFits, EnabledWhenStarted, TypeOK, States
  <2>4. CASE trigger = "success" /\ state = "in_sync" /\ EnterIdle(ts)
    <3>1. ~task /\ entities # "empty"
      BY <2>4 DEF SlotFits
    <3>2. /\ state' = "idle" /\ task' = FALSE /\ timers' = CancelSlot(ts)
          /\ UNCHANGED <<entities, msgTypes>> /\ notified' \in BOOLEAN
      BY <2>4, <3>1 DEF EnterIdle, AfterCancel, CancelTask
    <3>3. timers' \in Held /\ timers'.slot = "none"
      BY <3>2, HeldCalls
    <3> QED
      BY <1>1, <3>1, <3>2, <3>3, Rejoin DEF SlotFits, EnabledWhenStarted, TypeOK, States
  <2>5. CASE EnterOutOfSync(ts) /\ (state = "idle" \/ (trigger = "failure" /\ state = "in_sync"))
    <3>1. ~task
      BY <2>5 DEF SlotFits
    <3> QED
      BY <1>1, <2>5, <3>1, OutOfSyncKeeps
  <2> QED
    BY <2>2, <2>3, <2>4, <2>5
<1>3. CASE ~Accepts(state, trigger)
  <2>1. timers' = ts /\ UNCHANGED <<state, task, entities, msgTypes, notified>>
    BY <1>3 DEF Trigger, results
  <2>2. Accepts("in_sync", "success") /\ Accepts("in_sync", "failure") /\ Accepts("out_of_sync", "synchronized")
    BY DEF Accepts, Transitions
  <2>3. SlotFits'
    BY <1>3, <2>1, <2>2 DEF SlotFits
  <2> QED
    BY <1>1, <2>1, <2>3, Rejoin DEF EnabledWhenStarted, TypeOK
<1> QED
  BY <1>2, <1>3

(* A machine that was just made satisfies the invariant.                   *)
LEMMA InitIInv == Init => IInv
<1> SUFFICES ASSUME Init PROVE IInv
  OBVIOUS
<1>1. timers \in DelayedCalls(Timers) /\ timers.slot = "none" /\ \A k \in Timers : timers.lost[k] = 0
  BY DEF Init, NoCalls, DelayedCalls
<1> QED
  BY <1>1 DEF Init, IInv, TypeOK, States, SlotFits, EnabledWhenStarted, NoCallLost

(* Every step preserves it.                                                *)
LEMMA NextIInv == IInv /\ [Next]_vars => IInv'
<1> SUFFICES ASSUME IInv, [Next]_vars PROVE IInv'
  OBVIOUS
<1> USE DEF IInv, results
<1>0. timers \in Held
  BY TimersHeld
<1>1. ASSUME NEW k \in Timers, Fire(k) PROVE IInv'
  <2>1. PICK ts \in AfterCall(timers, k) : Trigger(ts, k)
    BY <1>1 DEF Fire
  <2>2. k \in {"success", "failure"} /\ UNCHANGED <<started, opening, inSync>>
    BY <1>1 DEF Fire
  <2>3. timers.slot = k /\ ts \in Held /\ ts.slot = "none"
    BY <1>0, <2>1, HeldAfterCall
  <2>4. CASE state = "disabled"
    <3>1. ~Accepts("disabled", k)
      BY <2>2 DEF Accepts, Transitions
    <3>2. timers' = ts /\ UNCHANGED <<state, task, entities, msgTypes, notified>>
      BY <2>1, <2>4, <3>1 DEF Trigger
    <3> QED
      BY <2>2, <2>3, <2>4, <3>2, Rejoin DEF SlotFits, EnabledWhenStarted, TypeOK
  <2>5. CASE state # "disabled"
    <3>1. inSync' \in BOOLEAN
      BY <2>2 DEF TypeOK
    <3> QED
      BY <2>1, <2>2, <2>3, <2>5, <3>1, TriggerKeeps
  <2> QED
    BY <2>4, <2>5
<1>2. CASE CheckInSync
  <2>1. UNCHANGED <<started, opening, inSync>>
    BY <1>2 DEF CheckInSync
  <2>2. PICK ts \in AfterCall(timers, "check_in_sync") :
            IF inSync THEN Trigger(ts, "synchronized")
            ELSE timers' = CallLater(ts, "check_in_sync") /\ UNCHANGED <<state, task, results, notified>>
    BY <1>2 DEF CheckInSync
  <2>3. "check_in_sync" \in Timers
    BY DEF Timers
  <2>4. timers.slot = "check_in_sync" /\ ts \in Held /\ ts.slot = "none"
    BY <1>0, <2>3, HeldAfterCall
  <2>5. state = "out_of_sync" /\ ~task
    BY <2>4 DEF SlotFits
  <2>6. CASE inSync
    <3>1. Trigger(ts, "synchronized") /\ inSync' \in BOOLEAN
      BY <2>1, <2>2, <2>6 DEF TypeOK
    <3> QED
      BY <2>1, <2>4, <2>5, <3>1, TriggerKeeps
  <2>7. CASE ~inSync
    <3>1. /\ timers' = CallLater(ts, "check_in_sync")
          /\ UNCHANGED <<state, task, entities, msgTypes, notified>>
      BY <2>2, <2>7
    <3>2. timers' \in Held /\ timers'.slot = "check_in_sync"
      BY <2>3, <2>4, <3>1, HeldCalls
    <3> QED
      BY <2>1, <2>5, <3>1, <3>2, Rejoin DEF SlotFits, EnabledWhenStarted, TypeOK
  <2> QED
    BY <2>6, <2>7
<1>3. CASE MibSyncChanges
  <2>1. started /\ UNCHANGED <<started, opening>> /\ inSync' \in BOOLEAN
    BY <1>3 DEF MibSyncChanges
  <2>2. CASE state = "disabled"
    <3>1. UNCHANGED <<state, timers, task, entities, msgTypes, notified>>
      BY <1>3, <2>2 DEF MibSyncChanges, OnMibSyncEvent
    <3> QED
      BY <1>0, <2>1, <3>1, Rejoin DEF SlotFits, EnabledWhenStarted, TypeOK
  <2>3. CASE state # "disabled"
    <3>1. Trigger(timers, "synchronized") \/ Trigger(timers, "not_synchronized")
      BY <1>3, <2>3 DEF MibSyncChanges, OnMibSyncEvent
    <3> QED
      BY <1>0, <2>1, <2>3, <3>1, TriggerKeeps
  <2> QED
    BY <2>2, <2>3
<1>4. CASE TaskSucceeds \/ TaskFails
  <2>1. /\ task /\ task' = FALSE /\ UNCHANGED <<started, opening, inSync, state, notified>>
        /\ \/ timers' = CallLater(timers, "success") /\ entities' \in {"some", "None"} /\ msgTypes' \in {"None", "some"}
           \/ timers' = CallLater(timers, "failure") /\ entities' = "empty" /\ msgTypes' = "empty"
    BY <1>4 DEF TaskSucceeds, TaskFails, CancelTask, TaskEntities, TaskMessageTypes
  <2>2. state = "in_sync" /\ timers.slot = "none"
    BY <2>1 DEF SlotFits
  <2>3. /\ timers' \in Held
        /\ \/ timers'.slot = "success" /\ entities' # "empty"
           \/ timers'.slot = "failure" /\ entities' = "empty"
    BY <1>0, <2>1, <2>2, HeldCalls DEF Timers
  <2> QED
    BY <2>1, <2>2, <2>3, Rejoin DEF SlotFits, EnabledWhenStarted, TypeOK
<1>5. CASE DeviceStart
  <2>1. /\ started' = TRUE /\ opening' = TRUE /\ state = "disabled"
        /\ UNCHANGED <<inSync, state, timers, task, entities, msgTypes, notified>>
    BY <1>5 DEF DeviceStart, EnabledWhenStarted
  <2> QED
    BY <1>0, <2>1, Rejoin DEF SlotFits, EnabledWhenStarted, TypeOK
<1>6. CASE StartStateMachines
  <2>1. /\ opening /\ opening' = FALSE /\ EnterOutOfSync(timers) /\ UNCHANGED <<started, inSync>>
    BY <1>6 DEF StartStateMachines
  <2>2. started /\ ~task /\ started' \in BOOLEAN /\ inSync' \in BOOLEAN
    BY <2>1 DEF EnabledWhenStarted, SlotFits, TypeOK
  <2> QED
    BY <1>0, <2>1, <2>2, OutOfSyncKeeps
<1>7. CASE DeviceStop
  <2>1. /\ started' = FALSE /\ opening' = FALSE /\ inSync' = FALSE /\ state' = "disabled" /\ task' = FALSE
        /\ timers' = IF opening THEN timers ELSE AfterCancel(timers)
        /\ entities' = "empty" /\ msgTypes' = "empty" /\ notified' = notified
    BY <1>7 DEF DeviceStop
  <2>2. AfterCancel(timers) \in Held /\ AfterCancel(timers).slot \in {"none", "failure"}
    BY <1>0, HeldCalls DEF AfterCancel, Timers
  <2>3. timers' \in Held /\ timers'.slot \in {"none", "failure"}
    BY <1>0, <2>1, <2>2 DEF EnabledWhenStarted, SlotFits
  <2> QED
    BY <2>1, <2>3, Rejoin DEF SlotFits, EnabledWhenStarted, TypeOK, States
<1>8. CASE UNCHANGED vars
  BY <1>8 DEF vars, TypeOK, SlotFits, EnabledWhenStarted, NoCallLost
<1> QED
  BY <1>1, <1>2, <1>3, <1>4, <1>5, <1>6, <1>7, <1>8 DEF Next

(* The inductive invariant holds in every reachable state.                 *)
THEOREM Invariance == Spec => []IInv
BY InitIInv, NextIInv, PTL DEF Spec

(* The state of the machine has its types.                                 *)
THEOREM TypeCorrect == Spec => []TypeOK
BY Invariance, PTL DEF IInv

(* _deferred refers to every outstanding call of the machine, so that      *)
(* _cancel_deferred of the next state reaches it.                          *)
THEOREM CallsHeld == Spec => []NoCallLost
BY Invariance, PTL DEF IInv

(* The machine becomes idle only with what a task read from the ONU.      *)
THEOREM IdleKnows == Spec => []IdleKnowsEntities
<1>1. IInv => IdleKnowsEntities
  BY DEF IInv, SlotFits, IdleKnowsEntities
<1> QED
  BY <1>1, Invariance, PTL
=============================================================================
