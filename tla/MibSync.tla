------------------------------ MODULE MibSync -------------------------------
(***************************************************************************)
(* The MIB synchronizer of one ONU: the state machine that keeps the MIB   *)
(* database of OpenOMCI in step with the MIB of the ONU.                   *)
(*                                                                         *)
(* src/voltha/extensions/omci/state_machines/mib_sync.py  the machine      *)
(* src/voltha/extensions/omci/onu_device_entry.py   starts and stops it    *)
(* src/voltha/extensions/omci/tasks/{mib_upload,get_mds_task,              *)
(*     mib_resync_task}.py                          the tasks it queues    *)
(* src/voltha/extensions/omci/database/mib_db_ext.py   what persists       *)
(*                                                                         *)
(* A step is one reactor callback: a delayed trigger that fires, a task    *)
(* that moves on, a response of the ONU, a call of the adapter.  timers    *)
(* holds the delayed triggers (see DelayedCalls); they fire in any order.  *)
(* The contents of the MIB are reduced to the MIB data sync counters of    *)
(* both sides and to one bit: whether a complete upload has filled the     *)
(* database since it was wiped.                                            *)
(***************************************************************************)
EXTENDS Naturals, FiniteSets, Sequences, SequencesExt, DelayedCalls

CONSTANTS
    MdsMax,       \* largest MIB data sync value (255 in the code)
    AuditDelay,   \* _audit_delay; 0 turns audits off
    ResyncDelay,  \* _resync_delay
    MaxRestarts,  \* bound on stop/start cycles and crashes
    MaxChanges    \* bound on changes of the ONU's MIB by create, set, delete

ASSUME MibSyncAssumption ==
    /\ MdsMax \in Nat \ {0}
    /\ {AuditDelay, ResyncDelay, MaxRestarts, MaxChanges} \subseteq Nat

VARIABLES
    started,   \* OnuDeviceEntry._started
    opening,   \* an outstanding callLater(0, start_state_machines)
    first,     \* OnuDeviceEntry._first_in_sync
    inSync,    \* OnuDeviceEntry.mib_db_in_sync
    state,     \* the state of the machine
    timers,    \* the delayed triggers; their slot is _deferred
    tasks,     \* the tasks handed to the runner, in order of arrival
    mds,       \* _mib_data_sync
    synced,    \* last_mib_db_sync is not None
    age,       \* time since last_mib_db_sync, at most ResyncDelay
    inDb,      \* _device_in_db
    db,        \* the persistent record of the device
    onuMds,    \* the MIB data sync counter of the ONU
    lateReset, \* a MIB reset of a stopped task is still under way to the ONU
    restarts,
    changes

device == <<started, opening, first>>
memory == <<mds, synced, inDb>>
bounds == <<restarts, changes>>
vars == <<device, inSync, state, timers, tasks, memory, age, db, onuMds, lateReset, bounds>>

States == {"disabled", "starting", "uploading", "examining_mds",
           "in_sync", "out_of_sync", "auditing", "resynchronizing"}

(* The table DEFAULT_TRANSITIONS: trigger, source, destination.            *)
Transitions == {
    <<"start",        "disabled",        "starting">>,
    <<"upload_mib",   "starting",        "uploading">>,
    <<"examine_mds",  "starting",        "examining_mds">>,
    <<"success",      "uploading",       "in_sync">>,
    <<"timeout",      "uploading",       "starting">>,
    <<"success",      "examining_mds",   "in_sync">>,
    <<"timeout",      "examining_mds",   "starting">>,
    <<"mismatch",     "examining_mds",   "uploading">>,
    <<"audit_mib",    "in_sync",         "auditing">>,
    <<"audit_mib",    "out_of_sync",     "auditing">>,
    <<"success",      "auditing",        "in_sync">>,
    <<"timeout",      "auditing",        "starting">>,
    <<"mismatch",     "auditing",        "resynchronizing">>,
    <<"force_resync", "auditing",        "resynchronizing">>,
    <<"success",      "resynchronizing", "in_sync">>,
    <<"diffs_found",  "resynchronizing", "out_of_sync">>,
    <<"timeout",      "resynchronizing", "out_of_sync">>}

(* Delayed triggers: "audit" and "reaudit" both are the trigger audit_mib, *)
(* with the delay of the state in_sync and the one of out_of_sync.         *)
Timers == {"upload_mib", "examine_mds", "success", "mismatch", "timeout",
           "force_resync", "diffs_found", "audit", "reaudit"}

TriggerOf(k) == IF k \in {"audit", "reaudit"} THEN "audit_mib" ELSE k

Accepts(s, trigger) == \E row \in Transitions : row[1] = trigger /\ row[2] = s

Destination(s, trigger) == (CHOOSE row \in Transitions : row[1] = trigger /\ row[2] = s)[3]

-----------------------------------------------------------------------------
(* Tasks.  current marks the one _current_task refers to.  An upload is    *)
(* "pending", "running", then "reset" once the ONU has answered the MIB    *)
(* reset and "loaded" once it has answered every upload-next; a get of the *)
(* MDS is "answered" with the value in answer.                             *)
TaskKinds == {"upload", "examine", "audit", "resync"}

Task == [kind : TaskKinds, current : BOOLEAN,
         phase : {"pending", "running", "reset", "loaded", "answered"}, answer : 0..MdsMax]

Priority(t) == CASE t.kind = "upload" -> 250 [] t.kind = "resync" -> 240 [] OTHER -> 128

Exclusive(t) == t.kind # "resync"

Running(t) == t.phase # "pending"

(* success and failure set _current_task to None whichever task it is.     *)
NoCurrent(ts) == [i \in DOMAIN ts |-> [ts[i] EXCEPT !.current = FALSE]]

(* self._current_task = <task>; task_runner.queue_task(self._current_task) *)
Queue(ts, kind) ==
    Append(NoCurrent(ts), [kind |-> kind, current |-> TRUE, phase |-> "pending", answer |-> 0])

-----------------------------------------------------------------------------
(* self._deferred = reactor.callLater(delay, trigger)                      *)
Schedule(ts, k) == timers' = CallLater(ts, k)

(* The setter of mib_db_in_sync: the first change after start() is taken   *)
(* for the first synchronization.                                          *)
SetInSync(value) ==
    /\ inSync' = value
    /\ first' = (first /\ value = inSync)

(* The on_enter_<state> handlers; ts are the timers left when the trigger  *)
(* has fired.                                                              *)
EnterStarting(ts) ==
    /\ inDb' = TRUE
    /\ IF inDb THEN UNCHANGED <<db, mds, synced>>
       ELSE IF db.known THEN mds' = db.mds /\ synced' = db.synced /\ UNCHANGED db
       ELSE db' = [known |-> TRUE, mds |-> 0, synced |-> FALSE, whole |-> FALSE]
            /\ UNCHANGED <<mds, synced>>
    /\ Schedule(ts, IF synced' THEN "examine_mds" ELSE "upload_mib")
    /\ UNCHANGED <<inSync, first, tasks, age>>

EnterUploading(ts) ==
    /\ SetInSync(FALSE)
    /\ tasks' = Queue(tasks, "upload")
    /\ timers' = ts
    /\ UNCHANGED <<memory, db, age>>

EnterExaminingMds(ts) ==
    /\ mds' = db.mds
    /\ SetInSync(FALSE)
    /\ tasks' = Queue(tasks, "examine")
    /\ timers' = ts
    /\ UNCHANGED <<synced, inDb, db, age>>

(* Entering in_sync without scheduling the audit.                          *)
EnterInSyncNoAudit(ts) ==
    /\ synced' = TRUE
    /\ age' = 0
    /\ db' = [db EXCEPT !.synced = TRUE]
    /\ SetInSync(TRUE)
    /\ timers' = ts
    /\ UNCHANGED <<tasks, mds, inDb>>

EnterInSync(ts) ==
    /\ synced' = TRUE
    /\ age' = 0
    /\ db' = [db EXCEPT !.synced = TRUE]
    /\ SetInSync(TRUE)
    /\ IF AuditDelay > 0 THEN Schedule(ts, "audit") ELSE timers' = ts
    /\ UNCHANGED <<tasks, mds, inDb>>

EnterOutOfSync(ts) ==
    /\ SetInSync(FALSE)
    /\ Schedule(ts, "reaudit")
    /\ UNCHANGED <<tasks, memory, db, age>>

(* What last_mib_db_sync has aged to when the audit begins.  The state     *)
(* in_sync has just renewed it and lasts at most _audit_delay; a round     *)
(* through the other states may take any time.                             *)
Aged ==
    LET oldest == IF state = "in_sync" /\ age + AuditDelay < ResyncDelay
                  THEN age + AuditDelay ELSE ResyncDelay
    IN  age .. oldest

EnterAuditing(ts) ==
    /\ age' \in Aged
    /\ IF ~synced \/ age' >= ResyncDelay
       THEN Schedule(ts, "force_resync") /\ UNCHANGED tasks
       ELSE tasks' = Queue(tasks, "audit") /\ timers' = ts
    /\ UNCHANGED <<inSync, first, memory, db>>

EnterResynchronizing(ts) ==
    /\ tasks' = Queue(tasks, "resync")
    /\ timers' = ts
    /\ UNCHANGED <<inSync, first, memory, db, age>>

(* A delayed trigger fires.  The machine refuses one that its table does   *)
(* not have for the present state (MachineError, logged by the reactor).   *)
Fire(k) ==
    \E ts \in AfterCall(timers, k) :
    LET trigger == TriggerOf(k)
    IN  /\ IF Accepts(state, trigger)
           THEN /\ state' = Destination(state, trigger)
                /\ \/ state' = "starting" /\ EnterStarting(ts)
                   \/ state' = "uploading" /\ EnterUploading(ts)
                   \/ state' = "examining_mds" /\ EnterExaminingMds(ts)
                   \/ state' = "in_sync" /\ EnterInSync(ts)
                   \/ state' = "out_of_sync" /\ EnterOutOfSync(ts)
                   \/ state' = "auditing" /\ EnterAuditing(ts)
                   \/ state' = "resynchronizing" /\ EnterResynchronizing(ts)
           ELSE timers' = ts /\ UNCHANGED <<state, inSync, first, tasks, memory, db, age>>
        /\ UNCHANGED <<started, opening, onuMds, lateReset, bounds>>

-----------------------------------------------------------------------------
(* The runner starts a task: the first of the highest priority, never      *)
(* beside an exclusive one nor an exclusive one beside another.            *)
RunTask(i) ==
    /\ started
    /\ tasks[i].phase = "pending"
    /\ \A j \in DOMAIN tasks \ {i} :
        IF Running(tasks[j])
        THEN ~Exclusive(tasks[i]) /\ ~Exclusive(tasks[j])
        ELSE \/ Priority(tasks[i]) > Priority(tasks[j])
             \/ Priority(tasks[i]) = Priority(tasks[j]) /\ i < j
    /\ tasks' = [tasks EXCEPT ![i].phase = "running"]
    /\ UNCHANGED <<device, inSync, state, timers, memory, age, db, onuMds, lateReset, bounds>>

(* on_mib_reset_response, which leaves the database alone in any state but *)
(* uploading.                                                              *)
OnMibResetResponse ==
    IF state = "uploading"
    THEN /\ SetInSync(FALSE)
         /\ mds' = 0
         /\ db' = [db EXCEPT !.mds = 0, !.whole = FALSE]
    ELSE UNCHANGED <<inSync, first, mds, db>>

(* The ONU resets its MIB and answers.                                     *)
ResetAnswered(i) ==
    /\ tasks[i].kind = "upload" /\ tasks[i].phase = "running"
    /\ tasks' = [tasks EXCEPT ![i].phase = "reset"]
    /\ onuMds' = 0
    /\ OnMibResetResponse
    /\ UNCHANGED <<started, opening, state, timers, synced, inDb, age, lateReset, bounds>>

(* The ONU answers the upload: on_mib_upload_next_response saves each      *)
(* instance, but only in state uploading.                                  *)
UploadAnswered(i) ==
    /\ tasks[i].kind = "upload" /\ tasks[i].phase = "reset"
    /\ tasks' = [tasks EXCEPT ![i].phase = "loaded"]
    /\ db' = [db EXCEPT !.whole = @ \/ state = "uploading"]
    /\ UNCHANGED <<device, inSync, state, timers, memory, age, onuMds, lateReset, bounds>>

(* The ONU answers the get of its MDS; the callback comes later.           *)
MdsAnswered(i) ==
    /\ tasks[i].kind \in {"examine", "audit"} /\ tasks[i].phase = "running"
    /\ tasks' = [tasks EXCEPT ![i].phase = "answered", ![i].answer = onuMds]
    /\ UNCHANGED <<device, inSync, state, timers, memory, age, db, onuMds, lateReset, bounds>>

(* The success callbacks of on_enter_uploading, _examining_mds, _auditing. *)
TaskSucceeds(i) ==
    /\ tasks[i].phase \in {"loaded", "answered"}
    /\ tasks' = NoCurrent(RemoveAt(tasks, i))
    /\ LET match == tasks[i].kind = "upload" \/ tasks[i].answer = mds
       IN  /\ Schedule(timers, IF match THEN "success" ELSE "mismatch")
           /\ IF tasks[i].kind = "audit" /\ ~match THEN SetInSync(FALSE) ELSE UNCHANGED <<inSync, first>>
    /\ UNCHANGED <<started, opening, state, memory, age, db, onuMds, lateReset, bounds>>

(* The success callback of on_enter_resynchronizing.  The task hands over  *)
(* None for an empty list of differences and len(None) raises, so that     *)
(* only three non-empty lists lead on.                                     *)
ResyncSucceeds(i) ==
    /\ tasks[i].kind = "resync" /\ tasks[i].phase = "running"
    /\ tasks' = NoCurrent(RemoveAt(tasks, i))
    /\ \/ Schedule(timers, "diffs_found")
       \/ UNCHANGED timers
    /\ UNCHANGED <<device, inSync, state, memory, age, db, onuMds, lateReset, bounds>>

(* A failure callback that schedules nothing.                              *)
TaskFailsSilently(i) ==
    /\ tasks[i].phase \in {"running", "reset"}
    /\ tasks' = NoCurrent(RemoveAt(tasks, i))
    /\ UNCHANGED <<device, inSync, state, timers, memory, age, db, onuMds, lateReset, bounds>>

(* A MIB reset that got no answer may have been executed all the same.     *)
Unanswered(t) == IF t.kind = "upload" /\ t.phase = "running" THEN {0, onuMds} ELSE {onuMds}

(* The failure callbacks: a timeout of a request or a bad status.          *)
TaskFails(i) ==
    /\ tasks[i].phase \in {"running", "reset"}
    /\ tasks' = NoCurrent(RemoveAt(tasks, i))
    /\ onuMds' \in Unanswered(tasks[i])
    /\ Schedule(timers, "timeout")
    /\ UNCHANGED <<device, inSync, state, memory, age, db, lateReset, bounds>>

-----------------------------------------------------------------------------
(* increment_mib_data_sync                                                 *)
Increment(m) == IF m + 1 > MdsMax THEN 0 ELSE m + 1

(* The counter of the ONU skips the reserved value 0.                      *)
OnuIncrement(m) == IF m + 1 > MdsMax THEN 1 ELSE m + 1

(* A change that is counted but not saved.                                 *)
ChangeUnsaved(op, onu, olt) ==
    /\ changes < MaxChanges
    /\ changes' = changes + 1
    /\ onu \/ olt
    /\ olt => state # "disabled" /\ (op = "set" \/ state # "uploading")
    /\ onuMds' = IF onu THEN OnuIncrement(onuMds) ELSE onuMds
    /\ mds' = IF olt THEN Increment(mds) ELSE mds
    /\ UNCHANGED <<device, inSync, state, timers, tasks, synced, inDb, age, db, lateReset, restarts>>

(* A create, delete or set request changes the MIB of the ONU (onu), of    *)
(* the database (olt), or both: a response may be lost, an instance may    *)
(* exist already on one side.  on_create_response and on_delete_response   *)
(* return in state uploading, on_set_response does not.                    *)
Change(op, onu, olt) ==
    /\ changes < MaxChanges
    /\ changes' = changes + 1
    /\ onu \/ olt
    /\ olt => state # "disabled" /\ (op = "set" \/ state # "uploading")
    /\ onuMds' = IF onu THEN OnuIncrement(onuMds) ELSE onuMds
    /\ mds' = IF olt THEN Increment(mds) ELSE mds
    /\ db' = IF olt THEN [db EXCEPT !.mds = mds'] ELSE db
    /\ UNCHANGED <<device, inSync, state, timers, tasks, synced, inDb, age, lateReset, restarts>>

(* The MIB reset of a task that was stopped meanwhile is lost, or it       *)
(* reaches the ONU and the answer is lost or finds the channel disabled.   *)
LateReset ==
    /\ lateReset
    /\ lateReset' = FALSE
    /\ onuMds' \in {0, onuMds}
    /\ UNCHANGED <<device, inSync, state, timers, tasks, memory, age, db, bounds>>

(* The channel is enabled again when the answer comes, and still has the   *)
(* request in its table: it publishes the answer.  Answers come in the     *)
(* order of the requests.                                                  *)
LateResetAnswered ==
    /\ lateReset /\ started
    /\ \A i \in DOMAIN tasks : tasks[i].phase \in {"pending", "running"}
    /\ lateReset' = FALSE
    /\ onuMds' = 0
    /\ OnMibResetResponse
    /\ UNCHANGED <<started, opening, state, timers, tasks, synced, inDb, age, bounds>>

-----------------------------------------------------------------------------
(* OnuDeviceEntry.start(): the machines are started by a later call.       *)
DeviceStart ==
    /\ ~started
    /\ started' = TRUE
    /\ first' = TRUE
    /\ opening' = TRUE
    /\ UNCHANGED <<inSync, state, timers, tasks, memory, age, db, onuMds, lateReset, bounds>>

StartStateMachines ==
    /\ opening
    /\ opening' = FALSE
    /\ state = "disabled"
    /\ state' = "starting"
    /\ EnterStarting(timers)
    /\ UNCHANGED <<started, onuMds, lateReset, bounds>>

ResetUnderWay == lateReset \/ \E i \in DOMAIN tasks : tasks[i].kind = "upload" /\ tasks[i].phase = "running"

(* stop() without mib_db_in_sync = False in on_enter_disabled.             *)
DeviceStopStillInSync ==
    LET cancelled == IF opening THEN timers ELSE CancelSlot(timers)
        failed == {i \in DOMAIN tasks : tasks[i].current \/ Running(tasks[i])}
    IN  /\ started
        /\ restarts < MaxRestarts
        /\ restarts' = restarts + 1
        /\ started' = FALSE
        /\ opening' = FALSE
        /\ state' = "disabled"
        /\ UNCHANGED <<inSync, first>>
        /\ tasks' = <<>>
        /\ timers' = CallLaterRepeatedly(cancelled, "timeout", Cardinality(failed))
        /\ lateReset' = ResetUnderWay
        /\ UNCHANGED <<memory, age, db, onuMds, changes>>

(* OnuDeviceEntry.stop().  on_enter_disabled first cancels the trigger in  *)
(* the slot and then stops the current task, whose failure callback        *)
(* schedules the trigger timeout again.  Then the runner stops: the tasks  *)
(* it was running fail likewise, the pending ones are dropped.             *)
DeviceStop ==
    LET cancelled == IF opening THEN timers ELSE CancelSlot(timers)
        failed == {i \in DOMAIN tasks : tasks[i].current \/ Running(tasks[i])}
    IN  /\ started
        /\ restarts < MaxRestarts
        /\ restarts' = restarts + 1
        /\ started' = FALSE
        /\ opening' = FALSE
        /\ state' = "disabled"
        /\ IF opening THEN UNCHANGED <<inSync, first>> ELSE SetInSync(FALSE)
        /\ tasks' = <<>>
        /\ timers' = CallLaterRepeatedly(cancelled, "timeout", Cardinality(failed))
        /\ lateReset' = ResetUnderWay
        /\ UNCHANGED <<memory, age, db, onuMds, changes>>

(* A new OnuDeviceEntry takes the place of the old one.                    *)
Renew ==
    /\ restarts < MaxRestarts
    /\ restarts' = restarts + 1
    /\ started' = FALSE /\ opening' = FALSE /\ first' = FALSE /\ inSync' = FALSE
    /\ state' = "disabled"
    /\ timers' = NoCalls(Timers)
    /\ tasks' = <<>>
    /\ mds' = 0 /\ synced' = FALSE /\ inDb' = FALSE
    /\ lateReset' = ResetUnderWay
    /\ UNCHANGED <<age, onuMds, changes>>

(* The process dies and comes back: only the database survives.            *)
Crash == Renew /\ UNCHANGED db

NoRecord == [known |-> FALSE, mds |-> 0, synced |-> FALSE, whole |-> FALSE]

(* OnuDeviceEntry.delete() and later add_device(): the database forgets    *)
(* the device; delayed triggers of the old machine find it disabled.       *)
DeviceDelete == Renew /\ db' = NoRecord

(* The device is new, or a former process has left a complete database.    *)
Init ==
    /\ started = FALSE /\ opening = FALSE /\ first = FALSE /\ inSync = FALSE
    /\ state = "disabled"
    /\ timers = NoCalls(Timers)
    /\ tasks = <<>>
    /\ mds = 0 /\ synced = FALSE /\ inDb = FALSE
    /\ age = 0
    /\ db \in {NoRecord} \cup
        [known : {TRUE}, mds : 0..MdsMax, synced : {TRUE}, whole : {TRUE}]
    /\ onuMds \in 0..MdsMax
    /\ lateReset = FALSE
    /\ restarts = 0 /\ changes = 0

TaskStep(i) ==
    \/ RunTask(i) \/ ResetAnswered(i) \/ UploadAnswered(i) \/ MdsAnswered(i)
    \/ TaskSucceeds(i) \/ ResyncSucceeds(i) \/ TaskFails(i)

Next ==
    \/ \E k \in Timers : Fire(k)
    \/ \E i \in DOMAIN tasks : TaskStep(i)
    \/ \E op \in {"create", "set"}, onu, olt \in BOOLEAN : Change(op, onu, olt)
    \/ LateReset \/ LateResetAnswered
    \/ DeviceStart \/ StartStateMachines \/ DeviceStop \/ Crash \/ DeviceDelete

Spec == Init /\ [][Next]_vars

(* The reactor fires every delayed trigger and makes every scheduled call; *)
(* the runner goes on and every request is answered or times out.          *)
FairSpec ==
    /\ Spec
    /\ \A k \in Timers : WF_vars(Fire(k))
    /\ WF_vars(StartStateMachines)
    /\ WF_vars(\E i \in DOMAIN tasks : TaskStep(i))

-----------------------------------------------------------------------------
(* The state is well typed; above all both MIB data sync counters stay in *)
(* the range of their attribute across wrap-around and MIB resets.         *)
TypeOK ==
    /\ {started, opening, first, inSync, synced, inDb, lateReset} \subseteq BOOLEAN
    /\ state \in States
    /\ timers \in DelayedCalls(Timers)
    /\ tasks \in Seq(Task)
    /\ {mds, onuMds} \subseteq 0..MdsMax
    /\ age \in 0..ResyncDelay
    /\ db \in [known : BOOLEAN, mds : 0..MdsMax, synced : BOOLEAN, whole : BOOLEAN]

(* What completion of a task may schedule.                                 *)
Outcomes(kind) ==
    CASE kind = "upload" -> {"success", "timeout"}
      [] kind = "resync" -> {"diffs_found", "timeout"}
      [] OTHER -> {"success", "mismatch", "timeout"}

Leads(s) ==
    \/ \E k \in Timers : Outstanding(timers, k) /\ Accepts(s, TriggerOf(k))
    \/ \E i \in DOMAIN tasks : \A o \in Outcomes(tasks[i].kind) : Accepts(s, o)

(* The machine is never stranded: while it runs, some delayed trigger or   *)
(* some task that it accepts in its present state is outstanding, although *)
(* stale ones from before a restart take it out of states early and the    *)
(* slot forgets the older ones.  The exception is the state                *)
(* resynchronizing (see ResyncEnds).                                       *)
NotStranded ==
    AuditDelay > 0 /\ state \notin {"disabled", "resynchronizing"} => Leads(state)

(* The counter of the machine and the persistent one agree whenever the    *)
(* machine runs, across crashes, MIB resets and wrap-around.               *)
CounterPersisted ==
    state # "disabled" => db.known /\ db.mds = mds

(* The first change of mib_db_in_sync after start(), which the setter      *)
(* takes for the first synchronization, really is one.                     *)
FirstChangeIsSync ==
    [][first /\ ~first' /\ started' => inSync']_vars

(* The purpose of the audit: when the counters of the ONU and of the       *)
(* database differ while the database counts as in sync, the difference is *)
(* noticed (the flag is cleared or a resynchronization begins) or goes     *)
(* away.                                                                   *)
MismatchNoticed ==
    (inSync /\ mds # onuMds) ~> (~inSync \/ mds = onuMds \/ state = "resynchronizing")

(* What the transitions out of resynchronizing say: a resynchronization    *)
(* ends.                                                                   *)
ResyncEnds ==
    state = "resynchronizing" ~> state # "resynchronizing"

(* What the comment on DEFAULT_RESYNC_DELAY says: a machine that keeps in  *)
(* sync is resynchronized from time to time.                               *)
PeriodicResync ==
    []<>(state = "in_sync") => []<>(state = "resynchronizing")

(* What the comment on _current_task says: one task at a time.             *)
SingleTask ==
    Len(tasks) <= 1

(* What the test of the channel says of the counter: a change never takes  *)
(* it to the reserved value zero.                                          *)
ZeroReserved ==
    [][changes' > changes /\ mds' # mds => mds' # 0]_vars

(* What mib_db_in_sync stands for: a database that is in sync was filled   *)
(* by a complete upload.                                                   *)
InSyncIsWhole ==
    inSync => db.whole
=============================================================================
