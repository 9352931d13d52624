--------------------------- MODULE MibSyncProofs ----------------------------
(***************************************************************************)
(* Proofs about the MIB synchronizer, for every range of the MIB data sync *)
(* counter, every delay and any number of restarts and changes.            *)
(***************************************************************************)
EXTENDS MibSync, SequenceTheorems, FiniteSetTheorems, TLAPS

(* The record in the database is the machine's as soon as it was read or   *)
(* made, also while the machine is stopped; a new machine has counted      *)
(* nothing.                                                                *)
RecordKept ==
    /\ inDb => db.known /\ db.mds = mds
    /\ ~inDb => mds = 0
    /\ state # "disabled" => inDb

(* A machine runs only in a started device, a disabled one is not in sync, *)
(* and until its first change the flag is down.                            *)
FlagFollows ==
    /\ opening => started /\ state = "disabled"
    /\ ~started => state = "disabled"
    /\ state = "disabled" => ~inSync
    /\ first => ~inSync

(* The inductive invariant.                                                *)
IInv == TypeOK /\ RecordKept /\ FlagFollows /\ NotStranded

-----------------------------------------------------------------------------
(* The delayed triggers.                                                   *)

Calls == DelayedCalls(Timers)

(* _deferred = reactor.callLater(...): no outstanding trigger is forgotten *)
(* by the reactor, whatever the slot refers to.                            *)
LEMMA CallLaterKeeps ==
    ASSUME NEW c \in Calls, NEW k \in Timers
    PROVE  /\ CallLater(c, k) \in Calls
           /\ Outstanding(CallLater(c, k), k)
           /\ \A j \in Timers : Outstanding(c, j) => Outstanding(CallLater(c, k), j)
<1>1. c.slot \in Timers \cup {"none"} /\ c.lost \in [Timers -> Nat] /\ "none" \notin Timers
  BY DEF Calls, DelayedCalls, Timers
<1> DEFINE lost == IF c.slot = "none" THEN c.lost ELSE [c.lost EXCEPT ![c.slot] = @ + 1]
<1>2. /\ lost \in [Timers -> Nat]
      /\ \A j \in Timers : lost[j] >= c.lost[j] /\ (c.slot = j => lost[j] > 0)
  BY <1>1
<1>3. CallLater(c, k) = [slot |-> k, lost |-> lost]
  BY DEF CallLater
<1> HIDE DEF lost
<1>4. CallLater(c, k) \in Calls
  BY <1>2, <1>3 DEF Calls, DelayedCalls
<1> QED
  BY <1>1, <1>2, <1>3, <1>4 DEF Outstanding

(* Cancelling the slot gives a well-formed set of calls.                   *)
LEMMA CancelTyped ==
    ASSUME NEW c \in Calls
    PROVE  CancelSlot(c) \in Calls
BY DEF Calls, DelayedCalls, CancelSlot

(* n calls in a row give a well-formed set of calls.                       *)
LEMMA RepeatedTyped ==
    ASSUME NEW c \in Calls, NEW k \in Timers, NEW n \in Nat
    PROVE  CallLaterRepeatedly(c, k, n) \in Calls
<1>1. CallLater(c, k) \in Calls
  BY CallLaterKeeps
<1> DEFINE d == CallLater(c, k)
<1>2. d.slot \in Timers \cup {"none"} /\ d.lost \in [Timers -> Nat]
  BY <1>1 DEF Calls, DelayedCalls
<1> HIDE DEF d
<1>3. n # 0 => [d EXCEPT !.lost[k] = @ + (n - 1)] \in Calls
  BY <1>1, <1>2 DEF Calls, DelayedCalls, d
<1> QED
  BY <1>3 DEF CallLaterRepeatedly, d

(* When the reactor makes a call, the calls of other kinds stay.           *)
LEMMA AfterCallKeeps ==
    ASSUME NEW c \in Calls, NEW k \in Timers, NEW rest \in AfterCall(c, k)
    PROVE  /\ rest \in Calls
           /\ \A j \in Timers \ {k} : Outstanding(c, j) => Outstanding(rest, j)
<1>1. c.slot \in Timers \cup {"none"} /\ c.lost \in [Timers -> Nat]
  BY DEF Calls, DelayedCalls
<1>2. CASE rest = CancelSlot(c) /\ c.slot = k
  <2>1. rest \in Calls /\ rest.lost = c.lost
    BY <1>2, CancelTyped DEF CancelSlot, Calls, DelayedCalls
  <2> QED
    BY <1>2, <2>1 DEF Outstanding
<1>3. CASE c.lost[k] > 0 /\ rest = [c EXCEPT !.lost[k] = IF @ = 0 THEN 0 ELSE @ - 1]
  <2>1. /\ rest \in Calls /\ rest.slot = c.slot
        /\ \A j \in Timers \ {k} : rest.lost[j] = c.lost[j]
    BY <1>1, <1>3 DEF Calls, DelayedCalls
  <2> QED
    BY <2>1 DEF Outstanding
<1> QED
  BY <1>2, <1>3 DEF AfterCall

-----------------------------------------------------------------------------
(* The tasks.                                                              *)

KindsOf(ts) == {ts[i].kind : i \in DOMAIN ts}

(* Clearing _current_task leaves the tasks and their kinds.                *)
LEMMA NoCurrentKeeps ==
    ASSUME NEW ts \in Seq(Task)
    PROVE  /\ NoCurrent(ts) \in Seq(Task) /\ Len(NoCurrent(ts)) = Len(ts)
           /\ KindsOf(NoCurrent(ts)) = KindsOf(ts)
<1>1. /\ Len(ts) \in Nat /\ DOMAIN ts = 1..Len(ts)
      /\ \A i \in 1..Len(ts) : ts[i] \in Task
  BY LenProperties
<1>2. \A i \in 1..Len(ts) : /\ [ts[i] EXCEPT !.current = FALSE] \in Task
                            /\ [ts[i] EXCEPT !.current = FALSE].kind = ts[i].kind
  BY <1>1 DEF Task
<1>3. NoCurrent(ts) = [i \in 1..Len(ts) |-> [ts[i] EXCEPT !.current = FALSE]]
  BY <1>1 DEF NoCurrent
<1>4. NoCurrent(ts) \in [1..Len(ts) -> Task]
  BY <1>2, <1>3
<1>5. NoCurrent(ts) \in Seq(Task) /\ Len(NoCurrent(ts)) = Len(ts)
  BY <1>1, <1>3, <1>4
<1>6. DOMAIN NoCurrent(ts) = DOMAIN ts /\ \A i \in DOMAIN ts : NoCurrent(ts)[i].kind = ts[i].kind
  BY <1>1, <1>2, <1>3
<1> QED
  BY <1>5, <1>6 DEF KindsOf

(* Queueing a task adds its kind.                                          *)
LEMMA QueueKeeps ==
    ASSUME NEW ts \in Seq(Task), NEW kind \in TaskKinds
    PROVE  Queue(ts, kind) \in Seq(Task) /\ KindsOf(ts) \cup {kind} \subseteq KindsOf(Queue(ts, kind))
<1> DEFINE new == [kind |-> kind, current |-> TRUE, phase |-> "pending", answer |-> 0]
           old == NoCurrent(ts)
<1>1. new \in Task /\ new.kind = kind
  BY MibSyncAssumption DEF Task
<1>2. old \in Seq(Task) /\ KindsOf(old) = KindsOf(ts)
  BY NoCurrentKeeps
<1> HIDE DEF new, old
<1>3. /\ Append(old, new) \in Seq(Task) /\ Len(Append(old, new)) = Len(old) + 1
      /\ \A i \in 1..Len(old) : Append(old, new)[i] = old[i]
      /\ Append(old, new)[Len(old) + 1] = new
  BY <1>1, <1>2, AppendProperties
<1>4. Len(old) \in Nat /\ DOMAIN old = 1..Len(old) /\ DOMAIN Append(old, new) = 1..(Len(old) + 1)
  BY <1>2, <1>3, LenProperties
<1>5. KindsOf(old) \cup {kind} \subseteq KindsOf(Append(old, new))
  BY <1>1, <1>3, <1>4 DEF KindsOf
<1> QED
  BY <1>2, <1>3, <1>5 DEF Queue, new, old

(* A task that is done is the only one that goes.                          *)
LEMMA RemoveKeeps ==
    ASSUME NEW ts \in Seq(Task), NEW i \in DOMAIN ts
    PROVE  /\ NoCurrent(RemoveAt(ts, i)) \in Seq(Task)
           /\ KindsOf(ts) \subseteq KindsOf(NoCurrent(RemoveAt(ts, i))) \cup {ts[i].kind}
<1> DEFINE a == SubSeq(ts, 1, i - 1)
           b == SubSeq(ts, i + 1, Len(ts))
<1>1. Len(ts) \in Nat /\ DOMAIN ts = 1..Len(ts) /\ i \in 1..Len(ts) /\ \A j \in 1..Len(ts) : ts[j] \in Task
  BY LenProperties
<1>2. /\ a \in Seq(Task) /\ Len(a) = i - 1
      /\ \A j \in 1..(i - 1) : a[j] = ts[j]
  BY <1>1, SubSeqProperties
<1>3. /\ b \in Seq(Task) /\ Len(b) = Len(ts) - i
      /\ \A j \in 1..(Len(ts) - i) : b[j] = ts[i + j]
  BY <1>1, SubSeqProperties
<1> HIDE DEF a, b
<1>4. /\ a \o b \in Seq(Task) /\ Len(a \o b) = Len(ts) - 1
      /\ \A j \in 1..(Len(ts) - 1) : (a \o b)[j] = IF j <= i - 1 THEN a[j] ELSE b[j - (i - 1)]
  <2>1. /\ a \o b \in Seq(Task) /\ Len(a \o b) = Len(a) + Len(b)
        /\ \A j \in 1..(Len(a) + Len(b)) : (a \o b)[j] = IF j <= Len(a) THEN a[j] ELSE b[j - Len(a)]
    BY <1>2, <1>3, ConcatProperties
  <2>2. Len(a) + Len(b) = Len(ts) - 1
    BY <1>1, <1>2, <1>3
  <2> QED
    BY <1>2, <2>1, <2>2
<1>5. DOMAIN (a \o b) = 1..(Len(ts) - 1)
  BY <1>4, LenProperties
<1>6. ASSUME NEW j \in 1..Len(ts), j # i
      PROVE  \E l \in 1..(Len(ts) - 1) : (a \o b)[l] = ts[j]
  <2>1. CASE j < i
    <3>1. j \in 1..(Len(ts) - 1) /\ j <= i - 1 /\ (a \o b)[j] = a[j]
      BY <1>1, <1>4, <2>1
    <3> QED
      BY <1>1, <1>2, <3>1
  <2>2. CASE j > i
    <3>1. /\ j - 1 \in 1..(Len(ts) - 1) /\ ~(j - 1 <= i - 1) /\ (j - 1) - (i - 1) = j - i
          /\ j - i \in 1..(Len(ts) - i)
      BY <1>1, <2>2
    <3>2. (a \o b)[j - 1] = b[j - i]
      BY <1>4, <3>1
    <3>3. b[j - i] = ts[j]
      <4>1. b[j - i] = ts[i + (j - i)] /\ i + (j - i) = j
        BY <1>1, <1>3, <3>1
      <4> QED
        BY <4>1
    <3> QED
      BY <3>1, <3>2, <3>3
  <2>3. j < i \/ j > i
    BY <1>1, <1>6
  <2> QED
    BY <2>1, <2>2, <2>3
<1>7. KindsOf(ts) \subseteq KindsOf(a \o b) \cup {ts[i].kind}
  BY <1>1, <1>5, <1>6 DEF KindsOf
<1>8. RemoveAt(ts, i) = a \o b
  BY DEF RemoveAt, a, b
<1> QED
  BY <1>4, <1>7, <1>8, NoCurrentKeeps

(* A task that moves on keeps its kind.                                    *)
LEMMA MoveKeeps ==
    ASSUME NEW ts \in Seq(Task), NEW i \in DOMAIN ts, NEW t \in Task, t.kind = ts[i].kind
    PROVE  [ts EXCEPT ![i] = t] \in Seq(Task) /\ KindsOf([ts EXCEPT ![i] = t]) = KindsOf(ts)
<1>1. Len(ts) \in Nat /\ DOMAIN ts = 1..Len(ts) /\ i \in 1..Len(ts)
  BY LenProperties
<1>2. [ts EXCEPT ![i] = t] \in Seq(Task)
  BY <1>1, ExceptSeq
<1>3. \A j \in DOMAIN ts : [ts EXCEPT ![i] = t][j].kind = ts[j].kind
  BY <1>1
<1> QED
  BY <1>2, <1>3 DEF KindsOf

-----------------------------------------------------------------------------
(* The table of transitions.                                               *)

(* What the table accepts, as far as the proofs need it.                   *)
LEMMA Table ==
    /\ \A k \in Timers : ~Accepts("disabled", TriggerOf(k))
    /\ Accepts("starting", "upload_mib") /\ Accepts("starting", "examine_mds")
    /\ Accepts("uploading", "success") /\ Accepts("uploading", "timeout")
    /\ Accepts("examining_mds", "success") /\ Accepts("examining_mds", "mismatch")
    /\ Accepts("examining_mds", "timeout")
    /\ Accepts("in_sync", "audit_mib") /\ Accepts("out_of_sync", "audit_mib")
    /\ Accepts("auditing", "success") /\ Accepts("auditing", "mismatch")
    /\ Accepts("auditing", "timeout") /\ Accepts("auditing", "force_resync")
    /\ \A s : Accepts(s, "diffs_found") => s = "resynchronizing"
<1>1. \A k \in Timers : ~Accepts("disabled", TriggerOf(k))
  <2>1. \A k \in Timers : TriggerOf(k) # "start"
    BY DEF Timers, TriggerOf
  <2>2. \A row \in Transitions : row[2] = "disabled" => row[1] = "start"
    BY DEF Transitions
  <2> QED
    BY <2>1, <2>2 DEF Accepts
<1>2. ASSUME NEW row \in Transitions PROVE Accepts(row[2], row[1])
  BY DEF Accepts
<1>3. \A t, s, d : <<t, s, d>> \in Transitions => Accepts(s, t)
  BY <1>2
<1>4. Accepts("starting", "upload_mib") /\ Accepts("starting", "examine_mds")
  BY <1>3 DEF Transitions
<1>5. Accepts("uploading", "success") /\ Accepts("uploading", "timeout")
  BY <1>3 DEF Transitions
<1>6. /\ Accepts("examining_mds", "success") /\ Accepts("examining_mds", "mismatch")
      /\ Accepts("examining_mds", "timeout")
  BY <1>3 DEF Transitions
<1>7. Accepts("in_sync", "audit_mib") /\ Accepts("out_of_sync", "audit_mib")
  BY <1>3 DEF Transitions
<1>8. /\ Accepts("auditing", "success") /\ Accepts("auditing", "mismatch")
      /\ Accepts("auditing", "timeout") /\ Accepts("auditing", "force_resync")
  BY <1>3 DEF Transitions
<1>9. \A s : Accepts(s, "diffs_found") => s = "resynchronizing"
  BY DEF Accepts, Transitions
<1> QED
  BY <1>1, <1>4, <1>5, <1>6, <1>7, <1>8, <1>9

(* The machine goes on as long as the triggers and tasks it waits for stay.*)
LEMMA LeadKept ==
    ASSUME NotStranded, UNCHANGED state,
           \A k \in Timers : Outstanding(timers, k) /\ Accepts(state, TriggerOf(k)) => Outstanding(timers', k),
           KindsOf(tasks) \subseteq KindsOf(tasks')
    PROVE  NotStranded'
<1> SUFFICES ASSUME Leads(state) PROVE Leads(state)'
  BY DEF NotStranded
<1>1. CASE \E k \in Timers : Outstanding(timers, k) /\ Accepts(state, TriggerOf(k))
  BY <1>1 DEF Leads
<1>2. CASE \E i \in DOMAIN tasks : \A o \in Outcomes(tasks[i].kind) : Accepts(state, o)
  BY <1>2 DEF Leads, KindsOf
<1> QED
  BY <1>1, <1>2 DEF Leads

(* A task that is done hands over to the trigger it schedules.             *)
LEMMA LeadPassed ==
    ASSUME NotStranded, UNCHANGED state,
           NEW kind \in TaskKinds, NEW o \in Timers, TriggerOf(o) = o,
           o \in Outcomes(kind) \/ kind = "resync",
           \A k \in Timers : Outstanding(timers, k) => Outstanding(timers', k),
           Outstanding(timers', o),
           KindsOf(tasks) \subseteq KindsOf(tasks') \cup {kind}
    PROVE  NotStranded'
<1> SUFFICES ASSUME state # "resynchronizing", Leads(state) PROVE Leads(state)'
  BY DEF NotStranded
<1>1. CASE \E k \in Timers : Outstanding(timers, k) /\ Accepts(state, TriggerOf(k))
  BY <1>1 DEF Leads
<1>2. CASE \E i \in DOMAIN tasks : \A p \in Outcomes(tasks[i].kind) : Accepts(state, p)
  <2>1. PICK i \in DOMAIN tasks : \A p \in Outcomes(tasks[i].kind) : Accepts(state, p)
    BY <1>2
  <2>2. tasks[i].kind \in KindsOf(tasks)
    BY DEF KindsOf
  <2>3. tasks[i].kind # "resync"
    <3>1. "diffs_found" \in Outcomes("resync")
      BY DEF Outcomes
    <3> QED
      BY <2>1, <3>1, Table
  <2>4. CASE tasks[i].kind = kind
    BY <2>1, <2>3, <2>4 DEF Leads
  <2>5. CASE tasks[i].kind \in KindsOf(tasks')
    BY <2>1, <2>5 DEF Leads, KindsOf
  <2> QED
    BY <2>2, <2>4, <2>5
<1> QED
  BY <1>1, <1>2 DEF Leads

(* The machine goes on from a state for which it has scheduled a trigger.  *)
LEMMA LeadByTrigger ==
    ASSUME NEW k \in Timers, Outstanding(timers', k), Accepts(state', TriggerOf(k))
    PROVE  NotStranded'
BY DEF NotStranded, Leads

(* The machine goes on from a state for which it has queued a task.        *)
LEMMA LeadByTask ==
    ASSUME NEW kind \in KindsOf(tasks'), \A o \in Outcomes(kind) : Accepts(state', o)
    PROVE  NotStranded'
BY DEF NotStranded, Leads, KindsOf

-----------------------------------------------------------------------------
(* The handlers on_enter_<state>.                                          *)

(* What every trigger leaves alone, in a started device.                   *)
Outside == started /\ UNCHANGED <<started, onuMds, lateReset>> /\ opening' = FALSE

(* on_enter_starting reads the record, or makes one.                       *)
LEMMA StartingKeeps ==
    ASSUME IInv, NEW ts \in Calls, Outside, state' = "starting", EnterStarting(ts)
    PROVE  IInv'
<1> USE DEF IInv, Outside
<1>1. /\ inDb' = TRUE /\ db'.known /\ db'.mds = mds'
      /\ mds' \in 0..MdsMax /\ synced' \in BOOLEAN
      /\ db' \in [known : BOOLEAN, mds : 0..MdsMax, synced : BOOLEAN, whole : BOOLEAN]
  <2>1. CASE inDb
    BY <2>1 DEF EnterStarting, RecordKept, TypeOK
  <2>2. CASE ~inDb /\ db.known
    BY <2>2 DEF EnterStarting, RecordKept, TypeOK
  <2>3. CASE ~inDb /\ ~db.known
    <3>1. 0 \in 0..MdsMax /\ mds = 0
      BY <2>3, MibSyncAssumption DEF RecordKept
    <3>2. /\ db' = [known |-> TRUE, mds |-> 0, synced |-> FALSE, whole |-> FALSE]
          /\ inDb' = TRUE /\ mds' = mds /\ synced' = synced
      BY <2>3 DEF EnterStarting
    <3>3. synced \in BOOLEAN
      BY DEF TypeOK
    <3> QED
      BY <3>1, <3>2, <3>3
  <2> QED
    BY <2>1, <2>2, <2>3
<1>2. UNCHANGED <<inSync, first, tasks, age>>
  BY DEF EnterStarting
<1>3. PICK k \in {"examine_mds", "upload_mib"} : timers' = CallLater(ts, k)
  BY DEF EnterStarting, Schedule
<1>4. k \in Timers /\ TriggerOf(k) = k
  BY DEF Timers, TriggerOf
<1>5. timers' \in Calls /\ Outstanding(timers', k)
  BY <1>3, <1>4, CallLaterKeeps
<1>6. TypeOK'
  BY <1>1, <1>2, <1>5 DEF TypeOK, States, Calls
<1>7. RecordKept' /\ FlagFollows'
  BY <1>1, <1>2 DEF RecordKept, FlagFollows
<1>8. NotStranded'
  BY <1>4, <1>5, Table, LeadByTrigger
<1> QED
  BY <1>6, <1>7, <1>8

(* The setter of mib_db_in_sync.                                           *)
LEMMA SetInSyncKeeps ==
    ASSUME TypeOK, NEW value \in BOOLEAN, SetInSync(value)
    PROVE  inSync' = value /\ first' \in BOOLEAN /\ (first' => first /\ inSync' = inSync)
BY DEF SetInSync

(* on_enter_uploading queues a task and waits for any outcome of it.       *)
LEMMA UploadingKeeps ==
    ASSUME IInv, NEW ts \in Calls, Outside, state # "disabled", state' = "uploading", EnterUploading(ts)
    PROVE  IInv'
<1> USE DEF IInv, Outside
<1>1. /\ inSync' = FALSE /\ first' \in BOOLEAN
      /\ tasks' = Queue(tasks, "upload") /\ timers' = ts /\ UNCHANGED <<mds, synced, inDb, db, age>>
  BY SetInSyncKeeps DEF EnterUploading, memory
<1>2. tasks' \in Seq(Task) /\ "upload" \in KindsOf(tasks')
  BY <1>1, QueueKeeps DEF TypeOK, TaskKinds
<1>3. TypeOK'
  BY <1>1, <1>2 DEF TypeOK, States, Calls
<1>4. RecordKept' /\ FlagFollows'
  BY <1>1 DEF RecordKept, FlagFollows
<1>5. \A o \in Outcomes("upload") : Accepts("uploading", o)
  BY Table DEF Outcomes
<1>6. NotStranded'
  BY <1>2, <1>5, LeadByTask
<1> QED
  BY <1>3, <1>4, <1>6

(* on_enter_examining_mds reads the counter back and queues a get of the   *)
(* MDS.                                                                    *)
LEMMA ExaminingKeeps ==
    ASSUME IInv, NEW ts \in Calls, Outside, state # "disabled", state' = "examining_mds",
           EnterExaminingMds(ts)
    PROVE  IInv'
<1> USE DEF IInv, Outside
<1>1. /\ inSync' = FALSE /\ first' \in BOOLEAN /\ mds' = db.mds
      /\ tasks' = Queue(tasks, "examine") /\ timers' = ts /\ UNCHANGED <<synced, inDb, db, age>>
  BY SetInSyncKeeps DEF EnterExaminingMds
<1>2. tasks' \in Seq(Task) /\ "examine" \in KindsOf(tasks')
  BY <1>1, QueueKeeps DEF TypeOK, TaskKinds
<1>3. TypeOK'
  BY <1>1, <1>2 DEF TypeOK, States, Calls
<1>4. RecordKept' /\ FlagFollows'
  BY <1>1 DEF RecordKept, FlagFollows
<1>5. \A o \in Outcomes("examine") : Accepts("examining_mds", o)
  BY Table DEF Outcomes
<1>6. NotStranded'
  BY <1>2, <1>5, LeadByTask
<1> QED
  BY <1>3, <1>4, <1>6

(* on_enter_in_sync schedules the audit unless audits are off.             *)
LEMMA InSyncKeeps ==
    ASSUME IInv, NEW ts \in Calls, Outside, state # "disabled", state' = "in_sync", EnterInSync(ts)
    PROVE  IInv'
<1> USE DEF IInv, Outside
<1>1. /\ inSync' = TRUE /\ first' \in BOOLEAN /\ (first' => first /\ inSync' = inSync)
      /\ synced' = TRUE /\ age' = 0 /\ db' = [db EXCEPT !.synced = TRUE]
      /\ UNCHANGED <<tasks, mds, inDb>>
  BY SetInSyncKeeps DEF EnterInSync
<1>2. "audit" \in Timers /\ TriggerOf("audit") = "audit_mib"
  BY DEF Timers, TriggerOf
<1>3. timers' \in Calls /\ (AuditDelay > 0 => Outstanding(timers', "audit"))
  BY <1>2, CallLaterKeeps DEF EnterInSync, Schedule
<1>4. TypeOK'
  <2>1. 0 \in 0..ResyncDelay
    BY MibSyncAssumption
  <2>2. db' \in [known : BOOLEAN, mds : 0..MdsMax, synced : BOOLEAN, whole : BOOLEAN]
    BY <1>1 DEF TypeOK
  <2> QED
    BY <1>1, <1>3, <2>1, <2>2 DEF TypeOK, States, Calls
<1>5. RecordKept' /\ FlagFollows'
  BY <1>1 DEF RecordKept, FlagFollows, TypeOK
<1>6. CASE AuditDelay > 0
  <2>1. NotStranded'
    BY <1>2, <1>3, <1>6, Table, LeadByTrigger
  <2> QED
    BY <1>4, <1>5, <2>1
<1>7. CASE ~(AuditDelay > 0)
  BY <1>4, <1>5, <1>7 DEF NotStranded
<1> QED
  BY <1>6, <1>7

(* on_enter_out_of_sync schedules another audit.                           *)
LEMMA OutOfSyncKeeps ==
    ASSUME IInv, NEW ts \in Calls, Outside, state # "disabled", state' = "out_of_sync",
           EnterOutOfSync(ts)
    PROVE  IInv'
<1> USE DEF IInv, Outside
<1>1. /\ inSync' = FALSE /\ first' \in BOOLEAN /\ timers' = CallLater(ts, "reaudit")
      /\ UNCHANGED <<tasks, mds, synced, inDb, db, age>>
  BY SetInSyncKeeps DEF EnterOutOfSync, Schedule, memory
<1>2. "reaudit" \in Timers /\ TriggerOf("reaudit") = "audit_mib"
  BY DEF Timers, TriggerOf
<1>3. timers' \in Calls /\ Outstanding(timers', "reaudit")
  BY <1>1, <1>2, CallLaterKeeps
<1>4. TypeOK'
  BY <1>1, <1>3 DEF TypeOK, States, Calls
<1>5. RecordKept' /\ FlagFollows'
  BY <1>1 DEF RecordKept, FlagFollows
<1>6. NotStranded'
  BY <1>2, <1>3, Table, LeadByTrigger
<1> QED
  BY <1>4, <1>5, <1>6

(* on_enter_auditing forces a resynchronization or queues the audit.       *)
LEMMA AuditingKeeps ==
    ASSUME IInv, NEW ts \in Calls, Outside, state # "disabled", state' = "auditing",
           EnterAuditing(ts)
    PROVE  IInv'
<1> USE DEF IInv, Outside
<1>1. UNCHANGED <<inSync, first, mds, synced, inDb, db>>
  BY DEF EnterAuditing, memory
<1>2. age' \in 0..ResyncDelay
  BY MibSyncAssumption DEF EnterAuditing, Aged, TypeOK
<1>3. RecordKept' /\ FlagFollows'
  BY <1>1 DEF RecordKept, FlagFollows
<1>4. CASE timers' = CallLater(ts, "force_resync") /\ UNCHANGED tasks
  <2>1. "force_resync" \in Timers /\ TriggerOf("force_resync") = "force_resync"
    BY DEF Timers, TriggerOf
  <2>2. timers' \in Calls /\ Outstanding(timers', "force_resync")
    BY <1>4, <2>1, CallLaterKeeps
  <2>3. TypeOK'
    BY <1>1, <1>2, <1>4, <2>2 DEF TypeOK, States, Calls
  <2>4. NotStranded'
    BY <2>1, <2>2, Table, LeadByTrigger
  <2> QED
    BY <1>3, <2>3, <2>4
<1>5. CASE timers' = ts /\ tasks' = Queue(tasks, "audit")
  <2>1. tasks' \in Seq(Task) /\ "audit" \in KindsOf(tasks')
    BY <1>5, QueueKeeps DEF TypeOK, TaskKinds
  <2>2. TypeOK'
    BY <1>1, <1>2, <1>5, <2>1 DEF TypeOK, States, Calls
  <2>3. \A o \in Outcomes("audit") : Accepts("auditing", o)
    BY Table DEF Outcomes
  <2>4. NotStranded'
    BY <2>1, <2>3, LeadByTask
  <2> QED
    BY <1>3, <2>2, <2>4
<1> QED
  BY <1>4, <1>5 DEF EnterAuditing, Schedule

(* on_enter_resynchronizing queues the resynchronization.                  *)
LEMMA ResynchronizingKeeps ==
    ASSUME IInv, NEW ts \in Calls, Outside, state # "disabled", state' = "resynchronizing",
           EnterResynchronizing(ts)
    PROVE  IInv'
<1> USE DEF IInv, Outside
<1>1. /\ tasks' = Queue(tasks, "resync") /\ timers' = ts
      /\ UNCHANGED <<inSync, first, mds, synced, inDb, db, age>>
  BY DEF EnterResynchronizing, memory
<1>2. tasks' \in Seq(Task)
  BY <1>1, QueueKeeps DEF TypeOK, TaskKinds
<1>3. TypeOK'
  BY <1>1, <1>2 DEF TypeOK, States, Calls
<1>4. RecordKept' /\ FlagFollows' /\ NotStranded'
  BY <1>1 DEF RecordKept, FlagFollows, NotStranded
<1> QED
  BY <1>3, <1>4

(* A delayed trigger, accepted or refused.                                 *)
LEMMA FireKeeps ==
    ASSUME IInv, NEW k \in Timers, Fire(k)
    PROVE  IInv'
<1> USE DEF IInv
<1>1. PICK ts \in AfterCall(timers, k) :
        /\ IF Accepts(state, TriggerOf(k))
           THEN /\ state' = Destination(state, TriggerOf(k))
                /\ \/ state' = "starting" /\ EnterStarting(ts)
                   \/ state' = "uploading" /\ EnterUploading(ts)
                   \/ state' = "examining_mds" /\ EnterExaminingMds(ts)
                   \/ state' = "in_sync" /\ EnterInSync(ts)
                   \/ state' = "out_of_sync" /\ EnterOutOfSync(ts)
                   \/ state' = "auditing" /\ EnterAuditing(ts)
                   \/ state' = "resynchronizing" /\ EnterResynchronizing(ts)
           ELSE timers' = ts /\ UNCHANGED <<state, inSync, first, tasks, memory, db, age>>
        /\ UNCHANGED <<started, opening, onuMds, lateReset, bounds>>
  BY DEF Fire
<1>2. ts \in Calls /\ \A j \in Timers \ {k} : Outstanding(timers, j) => Outstanding(ts, j)
  BY AfterCallKeeps DEF TypeOK, Calls
<1>3. CASE Accepts(state, TriggerOf(k))
  <2>1. state # "disabled"
    BY <1>3, Table
  <2>2. Outside
    BY <1>1, <2>1 DEF Outside, FlagFollows, TypeOK
  <2> QED
    BY <1>1, <1>2, <1>3, <2>1, <2>2, StartingKeeps, UploadingKeeps, ExaminingKeeps, InSyncKeeps,
       OutOfSyncKeeps, AuditingKeeps, ResynchronizingKeeps
<1>4. CASE ~Accepts(state, TriggerOf(k))
  <2>1. timers' = ts /\ UNCHANGED <<state, inSync, first, tasks, mds, synced, inDb, db, age, started,
                                    opening, onuMds, lateReset>>
    BY <1>1, <1>4 DEF memory
  <2>2. TypeOK'
    BY <1>2, <2>1 DEF TypeOK, Calls
  <2>3. RecordKept' /\ FlagFollows'
    BY <2>1 DEF RecordKept, FlagFollows
  <2>4. NotStranded'
    BY <1>2, <1>4, <2>1, LeadKept
  <2> QED
    BY <2>2, <2>3, <2>4
<1> QED
  BY <1>3, <1>4

-----------------------------------------------------------------------------
(* The tasks, the changes and the device.                                  *)

(* A task goes on to another phase.                                        *)
LEMMA PhaseKeeps ==
    ASSUME IInv, NEW i \in DOMAIN tasks, NEW t \in Task, t.kind = tasks[i].kind,
           tasks' = [tasks EXCEPT ![i] = t], UNCHANGED <<state, timers>>
    PROVE  tasks' \in Seq(Task) /\ NotStranded'
<1>1. tasks' \in Seq(Task) /\ KindsOf(tasks') = KindsOf(tasks)
  BY MoveKeeps DEF IInv, TypeOK
<1> QED
  BY <1>1, LeadKept DEF IInv

(* A task ends and schedules a trigger.                                    *)
LEMMA EndKeeps ==
    ASSUME IInv, NEW i \in DOMAIN tasks, tasks' = NoCurrent(RemoveAt(tasks, i)), UNCHANGED state,
           NEW o \in Timers \ {"audit", "reaudit"}, timers' = CallLater(timers, o),
           o \in Outcomes(tasks[i].kind) \/ tasks[i].kind = "resync"
    PROVE  tasks' \in Seq(Task) /\ timers' \in Calls /\ NotStranded'
<1>1. /\ tasks' \in Seq(Task) /\ KindsOf(tasks) \subseteq KindsOf(tasks') \cup {tasks[i].kind}
  BY RemoveKeeps DEF IInv, TypeOK
<1>2. /\ timers' \in Calls /\ Outstanding(timers', o)
      /\ \A k \in Timers : Outstanding(timers, k) => Outstanding(timers', k)
  BY CallLaterKeeps DEF IInv, TypeOK, Calls
<1>3. TriggerOf(o) = o
  BY DEF TriggerOf
<1>4. tasks[i].kind \in TaskKinds
  <2>1. tasks[i] \in Task
    BY LenProperties DEF IInv, TypeOK
  <2> QED
    BY <2>1 DEF Task
<1> QED
  BY <1>1, <1>2, <1>3, <1>4, LeadPassed DEF IInv

(* on_mib_reset_response keeps the invariant, whichever reset it answers:  *)
(* the counter, the record and the flag change together or not at all.     *)
LEMMA ResetResponseKeeps ==
    ASSUME IInv, OnMibResetResponse, tasks' \in Seq(Task), NotStranded',
           onuMds' \in 0..MdsMax, lateReset' \in BOOLEAN,
           UNCHANGED <<started, opening, state, timers, synced, inDb, age>>
    PROVE  IInv'
<1> USE DEF IInv
<1>1. 0 \in 0..MdsMax
  BY MibSyncAssumption
<1>2. CASE state = "uploading"
  <2>1. /\ inSync' = FALSE /\ first' \in BOOLEAN /\ mds' = 0
        /\ db' = [db EXCEPT !.mds = 0, !.whole = FALSE]
    BY <1>2, SetInSyncKeeps DEF OnMibResetResponse
  <2>2. /\ db' \in [known : BOOLEAN, mds : 0..MdsMax, synced : BOOLEAN, whole : BOOLEAN]
        /\ db'.known = db.known /\ db'.mds = 0
    BY <1>1, <2>1 DEF TypeOK
  <2>3. TypeOK'
    BY <1>1, <2>1, <2>2 DEF TypeOK
  <2>4. RecordKept' /\ FlagFollows'
    BY <2>1, <2>2 DEF RecordKept, FlagFollows
  <2> QED
    BY <2>3, <2>4
<1>3. CASE state # "uploading"
  <2>1. UNCHANGED <<inSync, first, mds, db>>
    BY <1>3 DEF OnMibResetResponse
  <2> QED
    BY <2>1 DEF TypeOK, RecordKept, FlagFollows
<1> QED
  BY <1>2, <1>3

(* Every step of a task preserves the invariant.                           *)
LEMMA TaskKeeps ==
    ASSUME IInv, NEW i \in DOMAIN tasks, TaskStep(i)
    PROVE  IInv'
<1> USE DEF IInv, device, memory
<1>1. tasks \in Seq(Task) /\ tasks[i] \in Task
  BY LenProperties DEF TypeOK
<1>2. CASE RunTask(i)
  <2> DEFINE t == [tasks[i] EXCEPT !.phase = "running"]
  <2>1. /\ tasks' = [tasks EXCEPT ![i] = t]
        /\ UNCHANGED <<started, opening, first, inSync, state, timers, mds, synced, inDb, age, db,
                       onuMds, lateReset>>
    BY <1>2 DEF RunTask
  <2>2. t \in Task /\ t.kind = tasks[i].kind
    BY <1>1 DEF Task
  <2>3. tasks' \in Seq(Task) /\ NotStranded'
    BY <2>1, <2>2, PhaseKeeps
  <2> QED
    BY <2>1, <2>3 DEF TypeOK, RecordKept, FlagFollows
<1>3. CASE ResetAnswered(i)
  <2> DEFINE t == [tasks[i] EXCEPT !.phase = "reset"]
  <2>1. /\ tasks' = [tasks EXCEPT ![i] = t]
        /\ UNCHANGED <<started, opening, state, timers, synced, inDb, age, lateReset>>
        /\ onuMds' = 0
    BY <1>3 DEF ResetAnswered
  <2>2. t \in Task /\ t.kind = tasks[i].kind
    BY <1>1 DEF Task
  <2>3. tasks' \in Seq(Task) /\ NotStranded'
    BY <2>1, <2>2, PhaseKeeps
  <2>4. onuMds' \in 0..MdsMax /\ OnMibResetResponse
    BY <1>3, MibSyncAssumption DEF ResetAnswered
  <2> QED
    BY <2>1, <2>3, <2>4, ResetResponseKeeps DEF TypeOK
<1>4. CASE UploadAnswered(i)
  <2> DEFINE t == [tasks[i] EXCEPT !.phase = "loaded"]
  <2>1. /\ tasks' = [tasks EXCEPT ![i] = t]
        /\ UNCHANGED <<started, opening, first, inSync, state, timers, mds, synced, inDb, age, onuMds,
                       lateReset>>
        /\ db' = [db EXCEPT !.whole = @ \/ state = "uploading"]
    BY <1>4 DEF UploadAnswered
  <2>2. t \in Task /\ t.kind = tasks[i].kind
    BY <1>1 DEF Task
  <2>3. tasks' \in Seq(Task) /\ NotStranded'
    BY <2>1, <2>2, PhaseKeeps
  <2>4. /\ db' \in [known : BOOLEAN, mds : 0..MdsMax, synced : BOOLEAN, whole : BOOLEAN]
        /\ db'.known = db.known /\ db'.mds = db.mds
    BY <2>1 DEF TypeOK
  <2> QED
    BY <2>1, <2>3, <2>4 DEF TypeOK, RecordKept, FlagFollows
<1>5. CASE MdsAnswered(i)
  <2> DEFINE t == [tasks[i] EXCEPT !.phase = "answered", !.answer = onuMds]
  <2>1. /\ tasks' = [tasks EXCEPT ![i] = t]
        /\ UNCHANGED <<started, opening, first, inSync, state, timers, mds, synced, inDb, age, db,
                       onuMds, lateReset>>
    BY <1>1, <1>5 DEF MdsAnswered
  <2>2. t \in Task /\ t.kind = tasks[i].kind
    BY <1>1 DEF Task, TypeOK
  <2>3. tasks' \in Seq(Task) /\ NotStranded'
    BY <2>1, <2>2, PhaseKeeps
  <2> QED
    BY <2>1, <2>3 DEF TypeOK, RecordKept, FlagFollows
<1>6. CASE TaskSucceeds(i)
  <2> DEFINE match == tasks[i].kind = "upload" \/ tasks[i].answer = mds
             o == IF match THEN "success" ELSE "mismatch"
  <2>1. /\ tasks' = NoCurrent(RemoveAt(tasks, i)) /\ timers' = CallLater(timers, o)
        /\ UNCHANGED <<started, opening, state, mds, synced, inDb, age, db, onuMds, lateReset>>
        /\ SetInSync(FALSE) \/ UNCHANGED <<inSync, first>>
    BY <1>6 DEF TaskSucceeds, Schedule
  <2>2. o \in Timers \ {"audit", "reaudit"} /\ (o \in Outcomes(tasks[i].kind) \/ tasks[i].kind = "resync")
    BY <1>1 DEF Timers, Outcomes, Task, TaskKinds
  <2>3. tasks' \in Seq(Task) /\ timers' \in Calls /\ NotStranded'
    BY <2>1, <2>2, EndKeeps
  <2>4. inSync' \in BOOLEAN /\ (inSync' => inSync) /\ first' \in BOOLEAN /\ (first' => first)
    <3>1. CASE SetInSync(FALSE)
      BY <3>1, SetInSyncKeeps
    <3>2. CASE UNCHANGED <<inSync, first>>
      BY <3>2 DEF TypeOK
    <3> QED
      BY <2>1, <3>1, <3>2
  <2>5. TypeOK'
    BY <2>1, <2>3, <2>4 DEF TypeOK, Calls
  <2>6. RecordKept' /\ FlagFollows'
    BY <2>1, <2>4 DEF RecordKept, FlagFollows
  <2> QED
    BY <2>3, <2>5, <2>6
<1>7. CASE ResyncSucceeds(i)
  <2>1. /\ tasks' = NoCurrent(RemoveAt(tasks, i)) /\ tasks[i].kind = "resync"
        /\ timers' = CallLater(timers, "diffs_found") \/ UNCHANGED timers
        /\ UNCHANGED <<started, opening, first, inSync, state, mds, synced, inDb, age, db, onuMds,
                       lateReset>>
    BY <1>7 DEF ResyncSucceeds, Schedule
  <2>2. "diffs_found" \in Timers \ {"audit", "reaudit"}
    BY DEF Timers
  <2>3. tasks' \in Seq(Task) /\ timers' \in Calls /\ NotStranded'
    <3>1. CASE timers' = CallLater(timers, "diffs_found")
      BY <2>1, <2>2, <3>1, EndKeeps
    <3>2. CASE UNCHANGED timers
      <4>1. /\ tasks' \in Seq(Task) /\ KindsOf(tasks) \subseteq KindsOf(tasks') \cup {"resync"}
        BY <1>1, <2>1, RemoveKeeps
      <4>2. "diffs_found" \in Outcomes("resync")
        BY DEF Outcomes
      <4>3. NotStranded'
        <5> SUFFICES ASSUME state # "resynchronizing", Leads(state) PROVE Leads(state)'
          BY <2>1 DEF NotStranded
        <5>1. CASE \E k \in Timers : Outstanding(timers, k) /\ Accepts(state, TriggerOf(k))
          BY <2>1, <3>2, <5>1 DEF Leads
        <5>2. CASE \E j \in DOMAIN tasks : \A p \in Outcomes(tasks[j].kind) : Accepts(state, p)
          BY <2>1, <4>1, <4>2, <5>2, Table DEF Leads, KindsOf
        <5> QED
          BY <5>1, <5>2 DEF Leads
      <4> QED
        BY <3>2, <4>1, <4>3 DEF TypeOK, Calls
    <3> QED
      BY <2>1, <3>1, <3>2
  <2> QED
    BY <2>1, <2>3 DEF TypeOK, RecordKept, FlagFollows, Calls
<1>8. CASE TaskFails(i)
  <2>1. /\ tasks' = NoCurrent(RemoveAt(tasks, i)) /\ timers' = CallLater(timers, "timeout")
        /\ UNCHANGED <<started, opening, first, inSync, state, mds, synced, inDb, age, db, lateReset>>
    BY <1>8 DEF TaskFails, Schedule
  <2>2. "timeout" \in Timers \ {"audit", "reaudit"} /\ "timeout" \in Outcomes(tasks[i].kind)
    BY <1>1 DEF Timers, Outcomes, Task, TaskKinds
  <2>3. tasks' \in Seq(Task) /\ timers' \in Calls /\ NotStranded'
    BY <2>1, <2>2, EndKeeps
  <2>4. onuMds' \in 0..MdsMax
    BY <1>8, MibSyncAssumption DEF TaskFails, Unanswered, TypeOK
  <2> QED
    BY <2>1, <2>3, <2>4 DEF TypeOK, RecordKept, FlagFollows, Calls
<1> QED
  BY <1>2, <1>3, <1>4, <1>5, <1>6, <1>7, <1>8 DEF TaskStep

(* A change of either MIB keeps the counter and the record together, also  *)
(* where it wraps.                                                         *)
LEMMA ChangeKeeps ==
    ASSUME IInv, NEW op, NEW onu \in BOOLEAN, NEW olt \in BOOLEAN, Change(op, onu, olt)
    PROVE  IInv'
<1> USE DEF IInv, device
<1>1. /\ UNCHANGED <<started, opening, first, inSync, state, timers, tasks, synced, inDb, age, lateReset>>
      /\ onuMds' \in 0..MdsMax /\ mds' \in 0..MdsMax
  BY MibSyncAssumption DEF Change, Increment, OnuIncrement, TypeOK
<1>2. CASE olt
  <2>1. state # "disabled" /\ db' = [db EXCEPT !.mds = mds']
    BY <1>2 DEF Change
  <2>2. /\ db' \in [known : BOOLEAN, mds : 0..MdsMax, synced : BOOLEAN, whole : BOOLEAN]
        /\ db'.known = db.known /\ db'.mds = mds'
    BY <1>1, <2>1 DEF TypeOK
  <2>3. TypeOK'
    BY <1>1, <2>2 DEF TypeOK
  <2>4. RecordKept' /\ FlagFollows'
    BY <1>1, <2>1, <2>2 DEF RecordKept, FlagFollows
  <2>5. NotStranded'
    BY <1>1 DEF NotStranded, Leads
  <2> QED
    BY <2>3, <2>4, <2>5
<1>3. CASE ~olt
  <2>1. UNCHANGED <<mds, db>>
    BY <1>3 DEF Change
  <2> QED
    BY <1>1, <2>1 DEF TypeOK, RecordKept, FlagFollows, NotStranded, Leads
<1> QED
  BY <1>2, <1>3

(* The device starts, stops, crashes or is deleted.                        *)
LEMMA DeviceKeeps ==
    ASSUME IInv, \/ LateReset \/ LateResetAnswered
                 \/ DeviceStart \/ StartStateMachines \/ DeviceStop \/ Crash \/ DeviceDelete
    PROVE  IInv'
<1> USE DEF IInv, device, memory
<1>1. CASE LateReset
  <2>1. 0 \in 0..MdsMax
    BY MibSyncAssumption
  <2> QED
    BY <1>1, <2>1 DEF LateReset, TypeOK, RecordKept, FlagFollows, NotStranded, Leads
<1>6. CASE LateResetAnswered
  <2>1. /\ OnMibResetResponse /\ onuMds' \in 0..MdsMax /\ lateReset' = FALSE
        /\ UNCHANGED <<started, opening, state, timers, tasks, synced, inDb, age>>
    BY <1>6, MibSyncAssumption DEF LateResetAnswered
  <2>2. tasks' \in Seq(Task) /\ NotStranded'
    BY <2>1 DEF TypeOK, NotStranded, Leads
  <2> QED
    BY <2>1, <2>2, ResetResponseKeeps
<1>2. CASE DeviceStart
  BY <1>2 DEF DeviceStart, TypeOK, RecordKept, FlagFollows, NotStranded, Leads
<1>3. CASE StartStateMachines
  <2>1. Outside /\ state' = "starting" /\ EnterStarting(timers) /\ timers \in Calls
    BY <1>3 DEF StartStateMachines, Outside, FlagFollows, TypeOK, Calls
  <2> QED
    BY <2>1, StartingKeeps
<1>4. CASE DeviceStop
  <2> DEFINE cancelled == IF opening THEN timers ELSE CancelSlot(timers)
             failed == {i \in DOMAIN tasks : tasks[i].current \/ Running(tasks[i])}
  <2>1. /\ timers' = CallLaterRepeatedly(cancelled, "timeout", Cardinality(failed))
        /\ started' = FALSE /\ opening' = FALSE /\ state' = "disabled" /\ tasks' = <<>>
        /\ lateReset' = ResetUnderWay
        /\ UNCHANGED <<mds, synced, inDb, age, db, onuMds>>
    BY <1>4 DEF DeviceStop
  <2>2. cancelled \in Calls
    BY CancelTyped DEF TypeOK, Calls
  <2>3. Cardinality(failed) \in Nat
    <3>1. IsFiniteSet(DOMAIN tasks)
      BY LenProperties, FS_Interval DEF TypeOK
    <3>2. failed \in SUBSET DOMAIN tasks
      OBVIOUS
    <3> QED
      BY <3>1, <3>2, FS_Subset, FS_CardinalityType
  <2>4. "timeout" \in Timers
    BY DEF Timers
  <2> HIDE DEF cancelled, failed
  <2>5. timers' \in Calls
    BY <2>1, <2>2, <2>3, <2>4, RepeatedTyped
  <2>6. inSync' = FALSE /\ first' \in BOOLEAN
    <3>1. CASE opening
      BY <1>4, <3>1 DEF DeviceStop, FlagFollows, TypeOK
    <3>2. CASE ~opening
      BY <1>4, <3>2, SetInSyncKeeps DEF DeviceStop
    <3> QED
      BY <3>1, <3>2
  <2>7. ResetUnderWay \in BOOLEAN
    BY DEF ResetUnderWay, TypeOK
  <2>8. TypeOK'
    BY <2>1, <2>5, <2>6, <2>7, EmptySeq DEF TypeOK, States, Calls
  <2> QED
    BY <2>1, <2>6, <2>8 DEF RecordKept, FlagFollows, NotStranded
<1>5. CASE Crash \/ DeviceDelete
  <2>1. /\ started' = FALSE /\ opening' = FALSE /\ first' = FALSE /\ inSync' = FALSE
        /\ state' = "disabled" /\ timers' = NoCalls(Timers) /\ tasks' = <<>>
        /\ mds' = 0 /\ synced' = FALSE /\ inDb' = FALSE
        /\ lateReset' = ResetUnderWay /\ UNCHANGED <<age, onuMds>>
        /\ db' \in {db, NoRecord}
    BY <1>5 DEF Crash, DeviceDelete, Renew
  <2>2. NoCalls(Timers) \in Calls
    BY DEF NoCalls, Calls, DelayedCalls
  <2>3. 0 \in 0..MdsMax
    BY MibSyncAssumption
  <2>4. NoRecord \in [known : BOOLEAN, mds : 0..MdsMax, synced : BOOLEAN, whole : BOOLEAN]
    BY <2>3 DEF NoRecord
  <2>5. ResetUnderWay \in BOOLEAN
    BY DEF ResetUnderWay, TypeOK
  <2>6. TypeOK'
    BY <2>1, <2>2, <2>3, <2>4, <2>5, EmptySeq DEF TypeOK, States, Calls
  <2> QED
    BY <2>1, <2>6 DEF RecordKept, FlagFollows, NotStranded
<1> QED
  BY <1>1, <1>2, <1>3, <1>4, <1>5, <1>6

-----------------------------------------------------------------------------
(* A new device, or one with a complete database, satisfies the invariant. *)
LEMMA InitIInv == Init => IInv
<1> SUFFICES ASSUME Init PROVE IInv
  OBVIOUS
<1>1. NoCalls(Timers) \in Calls
  BY DEF NoCalls, Calls, DelayedCalls
<1>2. 0 \in 0..MdsMax /\ 0 \in 0..ResyncDelay
  BY MibSyncAssumption
<1>3. db \in [known : BOOLEAN, mds : 0..MdsMax, synced : BOOLEAN, whole : BOOLEAN]
  <2>1. NoRecord \in [known : BOOLEAN, mds : 0..MdsMax, synced : BOOLEAN, whole : BOOLEAN]
    BY <1>2 DEF NoRecord
  <2>2. [known : {TRUE}, mds : 0..MdsMax, synced : {TRUE}, whole : {TRUE}]
            \subseteq [known : BOOLEAN, mds : 0..MdsMax, synced : BOOLEAN, whole : BOOLEAN]
    OBVIOUS
  <2> QED
    BY <2>1, <2>2 DEF Init
<1>4. TypeOK
  BY <1>1, <1>2, <1>3, EmptySeq DEF Init, TypeOK, States, Calls
<1> QED
  BY <1>4 DEF Init, IInv, RecordKept, FlagFollows, NotStranded

(* Every step preserves it.                                                *)
LEMMA NextIInv == IInv /\ [Next]_vars => IInv'
<1> SUFFICES ASSUME IInv, [Next]_vars PROVE IInv'
  OBVIOUS
<1>1. CASE UNCHANGED vars
  BY <1>1 DEF vars, device, memory, IInv, TypeOK, RecordKept, FlagFollows, NotStranded, Leads
<1> QED
  BY <1>1, FireKeeps, TaskKeeps, ChangeKeeps, DeviceKeeps DEF Next

(* The inductive invariant holds in every reachable state.                 *)
THEOREM Invariance == Spec => []IInv
BY InitIInv, NextIInv, PTL DEF Spec

(* Both MIB data sync counters stay in the range of their attribute, and   *)
(* everything else has its type.                                           *)
THEOREM TypeCorrect == Spec => []TypeOK
BY Invariance, PTL DEF IInv

(* While audits are on, a running machine outside resynchronizing always   *)
(* has a trigger or a task outstanding that its state accepts, although a  *)
(* second callLater overwrites _deferred and triggers of a former run may  *)
(* fire at any time.                                                       *)
THEOREM NeverStranded == Spec => []NotStranded
BY Invariance, PTL DEF IInv

(* The counter of a running machine is the persistent one, across crashes, *)
(* stops, MIB resets and wrap-around.                                      *)
THEOREM CounterKept == Spec => []CounterPersisted
<1>1. IInv => CounterPersisted
  BY DEF IInv, RecordKept, CounterPersisted
<1> QED
  BY <1>1, Invariance, PTL

(* The setter of mib_db_in_sync takes only a change to TRUE for the first  *)
(* synchronization of a started device.                                    *)
THEOREM FirstIsSync == Spec => FirstChangeIsSync
<1>1. IInv /\ [Next]_vars => [first /\ ~first' /\ started' => inSync']_vars
  <2> SUFFICES ASSUME IInv, Next, first, ~first', started' PROVE inSync'
    OBVIOUS
  <2>1. ~inSync
    BY DEF IInv, FlagFollows
  <2>2. ASSUME NEW value \in BOOLEAN, SetInSync(value) PROVE inSync'
    BY <2>1, <2>2 DEF SetInSync, IInv, TypeOK
  <2>3. ASSUME UNCHANGED first PROVE FALSE
    BY <2>3
  <2>4. ASSUME NEW k \in Timers, Fire(k) PROVE inSync'
    BY <2>2, <2>3, <2>4
    DEF Fire, EnterStarting, EnterUploading, EnterExaminingMds, EnterInSync, EnterOutOfSync, EnterAuditing,
        EnterResynchronizing
  <2>5. ASSUME NEW i \in DOMAIN tasks, TaskStep(i) PROVE inSync'
    BY <2>2, <2>3, <2>5
    DEF TaskStep, RunTask, ResetAnswered, OnMibResetResponse, UploadAnswered, MdsAnswered, TaskSucceeds, ResyncSucceeds,
        TaskFails, device
  <2>6. ASSUME NEW op, NEW onu, NEW olt, Change(op, onu, olt) PROVE inSync'
    BY <2>3, <2>6 DEF Change, device
  <2>7. CASE LateReset \/ LateResetAnswered \/ DeviceStart \/ StartStateMachines
    BY <2>2, <2>3, <2>7
    DEF LateReset, LateResetAnswered, OnMibResetResponse, DeviceStart, StartStateMachines, EnterStarting, device
  <2>8. CASE DeviceStop \/ Crash \/ DeviceDelete
    BY <2>8 DEF DeviceStop, Crash, DeviceDelete, Renew
  <2> QED
    BY <2>4, <2>5, <2>6, <2>7, <2>8 DEF Next
<1> QED
  BY <1>1, Invariance, PTL DEF Spec, FirstChangeIsSync
=============================================================================
