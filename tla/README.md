# A verification project for VOLTHA 1.4

VOLTHA presents a PON access network (OLTs and the ONUs behind them) as an
OpenFlow switch. It is a Python program on the Twisted reactor: one thread, with
coroutines that interleave at every `yield`, `callLater` and timer. A cluster of
VOLTHA instances coordinates through Consul. This directory holds TLA+ models of
the parts in which the order of such steps matters, the TLC configurations that
check them, and TLAPS proofs of their main invariants.

All paths below are relative to `src/`. `PROJECT.json` maps every definition that
models code to the lines it models, and lists components, runs, mutants, hazards
and theorems.

## The system and what is modelled

| Part | Code | Modules | Status |
|---|---|---|---|
| OpenOMCI task runner and task | `voltha/extensions/omci/tasks/task_runner.py`, `task.py` | `TaskRunner`, `TaskRunnerProofs` | modelled, proved |
| MIB synchronizer | `.../state_machines/mib_sync.py` | `MibSync`, `DelayedCalls`, `MibSyncProofs` | partly, proved |
| OMCI capabilities machine | `.../state_machines/omci_onu_capabilities.py` | `Capabilities`, `DelayedCalls`, `CapabilitiesProofs` | modelled, proved |
| ONU device entry | `.../onu_device_entry.py` | `MibSync`, `Capabilities` | modelled |
| Coordinator | `voltha/coordinator.py` | `Coordinator`, `Election`, `CoordinatorProofs` | modelled, proved |
| Leader and Worker | `voltha/leader.py`, `worker.py` | `CoreStores`, `CoreStoresProofs` | modelled / partly, proved |
| OMCI channel | `voltha/extensions/omci/omci_cc.py` | `OmciCC`, `OmciCCProofs` | modelled, proved |
| Configuration tree | `voltha/core/config/` | `ConfigTree`, `TxStore` | partly |
| Persistence of the tree | `.../config_rev_persisted.py`, `config_backend.py`, `config_root.py`, `local_handler.py` | `ConfigStore`, `ConfigStoreProofs` | partly, proved |
| Device agent, adapter agent, core, requests of an operator, ponsim adapters | `voltha/core/`, `voltha/adapters/ponsim_*`, `iadapter.py` | `DeviceLife`, `DeviceLifeProofs` | partly, proved |
| Logical device agent | `voltha/core/logical_device_agent.py`, `device_agent.py` | `LogicalDevice` | partly |
| Flow decomposition, device graph | `voltha/core/flow_decomposer.py`, `device_graph.py` | `FlowDecomposer` | partly |
| PON simulator: forwarding | `ponsim/ponsim.py` | `PonSim` | partly |

"Proved" means that the safety properties its run checks are theorems (see *The
proofs*); liveness is checked by TLC everywhere.

Not modelled yet (they have control of their own):

| Part | Code | What a model would be about |
|---|---|---|
| Event bus, message queue | `common/event_bus.py`, `common/utils/` | subscriptions during a publication, selective receive |
| Dispatcher and global handler | `voltha/core/dispatcher.py`, `global_handler.py` | routing by the peer map |
| Coordinator over etcd | `voltha/coordinator_etcd.py` | a second implementation of `Election` |
| OpenFlow agent | `ofagent/` | two tables, life of an agent |

Not modelled, with no plan: the MIB database (external to `MibSync`), the
OpenOMCI agent, start-up and registry (wiring); OMCI frames, EOAM
and IGMP (formats, pure data); xPON management (validation of objects); northbound
servers, NETCONF, frame input and output (transport); the adapters other than
ponsim (protocols of devices that are not part of the repository); CLI, the
servers of the PON simulator, monitoring, utilities, and the Go programs.

The parts interact as follows. A *Coordinator* in each instance keeps a Consul
session, locks a membership record with it and competes for the leader key. Its
holder runs a *Leader*, which assigns a core store (a prefix of the key-value
store) to each member. A *Worker* in each instance waits for its store and then
opens the *configuration tree* in it. An operator's requests change the tree;
*device agents* react to the changes and drive *adapters*, whose handlers write
what they find back into it. A *logical device agent* keeps the flows a controller
asks for and *decomposes* them into flows of the OLT and of each ONU. An adapter for an ONU uses OpenOMCI: a *device entry* with two
state machines, *MIB synchronizer* and *capabilities*, which hand tasks to the
*task runner*, which decides who may use the OMCI channel.

The modules compose along these lines. `Coordinator` implements `Election`
(proved). `CoreStores` restates leadership after `Election` and does not
instantiate it: being granted the lock and starting the Leader are one step
there, so an instance that loses the lock between the two is not covered. `MibSync` contains the
admission rule of the runner in short form; `Capabilities` sees the MIB
synchronizer through its in-sync flag, which may change at any time. `ConfigTree`
implements `TxStore`. `LogicalDevice` is composed with `FlowDecomposer`, which
tells the devices what to do, and `PonSim`, which says what they then do with a
frame; its main properties are about all three together. `ConfigStore` has the
tree of `ConfigTree` without transactions and one level deeper. `OmciCC` is the
channel that the tasks of `TaskRunner`, `MibSync` and `Capabilities` wait for.

## The models

**TaskRunner.** A step is one reactor callback or one call from outside. The
pending queue, a dictionary of lists by priority, is a set ordered by priority
and ticket. Calls deferred with `callLater(0, ...)` are counted (`runNext`) or
kept in a set (`starts`), so that other steps come in between. A task's deferred
and its coroutine (`body`) are separate: stopping a task calls the first and may
leave the second waiting for an answer.

**MibSync.** The transition table, one `Enter...` operator for each
`on_enter_...` handler, delayed triggers, tasks with their phases, and the MIB
data sync counters of both sides. `DelayedCalls` captures an idiom of the state
machines: only the call scheduled last can be cancelled, the others are made in
the end. The content of the database is one bit, `whole`. Clock time is the `age`
of the last synchronization. A MIB reset may reach the ONU and its answer get lost
or come after the task was stopped; if the channel is enabled again by then, it
publishes the answer and the machine clears the database and its counter
(`LateResetAnswered`). Answers come in the order of the requests.

**Capabilities.** The same idiom. The flag of the MIB synchronizer is an input. The
entities a task hands over may be `None` (the ONU names none), which the machine
keeps; then no event is put together.

**Coordinator.** Consul is external: sessions, the leader key with its lock
delay, membership records. Each request and each answer that the code waits for
is a step. A fault is a session in use that lapses, an answer that is lost after
the request was applied, or a session request that fails. A restarted process is
another instance, since its id contains its start time. While `stop()` waits for
Consul the process is `stopping`: its loops run on until they come to the end of
their round.

**CoreStores.** Every read and write of a Leader is a step, the read of the
mapping that `_update_core_store_references` starts and does not await included.
The empty mapping that `_get_core_store_mappings` writes when it found none, and the
read that follows, are steps of their own. A Leader object that was halted may still
resume. `Next` has crashes at any point. `FaultyNext` adds sessions of running
instances that lapse, and reads of the mapping and reassignments of one Leader that
overlap: one read and two reassignments are under way at most. `stranded` remembers
the members that a Leader had mapped and not yet assigned when it died.

**ConfigTree.** The root has data and one keyed list of leaves. Revisions are
objects: the code compares lists by identity and revisions by hash, and both are
kept. A transaction has a branch of the root from when it was opened and a branch
of a child from its first write. A commit is a dry run and then the merge; it
ends well, with a conflict (the transaction is deleted), or with another
exception (it stays behind). The merge, `MergeLists`, follows the fast and the
slow path of `merge_3way` key by key. A revision of the root that would hash a list in
which some hash was cleared raises: a direct operation on the root then changes
nothing, an update of a child has changed the child by then, and a merge
(`MergeRaises`) has merged the children and leaves root and transaction as they
were. The auxiliary variable `plain` remembers whether one of three things has happened
(see the run `config_tree`).

**OmciCC.** The table of outstanding requests by transaction id, the deferreds of
the callers, a link that loses and reorders frames, time-outs, and the connectivity
event that is scheduled with `callLater`. An answer is not delayed past the next
use of its transaction id (`Aged`, external): with 65,535 ids in the code that is
an answer later than 65,535 requests. Handing a frame to the proxy may raise, which
ends like a refused transaction id. Autonomous frames of other types, and those that
cannot be decoded, change nothing and are left out.

**DeviceLife.** An OLT and its ONUs. The records of the devices in memory and on
disk, the administrative state each agent saw last, the queue of `callLater(0)`
calls through which adapters run, reboots in their sleep, and the logical device
with its ports and peers. A request is one step, its agents' reaction included; a
handler is another, later step. A handler that raises keeps what it did so far. The
KPI loop of the OLT's handler counts (`kpi`): `disable()` and `reenable()` use it, and
a handler made for an OLT that was disabled at a restart has none. The core does not
die in the middle of a callback.

**LogicalDevice.** The flow and group tables, the ports, the flow tables of the
devices in the tree (`tree`) and those the adapters were given (`hw`). A request is
one step with all its callbacks, the deletion that `decompose_flow` starts within
its own callback included. `FlowDecomposer` has `decompose_rules` as operators on
sequences of rules, `PonSim` the choice of a flow and its actions on a stack of
tags. A frame is sent through `PonSim` inside the properties, in every state.
`IN_PORT`, `ETH_TYPE`, `VLAN_VID`, `VLAN_PCP`, `IPV4_DST` and `METADATA` are
matched; the IP protocol and UDP ports, which work alike, are left out. The flows
are those of a subscriber in the repository's tests
(`tests/itests/voltha/test_cold_activation_sequence.py`).

**ConfigStore.** Revisions are objects with an identity and a hash. The devices are an
ordered list, as in the code, so that the same devices in another order have
another hash. A change makes
a list of accesses to the key-value store in the order of the code: the blobs of new
revisions, the deletions by `__del__` of revisions whose last reference goes, and
the pointer `root`. CPython deletes an object when its last reference goes, and
revisions of removed nodes are in a cycle with their node and `__del__` keeps them
from being collected. The blobs of configuration data are left out, as they are
never deleted: the cache always holds a weak reference to them.

## The runs

All passing runs also have a mutant for each property: a variant of one
definition, kept beside it, with which TLC finds the property violated.

| Run | Result | States | Bounds |
|---|---|---|---|
| `task_runner` | holds | 365,230 | 4 tasks, 2 exclusive, the priorities of the code |
| `mib_sync` | holds | 369,182 | counters 0..2, 2 restarts, 1 change |
| `capabilities` | holds | 446 | 3 restarts, 6 changes of the flag |
| `coordinator` | holds | 135,367 | 2 instances, 1 fault |
| `core_stores` | holds | 31,250 | 3 instances, 1 term each, no lapse or overlap |
| `core_stores_unique` | violated | | 1 lapse or overlap |
| `config_tree` | holds | 1,492,946 | 3 keys, 2 values, 1 transaction, 6 operations |
| `omci_cc` | holds | 253,258 | 3 requests, 2 transaction ids, 2 autonomous messages, 1 restart |
| `device_life` | holds | 425,067 | 1 OLT, 2 ONUs, 6 requests, 1 failure, 1 crash |
| `logical_device` | holds | 7,027 | 2 subscribers, 11 flows, 1 group, 3 changes |
| `config_store` | holds | 330,009 | 2 devices, 2 contents, 5 changes, 2 crashes |
| `config_store_complete` | violated | | the same |

Every detailed state machine except `ConfigStore` has a `TypeOK` (that of
`ConfigStore` is `Typed`, in its module of proofs). They are proved, except those of
`ConfigTree` and `LogicalDevice`, which hold on the instances of the table; none is
among the properties of the runs.

`CHECK_DEADLOCK FALSE` stands where the bounds end a behaviour or a stopped
system may rest. `task_runner` is checked for deadlock.

**task_runner.** An exclusive task runs alone; the assertion in `start()` cannot
fail; a pending task that could start always has a call scheduled that will start
it; a task that was stopped before its start never begins; a pending task of an
active runner completes. Four tasks let two exclusive and two shared
ones meet in every order. There are finitely many tasks, so completion says nothing
of a queue that never empties: a stream of tasks of higher priority may starve one.
 What the run does not say: a task's coroutine may
outlive the task (see `ExclusiveChannel` below).

**mib_sync.** Outside the state `resynchronizing` the machine always has a
trigger or a task that will move it; the persistent counter is right; a device
entry announces the first synchronization correctly; a difference of the counters is noticed. `resynchronizing` is excepted
because there the code can get stuck (see `ResyncEnds`). A counter of three
values wraps within the bounds.

**capabilities.** No delayed call is lost track of; idle, the machine has what a
finished task has read; a MIB that stays in sync is seen by the poll.

**coordinator.** A leader that lost the lock always has the change still to read,
so it steps down; an instance becomes a member again; a vacancy that was noticed is
filled; the whole implements `Election`. Two instances suffice for a lock to pass
from one to the other at every point of either loop. One fault is what fits; two
faults in one behaviour are not covered.

**core_stores.** The mapping in Consul is injective, it names the owner of every
store in use, and a member that stays is served, if the lock is granted again and
again, unless a Leader died after it had mapped this member and before it assigned
it (`stranded`). `StoreIsMapped` and `MemberServed` hold *without* lapsed sessions
and overlaps only; the next run shows why.

**core_stores_unique** (`UniqueStore`). With one lapse or one overlap two running
instances work on one core store.

**config_tree.** `ImplementsStore`: each operation and each commit does to the
content what `TxStore` says, all or nothing, and never overwrites a concurrent
change. One commit is excepted (`Reordered`): that of a transaction which removed two
children that direct operations have put into another order since. The merge removes
by position and may take out other children, as `CommitMerges` below shows.
`ConfigTree_Reordered.cfg` (three keys, one value, seven operations; 195,796 states)
has the same properties on an instance in which such commits happen.
`DryRunDecides`: as long as root and transaction have all their hashes, a merge that
passed the dry run raises nothing half-way; without that premise see
`DryRunForesees`.
`TreeConsistent` and `ChangesAnnounced`: root and child nodes agree, and every
change is announced. The last two hold only as long as `plain` is true, that is
as long as no transaction has *adopted* a revision (it sets a child to what is
committed, and its list has something else), no child was *replaced* (removed and
added again) while a transaction was open that had seen it, and no hash in use
was cleared. Without that premise TLC refutes both.

**omci_cc.** The table of requests and the waiting deferreds agree exactly; a
request is never completed with the answer to an earlier one; every request sent
with a time-out comes to an end, whatever is lost and even if the channel is
stopped; until the first stop listeners know whether the last exchange failed;
every autonomous message is announced, even if its queue is full. Two ids make the
ids come round while requests are outstanding.

**device_life.** `LastDataAgrees` and `DeletedStaysDeleted` hold for every order of
requests, failures and crashes: each device has its agent, the agent compares with
what the tree shows once the calls are done, and nothing brings a deleted device
back. `StatusAgrees` and `ServiceAgrees` are about an operator who waits for one
request to settle (`calm`), does not switch an ONU below a disabled OLT, gives the
OLT an address, and does not disable again an OLT that a restart found disabled:
status, logical device, ports and peers then follow the
administrative state, across reboots, restarts and the reference to every second
peer that `delete_all_peer_references` misses. Without the premises they fail; see
`DisabledIsInactive` and `DisableTakesEffect`. Six requests reach, for instance, create, enable, reboot,
disable, enable and delete of any device.

**logical_device.** `NothingMissing`: after any change that does not raise, each
device has every rule of every flow that is still in the table, nested deletions
included. `SubscriberServed`: with the four flows of a subscriber installed, the
tables of OLT and ONU together tag, forward and untag as the flows say, and 802.1X
frames reach the controller's channel, whatever else is installed. `Isolated`: in
*every* state, tables that are out of date included, no frame of one subscriber
gets the tag of another or leaves at another's port. `MulticastServed`: a stream
reaches exactly the existing ports of its group. Behaviours start without flows
and with all of them, so that three changes act on full tables. The run was
repeated once with four changes (56,407 states); all hold.

**config_store.** `RestartRestores`: a core that starts has the tree of the last
finished change or of the one it died in. `Recoverable`: as long as no content of
the tree has returned, every blob below `root` is in the store between any two
accesses. Five changes are enough for contents to return and change again; two
devices with equal children share a blob.

**config_store_complete** (`StoreComplete`). When the tree returns to an earlier
content, the branch keeps the old revision of that hash and holds the new object
as the latest only. The next change lets it go, and `__del__` erases blobs that
live revisions still need; the next start fails to load the tree. The comments at
`config_node.py:250` and `:301` show that the authors met the problem for equal
consecutive contents.

### Fairness

Fairness is weak throughout and stands for: the reactor makes the calls it was
asked to make (in `OmciCC`: time-outs fire and scheduled events are published);
every OMCI request is answered or times out; `_retry` repeats a
request until Consul answers; Consul expires sessions that nobody renews and ends
the lock delay. That a vacant lock is granted to somebody is *not* assumed, since the
coordinator does not guarantee it (`LeaderElected` below); it is a premise of
`MemberServed`. Calls from outside
(queueing, stopping, starting instances, changes of the MIB) and faults are never
fair.

### Further disagreements

TLC refutes these definitions too. They are kept in the modules. Those with a
configuration of their own (`MibSync_InSyncIsWhole.cfg`,
`Coordinator_OneLeader.cfg` and so on, named after module and definition) can be
reproduced with it.

| Definition | What the code does | What is said |
|---|---|---|
| `MibSync!InSyncIsWhole` | an upload wipes the database and both counters become zero; if it then fails, the retry compares zero with zero and calls the wiped database synchronized (`mib_sync.py:304`) | `mib_sync.py:314` |
| `Coordinator!OneLeader` | a session lapses, the other instance is granted the lock, and both Leaders run until the first hears of it (`coordinator.py:483`) | `leader.py:38` "A single instance of this object shall exist across the whole cluster." |
| `Coordinator!LeaderElected` | an acquire refused within the lock delay is taken for "there is a leader"; the loop then watches a vacant key that nobody changes (`coordinator.py:426`) | `coordinator.py:393` |
| `CoreStores!EveryMemberServed` | a Leader dies after it wrote the mapping and before it wrote an assignment; its successor takes the new member for an old one and never serves it (`leader.py:394`) | `leader.py:111` |
| `ConfigTree!CommitMerges` | in the slow path of the merge, removed children are popped at positions looked up before any was popped; if a direct operation has changed the order, a commit deletes a child that the transaction never touched (`merge_3way.py:247`). In this repository only tests open transactions | the merge's own comments |
| `OmciCC!ConnectivityReported` | time-outs are counted while the channel is stopped, but their event is published only while it is enabled: after a restart listeners are not told | the connectivity event, `omci_cc.py:477` |
| `DeviceLife!DisabledIsInactive` | `reboot()` reads the status, sleeps ten seconds and writes it back (`ponsim_olt.py:742`): a device disabled meanwhile ends `DISABLED` and `ACTIVE` | `voltha/protos/common.proto:42` "The device is disabled and shall not perform its intended forwarding functions" |
| `DeviceLife!DisableTakesEffect` | the handler that `reconcile` makes for a disabled OLT has no `pm_metrics` and no KPI loop; once it is re-enabled, `disable()` raises before it changes anything, and the OLT ends `DISABLED` and `ACTIVE` (`ponsim_olt.py:762`) | `ponsim_olt.py:816` "in case we bypassed the reconcile process if the device was in DISABLED state on voltha restart", which makes up for the ports only |
| `LogicalDevice!AdapterToldOfChange` | a flow replaced by one with the same id and other actions is never passed on (`logical_device_agent.py:552`, `device_agent.py:467`) | `voltha/adapters/interface.py:214` "Called after any flow table change" |
| `LogicalDevice!DeletedFlowGone` | a multicast flow with one bucket without a route is deleted, but its rules are written (`flow_decomposer.py:730`) | `flow_decomposer.py:729` "deleting flow" |
| `TaskRunner!StopKillsPending` | `task_runner.py:100` iterates over priorities, reaches no task, and a bare `except` hides it: pending tasks are dropped and their deferreds never fire | `task_runner.py:99` "Kill pending tasks" |
| `TaskRunner!ExclusiveChannel` | a stopped task's coroutine still waits for an answer on the channel when the next exclusive task begins (`task.py:116`) | the parameter `exclusive`, `task.py:46` |
| `MibSync!ResyncEnds` | `mib_sync.py:483` calls `len()` on lists that the task passes as `None` when empty; the exception is lost and the machine stays in `resynchronizing` | the transitions out of that state, `mib_sync.py:65` |
| `MibSync!PeriodicResync` | each successful audit renews `last_mib_db_sync` (`mib_sync.py:365`), so the resync delay is never reached | the resync delay, `mib_sync.py:74` and `:97` |
| `MibSync!SingleTask` | stopping a task while the machine stops schedules `timeout` (`mib_sync.py:228`); after a restart that stale call moves the machine on, and it queues a second task beside the first | one `_current_task`, with support for more still to do, `mib_sync.py:116` |
| `MibSync!ZeroReserved` | `increment_mib_data_sync` wraps to 0 (`mib_sync.py:198`) | the note on a test still to be written, `tests/utests/voltha/extensions/omci/test_omci_cc.py:279` "255 -> 1  (zero reserved)" |
| `Capabilities!IdleNotifies` | `buffer_to_message_type` lacks its `return` (`onu_capabilities_task.py:279`): the set of message types is empty, the task hands out `None` for it, and `len(None)` raises while the event is put together | `omci_onu_capabilities.py:217` |
| `Capabilities!IdleMeansInSync` | a loss of sync published in `in_sync` is refused; the machine becomes idle and stays so | `omci_onu_capabilities.py:218` |
| `CoreStores!HaltedReassignsNothing` | a coroutine of a halted Leader resumes and starts the soak timer again | `leader.py:92` |
| `ConfigTree!CommittedHashed` | a transaction that writes the value a child has again, after it was changed and changed back, clears the hash of the committed revision (`config_node.py:260`); the next revision of the root raises | `config_node.py:250` "not being referred by any other data structures" |
| `ConfigTree!DryRunForesees` | with a hash cleared under the transaction (see `CommittedHashed`) the dry run passes, and the merge raises after it has merged the children: the root keeps its old list (`config_rev.py:271`) | the dry run before the merge, `config_root.py:77` |
| `ConfigTree!CommitDeletes` | only a conflict deletes the transaction; a child that is added and then updated in one transaction makes the dry run raise `AttributeError` and the transaction stays | `config_proxy.py:120` "Either way, transaction will be deleted." |
| `ConfigTree!EveryUpdateAnnounced` | a child that a transaction replaces changes its data without an update event | `merge_3way.py:160` "updated child gets its own change event" |

Met while modelling, without a definition of their own: two reboots within ten
seconds leave a device `ACTIVATING`; an ONU enabled while its OLT is disabled gets
no logical port; a crash after `EnableDevice` and before the activation leaves an OLT
active without logical device; `reconcile` of the ponsim adapters does not restore
the connection status; deleting a device that was never enabled raises `KeyError`; an
ONU that is re-enabled keeps an empty flow table until the next decomposition;
`group_delete` of all groups leaves the flows that use them; a flow from any port to
the controller raises while there is no ONU, and holds up the flows behind it; an
answer of an unknown managed entity does not reset the count of errors (`omci_cc.py`);
`flush()` of the OMCI channel is a generator that nothing iterates.

## The proofs

Eight modules hold proofs that TLAPS checks. What is proved holds for every
value of the constants: any number of tasks, instances, requests, devices, changes,
crashes and restarts. 22 of the properties the runs check are theorems.
Each module has an inductive invariant `IInv` with `InitIInv`, `NextIInv` and one
lemma, or one named step of `NextIInv`, per action or group of actions. TLC checked each invariant on an instance
before it was proved.

| Module | Theorems (property of the run) |
|---|---|
| `TaskRunnerProofs` | `Exclusivity` (`ExclusiveRunsAlone`), `StartNeverAsserts` (`StartAssertion`), `WakeupsNotLost` (`NoLostWakeup`), `StoppedNeverBegins` (`OnlyRunningTasksBegin`), `CompletedOnce`, `TypeCorrect` |
| `MibSyncProofs` | `NeverStranded` (`NotStranded`), `CounterKept` (`CounterPersisted`), `FirstIsSync` (`FirstChangeIsSync`), `TypeCorrect` |
| `CapabilitiesProofs` | `CallsHeld` (`NoCallLost`), `IdleKnows` (`IdleKnowsEntities`), `TypeCorrect` |
| `CoordinatorProofs` | `LossNotMissed` (`LossIsUnread`), `Refinement` (`ImplementsElection`), `TypeCorrect` |
| `CoreStoresProofs` | `OneStorePerInstance` (`MappingInjective`), `StoresAreMapped` (`StoreIsMapped`), `StoresAreUnique`, `TypeCorrect` |
| `OmciCCProofs` | `TableExact` (`RequestsExact`), `AnswersOwn` (`OwnAnswer`), `LinkTracked` (`ConnectivityTracked`), `TypeCorrect` |
| `DeviceLifeProofs` | `LastDataFollows` (`LastDataAgrees`), `DeletedGone` (`DeletedStaysDeleted`), `StatusFollows` (`StatusAgrees`), `ServiceFollows` (`ServiceAgrees`), `CalmInvariance`, `TypeCorrect` |
| `ConfigStoreProofs` | `StoreRecoverable` (`Recoverable`), `RestartIsRecent` (`RestartRestores`) |

The assumptions on constants are those of the modules: sets are finite, bounds are
natural numbers, the highest counter or transaction id is at least 1, priorities
are in 0..255. `IdAssumption` of `CoreStores` says that number and time stamp
identify an instance. `NoneAssumption` of `Coordinator` and of `CoreStores` says
that Python's `None` differs from every instance, session, core id, set of members
and mapping. `DeviceLifeAssumption` says that the devices are finitely many by saying
what the proofs use: every set of them has a number of elements and can be listed.

**TaskRunnerProofs.** Besides the properties `IInv` says that tickets of
pending tasks are distinct, that a task that is only pending was not started, and
that a scheduled start with an outstanding deferred belongs to a running task.
Distinct tickets are needed because one call of `_run_next_task` may start
several tasks: `Before` must order the pending tasks totally for the exclusive
one among them to be admitted alone (`AdmittedExclusive`). `AdmittedExhausted`
says that after a call nothing more could start, which gives `NoLostWakeup`.

**MibSyncProofs.** `NotStranded` is inductive with `TypeOK` and two facts.
`RecordKept`: the record in the database is the machine's from the moment it was
read or made, also while the machine is stopped. `FlagFollows`: a machine runs only
in a started device, and the flag is down while it is disabled and before the first
change. Stale triggers of a former run are harmless because `CallLater` never
forgets an outstanding call (`CallLaterKeeps`). The answer to a MIB reset, in time or
late, clears counter and record together (`ResetResponseKeeps`). Several calls scheduled in a row are
given in closed form (`CallLaterRepeatedly` of `DelayedCalls`), since a fold is out
of the provers' reach.

**CapabilitiesProofs.** `SlotFits` says what `_deferred` may refer to in each
state. From it follows that every call is scheduled into an empty slot, so none is
lost track of, and that `success` is due only while the results are there.

**CoordinatorProofs.** A leader that lost the lock need not know it. `IInv` says
that it then has the change of the key unread (`ChangeIsLoss`), that what its loop
read back is the key as it is unless the key has changed since (`ReadBack`), that a
leader is watching (`LeaderWatches`), and that instances use only sessions of their
own (`SessionsOwn`). `Refinement` maps each action, under `IInv`, to a step of
`Election` or to a stutter.

**CoreStoresProofs.** `OneStorePerInstance` and `TypeCorrect` hold for
`FaultySpec`, that is under any number of lapses, overlaps, crashes and terms of
office. That the mapping in Consul is injective is not inductive: a Leader writes
what it computed from a copy it read long before. `IInv` therefore says that the
mapping *and every copy of it* (in hand, and in each of two reassignments that may be
under way) are injective. `UpdatedMappingsInjective` is the core: the algorithm takes injective
mappings to injective ones, whichever members it sees.

`StoresAreMapped` and `StoresAreUnique` hold for `Spec`, where Leaders crash but
sessions of running instances do not lapse and reads do not overlap. Under faults
`UniqueStore` is false (run `core_stores_unique`). The second invariant, `SInv`,
says that one Leader at most leads, and what it knows: every running instance with a
slot is among the members it has read and will reassign for; its copy of the mapping
is that of Consul but for the write that is due; that write leaves running instances
their slots, and only instances that have ended lose assignment and record. A new
Leader knows nothing and reads everything again: `NewLeaderKnows` and the steps of
its two reads show that it cannot take a running instance with a slot for one that
has ended, whatever its predecessor had written when it died.

**OmciCCProofs.** `RecentIds` computes the id of each of the last `MaxTid - 1`
requests from `tx_tid`, across the wrap. So no two of them share an id, an entry of
the table stands under the id of its own request, a late time-out removes nobody
else's entry, and a frame's id is waited for by its own request only. The theorems
rest on the modelled environment: no frame outlives a round of the ids (`Aged`).
`EventsFollow` gives `ConnectivityTracked`.

**DeviceLifeProofs.** `IInv` follows the administrative state: disk and memory
agree on it (`Persisted`), the OLT is activated once, before its ONUs are known
(`OneActivation`), and `last_data` lags behind only for a device that was enabled
without a handler, until its reconciliation is over (`Followed`). Only the activation
of the OLT adds ONUs, so a second one could bring back an ONU that was deleted;
`OneActivation` excludes that and gives `DeletedStaysDeleted`. Every other handler
writes to devices that are still there.

`StatusAgrees` and `ServiceAgrees` say nothing about the states between the requests,
so their invariant `CInv` describes each of them. A history is `calm` while each
request and restart found the one before settled and was `Careful` (no ONU switched
below a disabled OLT, no OLT disabled whose handler collects no KPIs), and the OLT
had an address and answered. These premises are needed, as the two counterexamples
above show. While the history is `calm`:

- `OneAtATime`: a device has at most one scheduled call, the calls of the ONUs wait
  for that of the OLT, a reboot is alone and sleeps alone;
- `AgentsFit`: `last_data` is what the tree shows, the store has what memory has
  (except during an activation, whose operational status is never written), and the
  devices that will be called have their handlers;
- `OltFits`, `OnuFits`: a device without a call that changes its status rests, with
  logical port and peer as its administrative state demands; one with such a call is
  in the state from which the handler runs to its end. `disable` of the OLT finds
  the logical device, `reenable` finds none, and an ONU is enabled only while there
  is a logical device. `Rests` takes the status of a rebooting device from the
  values its reboot will write when it wakes up.

Peers are listed once (`Distinct`); that makes `RemovePeer` remove an ONU although it
takes out the first entry only, and bounds what `EverySecond` leaves to entries
whose ONUs are about to be disabled themselves. For each action one lemma (`...CInv`),
or one step of `OnuCInv`, `OltCInv` or `RebootCInv`, shows `CInv'`; `OnuStepFits` is shared by the handlers of an ONU, `OltChangesExact`
by `disable` and `reenable` of the OLT, and `ConnectExact` by both halves of a
reboot. TLC found `CInv` to hold on 10,824,917 states (two ONUs, seven
requests, one failure, two crashes). `TypeCorrect` adds the flags. Most leaves name
the prover (`Zenon`): the module is long, and they are a matter of propositions and
substitution, on which the SMT solver spends much more time.

**ConfigStoreProofs.** `PointerFits` says that `root` names the tree of the last
finished change or the latest one, and the latest one unless the change under way
has yet to write it. It needs no premise, and gives `RestartRestores` even where
contents return. `StoreFits` holds as long as no content has returned: the branch
holds every revision, so that nothing is deleted, and the plan of accesses writes
`root` after all blobs below it.

### Only model-checked

- All liveness (`PendingCompletes`, `MismatchNoticed`, `SyncIsSeen`,
  `DeposedStepsDown`, `MemberAgain`, `NoticedVacancyFilled`, `MemberServed`,
  `AutonomousAnnounced`, `RequestSettles`): it needs fairness and `ENABLED`, which
  the prover does not support.
- `ConfigTree` (`TreeConsistent`, `DryRunDecides`, `ChangesAnnounced`,
  `ImplementsStore`): what the merge computes is an induction over lists of
  children.
- `LogicalDevice` (`NothingMissing`, `SubscriberServed`, `Isolated`,
  `MulticastServed`): what a frame meets is a fold over lists of actions and ports
  (`PonSim`), and each property is about the lists of rules that decomposition
  builds; both would again need induction over data.

## Not modelled

`PROJECT.json` gives the reason for each component. Within the modelled ones:
the contents of a MIB and the comparison of two MIBs; AVC and alarm messages; the
case of a Consul that lost its data (`leader.py:269` halts the Leader but keeps
the lock); the publication of the peer map; lists without keys, the running of callbacks,
tags and transactions in the persisted tree; PM and alarm configuration, images and
xPON objects of a device; adapters that take flows one by one; packet-in and
packet-out; the search for shortest paths in the device graph, where each ONU with a
logical port is taken to be a peer of the OLT; frames that an ONU would send back to
the OLT, as no flow of an ONU does.

Hazards known in these parts, besides those in `PROJECT.json`: the unbound
variable that `_halt_leader` returns (`coordinator.py:507`); callbacks that write
to the tree while others are queued (`config_root.py:145`); a commit that raises
something else than a conflict (`config_root.py:79`); lists of flow changes emptied
in place while an adapter that takes them one by one still works on them
(`device_agent.py:440`). Five more lie in modelled parts, where the
properties of the runs are exposed to them: an instance that dies with the lock
(`coordinator.py:223`); a halted Leader that starts its timer again or writes from
a mapping that was replaced (`leader.py:313`, `:388`); direct operations that change
the list of children while a transaction works on its copy
(`merge_3way.py:164`); a stopped task's coroutine on the channel
(`tasks/task.py:46`).

`PROJECT.json` maps a small share of the repository's lines. Most of them are
generated OpenFlow bindings, drivers of devices that are not part of the
repository, and formats; none of these has an order of steps to check.

## Plan

1. `EventBus`, `OfAgent` and `Dispatcher`; `coordinator_etcd.py` as a second
   implementation of `Election`.
2. Composition: `OmciCC` with `TaskRunner`, so that `ExclusiveChannel` can be stated
   of the channel itself; `CoreStores` with the grant split from the start of the
   Leader, to check that it implements `Election` too.
3. Proofs: what the folds of `PonSim` and the merge of `ConfigTree` compute, with a
   prover that supports induction over sequences.
