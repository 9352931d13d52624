----------------------------- MODULE CoreStores -----------------------------
(***************************************************************************)
(* voltha/leader.py and voltha/worker.py: the Leader of the cluster maps   *)
(* core stores to the members it sees and writes each member's store under *)
(* its assignment key; the Worker of a member waits for that key and then  *)
(* keeps the store for as long as its process runs.                        *)
(*                                                                         *)
(* Leadership follows what the module Election promises (it is restated,   *)
(* not instantiated): an instance leads once it was granted the lock, here *)
(* in one step with the grant, and its Leader is stopped some time after   *)
(* the lock was taken away. Nothing here makes a vacant lock be granted,   *)
(* since the coordinators do not promise it. A Leader object that was      *)
(* stopped is not gone: a coroutine of it that waits for Consul resumes    *)
(* with the answer.                                                        *)
(*                                                                         *)
(* The reads and writes of a Leader are steps of their own, because every  *)
(* one is a yield: _track_members reads the members, then the assignments, *)
(* then the store keys; _update_core_store_references starts the read of   *)
(* the mapping and does not wait for it; _reassign_core_stores writes the  *)
(* mapping, the assignments of the new members one by one, and then        *)
(* deletes the assignment and the record of each member that is gone. Of a *)
(* Leader one read of the mapping and two reassignments are under way at   *)
(* most.                                                                   *)
(***************************************************************************)
EXTENDS Naturals, FiniteSets, Functions

CONSTANTS
    Instances,      \* the instance ids
    None,           \* Python's None
    voltha_number,  \* the number of an instance in its service
    timestamp,      \* when the instance was started
    MaxTerms,       \* how often an instance leads
    MaxFaults       \* sessions of running processes that lapse, and reads of the
                    \* mapping and reassignments of one Leader that overlap

ASSUME BoundsAssumption == MaxTerms \in Nat /\ MaxFaults \in Nat
ASSUME InstancesAssumption == IsFiniteSet(Instances)
ASSUME IdAssumption ==
    /\ voltha_number \in [Instances -> Nat]
    /\ timestamp \in [Instances -> Nat]
    /\ \A m, n \in Instances :
          m # n => <<voltha_number[m], timestamp[m]>> # <<voltha_number[n], timestamp[n]>>

(* A Leader object is its instance and a serial number.                    *)
Leaders == Instances \X (1..MaxTerms)
Host(l) == l[1]

(* Core ids count from 0001 up; there are never more than instances.       *)
CoreIds == 1..Cardinality(Instances)
NoId == 0       \* an assignment key without a value
Mappings == UNION {[S -> Instances \cup {None}] : S \in SUBSET CoreIds}

(* None is no instance, id, member list or mapping.                        *)
ASSUME NoneAssumption ==
    /\ None \notin Instances \cup CoreIds
    /\ \A members \in SUBSET Instances : members # None
    /\ \A map \in Mappings : map # None

VARIABLES
    process,    \* "off", "up" or "dead"
    member,     \* Consul: the membership record, "absent", "active" (it has a Session) or "released"
    holder,     \* Consul: who has the leader lock
    mapping,    \* Consul: the mapping of core ids to instances, or None before it is written
    assigned,   \* Consul: the assignment keys, None where there is none
    leader,     \* the Leader objects
    store,      \* mycore_store_id of each Worker
    faults,     \* lapses and overlaps so far
    stranded    \* members that were mapped by a Leader that died before it assigned them

consulVars == <<member, holder, mapping, assigned>>
vars == <<process, member, holder, mapping, assigned, leader, store, faults, stranded>>

NoSlots == [id \in {} |-> None]

NoJob == [stage |-> "none", map |-> NoSlots, keep |-> {}, todo |-> {}, gone |-> {}]

NewLeader == [state |-> "none",     \* or "leading", or "halted"
              track |-> "off",      \* where _track_members is
              read |-> {},          \* its local updated_members, None when nobody is active
              fresh |-> FALSE,      \* the member list has not changed since it was read
              members |-> {},       \* self.members
              asg |-> None,         \* self.core_store_assignment
              maps |-> "off",       \* where _get_core_store_mappings is
              timer |-> FALSE,      \* the soak timer is running
              job |-> NoJob,        \* where _reassign_core_stores is, and its locals
              job2 |-> NoJob]       \* the same of a second one that is under way

Jobs(Maps) ==
    [stage : {"none", "map", "assign", "delete", "forget"}, map : Maps,
     keep : SUBSET Instances, todo : SUBSET Instances, gone : SUBSET Instances]

LeaderObjects(Maps) ==
    [state : {"none", "leading", "halted"}, track : {"off", "watch", "temporal", "stores"},
     read : (SUBSET Instances) \cup {None}, fresh : BOOLEAN,
     members : (SUBSET Instances) \cup {None}, asg : Maps \cup {None},
     maps : {"off", "get", "create", "readback"}, timer : BOOLEAN,
     job : Jobs(Maps), job2 : Jobs(Maps)]

TypedOver(Maps, Objects) ==
    /\ process \in [Instances -> {"off", "up", "dead"}]
    /\ member \in [Instances -> {"absent", "active", "released"}]
    /\ holder \in Instances \cup {None}
    /\ mapping \in Maps \cup {None}
    /\ assigned \in [Instances -> CoreIds \cup {NoId, None}]
    /\ store \in [Instances -> CoreIds \cup {None}]
    /\ leader \in [Leaders -> Objects]
    /\ faults \in 0..MaxFaults
    /\ stranded \in SUBSET Instances

(* The keys of Consul and the fields of the Leaders and Workers have their *)
(* types, the mapping in Consul and every copy of it included.             *)
TypeOK == TypedOver(Mappings, LeaderObjects(Mappings))

Init ==
    /\ process = [n \in Instances |-> "off"]
    /\ member = [n \in Instances |-> "absent"]
    /\ holder = None
    /\ mapping = None
    /\ assigned = [n \in Instances |-> None]
    /\ leader = [l \in Leaders |-> NewLeader]
    /\ store = [n \in Instances |-> None]
    /\ faults = 0
    /\ stranded = {}

Up(n) == process[n] = "up"
Alive(l) == Up(Host(l)) /\ leader[l].state # "none"

(* Every change of a membership record wakes whoever watches the list.     *)
Unread(objects) == [l \in Leaders |-> [objects[l] EXCEPT !.fresh = FALSE]]

-----------------------------------------------------------------------------
(* Processes, sessions and the leader lock *)

(* The cluster manager starts an instance in place of one that has ended.  *)
(* Its coordinator creates the membership record.                          *)
Start(n) ==
    /\ process[n] = "off"
    /\ \A m \in Instances : voltha_number[m] = voltha_number[n] =>
          ~Up(m) /\ (process[m] = "off" => timestamp[n] <= timestamp[m])
    /\ process' = [process EXCEPT ![n] = "up"]
    /\ member' = [member EXCEPT ![n] = "active"]
    /\ leader' = Unread(leader)
    /\ UNCHANGED <<holder, mapping, assigned, store, faults, stranded>>

(* The members that a reassignment has mapped and has still to assign.     *)
Unassigned(job) == IF job.stage = "assign" THEN job.todo ELSE {}

Crash(n) ==
    /\ Up(n)
    /\ process' = [process EXCEPT ![n] = "dead"]
    /\ stranded' = stranded \cup UNION {Unassigned(leader[l].job) \cup Unassigned(leader[l].job2)
                                          : l \in {k \in Leaders : Host(k) = n}}
    /\ leader' = [l \in Leaders |-> IF Host(l) = n THEN NewLeader ELSE leader[l]]
    /\ store' = [store EXCEPT ![n] = None]
    /\ UNCHANGED <<consulVars, faults>>

(* The session of n ends, and with it the locks on its record and on the   *)
(* leader key.                                                             *)
Release(n) ==
    /\ member[n] = "active" \/ holder = n
    /\ member' = [member EXCEPT ![n] = IF @ = "active" THEN "released" ELSE @]
    /\ holder' = IF holder = n THEN None ELSE holder
    /\ leader' = Unread(leader)
    /\ UNCHANGED <<process, mapping, assigned, store, stranded>>

Expire(n) ==
    /\ process[n] = "dead"
    /\ Release(n)
    /\ UNCHANGED faults

Fault ==
    /\ faults < MaxFaults
    /\ faults' = faults + 1

Lapse(n) == Up(n) /\ Fault /\ Release(n)

(* _maintain_membership_record acquires the record again.                  *)
Rejoin(n) ==
    /\ Up(n) /\ member[n] # "active"
    /\ member' = [member EXCEPT ![n] = "active"]
    /\ leader' = Unread(leader)
    /\ UNCHANGED <<process, holder, mapping, assigned, store, faults, stranded>>

(* n is granted the lock and starts a Leader, which begins to track the    *)
(* members from index 0.                                                   *)
Lead(n) ==
    /\ Up(n) /\ holder = None
    /\ \A l \in Leaders : Host(l) = n => leader[l].state # "leading"
    /\ holder' = n
    /\ \E l \in Leaders :
          /\ Host(l) = n /\ leader[l].state = "none"
          /\ \A k \in 1..(l[2] - 1) : leader[<<n, k>>].state # "none"
          /\ leader' = [leader EXCEPT ![l] = [NewLeader EXCEPT !.state = "leading", !.track = "watch"]]
    /\ UNCHANGED <<process, member, mapping, assigned, store, faults, stranded>>

-----------------------------------------------------------------------------
(* The Leader *)

(* A halted Leader with no coroutine left is as good as gone.              *)
Settled(obj) ==
    IF obj.state = "halted" /\ obj.track = "off" /\ obj.maps = "off" /\ ~obj.timer
       /\ obj.job = NoJob /\ obj.job2 = NoJob
    THEN [NewLeader EXCEPT !.state = "halted"]
    ELSE obj

Becomes(l, obj) == leader' = [leader EXCEPT ![l] = Settled(obj)]

(* Leader.stop, after the coordinator has seen that the lock is lost.      *)
Stop(l) ==
    /\ Alive(l) /\ leader[l].state = "leading"
    /\ holder # Host(l)
    /\ Becomes(l, [leader[l] EXCEPT !.state = "halted", !.timer = FALSE])
    /\ UNCHANGED <<process, consulVars, store, faults, stranded>>

(* Of several active members with one number only the latest counts.       *)
_sanitize_member_list(S) ==
    {n \in S : \A m \in S : voltha_number[m] = voltha_number[n] => timestamp[m] <= timestamp[n]}

ActiveMembers ==
    LET active == {n \in Instances : member[n] = "active"}
    IN  IF active = {} THEN None ELSE _sanitize_member_list(active)

Assigned == {n \in Instances : assigned[n] # None}

_is_temporal_state(members) ==
    Assigned # {} /\ (members = None \/ Cardinality(members) < Cardinality(Assigned))

(* finally: go on tracking, unless halted meanwhile.                       *)
Relatch(obj) == IF obj.state = "halted" THEN "off" ELSE "watch"

(* _track_members: the member list is read.                                *)
ReadMembers(l) ==
    /\ Alive(l)
    /\ leader[l].track = "watch" /\ (~leader[l].fresh \/ leader[l].state = "halted")
    /\ Becomes(l, IF leader[l].state = "halted"
                  THEN [leader[l] EXCEPT !.track = "off"]
                  ELSE [leader[l] EXCEPT !.track = "temporal", !.fresh = TRUE, !.read = ActiveMembers])
    /\ UNCHANGED <<process, consulVars, store, faults, stranded>>

(* _track_members: the assignments are read. If the state is not temporal  *)
(* and the members differ, the store keys are asked for.                   *)
CheckMembers(l) ==
    /\ Alive(l) /\ leader[l].track = "temporal"
    /\ LET obj == leader[l]
       IN  Becomes(l, IF ~_is_temporal_state(obj.read) /\ obj.read # obj.members
                      THEN [obj EXCEPT !.track = "stores"]
                      ELSE [obj EXCEPT !.track = Relatch(obj), !.read = {}])
    /\ UNCHANGED <<process, consulVars, store, faults, stranded>>

(* Variants: the mapping is not read, or the soak timer is not started.    *)
UpdateReferencesNoRead(l) ==
    /\ Alive(l) /\ leader[l].track = "stores"
    /\ LET obj == leader[l]
       IN  Becomes(l, [obj EXCEPT !.track = Relatch(obj), !.read = {}, !.members = obj.read, !.timer = TRUE])
    /\ UNCHANGED <<process, consulVars, store, faults, stranded>>

UpdateReferencesNoTimer(l) ==
    /\ Alive(l) /\ leader[l].track = "stores"
    /\ LET obj == leader[l]
       IN  Becomes(l, [obj EXCEPT !.track = Relatch(obj), !.read = {}, !.maps = "get", !.members = obj.read])
    /\ UNCHANGED <<process, consulVars, store, faults, stranded>>

(* _track_members: the store keys are there (nothing uses them). The read  *)
(* of the mapping is started, and the soak timer is restarted: halted or   *)
(* not.                                                                    *)
UpdateReferences(l) ==
    /\ Alive(l) /\ leader[l].track = "stores"
    /\ LET obj == leader[l]
       IN  Becomes(l, [obj EXCEPT !.track = Relatch(obj), !.read = {},
                                  !.maps = "get", !.members = obj.read, !.timer = TRUE])
    /\ UNCHANGED <<process, consulVars, store, faults, stranded>>

(* _get_core_store_mappings, up to its first answer.                       *)
GetMapping(l) ==
    /\ Alive(l) /\ leader[l].maps = "get"
    /\ Becomes(l, IF mapping = None
                  THEN [leader[l] EXCEPT !.maps = "create"]
                  ELSE [leader[l] EXCEPT !.maps = "off", !.asg = mapping])
    /\ UNCHANGED <<process, consulVars, store, stranded>>

(* The rest of it, when there was no mapping: an empty one is written, and *)
(* whatever is there by then is read back.                                 *)
CreateMapping(l) ==
    /\ Alive(l) /\ leader[l].maps = "create"
    /\ mapping' = NoSlots
    /\ Becomes(l, [leader[l] EXCEPT !.maps = "readback"])
    /\ UNCHANGED <<process, member, holder, assigned, store, stranded>>

ReadBack(l) ==
    /\ Alive(l) /\ leader[l].maps = "readback"
    /\ mapping # None
    /\ Becomes(l, [leader[l] EXCEPT !.maps = "off", !.asg = mapping])
    /\ UNCHANGED <<process, consulVars, store, stranded>>

-----------------------------------------------------------------------------
(* _reassign_core_stores *)

Slots(map) == DOMAIN map
TopId(map) == IF Slots(map) = {} THEN 0 ELSE CHOOSE id \in Slots(map) : \A other \in Slots(map) : other <= id
Cleared(map, members) == {id \in Slots(map) : map[id] \notin members}
Kept(map, members) == {map[id] : id \in Slots(map) \ Cleared(map, members)}
Inactive(map, members) == {map[id] : id \in Cleared(map, members)} \ {None}

(* Variant: members that have a slot are placed like new ones.             *)
UpdatedMappingsAll(map, members) ==
    LET cleared == Cleared(map, members)
        nextIds == {id \in CoreIds : id > TopId(map)}
    IN  {[id \in Slots(map) \cup nextIds |->
            IF \E n \in members : place[n] = id THEN CHOOSE n \in members : place[n] = id
            ELSE IF id \in Slots(map) \ cleared THEN map[id] ELSE None]
         : place \in Injection(members, cleared \cup nextIds)}

(* Steps 1 and 2: who is gone leaves its slot; a new member gets a cleared *)
(* slot, or the next id when there is none. The slots are popped from a    *)
(* set, so any of them may be next.                                        *)
UpdatedMappings(map, members) ==
    LET cleared == Cleared(map, members)
        new == members \ Kept(map, members)
        nextIds == {id \in CoreIds : /\ id > TopId(map)
                                     /\ id <= TopId(map) + Cardinality(new) - Cardinality(cleared)}
    IN  {[id \in Slots(map) \cup nextIds |->
            IF \E n \in new : place[n] = id THEN CHOOSE n \in new : place[n] = id
            ELSE IF id \in Slots(map) \ cleared THEN map[id] ELSE None]
         : place \in Injection(new, cleared \cup nextIds)}

_get_core_data_id_from_instance(map, n) ==
    IF \E id \in Slots(map) : map[id] = n THEN CHOOSE id \in Slots(map) : map[id] = n ELSE NoId

NextStage(job) ==
    CASE job.todo # {} -> [job EXCEPT !.stage = "assign"]
      [] job.todo = {} /\ job.gone # {} -> [job EXCEPT !.stage = "delete"]
      [] job.todo = {} /\ job.gone = {} -> NoJob

(* The soak timer fires. Without a mapping in hand (the read that was      *)
(* started with the timer has had no answer yet) the cluster is taken to   *)
(* have none. When nobody is active the code raises and restarts the timer.*)
(* A reassignment that is still under way goes on beside the new one.      *)
Reassign(l) ==
    /\ Alive(l) /\ leader[l].timer /\ leader[l].job2 = NoJob
    /\ leader[l].members # None
    /\ LET obj == leader[l]
           old == IF obj.asg = None THEN NoSlots ELSE obj.asg
       IN  \E new \in UpdatedMappings(old, obj.members) :
              Becomes(l, [obj EXCEPT !.timer = FALSE, !.asg = new, !.job2 = obj.job,
                                     !.job = [stage |-> "map", map |-> new, todo |-> {},
                                              keep |-> Kept(old, obj.members),
                                              gone |-> Inactive(old, obj.members)]])
    /\ UNCHANGED <<process, consulVars, store, stranded>>

(* Of two reassignments under way the other one goes on.                   *)
Switch(l) ==
    /\ Alive(l) /\ leader[l].job2 # NoJob
    /\ Becomes(l, [leader[l] EXCEPT !.job = leader[l].job2, !.job2 = leader[l].job])
    /\ UNCHANGED <<process, consulVars, store, faults, stranded>>

(* Step 3, and the choice of the members that step 4 will serve.           *)
PutMapping(l) ==
    /\ Alive(l) /\ leader[l].job.stage = "map"
    /\ mapping' = leader[l].job.map
    /\ LET obj == leader[l]
       IN  Becomes(l, IF obj.members = None
                      THEN [obj EXCEPT !.job = NoJob, !.timer = TRUE]
                      ELSE [obj EXCEPT !.job = NextStage([obj.job EXCEPT
                              !.map = NoSlots, !.keep = {}, !.todo = obj.members \ obj.job.keep])])
    /\ UNCHANGED <<process, member, holder, assigned, store, faults, stranded>>

(* Step 4, for one member.                                                 *)
PutAssignment(l) ==
    /\ Alive(l) /\ leader[l].job.stage = "assign"
    /\ \E n \in leader[l].job.todo :
          /\ assigned' = [assigned EXCEPT ![n] = _get_core_data_id_from_instance(leader[l].asg, n)]
          /\ Becomes(l, [leader[l] EXCEPT !.job = NextStage([leader[l].job EXCEPT !.todo = @ \ {n}])])
    /\ UNCHANGED <<process, member, holder, mapping, store, faults, stranded>>

(* Step 5, for one member: first its assignment, then its record.          *)
DeleteAssignment(l) ==
    /\ Alive(l) /\ leader[l].job.stage = "delete"
    /\ \E n \in leader[l].job.gone :
          /\ assigned' = [assigned EXCEPT ![n] = None]
          /\ Becomes(l, [leader[l] EXCEPT !.job.stage = "forget", !.job.todo = {n}])
    /\ UNCHANGED <<process, member, holder, mapping, store, faults, stranded>>

DeleteRecord(l) ==
    /\ Alive(l) /\ leader[l].job.stage = "forget"
    /\ \E n \in leader[l].job.todo :
          LET job == leader[l].job
              done == [leader[l] EXCEPT !.job = NextStage([job EXCEPT !.todo = {}, !.gone = @ \ {n}])]
              after == [leader EXCEPT ![l] = Settled(done)]
          IN  /\ member' = [member EXCEPT ![n] = "absent"]
              /\ leader' = IF member[n] = "absent" THEN after ELSE Unread(after)
    /\ UNCHANGED <<process, holder, mapping, assigned, store, faults, stranded>>

-----------------------------------------------------------------------------
(* The Worker: the first core store it is assigned is its own for good.    *)
_track_my_assignments(n) ==
    /\ Up(n)
    /\ store[n] = None
    /\ assigned[n] \in CoreIds
    /\ store' = [store EXCEPT ![n] = assigned[n]]
    /\ UNCHANGED <<process, consulVars, leader, faults, stranded>>

-----------------------------------------------------------------------------
TrackMembers(l) == ReadMembers(l) \/ CheckMembers(l) \/ UpdateReferences(l)
ReadMapping(l) == GetMapping(l) \/ CreateMapping(l) \/ ReadBack(l)
WriteStores(l) == PutMapping(l) \/ PutAssignment(l) \/ DeleteAssignment(l) \/ DeleteRecord(l)

(* Nothing in the code keeps the read of the mapping from overlapping a    *)
(* reassignment of the same Leader (its answer may come after the soak     *)
(* time has passed or between the writes), nor two reassignments from      *)
(* overlapping.                                                            *)
InTurn(l) ==
    /\ UNCHANGED faults
    /\ \/ ReadMapping(l) /\ leader[l].job = NoJob
       \/ Reassign(l) /\ leader[l].maps = "off" /\ leader[l].job = NoJob

Overlap(l) ==
    /\ Fault
    /\ \/ ReadMapping(l) /\ leader[l].job # NoJob
       \/ Reassign(l) /\ (leader[l].maps # "off" \/ leader[l].job # NoJob)

(* Instances start, crash and are replaced; the lock of a crashed Leader   *)
(* passes on when its session has expired.                                 *)
Next ==
    \/ \E n \in Instances :
          Start(n) \/ Crash(n) \/ Expire(n) \/ Lead(n) \/ _track_my_assignments(n)
    \/ \E l \in Leaders : TrackMembers(l) \/ InTurn(l) \/ WriteStores(l)

(* Besides, the session of a running instance may lapse, which costs a     *)
(* Leader its lock and its members their records, and reads of the mapping *)
(* and reassignments may overlap.                                          *)
FaultyNext ==
    \/ Next
    \/ \E n \in Instances : Lapse(n) \/ Rejoin(n)
    \/ \E l \in Leaders : Stop(l) \/ Overlap(l) \/ Switch(l)

Spec == Init /\ [][Next]_vars
FaultySpec == Init /\ [][FaultyNext]_vars

(* The loops go on, requests are answered, timers fire and sessions of     *)
(* dead processes expire. A vacant lock may stay so.                       *)
FairSpec ==
    /\ Spec
    /\ \A n \in Instances : WF_vars(Expire(n)) /\ WF_vars(_track_my_assignments(n))
    /\ \A l \in Leaders :
          WF_vars(TrackMembers(l)) /\ WF_vars(InTurn(l)) /\ WF_vars(WriteStores(l))

-----------------------------------------------------------------------------
(* Properties *)

(* The mapping never gives one instance two core stores, whichever Leaders *)
(* write it, in whatever order their reads and writes interleave.          *)
MappingInjective ==
    mapping # None =>
        \A i, j \in Slots(mapping) : mapping[i] = mapping[j] /\ mapping[i] # None => i = j

(* As long as no session of a running process lapses and no read of the    *)
(* mapping overlaps a reassignment, the mapping names the owner of every   *)
(* core store in use: a running instance that took a store has the slot.   *)
StoreIsMapped ==
    \A n \in Instances :
        Up(n) /\ store[n] # None => mapping # None /\ store[n] \in Slots(mapping) /\ mapping[store[n]] = n

(* There are fewer active members than assignments, so Leaders wait.       *)
Short == _is_temporal_state(ActiveMembers)

(* A running member gets a core store, whichever Leaders die at whichever  *)
(* of their writes, if it and enough other members stay, the lock is       *)
(* granted to somebody again and again (which the coordinators do not      *)
(* guarantee, see Coordinator!LeaderElected), and no Leader died after it  *)
(* had mapped this member and before it assigned it.                       *)
MemberServed ==
    []<>(holder # None) =>
        \A n \in Instances : <>[](Up(n) /\ ~Short /\ n \notin stranded) => <>(store[n] # None)

(* main.py, lines 446-449: an instance picks up the data of an instance    *)
(* that died or stopped, never of one that runs.                           *)
UniqueStore ==
    \A m, n \in Instances : Up(m) /\ Up(n) /\ store[m] = store[n] /\ store[m] # None => m = n

(* leader.py, lines 111-114: upon a change of the member list the work is  *)
(* reassigned, so that a member gets its core store.                       *)
EveryMemberServed ==
    []<>(holder # None) =>
        \A n \in Instances : <>[](Up(n) /\ ~Short) => <>(store[n] # None)

(* leader.py, line 92: a Leader that is stopped suspends its duties        *)
(* immediately, and at least begins no reassignment.                       *)
HaltedReassignsNothing ==
    [][\A l \in Leaders :
          leader[l].state = "halted" => leader'[l].job = NoJob \/ leader[l].job # NoJob]_vars
=============================================================================
