-------------------------- MODULE CoreStoresProofs --------------------------
(***************************************************************************)
(* Proofs about the core store assignment, for every set of instances, any *)
(* number of terms, lapsed sessions, overlapping reads and reassignments.  *)
(***************************************************************************)
EXTENDS CoreStores, FiniteSetTheorems, WellFoundedInduction, TLAPS

Injective(map) ==
    \A i, j \in Slots(map) : map[i] = map[j] /\ map[i] # None => i = j

InjectiveMappings == {map \in Mappings : Injective(map)}

(* While a reassignment is under way its Leader has a mapping in hand.     *)
JobHasMapping(obj) == obj.job.stage # "none" \/ obj.job2.stage # "none" => obj.asg \in InjectiveMappings

Objects == LeaderObjects(InjectiveMappings)
GoodObjects == {obj \in Objects : JobHasMapping(obj)}

(* The inductive invariant. That the mapping in Consul is injective is not *)
(* enough: a Leader may write a mapping it computed from one that it read  *)
(* long ago, so every copy must be injective as well.                      *)
IInv == TypedOver(InjectiveMappings, GoodObjects)

-----------------------------------------------------------------------------
(* The operators of _reassign_core_stores *)

(* A mapping is a function from some core ids to instances or None.        *)
LEMMA MappingIsFunction ==
    ASSUME NEW map \in Mappings
    PROVE  /\ Slots(map) \subseteq CoreIds
           /\ map = [id \in Slots(map) |-> map[id]]
           /\ \A id \in Slots(map) : map[id] \in Instances \cup {None}
BY DEF Mappings, Slots

(* Conversely, such a function is a mapping.                               *)
LEMMA FunctionIsMapping ==
    ASSUME NEW S \in SUBSET CoreIds, NEW map \in [S -> Instances \cup {None}]
    PROVE  map \in Mappings
BY DEF Mappings

(* The empty mapping of _get_core_store_mappings is injective.             *)
LEMMA NoSlotsInjective == NoSlots \in InjectiveMappings
<1>1. NoSlots \in [{} -> Instances \cup {None}]
  BY DEF NoSlots
<1>2. NoSlots \in Mappings
  BY <1>1, FunctionIsMapping, Zenon
<1> QED
  BY <1>2 DEF InjectiveMappings, Injective, Slots, NoSlots

(* Steps 1 and 2 of _reassign_core_stores: from an injective mapping they  *)
(* make an injective one, since an instance that keeps its slot is not     *)
(* placed again and the new ones are placed in different slots.            *)
LEMMA UpdatedMappingsInjective ==
    ASSUME NEW map \in InjectiveMappings, NEW members \in SUBSET Instances,
           NEW result \in UpdatedMappings(map, members)
    PROVE  result \in InjectiveMappings
<1> DEFINE cleared == Cleared(map, members)
           new == members \ Kept(map, members)
           nextIds == {id \in CoreIds : /\ id > TopId(map)
                                        /\ id <= TopId(map) + Cardinality(new) - Cardinality(cleared)}
           result0(place) ==
              [id \in Slots(map) \cup nextIds |->
                 IF \E n \in new : place[n] = id THEN CHOOSE n \in new : place[n] = id
                 ELSE IF id \in Slots(map) \ cleared THEN map[id] ELSE None]
<1>1. PICK place \in Injection(new, cleared \cup nextIds) : result = result0(place)
  BY Zenon DEF UpdatedMappings
<1>2. nextIds \subseteq CoreIds
  OBVIOUS
<1>3. map \in Mappings /\ Injective(map)
  BY DEF InjectiveMappings
<1>4. Slots(map) \subseteq CoreIds /\ \A id \in Slots(map) : map[id] \in Instances \cup {None}
  BY <1>3, MappingIsFunction
<1>5. new \subseteq Instances
  OBVIOUS
<1>6. \A id \in Slots(map) \ cleared : map[id] \notin new
  BY DEF Kept
<1> HIDE DEF nextIds, cleared, new
<1>7. \A id \in Slots(map) \cup nextIds :
         \/ result[id] \in new /\ place[result[id]] = id
         \/ id \in Slots(map) \ cleared /\ result[id] = map[id]
         \/ result[id] = None
  BY <1>1
<1>8. Slots(result) = Slots(map) \cup nextIds /\ result = [id \in Slots(map) \cup nextIds |-> result[id]]
  BY <1>1 DEF Slots
<1>9. result \in Mappings
  <2>1. \A id \in Slots(map) \cup nextIds : result[id] \in Instances \cup {None}
    BY <1>7, <1>4, <1>5
  <2>2. result \in [Slots(map) \cup nextIds -> Instances \cup {None}]
    BY <2>1, <1>8
  <2> QED
    BY <2>2, <1>2, <1>4, FunctionIsMapping
<1>10. Injective(result)
  <2> SUFFICES ASSUME NEW i \in Slots(map) \cup nextIds, NEW j \in Slots(map) \cup nextIds,
                      result[i] = result[j], result[i] # None
               PROVE  i = j
    BY <1>8 DEF Injective
  <2>1. CASE result[i] \in new
    BY <2>1, <1>6, <1>7
  <2>2. CASE result[i] \notin new
    BY <2>2, <1>7, <1>3 DEF Injective
  <2> QED
    BY <2>1, <2>2
<1> QED
  BY <1>9, <1>10 DEF InjectiveMappings

(* Instances that are gone are instances, and so are those that stay.      *)
LEMMA LocalsTyped ==
    ASSUME NEW map \in InjectiveMappings, NEW members \in SUBSET Instances
    PROVE  Inactive(map, members) \subseteq Instances /\ Kept(map, members) \subseteq Instances
BY MappingIsFunction DEF InjectiveMappings, Inactive, Kept, Cleared

(* A slot that is looked up is a core id, or there is none.                *)
LEMMA IdTyped ==
    ASSUME NEW map \in InjectiveMappings, NEW n
    PROVE  _get_core_data_id_from_instance(map, n) \in CoreIds \cup {NoId}
BY MappingIsFunction DEF InjectiveMappings, _get_core_data_id_from_instance

-----------------------------------------------------------------------------
(* The Leader objects *)

(* A Leader that writes nothing has a job of the right type.               *)
LEMMA NoJobTyped == NoJob \in Jobs(InjectiveMappings)
BY NoSlotsInjective DEF NoJob, Jobs

(* A new Leader object is good, and so is a halted one.                    *)
LEMMA NewLeaderGood ==
    ASSUME NEW state \in {"none", "leading", "halted"}, NEW track \in {"off", "watch", "temporal", "stores"}
    PROVE  [NewLeader EXCEPT !.state = state, !.track = track] \in GoodObjects
BY NoJobTyped, Zenon DEF NewLeader, GoodObjects, Objects, LeaderObjects, JobHasMapping, NoJob

(* A halted Leader with nothing left to do is good.                        *)
LEMMA SettledGood ==
    ASSUME NEW obj \in GoodObjects
    PROVE  Settled(obj) \in GoodObjects
<1>1. [NewLeader EXCEPT !.state = "halted"] \in GoodObjects
  BY NoJobTyped, Zenon DEF NewLeader, GoodObjects, Objects, LeaderObjects, JobHasMapping, NoJob
<1> QED
  BY <1>1 DEF Settled

(* Whatever good object a Leader becomes, the Leaders are good objects.    *)
LEMMA BecomesGood ==
    ASSUME leader \in [Leaders -> GoodObjects], NEW l \in Leaders, NEW obj \in GoodObjects,
           Becomes(l, obj)
    PROVE  leader' \in [Leaders -> GoodObjects]
BY SettledGood DEF Becomes

(* A change of the watched keys leaves the objects good.                   *)
LEMMA UnreadGood ==
    ASSUME NEW objects \in [Leaders -> GoodObjects]
    PROVE  Unread(objects) \in [Leaders -> GoodObjects]
<1>1. ASSUME NEW obj \in GoodObjects
      PROVE  [obj EXCEPT !.fresh = FALSE] \in GoodObjects
  BY Zenon DEF GoodObjects, Objects, LeaderObjects, JobHasMapping
<1> QED
  BY <1>1 DEF Unread

(* The next stage of a job is one.                                         *)
LEMMA NextStageTyped ==
    ASSUME NEW job \in Jobs(InjectiveMappings)
    PROVE  NextStage(job) \in Jobs(InjectiveMappings)
BY NoJobTyped DEF NextStage, Jobs

(* A new job of an object that has a mapping in hand.                      *)
LEMMA NewJobGood ==
    ASSUME NEW obj \in Objects, obj.asg \in InjectiveMappings, NEW job \in Jobs(InjectiveMappings)
    PROVE  [obj EXCEPT !.job = job] \in GoodObjects
BY DEF GoodObjects, Objects, LeaderObjects, JobHasMapping

-----------------------------------------------------------------------------
(* The initial states, and one lemma for each group of actions *)

(* The initial states: no mapping, no Leader.                              *)
LEMMA InitIInv == Init => IInv
<1> SUFFICES ASSUME Init PROVE IInv
  OBVIOUS
<1>1. NewLeader \in GoodObjects
  BY NoJobTyped DEF NewLeader, GoodObjects, Objects, LeaderObjects, JobHasMapping, NoJob
<1>2. leader \in [Leaders -> GoodObjects]
  BY <1>1 DEF Init
<1>3. faults \in 0..MaxFaults
  BY BoundsAssumption DEF Init
<1>4. assigned \in [Instances -> CoreIds \cup {NoId, None}] /\ store \in [Instances -> CoreIds \cup {None}]
  BY DEF Init
<1> QED
  BY <1>2, <1>3, <1>4, Zenon DEF Init, IInv, TypedOver

(* Processes, sessions, the lock and the Worker change no mapping.         *)
LEMMA InstanceStep ==
    ASSUME IInv, NEW n \in Instances,
           \/ Start(n) \/ Crash(n) \/ Expire(n) \/ Lapse(n) \/ Rejoin(n) \/ Lead(n)
           \/ _track_my_assignments(n)
    PROVE  IInv'
<1> USE DEF IInv, TypedOver
<1>1. Unread(leader) \in [Leaders -> GoodObjects]
  BY UnreadGood
<1>2. CASE Start(n)
  BY <1>1, <1>2 DEF Start
<1>3. CASE Crash(n)
  <2>1. NewLeader \in GoodObjects
    BY NoJobTyped DEF NewLeader, GoodObjects, Objects, LeaderObjects, JobHasMapping, NoJob
  <2>2. leader' \in [Leaders -> GoodObjects]
    BY <1>3, <2>1 DEF Crash
  <2>3. stranded' \in SUBSET Instances
    <3>1. \A l \in Leaders : leader[l].job.todo \subseteq Instances /\ leader[l].job2.todo \subseteq Instances
      BY DEF GoodObjects, Objects, LeaderObjects, Jobs
    <3>2. \A l \in Leaders : Unassigned(leader[l].job) \cup Unassigned(leader[l].job2) \subseteq Instances
      BY <3>1 DEF Unassigned
    <3> QED
      BY <1>3, <3>2, Zenon DEF Crash
  <2> QED
    BY <1>3, <2>2, <2>3 DEF Crash, consulVars
<1>4. CASE Release(n) /\ faults' \in 0..MaxFaults
  BY <1>1, <1>4 DEF Release
<1>5. CASE Expire(n)
  BY <1>4, <1>5 DEF Expire
<1>6. CASE Lapse(n)
  BY <1>4, <1>6, BoundsAssumption DEF Lapse, Fault
<1>7. CASE Rejoin(n)
  BY <1>1, <1>7 DEF Rejoin
<1>8. CASE Lead(n)
  <2>1. PICK l \in Leaders :
          leader' = [leader EXCEPT ![l] = [NewLeader EXCEPT !.state = "leading", !.track = "watch"]]
    BY <1>8, Zenon DEF Lead
  <2>2. leader' \in [Leaders -> GoodObjects]
    BY <2>1, NewLeaderGood
  <2> QED
    BY <1>8, <2>2 DEF Lead
<1>9. CASE _track_my_assignments(n)
  BY <1>9 DEF _track_my_assignments, consulVars
<1> QED
  BY <1>2, <1>3, <1>5, <1>6, <1>7, <1>8, <1>9

(* _track_members and Leader.stop.                                         *)
LEMMA TrackStep ==
    ASSUME IInv, NEW l \in Leaders, Stop(l) \/ TrackMembers(l) \/ Switch(l)
    PROVE  IInv'
<1> USE DEF IInv, TypedOver
<1> DEFINE obj == leader[l]
<1>1. obj \in GoodObjects
  OBVIOUS
<1>2. ASSUME NEW next \in GoodObjects, Becomes(l, next),
             UNCHANGED <<process, consulVars, store, faults, stranded>>
      PROVE  IInv'
  BY <1>2, BecomesGood DEF consulVars
<1>3. CASE Stop(l)
  <2>1. [obj EXCEPT !.state = "halted", !.timer = FALSE] \in GoodObjects
    BY <1>1, Zenon DEF GoodObjects, Objects, LeaderObjects, JobHasMapping
  <2> QED
    BY <1>2, <1>3, <2>1 DEF Stop
<1>4. CASE ReadMembers(l)
  <2>1. ActiveMembers \in (SUBSET Instances) \cup {None}
    BY DEF ActiveMembers, _sanitize_member_list
  <2>2. [obj EXCEPT !.track = "off"] \in GoodObjects
    BY <1>1 DEF GoodObjects, Objects, LeaderObjects, JobHasMapping
  <2>3. [obj EXCEPT !.track = "temporal", !.fresh = TRUE, !.read = ActiveMembers] \in GoodObjects
    BY <1>1, <2>1, Zenon DEF GoodObjects, Objects, LeaderObjects, JobHasMapping
  <2> QED
    BY <1>2, <1>4, <2>2, <2>3 DEF ReadMembers
<1>5. CASE CheckMembers(l)
  <2> DEFINE seen == [obj EXCEPT !.track = Relatch(obj), !.read = {}]
             asks == [obj EXCEPT !.track = "stores"]
  <2>1. Relatch(obj) \in {"off", "watch"}
    BY DEF Relatch
  <2>2. seen \in GoodObjects
    BY <1>1, <2>1, Zenon DEF GoodObjects, Objects, LeaderObjects, JobHasMapping
  <2>3. asks \in GoodObjects
    BY <1>1, Zenon DEF GoodObjects, Objects, LeaderObjects, JobHasMapping
  <2>4. Becomes(l, asks) \/ Becomes(l, seen)
    BY <1>5 DEF CheckMembers
  <2> HIDE DEF seen, asks
  <2> QED
    BY <1>2, <1>5, <2>2, <2>3, <2>4 DEF CheckMembers
<1>6. CASE UpdateReferences(l)
  <2> DEFINE due == [obj EXCEPT !.track = Relatch(obj), !.read = {},
                                !.maps = "get", !.members = obj.read, !.timer = TRUE]
  <2>1. Relatch(obj) \in {"off", "watch"}
    BY DEF Relatch
  <2>2. obj.read \in (SUBSET Instances) \cup {None}
    BY <1>1 DEF GoodObjects, Objects, LeaderObjects
  <2>3. due \in GoodObjects
    BY <1>1, <2>1, <2>2, Zenon DEF GoodObjects, Objects, LeaderObjects, JobHasMapping
  <2>4. Becomes(l, due)
    BY <1>6 DEF UpdateReferences
  <2> HIDE DEF due
  <2> QED
    BY <1>2, <1>6, <2>3, <2>4 DEF UpdateReferences
<1>7. CASE Switch(l)
  <2> DEFINE next == [obj EXCEPT !.job = obj.job2, !.job2 = obj.job]
  <2>1. obj.job \in Jobs(InjectiveMappings) /\ obj.job2 \in Jobs(InjectiveMappings)
    BY <1>1 DEF GoodObjects, Objects, LeaderObjects
  <2>2. next \in GoodObjects
    BY <1>1, <2>1, Zenon DEF GoodObjects, Objects, LeaderObjects, JobHasMapping
  <2>3. Becomes(l, next)
    BY <1>7 DEF Switch
  <2> HIDE DEF next
  <2> QED
    BY <1>2, <1>7, <2>2, <2>3 DEF Switch
<1> QED
  BY <1>3, <1>4, <1>5, <1>6, <1>7 DEF TrackMembers

(* The read of the mapping and the start of a reassignment, in turn or not.*)
LEMMA MappingStep ==
    ASSUME IInv, NEW l \in Leaders, ReadMapping(l) \/ Reassign(l), faults' \in 0..MaxFaults
    PROVE  IInv'
<1> USE DEF IInv, TypedOver
<1> DEFINE obj == leader[l]
<1>1. obj \in GoodObjects
  OBVIOUS
<1>2. CASE GetMapping(l)
  <2>1. [obj EXCEPT !.maps = "create"] \in GoodObjects
    BY <1>1 DEF GoodObjects, Objects, LeaderObjects, JobHasMapping
  <2>2. ASSUME mapping # None PROVE [obj EXCEPT !.maps = "off", !.asg = mapping] \in GoodObjects
    BY <1>1, <2>2, Zenon DEF GoodObjects, Objects, LeaderObjects, JobHasMapping
  <2>3. leader' \in [Leaders -> GoodObjects]
    BY <1>2, <2>1, <2>2, BecomesGood DEF GetMapping
  <2> QED
    BY <1>2, <2>3 DEF GetMapping, consulVars
<1>3. CASE CreateMapping(l)
  <2>1. [obj EXCEPT !.maps = "readback"] \in GoodObjects
    BY <1>1, Zenon DEF GoodObjects, Objects, LeaderObjects, JobHasMapping
  <2>2. leader' \in [Leaders -> GoodObjects]
    BY <1>3, <2>1, BecomesGood DEF CreateMapping
  <2> QED
    BY <1>3, <2>2, NoSlotsInjective DEF CreateMapping
<1>5. CASE ReadBack(l)
  <2>1. mapping # None
    BY <1>5 DEF ReadBack
  <2>2. [obj EXCEPT !.maps = "off", !.asg = mapping] \in GoodObjects
    BY <1>1, <2>1, Zenon DEF GoodObjects, Objects, LeaderObjects, JobHasMapping
  <2>3. leader' \in [Leaders -> GoodObjects]
    BY <1>5, <2>2, BecomesGood DEF ReadBack
  <2> QED
    BY <1>5, <2>3 DEF ReadBack, consulVars
<1>4. CASE Reassign(l)
  <2> DEFINE old == IF obj.asg = None THEN NoSlots ELSE obj.asg
             job(new) == [stage |-> "map", map |-> new, todo |-> {},
                          keep |-> Kept(old, obj.members), gone |-> Inactive(old, obj.members)]
  <2>1. obj.members \in SUBSET Instances
    BY <1>1, <1>4, Zenon DEF Reassign, GoodObjects, Objects, LeaderObjects
  <2>2. old \in InjectiveMappings
    BY <1>1, NoSlotsInjective DEF GoodObjects, Objects, LeaderObjects
  <2>3. PICK new \in UpdatedMappings(old, obj.members) :
          Becomes(l, [obj EXCEPT !.timer = FALSE, !.asg = new, !.job2 = obj.job, !.job = job(new)])
    BY <1>4, Zenon DEF Reassign
  <2> HIDE DEF old
  <2>4. new \in InjectiveMappings
    BY <2>1, <2>2, UpdatedMappingsInjective
  <2>5. job(new) \in Jobs(InjectiveMappings)
    BY <2>1, <2>2, <2>4, LocalsTyped DEF Jobs
  <2> HIDE DEF job
  <2>6. [obj EXCEPT !.timer = FALSE, !.asg = new, !.job2 = obj.job, !.job = job(new)] \in GoodObjects
    BY <1>1, <2>4, <2>5, Zenon DEF GoodObjects, Objects, LeaderObjects, JobHasMapping
  <2>7. leader' \in [Leaders -> GoodObjects]
    BY <2>3, <2>6, BecomesGood
  <2> QED
    BY <1>4, <2>7, Zenon DEF Reassign, consulVars
<1> QED
  BY <1>2, <1>3, <1>4, <1>5 DEF ReadMapping

(* The writes of a reassignment.                                           *)
LEMMA WriteStep ==
    ASSUME IInv, NEW l \in Leaders, WriteStores(l)
    PROVE  IInv'
<1> USE DEF IInv, TypedOver
<1> DEFINE obj == leader[l]
<1>1. obj \in Objects /\ obj.job \in Jobs(InjectiveMappings)
  BY DEF GoodObjects, Objects, LeaderObjects
<1>2. ASSUME obj.job.stage # "none", NEW job \in Jobs(InjectiveMappings)
      PROVE  [obj EXCEPT !.job = job] \in GoodObjects
  <2>1. obj.asg \in InjectiveMappings
    BY <1>2 DEF GoodObjects, JobHasMapping
  <2> QED
    BY <1>1, <2>1, NewJobGood
<1>3. CASE PutMapping(l)
  <2> DEFINE job == [obj.job EXCEPT !.map = NoSlots, !.keep = {}, !.todo = obj.members \ obj.job.keep]
  <2>1. mapping' \in InjectiveMappings
    BY <1>1, <1>3 DEF PutMapping, Jobs
  <2>2. [obj EXCEPT !.job = NoJob, !.timer = TRUE] \in GoodObjects
    BY <1>1, NoJobTyped, Zenon DEF GoodObjects, Objects, LeaderObjects, JobHasMapping, NoJob
  <2>3. ASSUME obj.members # None PROVE [obj EXCEPT !.job = NextStage(job)] \in GoodObjects
    <3>1. obj.members \in SUBSET Instances
      BY <1>1, <2>3 DEF Objects, LeaderObjects
    <3>2. job \in Jobs(InjectiveMappings)
      BY <1>1, <3>1, NoSlotsInjective, Zenon DEF Jobs
    <3>3. obj.job.stage # "none"
      BY <1>3 DEF PutMapping
    <3> HIDE DEF job, obj
    <3> QED
      BY <1>2, <3>2, <3>3, NextStageTyped
  <2>4. leader' \in [Leaders -> GoodObjects]
    BY <1>3, <2>2, <2>3, BecomesGood DEF PutMapping
  <2> QED
    BY <1>3, <2>1, <2>4 DEF PutMapping
<1>4. CASE PutAssignment(l)
  <2> DEFINE job(n) == [obj.job EXCEPT !.todo = @ \ {n}]
  <2>1. PICK n \in obj.job.todo :
          /\ assigned' = [assigned EXCEPT ![n] = _get_core_data_id_from_instance(obj.asg, n)]
          /\ Becomes(l, [obj EXCEPT !.job = NextStage(job(n))])
    BY <1>4, Zenon DEF PutAssignment
  <2>2. obj.job.stage # "none"
    BY <1>4 DEF PutAssignment
  <2>3. obj.asg \in InjectiveMappings
    BY <2>2 DEF GoodObjects, JobHasMapping
  <2>4. _get_core_data_id_from_instance(obj.asg, n) \in CoreIds \cup {NoId}
    BY <2>3, IdTyped
  <2>5. job(n) \in Jobs(InjectiveMappings)
    BY <1>1 DEF Jobs
  <2> HIDE DEF job
  <2>6. [obj EXCEPT !.job = NextStage(job(n))] \in GoodObjects
    BY <1>2, <2>2, <2>5, NextStageTyped
  <2>7. leader' \in [Leaders -> GoodObjects]
    BY <2>1, <2>6, BecomesGood
  <2>8. assigned' \in [Instances -> CoreIds \cup {NoId, None}]
    BY <2>1, <2>4, Zenon
  <2> QED
    BY <1>4, <2>7, <2>8 DEF PutAssignment
<1>5. CASE DeleteAssignment(l)
  <2>1. PICK n \in obj.job.gone :
          /\ assigned' = [assigned EXCEPT ![n] = None]
          /\ Becomes(l, [obj EXCEPT !.job.stage = "forget", !.job.todo = {n}])
    BY <1>5, Zenon DEF DeleteAssignment
  <2>2. obj.job.stage # "none"
    BY <1>5 DEF DeleteAssignment
  <2>3. obj.asg \in InjectiveMappings
    BY <2>2 DEF GoodObjects, JobHasMapping
  <2>4. n \in Instances
    BY <1>1 DEF Jobs
  <2>5. [obj EXCEPT !.job.stage = "forget", !.job.todo = {n}] \in GoodObjects
    BY <1>1, <2>3, <2>4, Zenon DEF GoodObjects, Objects, LeaderObjects, JobHasMapping, Jobs
  <2>6. leader' \in [Leaders -> GoodObjects]
    BY <2>1, <2>5, BecomesGood
  <2>7. assigned' \in [Instances -> CoreIds \cup {NoId, None}]
    BY <2>1, Zenon
  <2> QED
    BY <1>5, <2>6, <2>7 DEF DeleteAssignment
<1>6. CASE DeleteRecord(l)
  <2> DEFINE job(n) == [obj.job EXCEPT !.todo = {}, !.gone = @ \ {n}]
             after(n) == [leader EXCEPT ![l] = Settled([obj EXCEPT !.job = NextStage(job(n))])]
  <2>1. PICK n \in obj.job.todo :
          /\ member' = [member EXCEPT ![n] = "absent"]
          /\ leader' = IF member[n] = "absent" THEN after(n) ELSE Unread(after(n))
    BY <1>6, Zenon DEF DeleteRecord
  <2>2. obj.job.stage # "none"
    BY <1>6 DEF DeleteRecord
  <2>3. job(n) \in Jobs(InjectiveMappings)
    BY <1>1, Zenon DEF Jobs
  <2> HIDE DEF job
  <2>4. [obj EXCEPT !.job = NextStage(job(n))] \in GoodObjects
    BY <1>2, <2>2, <2>3, NextStageTyped
  <2>5. Settled([obj EXCEPT !.job = NextStage(job(n))]) \in GoodObjects
    BY <2>4, SettledGood
  <2>6. after(n) \in [Leaders -> GoodObjects]
    BY <2>5
  <2> HIDE DEF after
  <2>7. leader' \in [Leaders -> GoodObjects]
    BY <2>1, <2>6, UnreadGood
  <2>8. member' \in [Instances -> {"absent", "active", "released"}]
    BY <2>1, Zenon
  <2> QED
    BY <1>6, <2>7, <2>8, Zenon DEF DeleteRecord
<1> QED
  BY <1>3, <1>4, <1>5, <1>6 DEF WriteStores

(* Every step, with faults or without, preserves the invariant.            *)
LEMMA NextIInv == IInv /\ [FaultyNext]_vars => IInv'
<1> SUFFICES ASSUME IInv, [FaultyNext]_vars PROVE IInv'
  OBVIOUS
<1>1. ASSUME NEW l \in Leaders, InTurn(l) \/ Overlap(l) PROVE IInv'
  <2>1. faults' \in 0..MaxFaults
    BY <1>1, BoundsAssumption DEF InTurn, Overlap, Fault, IInv, TypedOver
  <2>2. ReadMapping(l) \/ Reassign(l)
    BY <1>1 DEF InTurn, Overlap
  <2> QED
    BY <2>1, <2>2, MappingStep
<1>2. CASE UNCHANGED vars
  BY <1>2 DEF vars, IInv, TypedOver
<1>3. CASE FaultyNext
  BY <1>1, <1>3, InstanceStep, TrackStep, WriteStep DEF FaultyNext, Next
<1> QED
  BY <1>2, <1>3

-----------------------------------------------------------------------------
(* The inductive invariant holds whatever faults happen.                   *)
THEOREM Invariance == FaultySpec => []IInv
BY InitIInv, NextIInv, PTL DEF FaultySpec

(* No two slots of the mapping hold one instance: _reassign_core_stores    *)
(* keeps this even when it works on a mapping that other Leaders have      *)
(* replaced since, when a lapsed Leader goes on writing, and when the read *)
(* of the mapping comes in between.                                        *)
THEOREM OneStorePerInstance == FaultySpec => []MappingInjective
<1>1. IInv => MappingInjective
  BY DEF IInv, TypedOver, InjectiveMappings, Injective, MappingInjective
<1> QED
  BY <1>1, Invariance, PTL

(* The keys in Consul and the Leaders and Workers have their types; in     *)
(* particular a member is only ever assigned a core id or an empty value.  *)
THEOREM TypeCorrect == FaultySpec => []TypeOK
<1>1. IInv => TypeOK
  <2> SUFFICES ASSUME IInv PROVE TypeOK
    OBVIOUS
  <2>1. InjectiveMappings \subseteq Mappings
    BY DEF InjectiveMappings
  <2>2. ASSUME NEW obj \in GoodObjects PROVE obj \in LeaderObjects(Mappings)
    BY <2>1 DEF GoodObjects, Objects, LeaderObjects, Jobs
  <2>3. leader \in [Leaders -> LeaderObjects(Mappings)]
    BY <2>2 DEF IInv, TypedOver
  <2> QED
    BY <2>1, <2>3 DEF IInv, TypedOver, TypeOK
<1> QED
  BY <1>1, Invariance, PTL

-----------------------------------------------------------------------------
(* Without faults: the mapping names the owner of every store in use *)

Started == {n \in Instances : process[n] # "off"}
Running == {n \in Instances : Up(n)}
In(map) == {map[id] : id \in Slots(map)}
Mapped(map, n, id) == map # None /\ id \in Slots(map) /\ map[id] = n
Leads(l) == leader[l].state # "none"

(* There is one Leader at most, and its process holds the lock.            *)
OneLeader ==
    \A l \in Leaders : Leads(l) =>
        /\ leader[l].state = "leading" /\ holder = Host(l) /\ Host(l) \in Running
        /\ \A k \in Leaders : Leads(k) => k = l

(* The records of running processes are active, instances that were not    *)
(* started have left no trace, and of the instances with one number the    *)
(* running one was started last.                                           *)
RecordsFit ==
    /\ \A n \in Running : member[n] = "active"
    /\ \A n \in Instances \ Started : member[n] = "absent" /\ assigned[n] = None /\ store[n] = None
    /\ \A m \in Started, n \in Instances :
          voltha_number[m] = voltha_number[n] /\ (n \in Running \/ n \notin Started)
             => timestamp[m] <= timestamp[n]

(* What a Leader knows of the members: every running instance with a slot  *)
(* in map, the mapping of Consul, or in its own copy is among the members  *)
(* it has read, and among those it will reassign the stores for.           *)
KnowsMembers(obj, map, started, running) ==
    /\ obj.members \subseteq started /\ obj.members # None
    /\ obj.read \subseteq started /\ obj.read # None
    /\ obj.track \in {"temporal", "stores"} =>
          /\ obj.members \cap running \subseteq obj.read
          /\ map # None => In(map) \cap running \subseteq obj.read
          /\ obj.asg # None => In(obj.asg) \cap running \subseteq obj.read
    /\ obj.timer \/ obj.job.stage # "none" =>
          /\ map # None => In(map) \cap running \subseteq obj.members
          /\ obj.asg # None => In(obj.asg) \cap running \subseteq obj.members

(* What it knows of the mapping: but for the write that is due its copy is *)
(* the mapping of Consul, and the timer finds a copy.                      *)
KnowsMapping(obj, map, started, running) ==
    /\ obj.asg # None /\ obj.job.stage # "map" => map = obj.asg
    /\ obj.asg # None => In(obj.asg) \subseteq started \cup {None}
    /\ obj.timer => obj.maps # "off" \/ obj.asg # None
    /\ obj.maps = "create" => map = None /\ obj.asg = None /\ obj.job.stage = "none"
    /\ obj.maps = "readback" => map = NoSlots /\ obj.asg = None /\ obj.job.stage = "none"

(* The mapping that is due leaves running instances their slots, and only  *)
(* those that have ended lose assignment and record.                       *)
JobFits(obj, map, started, running) ==
    /\ obj.job.stage = "map" =>
          /\ obj.job.map = obj.asg
          /\ \A n \in running, id \in CoreIds : Mapped(map, n, id) => Mapped(obj.asg, n, id)
    /\ obj.job.todo \subseteq started
    /\ obj.job.gone \subseteq started \ running
    /\ obj.job.stage = "forget" => obj.job.todo \subseteq obj.job.gone

Knows(obj, map, started, running) ==
    /\ KnowsMembers(obj, map, started, running)
    /\ KnowsMapping(obj, map, started, running)
    /\ JobFits(obj, map, started, running)

LeaderKnows == \A l \in Leaders : Leads(l) => Knows(leader[l], mapping, Started, Running)

(* The assignments and the stores of running instances are those of the    *)
(* mapping, which names no instance that was not started.                  *)
StoresMapped ==
    /\ mapping # None => In(mapping) \subseteq Started \cup {None}
    /\ \A n \in Running :
          /\ assigned[n] \in CoreIds => Mapped(mapping, n, assigned[n])
          /\ store[n] # None => Mapped(mapping, n, store[n])

(* The inductive invariant for a system without faults. That stores are    *)
(* those of the mapping depends on the Leader: it must not write a mapping *)
(* that takes a slot from a running instance, so it must know of every     *)
(* running instance that has one, at each of its steps.                    *)
SInv == OneLeader /\ RecordsFit /\ LeaderKnows /\ StoresMapped

-----------------------------------------------------------------------------
(* What _reassign_core_stores keeps *)

(* A nonempty set of core ids has a greatest one.                          *)
LEMMA GreatestId ==
    ASSUME NEW S \in SUBSET CoreIds, S # {}
    PROVE  \E id \in S : \A other \in S : other <= id
<1> DEFINE N == Cardinality(Instances)
           T == {N - id : id \in S}
           R == {ss \in Nat \X Nat : ss[1] < ss[2]}
<1>1. N \in Nat
  BY InstancesAssumption, FS_CardinalityType
<1>2. \A id \in S : id \in Nat /\ id <= N
  BY <1>1 DEF CoreIds
<1>3. T \subseteq Nat /\ T # {}
  BY <1>1, <1>2
<1>4. IsWellFoundedOn(R, Nat)
  BY NatLessThanWellFounded, Zenon DEF OpToRel
<1> HIDE DEF N, R, T
<1>5. PICK x \in T : \A y \in T : ~ (<<y, x>> \in R)
  BY <1>3, <1>4, WFMin, Zenon
<1>6. \A y \in T : x <= y
  <2> SUFFICES ASSUME NEW y \in T PROVE x <= y
    OBVIOUS
  <2>1. x \in Nat /\ y \in Nat
    BY <1>3
  <2>2. ~(<<y, x>>[1] < <<y, x>>[2])
    BY <1>5, <2>1, Zenon DEF R
  <2> QED
    BY <2>1, <2>2
<1>7. PICK id \in S : x = N - id
  BY <1>5 DEF T
<1>8. \A other \in S : N - id <= N - other
  BY <1>6, <1>7 DEF T
<1>9. \A other \in S : other <= id
  BY <1>1, <1>2, <1>8
<1> QED
  BY <1>9

(* No slot of a mapping is above its top id.                               *)
LEMMA TopIdBound ==
    ASSUME NEW map \in Mappings
    PROVE  \A id \in Slots(map) : id <= TopId(map)
BY MappingIsFunction, GreatestId DEF TopId

(* An updated mapping keeps the slots of the members it is made for, and   *)
(* holds nobody else.                                                      *)
LEMMA UpdatedMappingsKeep ==
    ASSUME NEW map \in InjectiveMappings, NEW members \in SUBSET Instances,
           NEW result \in UpdatedMappings(map, members)
    PROVE  /\ In(result) \subseteq members \cup {None}
           /\ \A id \in Slots(map) : map[id] \in members => id \in Slots(result) /\ result[id] = map[id]
<1> DEFINE cleared == Cleared(map, members)
           new == members \ Kept(map, members)
           nextIds == {id \in CoreIds : /\ id > TopId(map)
                                        /\ id <= TopId(map) + Cardinality(new) - Cardinality(cleared)}
           result0(place) ==
              [id \in Slots(map) \cup nextIds |->
                 IF \E n \in new : place[n] = id THEN CHOOSE n \in new : place[n] = id
                 ELSE IF id \in Slots(map) \ cleared THEN map[id] ELSE None]
<1>1. PICK place \in Injection(new, cleared \cup nextIds) : result = result0(place)
  BY Zenon DEF UpdatedMappings
<1>2. map \in Mappings
  BY DEF InjectiveMappings
<1>3. \A id \in Slots(map) : id \notin nextIds
  <2>1. Slots(map) \subseteq CoreIds
    BY <1>2, MappingIsFunction
  <2>2. TopId(map) \in Nat
    BY <1>2, MappingIsFunction, GreatestId DEF TopId, CoreIds
  <2>3. \A id \in Slots(map) : id \in Nat /\ id <= TopId(map)
    BY <1>2, <2>1, TopIdBound, InstancesAssumption, FS_CardinalityType DEF CoreIds
  <2> QED
    BY <2>2, <2>3
<1>4. \A id \in Slots(map) : id \notin cleared <=> map[id] \in members
  BY DEF Cleared
<1>5. \A n \in new : place[n] \in cleared \cup nextIds
  BY DEF Injection
<1>6. new \subseteq members
  OBVIOUS
<1> HIDE DEF cleared, new, nextIds
<1>7. Slots(result) = Slots(map) \cup nextIds
  BY <1>1 DEF Slots
<1>8. \A id \in Slots(result) : result[id] \in members \cup {None}
  BY <1>1, <1>4, <1>6, <1>7
<1>9. \A id \in Slots(map) : map[id] \in members => result[id] = map[id]
  BY <1>1, <1>3, <1>4, <1>5
<1> QED
  BY <1>7, <1>8, <1>9 DEF In
-----------------------------------------------------------------------------
(* What a Leader knows, from one step to the next *)

(* That the member list is to be read again is no part of it.              *)
LEMMA UnreadKnows ==
    ASSUME NEW obj \in Objects, NEW map, NEW started, NEW running
    PROVE  /\ [obj EXCEPT !.fresh = FALSE].state = obj.state
           /\ Knows(obj, map, started, running) =>
                 Knows([obj EXCEPT !.fresh = FALSE], map, started, running)
BY DEF Objects, LeaderObjects, Knows, KnowsMembers, KnowsMapping, JobFits

(* An instance that is started has no slot yet.                            *)
LEMMA StartKnows ==
    ASSUME NEW obj, NEW map, NEW started, NEW running, Knows(obj, map, started, running),
           map # None => In(map) \subseteq started \cup {None},
           NEW n, n \notin started, n # None
    PROVE  Knows(obj, map, started \cup {n}, running \cup {n})
<1>1. map # None => n \notin In(map)
  OBVIOUS
<1>2. obj.asg # None => n \notin In(obj.asg)
  BY DEF Knows, KnowsMapping
<1>3. KnowsMembers(obj, map, started \cup {n}, running \cup {n})
  BY <1>1, <1>2 DEF Knows, KnowsMembers
<1>4. KnowsMapping(obj, map, started \cup {n}, running \cup {n})
  BY DEF Knows, KnowsMapping
<1>5. \A id \in CoreIds : ~Mapped(map, n, id)
  BY <1>1 DEF Mapped, In
<1>6. JobFits(obj, map, started \cup {n}, running \cup {n})
  BY <1>5 DEF Knows, JobFits
<1> QED
  BY <1>3, <1>4, <1>6 DEF Knows

(* What is known of the running instances is known of fewer.               *)
LEMMA CrashKnows ==
    ASSUME NEW obj, NEW map, NEW started, NEW running, Knows(obj, map, started, running), NEW n
    PROVE  Knows(obj, map, started, running \ {n})
<1>1. KnowsMembers(obj, map, started, running \ {n})
  BY DEF Knows, KnowsMembers
<1>2. KnowsMapping(obj, map, started, running \ {n})
  BY DEF Knows, KnowsMapping
<1>3. JobFits(obj, map, started, running \ {n})
  BY DEF Knows, JobFits
<1> QED
  BY <1>1, <1>2, <1>3 DEF Knows

(* A new Leader knows nothing, and there is nothing that it should.        *)
LEMMA NewLeaderKnows ==
    ASSUME NEW map, NEW started, NEW running
    PROVE  Knows([NewLeader EXCEPT !.state = "leading", !.track = "watch"], map, started, running)
<1> DEFINE obj == [NewLeader EXCEPT !.state = "leading", !.track = "watch"]
<1>1. /\ obj.members = {} /\ obj.read = {} /\ obj.track = "watch" /\ obj.asg = None
      /\ obj.maps = "off" /\ obj.timer = FALSE /\ obj.job = NoJob
  BY DEF NewLeader
<1>2. {} # None
  BY NoneAssumption
<1> HIDE DEF obj
<1>3. Knows(obj, map, started, running)
  BY <1>1, <1>2 DEF Knows, KnowsMembers, KnowsMapping, JobFits, NoJob
<1> QED
  BY <1>3 DEF obj

(* The Leader that takes a step is the only one, and was not stopped.      *)
LEMMA OnlyLeader ==
    ASSUME OneLeader, NEW l \in Leaders, Alive(l)
    PROVE  /\ leader[l].state = "leading" /\ Host(l) \in Running /\ holder = Host(l)
           /\ \A k \in Leaders : k # l => ~Leads(k)
BY DEF OneLeader, Alive, Leads

(* The only Leader becomes obj, which is none that was stopped.            *)
Goes(l, obj) ==
    /\ Becomes(l, obj) /\ obj.state = "leading"
    /\ UNCHANGED <<process, holder>>

(* A step of the Leader preserves the invariant if it leaves the records   *)
(* and stores right and the Leader still knows what it should.             *)
LEMMA LeaderStep ==
    ASSUME IInv, SInv, NEW l \in Leaders, Alive(l), NEW obj, Goes(l, obj),
           Knows(obj, mapping', Started, Running), RecordsFit', StoresMapped'
    PROVE  SInv'
<1>1. /\ leader[l].state = "leading" /\ Host(l) \in Running /\ holder = Host(l)
      /\ \A k \in Leaders : k # l => ~Leads(k)
  BY OnlyLeader DEF SInv
<1>2. leader' = [leader EXCEPT ![l] = obj]
  BY DEF Goes, Becomes, Settled
<1>3. leader'[l] = obj /\ \A k \in Leaders : k # l => leader'[k] = leader[k]
  BY <1>2 DEF IInv, TypedOver
<1>4. Started' = Started /\ Running' = Running
  BY DEF Goes, Started, Running, Up
<1>5. \A k \in Leaders : Leads(k)' => k = l
  BY <1>1, <1>3 DEF Leads
<1>6. OneLeader'
  <2> SUFFICES ASSUME NEW k \in Leaders, Leads(k)'
               PROVE  /\ leader'[k].state = "leading" /\ holder' = Host(k) /\ Host(k) \in Running'
                      /\ \A j \in Leaders : Leads(j)' => j = k
    BY DEF OneLeader
  <2> QED
    BY <1>1, <1>3, <1>4, <1>5 DEF Goes
<1>7. LeaderKnows'
  BY <1>3, <1>4, <1>5 DEF LeaderKnows
<1> QED
  BY <1>6, <1>7 DEF SInv

(* A step that changes no record, assignment, store or mapping leaves them *)
(* right.                                                                  *)
LEMMA RecordsStep ==
    ASSUME SInv, UNCHANGED <<process, consulVars, store>>
    PROVE  RecordsFit' /\ StoresMapped'
BY DEF SInv, RecordsFit, StoresMapped, consulVars, Started, Running, Up, Mapped

-----------------------------------------------------------------------------
(* The initial states, and one lemma for each group of actions *)

(* Nothing has been started.                                               *)
LEMMA InitSInv == Init => SInv
<1> SUFFICES ASSUME Init PROVE SInv
  OBVIOUS
<1>1. \A l \in Leaders : ~Leads(l)
  BY DEF Init, Leads, NewLeader
<1>2. Started = {} /\ Running = {}
  BY DEF Init, Started, Running, Up
<1>3. RecordsFit
  BY <1>2 DEF Init, RecordsFit
<1>4. StoresMapped
  BY <1>2 DEF Init, StoresMapped
<1> QED
  BY <1>1, <1>3, <1>4 DEF SInv, OneLeader, LeaderKnows

(* Processes start and end, sessions of dead processes expire, the lock is *)
(* granted and Workers take their stores.                                  *)
LEMMA InstanceSInv ==
    ASSUME IInv, SInv, NEW n \in Instances,
           Start(n) \/ Crash(n) \/ Expire(n) \/ Lead(n) \/ _track_my_assignments(n)
    PROVE  SInv'
<1>1. \A l \in Leaders : leader[l] \in Objects
  BY DEF IInv, TypedOver, GoodObjects
<1>2. \A l \in Leaders : Host(l) \in Instances
  BY DEF Leaders, Host
<1>3. ASSUME leader' = Unread(leader), NEW l \in Leaders
      PROVE  /\ leader'[l].state = leader[l].state
             /\ \A map, started, running :
                   Knows(leader[l], map, started, running) => Knows(leader'[l], map, started, running)
  <2>1. leader'[l] = [leader[l] EXCEPT !.fresh = FALSE]
    BY <1>3 DEF Unread
  <2> QED
    BY <1>1, <2>1, UnreadKnows
<1>4. CASE Start(n)
  <2>1. n \notin Started /\ n # None
    BY <1>4, NoneAssumption DEF Start, Started
  <2>2. Started' = Started \cup {n} /\ Running' = Running \cup {n}
    BY <1>4 DEF Start, Started, Running, Up, IInv, TypedOver
  <2>3. \A l \in Leaders : leader'[l].state = leader[l].state
    BY <1>3, <1>4 DEF Start
  <2>4. OneLeader'
    BY <1>4, <2>2, <2>3 DEF SInv, OneLeader, Leads, Start
  <2>5. RecordsFit'
    <3>1. \A m \in Running' : member'[m] = "active"
      BY <1>4, <2>2 DEF Start, SInv, RecordsFit, Running, IInv, TypedOver
    <3>2. \A m \in Instances \ Started' : member'[m] = "absent" /\ assigned'[m] = None /\ store'[m] = None
      BY <1>4, <2>2 DEF Start, SInv, RecordsFit, IInv, TypedOver
    <3>3. ASSUME NEW m \in Started', NEW k \in Instances, voltha_number[m] = voltha_number[k],
                 k \in Running' \/ k \notin Started'
          PROVE  timestamp[m] <= timestamp[k]
      <4>1. m \in Instances /\ timestamp[m] \in Nat /\ timestamp[k] \in Nat
        BY <2>2, IdAssumption DEF Started
      <4>2. CASE m # n
        BY <2>1, <2>2, <3>3, <4>2 DEF SInv, RecordsFit
      <4>3. CASE m = n /\ k # n
        BY <1>4, <2>2, <3>3, <4>3 DEF Start, Running, Started, Up
      <4> QED
        BY <4>1, <4>2, <4>3
    <3> QED
      BY <3>1, <3>2, <3>3 DEF RecordsFit
  <2>6. LeaderKnows'
    <3> SUFFICES ASSUME NEW l \in Leaders, Leads(l)'
                 PROVE  Knows(leader'[l], mapping', Started', Running')
      BY DEF LeaderKnows
    <3>1. Knows(leader[l], mapping, Started, Running)
      BY <2>3 DEF SInv, LeaderKnows, Leads
    <3>2. mapping # None => In(mapping) \subseteq Started \cup {None}
      BY DEF SInv, StoresMapped
    <3>3. Knows(leader[l], mapping, Started \cup {n}, Running \cup {n})
      BY <2>1, <3>1, <3>2, StartKnows
    <3>4. leader' = Unread(leader) /\ mapping' = mapping
      BY <1>4 DEF Start
    <3> QED
      BY <1>3, <2>2, <3>3, <3>4
  <2>7. StoresMapped'
    <3>1. assigned[n] = None /\ store[n] = None /\ None \notin CoreIds
      BY <2>1, NoneAssumption DEF SInv, RecordsFit
    <3>2. mapping' = mapping /\ assigned' = assigned /\ store' = store
      BY <1>4 DEF Start
    <3> QED
      BY <2>2, <3>1, <3>2 DEF SInv, StoresMapped, Mapped
  <2> QED
    BY <2>4, <2>5, <2>6, <2>7 DEF SInv
<1>5. CASE Crash(n)
  <2>1. Started' = Started /\ Running' = Running \ {n}
    <3>1. process \in [Instances -> {"off", "up", "dead"}] /\ process[n] = "up"
      BY <1>5 DEF Crash, Up, IInv, TypedOver
    <3>2. process' = [process EXCEPT ![n] = "dead"]
      BY <1>5 DEF Crash
    <3> QED
      BY <3>1, <3>2 DEF Started, Running, Up
  <2>2. \A l \in Leaders : Leads(l)' => leader'[l] = leader[l] /\ Leads(l) /\ Host(l) # n
    BY <1>5 DEF Crash, Leads, NewLeader
  <2>3. UNCHANGED <<member, holder, mapping, assigned>> /\ store' = [store EXCEPT ![n] = None]
    BY <1>5 DEF Crash, consulVars
  <2>4. OneLeader'
    BY <2>1, <2>2, <2>3 DEF SInv, OneLeader
  <2>5. RecordsFit'
    <3>1. n \in Started /\ \A m \in Instances : m # n => store'[m] = store[m]
      BY <1>5, <2>3 DEF Crash, Started, Up, IInv, TypedOver
    <3> QED
      BY <2>1, <2>3, <3>1 DEF SInv, RecordsFit
  <2>6. LeaderKnows'
    BY <2>1, <2>2, <2>3, CrashKnows DEF SInv, LeaderKnows
  <2>7. StoresMapped'
    <3>1. \A m \in Running' : m # n /\ m \in Running /\ store'[m] = store[m]
      BY <2>1, <2>3 DEF Running, IInv, TypedOver
    <3> QED
      BY <2>1, <2>3, <3>1 DEF SInv, StoresMapped, Mapped
  <2> QED
    BY <2>4, <2>5, <2>6, <2>7 DEF SInv
<1>6. CASE Expire(n)
  <2>1. Started' = Started /\ Running' = Running /\ n \in Started /\ n \notin Running
    BY <1>6 DEF Expire, Release, Started, Running, Up
  <2>2. /\ UNCHANGED <<mapping, assigned, store>> /\ leader' = Unread(leader)
        /\ \A m \in Instances : m # n => member'[m] = member[m]
        /\ holder # n => holder' = holder
    BY <1>6 DEF Expire, Release, IInv, TypedOver
  <2>3. \A l \in Leaders : leader'[l].state = leader[l].state
    BY <1>3, <2>2
  <2>4. OneLeader'
    BY <2>1, <2>2, <2>3 DEF SInv, OneLeader, Leads
  <2>5. RecordsFit'
    BY <2>1, <2>2 DEF SInv, RecordsFit, Running
  <2>6. LeaderKnows'
    BY <1>3, <2>1, <2>2, <2>3 DEF SInv, LeaderKnows, Leads
  <2>7. StoresMapped'
    BY <2>1, <2>2 DEF SInv, StoresMapped, Mapped
  <2> QED
    BY <2>4, <2>5, <2>6, <2>7 DEF SInv
<1>7. CASE Lead(n)
  <2> DEFINE obj == [NewLeader EXCEPT !.state = "leading", !.track = "watch"]
  <2>1. PICK l \in Leaders : Host(l) = n /\ leader' = [leader EXCEPT ![l] = obj]
    BY <1>7, Zenon DEF Lead
  <2>2. \A k \in Leaders : ~Leads(k)
    BY <1>2, <1>7, NoneAssumption DEF Lead, SInv, OneLeader
  <2>3. leader'[l] = obj /\ obj.state = "leading" /\ \A k \in Leaders : k # l => leader'[k] = leader[k]
    BY <2>1 DEF IInv, TypedOver, NewLeader
  <2>4. Started' = Started /\ Running' = Running /\ n \in Running /\ holder' = n
    BY <1>7 DEF Lead, Started, Running, Up
  <2>5. UNCHANGED <<member, mapping, assigned, store>>
    BY <1>7 DEF Lead
  <2>6. Knows(obj, mapping', Started', Running')
    BY NewLeaderKnows
  <2> HIDE DEF obj
  <2>7. OneLeader' /\ LeaderKnows'
    BY <2>1, <2>2, <2>3, <2>4, <2>6 DEF OneLeader, LeaderKnows, Leads
  <2>8. RecordsFit' /\ StoresMapped'
    BY <2>4, <2>5 DEF SInv, RecordsFit, StoresMapped, Mapped
  <2> QED
    BY <2>7, <2>8 DEF SInv
<1>8. CASE _track_my_assignments(n)
  <2>1. UNCHANGED <<process, member, holder, mapping, assigned, leader>>
    BY <1>8 DEF _track_my_assignments, consulVars
  <2>2. Started' = Started /\ Running' = Running /\ n \in Running /\ n \in Started
    BY <1>8, <2>1 DEF _track_my_assignments, Started, Running, Up
  <2>3. /\ store'[n] = assigned[n] /\ assigned[n] \in CoreIds
        /\ \A m \in Instances : m # n => store'[m] = store[m]
    BY <1>8 DEF _track_my_assignments, IInv, TypedOver
  <2>4. OneLeader' /\ LeaderKnows'
    BY <2>1, <2>2 DEF SInv, OneLeader, LeaderKnows, Leads
  <2>5. RecordsFit'
    BY <2>1, <2>2, <2>3 DEF SInv, RecordsFit
  <2>6. StoresMapped'
    BY <2>1, <2>2, <2>3 DEF SInv, StoresMapped, Mapped, Running
  <2> QED
    BY <2>4, <2>5, <2>6 DEF SInv
<1> QED
  BY <1>4, <1>5, <1>6, <1>7, <1>8

(* _track_members: the Leader reads all the running instances, whatever it *)
(* reads besides, and goes by what it read.                                *)
LEMMA TrackSInv ==
    ASSUME IInv, SInv, NEW l \in Leaders, TrackMembers(l)
    PROVE  SInv'
<1> DEFINE obj == leader[l]
<1>1. obj \in Objects
  BY DEF IInv, TypedOver, GoodObjects
<1>2. Alive(l) /\ UNCHANGED <<process, consulVars, store>>
  BY DEF TrackMembers, ReadMembers, CheckMembers, UpdateReferences
<1>3. obj.state = "leading" /\ Host(l) \in Running
  BY <1>2, OnlyLeader DEF SInv
<1>4. Knows(obj, mapping, Started, Running)
  BY <1>3 DEF SInv, LeaderKnows, Leads
<1>5. RecordsFit' /\ StoresMapped'
  BY <1>2, RecordsStep
<1>6. ASSUME NEW next, Becomes(l, next), next.state = "leading",
             Knows(next, mapping, Started, Running)
      PROVE  SInv'
  <2>1. Goes(l, next) /\ mapping' = mapping
    BY <1>2, <1>6 DEF Goes, consulVars
  <2> QED
    BY <1>2, <1>5, <1>6, <2>1, LeaderStep
<1>7. CASE ReadMembers(l)
  <2> DEFINE next == [obj EXCEPT !.track = "temporal", !.fresh = TRUE, !.read = ActiveMembers]
             active == {n \in Instances : member[n] = "active"}
  <2>1. Becomes(l, next)
    BY <1>3, <1>7 DEF ReadMembers
  <2>2. Running \subseteq active /\ active \subseteq Started
    BY DEF SInv, RecordsFit, Running
  <2>3. \A n \in Running : n \in _sanitize_member_list(active)
    BY <2>2 DEF SInv, RecordsFit, _sanitize_member_list, Running
  <2>4. ActiveMembers = _sanitize_member_list(active)
    BY <1>3, <2>2 DEF ActiveMembers
  <2>5. Running \subseteq ActiveMembers /\ ActiveMembers \subseteq Started /\ ActiveMembers \subseteq Instances
    BY <2>2, <2>3, <2>4 DEF _sanitize_member_list
  <2>6. ActiveMembers # None
    BY <2>5, NoneAssumption
  <2>7. /\ next.state = "leading" /\ next.track = "temporal" /\ next.read = ActiveMembers
        /\ next.members = obj.members /\ next.asg = obj.asg /\ next.maps = obj.maps
        /\ next.timer = obj.timer /\ next.job = obj.job
    BY <1>1, <1>3 DEF Objects, LeaderObjects
  <2> HIDE DEF next, obj
  <2>8. Knows(next, mapping, Started, Running)
    <3>1. KnowsMembers(next, mapping, Started, Running)
      BY <1>4, <2>5, <2>6, <2>7 DEF Knows, KnowsMembers
    <3>2. KnowsMapping(next, mapping, Started, Running) /\ JobFits(next, mapping, Started, Running)
      BY <1>4, <2>7 DEF Knows, KnowsMapping, JobFits
    <3> QED
      BY <3>1, <3>2 DEF Knows
  <2> QED
    BY <1>6, <2>1, <2>7, <2>8
<1>8. CASE CheckMembers(l)
  <2> DEFINE seen == [obj EXCEPT !.track = Relatch(obj), !.read = {}]
             asks == [obj EXCEPT !.track = "stores"]
  <2>1. Becomes(l, asks) \/ Becomes(l, seen)
    BY <1>8 DEF CheckMembers
  <2>2. obj.track = "temporal"
    BY <1>8 DEF CheckMembers
  <2>3. {} # None
    BY NoneAssumption
  <2>4. /\ seen.state = "leading" /\ seen.track = "watch" /\ seen.read = {}
        /\ seen.members = obj.members /\ seen.asg = obj.asg /\ seen.maps = obj.maps
        /\ seen.timer = obj.timer /\ seen.job = obj.job
    BY <1>1, <1>3 DEF Objects, LeaderObjects, Relatch
  <2>5. /\ asks.state = "leading" /\ asks.track = "stores" /\ asks.read = obj.read
        /\ asks.members = obj.members /\ asks.asg = obj.asg /\ asks.maps = obj.maps
        /\ asks.timer = obj.timer /\ asks.job = obj.job
    BY <1>1, <1>3 DEF Objects, LeaderObjects
  <2> HIDE DEF seen, asks, obj
  <2>6. Knows(seen, mapping, Started, Running)
    BY <1>4, <2>3, <2>4 DEF Knows, KnowsMembers, KnowsMapping, JobFits
  <2>7. Knows(asks, mapping, Started, Running)
    BY <1>4, <2>2, <2>5 DEF Knows, KnowsMembers, KnowsMapping, JobFits
  <2> QED
    BY <1>6, <2>1, <2>4, <2>5, <2>6, <2>7
<1>9. CASE UpdateReferences(l)
  <2> DEFINE due == [obj EXCEPT !.track = Relatch(obj), !.read = {},
                                !.maps = "get", !.members = obj.read, !.timer = TRUE]
  <2>1. Becomes(l, due) /\ obj.track = "stores"
    BY <1>9 DEF UpdateReferences
  <2>2. {} # None
    BY NoneAssumption
  <2>3. /\ due.state = "leading" /\ due.track = "watch" /\ due.read = {}
        /\ due.members = obj.read /\ due.asg = obj.asg /\ due.maps = "get"
        /\ due.timer = TRUE /\ due.job = obj.job
    BY <1>1, <1>3 DEF Objects, LeaderObjects, Relatch
  <2> HIDE DEF due, obj
  <2>4. Knows(due, mapping, Started, Running)
    BY <1>4, <2>1, <2>2, <2>3 DEF Knows, KnowsMembers, KnowsMapping, JobFits
  <2> QED
    BY <1>6, <2>1, <2>3, <2>4
<1> QED
  BY <1>7, <1>8, <1>9 DEF TrackMembers

(* The read of the mapping, and a reassignment that is begun with the      *)
(* mapping in hand.                                                        *)
LEMMA InTurnSInv ==
    ASSUME IInv, SInv, NEW l \in Leaders, InTurn(l)
    PROVE  SInv'
<1> DEFINE obj == leader[l]
<1>1. obj \in Objects
  BY DEF IInv, TypedOver, GoodObjects
<1>2. Alive(l) /\ UNCHANGED <<process, member, holder, assigned, store>>
  BY Zenon DEF InTurn, ReadMapping, GetMapping, CreateMapping, ReadBack, Reassign, consulVars
<1>3. obj.state = "leading"
  BY <1>2, OnlyLeader DEF SInv
<1>4. Knows(obj, mapping, Started, Running)
  BY <1>3 DEF SInv, LeaderKnows, Leads
<1>5. obj.job.stage = "none" /\ obj.job.todo = {} /\ obj.job.gone = {}
  <2>1. obj.job = NoJob
    BY Zenon DEF InTurn
  <2> QED
    BY <2>1 DEF NoJob
<1>6. RecordsFit'
  BY <1>2 DEF SInv, RecordsFit, Started, Running, Up
<1>7. mapping' = mapping => StoresMapped'
  BY <1>2 DEF SInv, StoresMapped, Started, Running, Up, Mapped
<1>8. ASSUME NEW next, Becomes(l, next), next.state = "leading",
             Knows(next, mapping', Started, Running), StoresMapped'
      PROVE  SInv'
  <2>1. Goes(l, next)
    BY <1>2, <1>8 DEF Goes
  <2> QED
    BY <1>2, <1>6, <1>8, <2>1, LeaderStep
<1>9. CASE GetMapping(l) /\ mapping = None
  <2> DEFINE next == [obj EXCEPT !.maps = "create"]
  <2>1. Becomes(l, next) /\ mapping' = mapping
    BY <1>9 DEF GetMapping, consulVars
  <2>2. /\ next.state = "leading" /\ next.track = obj.track /\ next.read = obj.read
        /\ next.members = obj.members /\ next.asg = obj.asg /\ next.maps = "create"
        /\ next.timer = obj.timer /\ next.job = obj.job
    BY <1>1, <1>3 DEF Objects, LeaderObjects
  <2> HIDE DEF next, obj
  <2>3. Knows(next, mapping, Started, Running)
    <3>1. KnowsMembers(next, mapping, Started, Running)
      BY <1>4, <2>2 DEF Knows, KnowsMembers
    <3>2. KnowsMapping(next, mapping, Started, Running)
      BY <1>4, <1>5, <1>9, <2>2 DEF Knows, KnowsMapping
    <3>3. JobFits(next, mapping, Started, Running)
      BY <1>4, <2>2 DEF Knows, JobFits
    <3> QED
      BY <3>1, <3>2, <3>3 DEF Knows
  <2> QED
    BY <1>7, <1>8, <2>1, <2>2, <2>3
<1>10. CASE GetMapping(l) /\ mapping # None
  <2> DEFINE next == [obj EXCEPT !.maps = "off", !.asg = mapping]
  <2>1. Becomes(l, next) /\ mapping' = mapping
    BY <1>10 DEF GetMapping, consulVars
  <2>2. /\ next.state = "leading" /\ next.track = obj.track /\ next.read = obj.read
        /\ next.members = obj.members /\ next.asg = mapping /\ next.maps = "off"
        /\ next.timer = obj.timer /\ next.job = obj.job
    BY <1>1, <1>3 DEF Objects, LeaderObjects
  <2>3. In(mapping) \subseteq Started \cup {None}
    BY <1>10 DEF SInv, StoresMapped
  <2> HIDE DEF next, obj
  <2>4. Knows(next, mapping, Started, Running)
    <3>1. KnowsMembers(next, mapping, Started, Running)
      BY <1>4, <2>2 DEF Knows, KnowsMembers
    <3>2. KnowsMapping(next, mapping, Started, Running)
      BY <1>10, <2>2, <2>3 DEF KnowsMapping
    <3>3. JobFits(next, mapping, Started, Running)
      BY <1>5, <2>2 DEF JobFits
    <3> QED
      BY <3>1, <3>2, <3>3 DEF Knows
  <2> QED
    BY <1>7, <1>8, <2>1, <2>2, <2>4
<1>11. CASE CreateMapping(l)
  <2> DEFINE next == [obj EXCEPT !.maps = "readback"]
  <2>1. Becomes(l, next) /\ mapping' = NoSlots /\ obj.maps = "create"
    BY <1>11 DEF CreateMapping
  <2>2. /\ next.state = "leading" /\ next.track = obj.track /\ next.read = obj.read
        /\ next.members = obj.members /\ next.asg = obj.asg /\ next.maps = "readback"
        /\ next.timer = obj.timer /\ next.job = obj.job
    BY <1>1, <1>3 DEF Objects, LeaderObjects
  <2>3. mapping = None /\ obj.asg = None
    BY <1>4, <2>1 DEF Knows, KnowsMapping
  <2>4. In(NoSlots) = {} /\ NoSlots # None
    <3>1. NoSlots \in Mappings
      BY NoSlotsInjective DEF InjectiveMappings
    <3> QED
      BY <3>1, NoneAssumption DEF In, Slots, NoSlots
  <2>5. StoresMapped'
    BY <1>2, <2>1, <2>3, <2>4 DEF SInv, StoresMapped, Started, Running, Up, Mapped
  <2> HIDE DEF next, obj
  <2>6. Knows(next, NoSlots, Started, Running)
    <3>1. KnowsMembers(next, NoSlots, Started, Running)
      BY <1>4, <2>2, <2>4 DEF Knows, KnowsMembers
    <3>2. KnowsMapping(next, NoSlots, Started, Running)
      BY <1>5, <2>2, <2>3 DEF KnowsMapping
    <3>3. JobFits(next, NoSlots, Started, Running)
      BY <1>5, <2>2 DEF JobFits
    <3> QED
      BY <3>1, <3>2, <3>3 DEF Knows
  <2> QED
    BY <1>8, <2>1, <2>2, <2>5, <2>6
<1>13. CASE ReadBack(l)
  <2> DEFINE next == [obj EXCEPT !.maps = "off", !.asg = mapping]
  <2>1. Becomes(l, next) /\ mapping' = mapping /\ mapping # None
    BY <1>13 DEF ReadBack, consulVars
  <2>2. /\ next.state = "leading" /\ next.track = obj.track /\ next.read = obj.read
        /\ next.members = obj.members /\ next.asg = mapping /\ next.maps = "off"
        /\ next.timer = obj.timer /\ next.job = obj.job
    BY <1>1, <1>3 DEF Objects, LeaderObjects
  <2>3. In(mapping) \subseteq Started \cup {None}
    BY <2>1 DEF SInv, StoresMapped
  <2> HIDE DEF next, obj
  <2>4. Knows(next, mapping, Started, Running)
    <3>1. KnowsMembers(next, mapping, Started, Running)
      BY <1>4, <2>2 DEF Knows, KnowsMembers
    <3>2. KnowsMapping(next, mapping, Started, Running)
      BY <2>1, <2>2, <2>3 DEF KnowsMapping
    <3>3. JobFits(next, mapping, Started, Running)
      BY <1>5, <2>2 DEF JobFits
    <3> QED
      BY <3>1, <3>2, <3>3 DEF Knows
  <2> QED
    BY <1>7, <1>8, <2>1, <2>2, <2>4
<1>12. CASE Reassign(l) /\ obj.maps = "off"
  <2> DEFINE job(new) == [stage |-> "map", map |-> new, todo |-> {},
                          keep |-> Kept(obj.asg, obj.members), gone |-> Inactive(obj.asg, obj.members)]
             next(new) == [obj EXCEPT !.timer = FALSE, !.asg = new, !.job2 = obj.job, !.job = job(new)]
  <2>1. obj.timer /\ mapping' = mapping
    BY <1>12 DEF Reassign, consulVars
  <2>2. obj.asg # None /\ obj.members # None
    BY <1>4, <1>12, <2>1 DEF Knows, KnowsMembers, KnowsMapping
  <2>3. PICK new \in UpdatedMappings(obj.asg, obj.members) : Becomes(l, next(new))
    BY <1>12, <2>2, Zenon DEF Reassign
  <2>4. obj.asg \in InjectiveMappings /\ obj.members \in SUBSET Instances
    BY <1>1, <2>2 DEF Objects, LeaderObjects
  <2>5. mapping = obj.asg
    BY <1>4, <1>5, <2>2 DEF Knows, KnowsMapping
  <2>6. In(obj.asg) \cap Running \subseteq obj.members /\ obj.members \subseteq Started
    BY <1>4, <2>1, <2>2 DEF Knows, KnowsMembers
  <2>7. new \in InjectiveMappings /\ new # None
    BY <2>4, UpdatedMappingsInjective, NoneAssumption DEF InjectiveMappings
  <2>8. In(new) \subseteq obj.members \cup {None}
    BY <2>4, UpdatedMappingsKeep
  <2>9. \A n \in Running, id \in CoreIds : Mapped(mapping, n, id) => Mapped(new, n, id)
    <3> SUFFICES ASSUME NEW n \in Running, NEW id \in CoreIds, Mapped(mapping, n, id)
                 PROVE  Mapped(new, n, id)
      OBVIOUS
    <3>1. id \in Slots(obj.asg) /\ obj.asg[id] = n
      BY <2>5 DEF Mapped
    <3>2. obj.asg[id] \in obj.members
      BY <2>6, <3>1 DEF In
    <3>3. id \in Slots(new) /\ new[id] = n
      BY <2>4, <3>1, <3>2, UpdatedMappingsKeep
    <3> QED
      BY <2>7, <3>3 DEF Mapped
  <2>10. Inactive(obj.asg, obj.members) \subseteq Started \ Running
    <3>1. In(obj.asg) \subseteq Started \cup {None}
      BY <1>4, <2>2 DEF Knows, KnowsMapping
    <3>2. \A n \in Inactive(obj.asg, obj.members) : n \in In(obj.asg) /\ n \notin obj.members /\ n # None
      BY DEF Inactive, Cleared, In
    <3> QED
      BY <2>6, <3>1, <3>2
  <2>11. /\ job(new).stage = "map" /\ job(new).map = new /\ job(new).todo = {}
         /\ job(new).gone = Inactive(obj.asg, obj.members)
    OBVIOUS
  <2>12. None \notin Running
    BY NoneAssumption DEF Running
  <2> HIDE DEF job
  <2>13. /\ next(new).state = "leading" /\ next(new).track = obj.track /\ next(new).read = obj.read
         /\ next(new).members = obj.members /\ next(new).asg = new /\ next(new).maps = "off"
         /\ next(new).timer = FALSE /\ next(new).job = job(new)
    BY <1>1, <1>3, <1>12 DEF Objects, LeaderObjects
  <2> HIDE DEF next, obj
  <2>14. KnowsMembers(next(new), mapping, Started, Running)
    BY <1>4, <2>5, <2>6, <2>8, <2>12, <2>13 DEF Knows, KnowsMembers
  <2>15. KnowsMapping(next(new), mapping, Started, Running)
    BY <2>6, <2>8, <2>11, <2>13 DEF KnowsMapping
  <2>16. JobFits(next(new), mapping, Started, Running)
    BY <2>9, <2>10, <2>11, <2>13 DEF JobFits
  <2>17. Knows(next(new), mapping, Started, Running)
    BY <2>14, <2>15, <2>16 DEF Knows
  <2> QED
    BY <1>7, <1>8, <2>1, <2>3, <2>13, <2>17, Zenon
<1> QED
  BY <1>9, <1>10, <1>11, <1>12, <1>13 DEF InTurn, ReadMapping

(* The stages that follow the write of the mapping.                        *)
LEMMA NextStageFields ==
    ASSUME NEW job \in Jobs(InjectiveMappings)
    PROVE  /\ NextStage(job).stage \in {"assign", "delete", "none"}
           /\ NextStage(job).todo \subseteq job.todo
           /\ NextStage(job).gone \subseteq job.gone
BY DEF NextStage, NoJob, Jobs

(* A Leader that goes on with its job after the mapping is written.        *)
LEMMA JobKnows ==
    ASSUME NEW obj \in Objects, NEW map, Knows(obj, map, Started, Running), obj.asg # None,
           obj.job.stage # "none", NEW job \in Jobs(InjectiveMappings), job.stage # "map",
           job.todo \subseteq Started, job.gone \subseteq Started \ Running,
           job.stage = "forget" => job.todo \subseteq job.gone
    PROVE  Knows([obj EXCEPT !.job = job], obj.asg, Started, Running)
<1> DEFINE next == [obj EXCEPT !.job = job]
<1>1. /\ next.state = obj.state /\ next.track = obj.track /\ next.read = obj.read
      /\ next.members = obj.members /\ next.asg = obj.asg /\ next.maps = obj.maps
      /\ next.timer = obj.timer /\ next.job = job
  BY DEF Objects, LeaderObjects
<1> HIDE DEF next
<1>2. KnowsMembers(next, obj.asg, Started, Running)
  BY <1>1 DEF Knows, KnowsMembers
<1>3. KnowsMapping(next, obj.asg, Started, Running)
  BY <1>1 DEF Knows, KnowsMapping
<1>4. JobFits(next, obj.asg, Started, Running)
  BY <1>1 DEF JobFits
<1>5. Knows(next, obj.asg, Started, Running)
  BY <1>2, <1>3, <1>4 DEF Knows
<1> QED
  BY <1>5 DEF next

(* The writes of a reassignment.                                           *)
LEMMA WriteSInv ==
    ASSUME IInv, SInv, NEW l \in Leaders, WriteStores(l)
    PROVE  SInv'
<1> DEFINE obj == leader[l]
<1>1. obj \in Objects /\ obj.job \in Jobs(InjectiveMappings)
  BY DEF IInv, TypedOver, GoodObjects, Objects, LeaderObjects
<1>2. Alive(l) /\ obj.job.stage # "none" /\ UNCHANGED <<process, holder, store>>
  BY Zenon DEF WriteStores, PutMapping, PutAssignment, DeleteAssignment, DeleteRecord
<1>3. obj.state = "leading"
  BY <1>2, OnlyLeader DEF SInv
<1>4. Knows(obj, mapping, Started, Running)
  BY <1>3 DEF SInv, LeaderKnows, Leads
<1>5. obj.asg \in InjectiveMappings /\ obj.asg # None
  BY <1>2, NoneAssumption DEF IInv, TypedOver, GoodObjects, JobHasMapping, InjectiveMappings
<1>6. Started' = Started /\ Running' = Running
  BY <1>2 DEF Started, Running, Up
<1>7. obj.job.stage # "map" => mapping = obj.asg
  BY <1>4, <1>5 DEF Knows, KnowsMapping
<1>8. obj.job.todo \subseteq Started /\ obj.job.gone \subseteq Started \ Running
  BY <1>4 DEF Knows, JobFits
<1>9. ASSUME NEW job \in Jobs(InjectiveMappings), job.stage # "map",
             job.todo \subseteq Started, job.gone \subseteq Started \ Running,
             job.stage = "forget" => job.todo \subseteq job.gone
      PROVE  /\ [obj EXCEPT !.job = job].state = "leading"
             /\ Knows([obj EXCEPT !.job = job], obj.asg, Started, Running)
  <2>1. [obj EXCEPT !.job = job].state = "leading"
    BY <1>1, <1>3 DEF Objects, LeaderObjects
  <2> HIDE DEF obj
  <2> QED
    BY <1>1, <1>2, <1>4, <1>5, <1>9, <2>1, JobKnows
<1>10. ASSUME NEW next, Becomes(l, next), next.state = "leading",
              Knows(next, mapping', Started, Running), RecordsFit', StoresMapped'
       PROVE  SInv'
  <2>1. Goes(l, next)
    BY <1>2, <1>10 DEF Goes
  <2> QED
    BY <1>2, <1>10, <2>1, LeaderStep
<1>11. CASE PutMapping(l)
  <2> DEFINE job == [obj.job EXCEPT !.map = NoSlots, !.keep = {}, !.todo = obj.members \ obj.job.keep]
             next == [obj EXCEPT !.job = NextStage(job)]
  <2>1. obj.members # None /\ obj.members \subseteq Started
    BY <1>4 DEF Knows, KnowsMembers
  <2>2. Becomes(l, next) /\ obj.job.stage = "map" /\ UNCHANGED <<member, assigned>>
    BY <1>11, <2>1 DEF PutMapping
  <2>3. /\ obj.job.map = obj.asg
        /\ \A n \in Running, id \in CoreIds : Mapped(mapping, n, id) => Mapped(obj.asg, n, id)
    BY <1>4, <2>2 DEF Knows, JobFits
  <2>4. mapping' = obj.asg
    BY <1>11, <2>3 DEF PutMapping
  <2>5. job \in Jobs(InjectiveMappings) /\ job.todo \subseteq Started /\ job.gone \subseteq Started \ Running
    <3>1. obj.members \in SUBSET Instances
      BY <1>1, <2>1 DEF Objects, LeaderObjects
    <3> QED
      BY <1>1, <1>8, <2>1, <3>1, NoSlotsInjective, Zenon DEF Jobs
  <2> HIDE DEF job
  <2>6. /\ NextStage(job) \in Jobs(InjectiveMappings) /\ NextStage(job).stage \in {"assign", "delete", "none"}
        /\ NextStage(job).todo \subseteq Started /\ NextStage(job).gone \subseteq Started \ Running
    BY <2>5, NextStageTyped, NextStageFields
  <2>7. next.state = "leading" /\ Knows(next, mapping', Started, Running)
    BY <1>9, <2>4, <2>6
  <2>8. RecordsFit'
    BY <1>2, <1>6, <2>2 DEF SInv, RecordsFit
  <2>9. StoresMapped'
    <3>1. In(mapping') \subseteq Started \cup {None}
      BY <1>4, <1>5, <2>4 DEF Knows, KnowsMapping
    <3>2. \A n \in Running : store[n] \in CoreIds \cup {None}
      BY DEF IInv, TypedOver, Running
    <3> QED
      BY <1>2, <1>6, <2>2, <2>3, <2>4, <3>1, <3>2 DEF SInv, StoresMapped
  <2> HIDE DEF next
  <2> QED
    BY <1>10, <2>2, <2>7, <2>8, <2>9
<1>12. CASE PutAssignment(l)
  <2> DEFINE job(n) == [obj.job EXCEPT !.todo = @ \ {n}]
             next(n) == [obj EXCEPT !.job = NextStage(job(n))]
             id(n) == _get_core_data_id_from_instance(obj.asg, n)
  <2>1. PICK n \in obj.job.todo : assigned' = [assigned EXCEPT ![n] = id(n)] /\ Becomes(l, next(n))
    BY <1>12, Zenon DEF PutAssignment
  <2>2. mapping = obj.asg /\ UNCHANGED <<member, mapping>>
    BY <1>7, <1>12 DEF PutAssignment
  <2>3. /\ job(n) \in Jobs(InjectiveMappings)
        /\ job(n).todo \subseteq Started /\ job(n).gone \subseteq Started \ Running
    BY <1>1, <1>8 DEF Jobs
  <2>4. id(n) \in CoreIds => Mapped(obj.asg, n, id(n))
    <3>1. NoId \notin CoreIds
      BY DEF NoId, CoreIds
    <3> QED
      BY <1>5, <3>1 DEF _get_core_data_id_from_instance, Mapped
  <2>5. assigned'[n] = id(n) /\ \A m \in Instances : m # n => assigned'[m] = assigned[m]
    BY <1>1, <2>1 DEF IInv, TypedOver, Jobs
  <2> HIDE DEF job, id
  <2>6. /\ NextStage(job(n)) \in Jobs(InjectiveMappings) /\ NextStage(job(n)).stage \in {"assign", "delete", "none"}
        /\ NextStage(job(n)).todo \subseteq Started /\ NextStage(job(n)).gone \subseteq Started \ Running
    BY <2>3, NextStageTyped, NextStageFields
  <2>7. next(n).state = "leading" /\ Knows(next(n), mapping', Started, Running)
    BY <1>9, <2>2, <2>6
  <2>8. n \in Started
    BY <1>8
  <2>9. RecordsFit'
    BY <1>2, <1>6, <2>2, <2>5, <2>8 DEF SInv, RecordsFit
  <2>10. StoresMapped'
    <3>1. Running \subseteq Instances
      BY DEF Running
    <3>2. \A m \in Running : assigned'[m] \in CoreIds => Mapped(mapping', m, assigned'[m])
      BY <2>2, <2>4, <2>5, <3>1 DEF SInv, StoresMapped
    <3> QED
      BY <1>2, <1>6, <2>2, <3>2, Zenon DEF SInv, StoresMapped
  <2> HIDE DEF next
  <2> QED
    BY <1>10, <2>1, <2>7, <2>9, <2>10
<1>13. CASE DeleteAssignment(l)
  <2> DEFINE job(n) == [obj.job EXCEPT !.stage = "forget", !.todo = {n}]
             next(n) == [obj EXCEPT !.job = job(n)]
  <2>1. PICK n \in obj.job.gone :
          /\ assigned' = [assigned EXCEPT ![n] = None]
          /\ Becomes(l, [obj EXCEPT !.job.stage = "forget", !.job.todo = {n}])
    BY <1>13, Zenon DEF DeleteAssignment
  <2>2. Becomes(l, next(n))
    BY <1>1, <2>1, Zenon DEF Objects, LeaderObjects, Jobs
  <2>3. mapping = obj.asg /\ UNCHANGED <<member, mapping>>
    BY <1>7, <1>13 DEF DeleteAssignment
  <2>4. n \in Started /\ n \notin Running /\ n \in Instances
    BY <1>8 DEF Started
  <2>5. /\ job(n) \in Jobs(InjectiveMappings) /\ job(n).stage = "forget"
        /\ job(n).todo \subseteq Started /\ job(n).gone \subseteq Started \ Running
        /\ job(n).todo \subseteq job(n).gone
    BY <1>1, <1>8, <2>1, <2>4, Zenon DEF Jobs
  <2>6. \A m \in Instances : m # n => assigned'[m] = assigned[m]
    BY <2>1 DEF IInv, TypedOver
  <2> HIDE DEF job
  <2>7. next(n).state = "leading" /\ Knows(next(n), mapping', Started, Running)
    BY <1>9, <2>3, <2>5
  <2>8. RecordsFit'
    BY <1>2, <1>6, <2>3, <2>4, <2>6 DEF SInv, RecordsFit
  <2>9. StoresMapped'
    BY <1>2, <1>6, <2>3, <2>4, <2>6, Zenon DEF SInv, StoresMapped, Running
  <2> HIDE DEF next
  <2> QED
    BY <1>10, <2>2, <2>7, <2>8, <2>9
<1>14. CASE DeleteRecord(l)
  <2> DEFINE job(n) == [obj.job EXCEPT !.todo = {}, !.gone = @ \ {n}]
             next(n) == [obj EXCEPT !.job = NextStage(job(n))]
             after(n) == [leader EXCEPT ![l] = Settled(next(n))]
  <2>1. PICK n \in obj.job.todo :
          /\ member' = [member EXCEPT ![n] = "absent"]
          /\ leader' = IF member[n] = "absent" THEN after(n) ELSE Unread(after(n))
    BY <1>14, Zenon DEF DeleteRecord
  <2>2. mapping = obj.asg /\ UNCHANGED <<mapping, assigned>> /\ obj.job.stage = "forget"
    BY <1>7, <1>14 DEF DeleteRecord
  <2>3. n \notin Running
    BY <1>4, <1>8, <2>2 DEF Knows, JobFits
  <2>4. /\ job(n) \in Jobs(InjectiveMappings)
        /\ job(n).todo \subseteq Started /\ job(n).gone \subseteq Started \ Running
    BY <1>1, <1>8, Zenon DEF Jobs
  <2>5. \A m \in Instances : m # n => member'[m] = member[m]
    BY <2>1 DEF IInv, TypedOver
  <2>6. n \in Started /\ n \in Instances
    BY <1>8 DEF Started
  <2> HIDE DEF job
  <2>7. /\ NextStage(job(n)) \in Jobs(InjectiveMappings) /\ NextStage(job(n)).stage \in {"assign", "delete", "none"}
        /\ NextStage(job(n)).todo \subseteq Started /\ NextStage(job(n)).gone \subseteq Started \ Running
    BY <2>4, NextStageTyped, NextStageFields
  <2>8. next(n).state = "leading" /\ Knows(next(n), mapping', Started, Running)
    BY <1>9, <2>2, <2>7
  <2>9. next(n) \in Objects
    BY <1>1, <2>7 DEF Objects, LeaderObjects
  <2>10. RecordsFit'
    BY <1>2, <1>6, <2>2, <2>3, <2>5, <2>6 DEF SInv, RecordsFit, Running
  <2>11. StoresMapped'
    BY <1>2, <1>6, <2>2 DEF SInv, StoresMapped
  <2> HIDE DEF next
  <2>12. CASE member[n] = "absent"
    <3>1. Becomes(l, next(n))
      BY <2>1, <2>12 DEF Becomes
    <3> QED
      BY <1>10, <2>8, <2>10, <2>11, <3>1
  <2>13. CASE member[n] # "absent"
    <3> DEFINE unread == [next(n) EXCEPT !.fresh = FALSE]
    <3>1. Settled(next(n)) = next(n)
      BY <2>8 DEF Settled
    <3>2. leader'[l] = unread /\ \A k \in Leaders : k # l => leader'[k] = [leader[k] EXCEPT !.fresh = FALSE]
      BY <2>1, <2>13, <3>1 DEF Unread, IInv, TypedOver
    <3>3. unread.state = "leading" /\ Knows(unread, mapping', Started, Running)
      BY <2>8, <2>9, UnreadKnows
    <3>4. \A k \in Leaders : k # l => ~Leads(k)'
      <4> SUFFICES ASSUME NEW k \in Leaders, k # l PROVE leader'[k].state = "none"
        BY DEF Leads
      <4>1. leader[k].state = "none" /\ leader[k] \in Objects
        BY <1>2, OnlyLeader DEF SInv, Leads, IInv, TypedOver, GoodObjects
      <4> QED
        BY <3>2, <4>1, UnreadKnows, Zenon
    <3>5. Host(l) \in Running /\ holder = Host(l)
      BY <1>2, OnlyLeader DEF SInv
    <3> HIDE DEF unread
    <3>6. OneLeader' /\ LeaderKnows'
      BY <1>2, <1>6, <3>2, <3>3, <3>4, <3>5 DEF OneLeader, LeaderKnows, Leads
    <3> QED
      BY <2>10, <2>11, <3>6 DEF SInv
  <2> QED
    BY <2>12, <2>13
<1> QED
  BY <1>11, <1>12, <1>13, <1>14 DEF WriteStores

(* Every step without a fault preserves the invariant.                     *)
LEMMA NextSInv == IInv /\ SInv /\ [Next]_vars => SInv'
<1> SUFFICES ASSUME IInv, SInv, [Next]_vars PROVE SInv'
  OBVIOUS
<1>1. CASE UNCHANGED vars
  BY <1>1, Zenon DEF vars, SInv, OneLeader, RecordsFit, LeaderKnows, StoresMapped, Started, Running, Up, Leads
<1>2. CASE Next
  BY <1>2, InstanceSInv, TrackSInv, InTurnSInv, WriteSInv DEF Next
<1> QED
  BY <1>1, <1>2

-----------------------------------------------------------------------------
(* Without faults both invariants hold.                                    *)
THEOREM FaultlessInvariance == Spec => [](IInv /\ SInv)
<1>1. [Next]_vars => [FaultyNext]_vars
  BY DEF FaultyNext
<1> QED
  BY <1>1, InitIInv, NextIInv, InitSInv, NextSInv, PTL DEF Spec

(* A running instance that took a core store has the slot of that store in *)
(* the mapping: while sessions of running processes last and no read of    *)
(* the mapping overlaps a reassignment, no Leader, however often the lead  *)
(* changes hands and whichever writes a crash cuts short, gives the store  *)
(* of a running Worker away.                                               *)
THEOREM StoresAreMapped == Spec => []StoreIsMapped
<1>1. SInv => StoreIsMapped
  BY DEF SInv, StoresMapped, Mapped, Running, StoreIsMapped
<1> QED
  BY <1>1, FaultlessInvariance, PTL

(* Without faults, then, main.py's promise holds: no two running instances *)
(* work on one core store. (With a lapsed session it does not.)            *)
THEOREM StoresAreUnique == Spec => []UniqueStore
<1>1. SInv => UniqueStore
  BY DEF SInv, StoresMapped, Mapped, Running, UniqueStore
<1> QED
  BY <1>1, FaultlessInvariance, PTL
=============================================================================
