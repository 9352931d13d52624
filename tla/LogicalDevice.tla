---------------------------- MODULE LogicalDevice ----------------------------
(***************************************************************************)
(* The flow and group tables of a logical device, its ports, and the flow  *)
(* tables of the devices below it.                                         *)
(*                                                                         *)
(* src/voltha/core/logical_device_agent.py   what a controller may ask     *)
(* src/voltha/core/flow_decomposer.py        see FlowDecomposer            *)
(* src/voltha/core/device_agent.py           from the tree to the adapter  *)
(*                                                                         *)
(* Each request is one step: read, change, write back, and the callbacks   *)
(* of the write, which decompose the flows and write the tables of the     *)
(* devices.  A flow that cannot be decomposed is deleted within that       *)
(* callback, and the deletion decomposes the rest on its own first.        *)
(***************************************************************************)
EXTENDS FlowDecomposer

CONSTANTS
    Unis,          \* the logical ports of the ONUs
    FlowMods,      \* the flows a controller may ask for
    Provisioned,   \* flows that may be there from the start
    GroupIds,
    BucketLists,   \* the lists of buckets a group may have
    MaxSteps       \* bound on the requests and port changes

ASSUME LogicalDeviceAssumption ==
    /\ Unis \subseteq Nat \ {Olt, NI, Controller, ControllerVid}
    /\ IsFiniteSet(Unis)
    /\ ToSet(Provisioned) \subseteq FlowMods
    /\ MaxSteps \in Nat

VARIABLES
    flows,     \* the flow table of the logical device
    groups,    \* its groups: from ids to lists of buckets
    unis,      \* the ONUs that have their logical port
    enabled,   \* the ONUs that are enabled
    tree,      \* the flow tables of the devices in the configuration tree
    hw,        \* the flow tables the adapters were given
    fresh,     \* history: nothing has changed since the last decomposition
    steps

vars == <<flows, groups, unis, enabled, tree, hw, fresh, steps>>

Devices == {Olt} \cup Unis

Init ==
    /\ flows \in {<<>>, Provisioned}
    /\ groups = <<>>
    /\ unis = Unis
    /\ enabled = Unis
    /\ tree = IF flows = <<>> THEN [d \in Devices |-> <<>>]
              ELSE DecomposeRules(flows, groups, unis)
    /\ hw = tree
    /\ fresh = (flows # <<>>)
    /\ steps = 0

Step ==
    /\ steps < MaxSteps
    /\ steps' = steps + 1

-----------------------------------------------------------------------------
(* The tables of the devices become rules; DeviceAgent calls the adapter   *)
(* of a device if the set of the ids in its table changes.                 *)
WriteDevices(st, rules) ==
    [st EXCEPT !.fresh = TRUE, !.tree = rules @@ @,
               !.hw = [d \in {e \in DOMAIN rules : Ids(rules[e]) # Ids(st.tree[e])}
                            |-> rules[d]] @@ @]

(* Mutant: the groups as they were before the write.                       *)
DecomposeOldGroups(st, fl, gr) ==
    LET keep(some) == SelectSeq(some, LAMBDA f : ~Unroutable(f, groups, unis))
    IN  WriteDevices(WriteDevices([st EXCEPT !.flows = keep(fl)],
                                  DecomposeRules(keep(fl), groups, unis)),
                     DecomposeRules(fl, groups, unis))

(* The callbacks of a write of fl and gr to the tables st: decompose_rules *)
(* with the deletion of what has no route.  The deletion decomposes what   *)
(* it keeps, then the outer call writes the rules it has got, those of a   *)
(* multicast flow deleted half way included.  Where a flow raises, the     *)
(* flows behind it are not looked at and nothing is written.               *)
Decompose(st, fl, gr) ==
    LET keep(some) == SelectSeq(some, LAMBDA f : ~Unroutable(f, gr, unis))
        raising == SelectInSeq(fl, LAMBDA f : Raises(f, unis))
    IN  IF raising = 0
        THEN WriteDevices(WriteDevices([st EXCEPT !.flows = keep(fl)],
                                       DecomposeRules(keep(fl), gr, unis)),
                          DecomposeRules(fl, gr, unis))
        ELSE [st EXCEPT !.fresh = FALSE,
                        !.flows = keep(SubSeq(fl, 1, raising - 1))
                                  \o SubSeq(fl, raising, Len(fl))]

(* A write of the flow table: _pre_process_flows lets _flow_table_updated  *)
(* decompose only if the set of ids changes.                               *)
WriteFlows(st, fl, gr) ==
    IF Ids(fl) = Ids(st.flows) THEN [st EXCEPT !.flows = fl, !.fresh = FALSE]
    ELSE Decompose(st, fl, gr)

Tables == [flows |-> flows, tree |-> tree, hw |-> hw, fresh |-> fresh]

Become(st) ==
    /\ flows' = st.flows
    /\ tree' = st.tree
    /\ hw' = st.hw
    /\ fresh' = st.fresh

(* flow_add: a flow with the same id is replaced.                          *)
FlowAdd(mod) ==
    /\ Step
    /\ LET same == {i \in DOMAIN flows : Id(flows[i]) = Id(mod)}
           after == IF same = {} THEN Append(flows, mod)
                    ELSE [i \in DOMAIN flows |-> IF i \in same THEN mod ELSE flows[i]]
       IN  Become(WriteFlows(Tables, after, groups))
    /\ UNCHANGED <<groups, unis, enabled>>

(* flow_delete_strict.                                                     *)
FlowDeleteStrict(mod) ==
    /\ Step
    /\ Id(mod) \in Ids(flows)
    /\ Become(WriteFlows(Tables, SelectSeq(flows, LAMBDA f : Id(f) # Id(mod)), groups))
    /\ UNCHANGED <<groups, unis, enabled>>

(* flow_delete with an empty match: all flows, or those with the out port. *)
HasOutPort(flow, p) == \E a \in ToSet(flow.acts) : a.op = "output" /\ a.arg = p

FlowDelete(p) ==
    /\ Step
    /\ LET keep == SelectSeq(flows, LAMBDA f : p # Wild /\ ~HasOutPort(f, p))
       IN  Len(keep) < Len(flows) /\ Become(WriteFlows(Tables, keep, groups))
    /\ UNCHANGED <<groups, unis, enabled>>

-----------------------------------------------------------------------------
(* Groups: every change decomposes all flows again.                        *)
GroupAdd(g, buckets) ==
    /\ Step
    /\ g \notin DOMAIN groups
    /\ groups' = [h \in DOMAIN groups \cup {g} |-> IF h = g THEN buckets ELSE groups[h]]
    /\ Become(Decompose(Tables, flows, groups'))
    /\ UNCHANGED <<unis, enabled>>

GroupModify(g, buckets) ==
    /\ Step
    /\ g \in DOMAIN groups
    /\ groups[g] # buckets
    /\ groups' = [groups EXCEPT ![g] = buckets]
    /\ Become(Decompose(Tables, flows, groups'))
    /\ UNCHANGED <<unis, enabled>>

HasOutGroup(flow, g) == \E a \in ToSet(flow.acts) : a.op = "group" /\ a.arg = g

(* group_delete of one group: the group is written first, then the flows   *)
(* as they were read before, without those that use the group.             *)
GroupDelete(g) ==
    /\ Step
    /\ g \in DOMAIN groups
    /\ groups' = [h \in DOMAIN groups \ {g} |-> groups[h]]
    /\ LET users == {f \in ToSet(flows) : HasOutGroup(f, g)}
           first == Decompose(Tables, flows, groups')
       IN  Become(IF users = {} THEN first
                  ELSE WriteFlows(first, SelectSeq(flows, LAMBDA f : f \notin users), groups'))
    /\ UNCHANGED <<unis, enabled>>

(* group_delete of OFPG_ALL leaves the flows alone.                        *)
GroupDeleteAll ==
    /\ Step
    /\ groups # <<>>
    /\ groups' = <<>>
    /\ Become(Decompose(Tables, flows, groups'))
    /\ UNCHANGED <<unis, enabled>>

-----------------------------------------------------------------------------
(* The ports.  DeviceAgent._disable_device empties the tables of the ONU;  *)
(* its handler then takes the logical port away.                           *)
DisableOnu(u) ==
    /\ Step
    /\ u \in enabled /\ u \in unis
    /\ enabled' = enabled \ {u}
    /\ tree' = [tree EXCEPT ![u] = <<>>]
    /\ hw' = IF tree[u] = <<>> THEN hw ELSE [hw EXCEPT ![u] = <<>>]
    /\ fresh' = FALSE
    /\ UNCHANGED <<flows, groups, unis>>

(* _port_removed and _port_added drop the cached routes and leave the      *)
(* flows as they are.  An ONU that is active again gets its table anew.    *)
PortRemoved(u) ==
    /\ u \in unis \ enabled
    /\ unis' = unis \ {u}
    /\ fresh' = FALSE
    /\ UNCHANGED <<flows, groups, enabled, tree, hw, steps>>

PortAdded(u) ==
    /\ Step
    /\ u \notin unis
    /\ unis' = unis \cup {u}
    /\ enabled' = enabled \cup {u}
    /\ hw' = [hw EXCEPT ![u] = tree[u]]
    /\ fresh' = FALSE
    /\ UNCHANGED <<flows, groups, tree>>

(* DeviceAgent.update_device of an active device, as at the end of a       *)
(* reboot: the adapter gets the table of the tree.                         *)
Replay(d) ==
    /\ d = Olt \/ d \in enabled
    /\ hw[d] # tree[d]
    /\ hw' = [hw EXCEPT ![d] = tree[d]]
    /\ UNCHANGED <<flows, groups, unis, enabled, tree, fresh, steps>>

Next ==
    \/ \E mod \in FlowMods : FlowAdd(mod) \/ FlowDeleteStrict(mod)
    \/ \E p \in {Wild, Olt} \cup Unis : FlowDelete(p)
    \/ \E g \in GroupIds, b \in BucketLists : GroupAdd(g, b) \/ GroupModify(g, b)
    \/ \E g \in GroupIds : GroupDelete(g)
    \/ GroupDeleteAll
    \/ \E u \in Unis : DisableOnu(u) \/ PortRemoved(u) \/ PortAdded(u)
    \/ \E d \in Devices : Replay(d)

Spec == Init /\ [][Next]_vars

-----------------------------------------------------------------------------
(* The flows of a subscriber, as the repository's tests install them: two  *)
(* upstream flows that put the inner and the outer tag on, two downstream  *)
(* flows that take them off.                                               *)
SVid == 1000
EthIp == 2048
EthEapol == 34958

Flow(table, prio, match, acts, goto) ==
    [table |-> table, prio |-> prio, cookie |-> 1, match |-> match, acts |-> acts,
     goto |-> goto]

UpInner(u) ==
    Flow(0, 1000, [WildMatch EXCEPT !.in = u, !.vid = 0], <<SetVid(u)>>, TRUE)
UpOuter(u, svid) ==
    Flow(1, 1000, [WildMatch EXCEPT !.in = u, !.vid = u],
         <<PushVlan, SetVid(svid), Output(Olt)>>, FALSE)
DownOuter(u) ==
    Flow(0, 1000, [WildMatch EXCEPT !.in = Olt, !.vid = SVid, !.meta = u], <<PopVlan>>, TRUE)
DownInner(u) ==
    Flow(1, 1000, [WildMatch EXCEPT !.in = Olt, !.vid = u], <<SetVid(0), Output(u)>>, FALSE)

(* 802.1X frames of all ports to the controller.                           *)
ToController == Flow(0, 2000, [WildMatch EXCEPT !.eth = EthEapol], <<Output(Controller)>>, FALSE)

(* A multicast stream: destination g, VLAN 140 + g, group g.               *)
Multicast(g) ==
    Flow(0, 1000, [WildMatch EXCEPT !.in = Olt, !.eth = EthIp, !.vid = 140 + g, !.dst = g],
         <<GroupOf(g)>>, FALSE)

Frame(tags, eth) == [tags |-> tags, eth |-> eth, dst |-> 0]

-----------------------------------------------------------------------------
Sent(p, frame) == Forward(hw, Olt, SetToSeq(Unis), p, frame)
Installed(fs) == fs \subseteq ToSet(flows)
Present == {Olt} \cup unis
Wanted == DecomposeRules(flows, groups, unis)
InSync == \A d \in Present : hw[d] = Wanted[d]

TypeOK ==
    /\ ToSet(flows) \subseteq FlowMods
    /\ DOMAIN groups \subseteq GroupIds
    /\ unis \subseteq Unis /\ enabled \subseteq unis
    /\ steps \in 0..MaxSteps

(* A change of the flows or groups that does not raise leaves no rule out: *)
(* every rule of every flow still in the table is in the device's table.   *)
NothingMissing ==
    fresh => \A d \in Present : ToSet(Wanted[d]) \subseteq ToSet(tree[d])

(* With the four flows of a subscriber installed and the tables of the     *)
(* devices up to date, the devices do together what the flows say: the     *)
(* subscriber's frames leave at the NNI with both tags, and come back to   *)
(* this subscriber and nobody else, whatever else is installed.            *)
SubscriberServed ==
    InSync => \A u \in unis :
        /\ Installed({UpInner(u), UpOuter(u, SVid)}) =>
                Sent(u, Frame(<<0>>, EthIp)) = {[port |-> Olt, frame |-> Frame(<<SVid, u>>, EthIp)]}
        /\ Installed({DownOuter(u), DownInner(u)}) =>
                Sent(Olt, Frame(<<SVid, u>>, EthIp)) = {[port |-> u, frame |-> Frame(<<0>>, EthIp)]}
        /\ Installed({ToController}) =>
                Sent(u, Frame(<<>>, EthEapol)) =
                    {[port |-> Olt, frame |-> Frame(<<ControllerVid, u>>, EthEapol)]}

(* In every state, up to date or not, no frame from one subscriber leaves  *)
(* at another one, or at the NNI with the tag of another one; and no frame *)
(* with the inner tag of one subscriber reaches another one.               *)
Isolated ==
    \A u \in Unis, eth \in {EthIp, EthEapol} :
        /\ \A tags \in {<<>>, <<0>>, <<SVid>>, <<ControllerVid>>} \cup {<<v>> : v \in Unis} :
                \A s \in Sent(u, Frame(tags, eth)) :
                    s.port = Olt /\ s.frame.tags[Len(s.frame.tags)] = u
        /\ \A svid \in {SVid, ControllerVid} :
                \A s \in Sent(Olt, Frame(<<svid, u>>, eth)) : s.port = u

(* With the tables up to date, a multicast stream reaches those of the     *)
(* existing ports that its group names, and no other of them.              *)
MulticastServed ==
    InSync => \A g \in DOMAIN groups :
        Installed({Multicast(g)}) =>
            LET reached == Sent(Olt, [tags |-> <<140 + g>>, eth |-> EthIp, dst |-> g])
            IN  {s.port : s \in reached} \cap unis = {b.out : b \in ToSet(groups[g])} \cap unis

(* Violated: a flow that could not be routed and was deleted leaves no     *)
(* rule behind.                                                            *)
DeletedFlowGone ==
    fresh => \A d \in Present : Ids(tree[d]) \subseteq Ids(Wanted[d])

(* Violated: the adapter is told of every change of a device's flow table. *)
AdapterToldOfChange == \A d \in Devices : hw[d] = tree[d]
=============================================================================
