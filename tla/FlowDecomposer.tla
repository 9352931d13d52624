--------------------------- MODULE FlowDecomposer ---------------------------
(***************************************************************************)
(* Flows of a logical device into flows of its OLT and ONUs                *)
(* (src/voltha/core/flow_decomposer.py), with the routes of                *)
(* src/voltha/core/device_graph.py for one OLT with its ONUs and the       *)
(* default rules of src/voltha/core/logical_device_agent.py.               *)
(*                                                                         *)
(* The logical port of the OLT and the OLT have the number Olt; an ONU has *)
(* the number of its logical port, which is also its default VLAN.  unis   *)
(* are the logical ports of ONUs that exist.                               *)
(***************************************************************************)
EXTENDS PonSim

Olt == 0
Controller == 999
ControllerVid == 4000

GroupOf(g) == [op |-> "group", arg |-> g]

WildMatch == [in |-> Wild, eth |-> Wild, vid |-> Wild, pcp |-> Wild, dst |-> Wild,
              meta |-> Wild]

(* hash_flow_stats: what identifies a flow; its actions are not part of it.*)
Id(flow) == [table |-> flow.table, prio |-> flow.prio, cookie |-> flow.cookie,
             match |-> flow.match]
Ids(flows) == {Id(f) : f \in ToSet(flows)}

(* mk_flow_stat.                                                           *)
Rule(prio, cookie, match, acts) ==
    [table |-> 0, prio |-> prio, cookie |-> cookie, match |-> match, acts |-> acts,
     goto |-> FALSE]

FirstArg(acts, op) ==
    LET found == SelectSeq(acts, LAMBDA a : a.op = op)
    IN  IF found = <<>> THEN Wild ELSE Head(found).arg

OutPort(flow) == FirstArg(flow.acts, "output")
GroupId(flow) == FirstArg(flow.acts, "group")
Without(acts, op) == SelectSeq(acts, LAMBDA a : a.op # op)

-----------------------------------------------------------------------------
(* A hop of a route is a device with the ports to enter and to leave.      *)
Hop(dev, in, out) == [dev |-> dev, in |-> in, out |-> out]

(* The two hops of a route, and get_route: routes lead from each ONU to    *)
(* the OLT and back; a flow without an output port gets the first hop of   *)
(* any route from its input port, one without an input port the last hop   *)
(* to the OLT.  The search for the shortest path is not modelled: each ONU *)
(* with a logical port is taken to be a peer of the OLT, so that there is  *)
(* one, and it has the six nodes that the code asserts.                    *)
FirstHop(flow) == Hop(flow.match.in, NI, PON)

(* Mutant: upstream flows stay on the ONU.                                 *)
LastHopIsFirst(flow) ==
    IF flow.match.in = Olt THEN Hop(OutPort(flow), PON, NI) ELSE Hop(flow.match.in, NI, PON)

LastHop(flow) ==
    IF flow.match.in = Olt THEN Hop(OutPort(flow), PON, NI) ELSE Hop(Olt, PON, NI)

(* The first of two downstream flows is routed by its inner tag.           *)
Routed(flow, unis) ==
    CASE flow.match.in = Wild -> OutPort(flow) \in {Olt, Controller}
      [] flow.match.in \in unis -> OutPort(flow) \in {Olt, Controller, Wild}
      [] flow.match.in = Olt /\ OutPort(flow) # Wild -> OutPort(flow) \in unis
      [] flow.match.in = Olt /\ OutPort(flow) = Wild ->
            IF flow.goto /\ flow.match.meta # Wild THEN flow.match.meta \in unis
            ELSE unis # {}
      [] OTHER -> FALSE

-----------------------------------------------------------------------------
At(dev, rule) == [dev |-> dev, rule |-> rule]

(* Mutant: VLAN_VID dropped from the match, as in the multicast branch.    *)
AtHopAnyVid(hop, flow, acts) ==
    At(hop.dev, Rule(flow.prio, flow.cookie,
                     [flow.match EXCEPT !.in = hop.in, !.vid = Wild],
                     Append(acts, Output(hop.out))))

(* The rule of a flow at a hop: the flow's match with the ingress port of  *)
(* the hop, its actions, and output at the egress port.                    *)
AtHop(hop, flow, acts) ==
    At(hop.dev, Rule(flow.prio, flow.cookie, [flow.match EXCEPT !.in = hop.in],
                     Append(acts, Output(hop.out))))

(* A flow to the controller: on the OLT, a rule into the in-band channel   *)
(* and one back for every input port.  The wildcard excludes the physical  *)
(* number of the egress port.                                              *)
ControllerRules(flow, unis) ==
    LET inputs == IF flow.match.in = Wild THEN SetToSeq(({Olt} \cup unis) \ {NI})
                  ELSE <<flow.match.in>>
    IN  FlattenSeq([i \in DOMAIN inputs |->
          << At(Olt, Rule(flow.prio, flow.cookie,
                          [flow.match EXCEPT !.in = PON, !.vid = inputs[i]],
                          <<PushVlan, SetVid(ControllerVid), Output(NI)>>)),
             At(Olt, Rule(flow.prio, 0,
                          [WildMatch EXCEPT !.in = NI, !.vid = ControllerVid, !.pcp = 0,
                                           !.meta = inputs[i]],
                          <<PopVlan, Output(PON)>>)) >>])

(* The buckets of the group of a multicast flow; a group that does not     *)
(* exist has none.                                                         *)
Buckets(flow, groups) ==
    IF GroupId(flow) \in DOMAIN groups THEN groups[GroupId(flow)] ELSE <<>>

(* Mutant: the VLAN the OLT takes off is still matched on the ONU.         *)
BucketRuleTagged(flow, bucket) ==
    At(bucket.out, Rule(flow.prio, flow.cookie, [flow.match EXCEPT !.in = PON],
                        Append(bucket.acts, Output(NI))))

BucketRule(flow, bucket) ==
    At(bucket.out, Rule(flow.prio, flow.cookie,
                        [flow.match EXCEPT !.in = PON, !.vid = Wild, !.pcp = Wild],
                        Append(bucket.acts, Output(NI))))

MulticastRules(flow, groups, unis) ==
    <<AtHop(FirstHop(flow), flow, Append(Without(flow.acts, "group"), PopVlan))>>
    \o LET routed == SelectSeq(Buckets(flow, groups), LAMBDA b : b.out \in unis)
       IN  [i \in DOMAIN routed |-> BucketRule(flow, routed[i])]

(* A wildcard flow raises without an upstream route, and always when it    *)
(* does not go to the controller, for its route has no first hop.  A flow  *)
(* has to have either a next table or an output, downstream also a group.  *)
Raises(flow, unis) ==
    \/ flow.match.in = Wild /\ OutPort(flow) = Olt
    \/ flow.match.in = Wild /\ OutPort(flow) = Controller /\ unis = {}
    \/ flow.goto /\ OutPort(flow) \notin {Wild, Controller} /\ Routed(flow, unis)
    \/ /\ ~flow.goto /\ OutPort(flow) = Wild /\ Routed(flow, unis)
       /\ flow.match.in # Olt \/ GroupId(flow) = Wild

(* flow_delete is called for the flow while it is decomposed: it has no    *)
(* route, or a bucket of its group has none.                               *)
Unroutable(flow, groups, unis) ==
    \/ ~Routed(flow, unis)
    \/ /\ OutPort(flow) = Wild /\ ~flow.goto
       /\ \E b \in ToSet(Buckets(flow, groups)) : b.out \notin unis

(* decompose_flow.                                                         *)
DecomposeFlow(flow, groups, unis) ==
    IF ~Routed(flow, unis) THEN <<>>
    ELSE CASE OutPort(flow) = Controller -> ControllerRules(flow, unis)
           [] OutPort(flow) = Wild /\ flow.goto -> <<AtHop(FirstHop(flow), flow, flow.acts)>>
           [] OutPort(flow) = Wild /\ ~flow.goto -> MulticastRules(flow, groups, unis)
           [] OTHER -> <<AtHop(LastHop(flow), flow, Without(flow.acts, "output"))>>

(* The rules an ONU always has.                                            *)
DefaultRules(d) ==
    IF d = Olt THEN <<>>
    ELSE << Rule(500, 0, [WildMatch EXCEPT !.in = NI, !.vid = 0], <<SetVid(d), Output(PON)>>),
            Rule(500, 0, [WildMatch EXCEPT !.in = NI, !.vid = Untagged],
                 <<PushVlan, SetVid(d), Output(PON)>>),
            Rule(500, 0, [WildMatch EXCEPT !.in = PON, !.vid = d], <<SetVid(0), Output(NI)>>) >>

(* decompose_rules: the default rules, then those of the flows in turn;    *)
(* the first of two rules with one id stays.                               *)
FirstOfId(rules) ==
    LET first == SelectSeq([i \in DOMAIN rules |-> i],
                           LAMBDA i : \A j \in 1..i - 1 : Id(rules[j]) # Id(rules[i]))
    IN  <<>> \o [k \in DOMAIN first |-> rules[first[k]]]

DecomposeRules(flows, groups, unis) ==
    LET all == FlattenSeq([i \in DOMAIN flows |-> DecomposeFlow(flows[i], groups, unis)])
        of(d) == LET at == SelectSeq(all, LAMBDA a : a.dev = d)
                 IN  <<>> \o [i \in DOMAIN at |-> at[i].rule]
    IN  [d \in {Olt} \cup unis |-> FirstOfId(DefaultRules(d) \o of(d))]
=============================================================================
