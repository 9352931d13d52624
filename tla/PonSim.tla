------------------------------- MODULE PonSim -------------------------------
(***************************************************************************)
(* How the simulated OLT and ONUs forward frames (src/ponsim/ponsim.py):   *)
(* matching, choice of the flow, actions, and the links between devices.   *)
(*                                                                         *)
(* A flow is a record with prio, match and acts; a match has the fields    *)
(* in, eth, vid, pcp, dst and meta, each a number or Wild.  A frame is its *)
(* stack of VLAN ids, outermost first, its ethernet type and its IPv4      *)
(* destination; its VLAN priority is 0, as nothing sets it.  Matches on    *)
(* the IP protocol and on UDP ports work alike and are left out.           *)
(***************************************************************************)
EXTENDS Integers, Sequences, FiniteSets, SequencesExt

Wild == -1
Untagged == -2      \* vlan_vid(0): the frame must have no tag
Shim == 33024       \* the ethernet type 0x8100

PushVlan == [op |-> "push", arg |-> 0]
PopVlan == [op |-> "pop", arg |-> 0]
SetVid(v) == [op |-> "set", arg |-> v]
Output(p) == [op |-> "output", arg |-> p]

Lost == -1          \* no egress port
PON == 1            \* the ports of a device
NI == 2

-----------------------------------------------------------------------------
(* get_non_shim_ether_type looks behind the first tag only.                *)
EthType(frame) == IF Len(frame.tags) > 1 THEN Shim ELSE frame.eth

VidMatches(vid, tags) ==
    IF vid = Untagged THEN tags = <<>> ELSE tags # <<>> /\ Head(tags) = vid

Matches(m, port, frame) ==
    /\ m.in \in {Wild, port}
    /\ m.eth \in {Wild, EthType(frame)}
    /\ m.vid = Wild \/ VidMatches(m.vid, frame.tags)
    /\ m.pcp = Wild \/ (frame.tags # <<>> /\ m.pcp = 0)
    /\ m.dst \in {Wild, frame.dst}

(* is_match: the weight of the fields compared, 0 if one of them differs.  *)
(* METADATA is ignored.                                                    *)
IsMatch(flow, port, frame) ==
    LET m == flow.match
        weight(field, bit) == IF field = Wild THEN 0 ELSE bit
    IN  IF Matches(m, port, frame)
        THEN weight(m.in, 128) + weight(m.eth, 64) + weight(m.vid, 16)
                + weight(m.pcp, 8) + weight(m.dst, 4)
        ELSE 0

(* process_frame: of the matching flows with the highest priority the      *)
(* first one with the most specific match.                                 *)
Candidates(flows, port, frame) ==
    LET matching == {i \in DOMAIN flows : IsMatch(flows[i], port, frame) > 0}
        top == {i \in matching : \A j \in matching : flows[i].prio >= flows[j].prio}
    IN  {i \in top : \A j \in top :
            \/ IsMatch(flows[i], port, frame) > IsMatch(flows[j], port, frame)
            \/ IsMatch(flows[i], port, frame) = IsMatch(flows[j], port, frame) /\ i <= j}

(* process_actions.  Setting a field of a frame without a tag raises.      *)
ProcessActions(acts, frame) ==
    FoldLeft(LAMBDA out, a :
        CASE a.op = "output" -> [out EXCEPT !.port = a.arg]
          [] a.op = "push" -> [out EXCEPT !.tags = <<1>> \o @]
          [] a.op = "pop" -> [out EXCEPT !.tags = IF @ = <<>> THEN @ ELSE Tail(@)]
          [] a.op = "set" -> [out EXCEPT !.tags = IF @ = <<>> THEN @ ELSE <<a.arg>> \o Tail(@),
                                         !.raised = @ \/ out.tags = <<>>],
        [port |-> Lost, tags |-> frame.tags, raised |-> FALSE], acts)

(* What the actions leave of the frame object they were given: a field set *)
(* before the first push or pop is set in place.                           *)
AfterActions(acts, frame) ==
    LET copied == {i \in DOMAIN acts : acts[i].op \in {"push", "pop"}}
        inPlace == {i \in DOMAIN acts :
                        acts[i].op = "set" /\ \A j \in copied : i < j}
    IN  IF inPlace = {} \/ frame.tags = <<>> THEN frame
        ELSE [frame EXCEPT !.tags =
                <<acts[CHOOSE i \in inPlace : \A j \in inPlace : j <= i].arg>> \o Tail(@)]

(* SimDevice.ingress, as far as the device's own egress port.              *)
Ingress(flows, port, frame) ==
    LET best == Candidates(flows, port, frame)
    IN  IF best = {} THEN [port |-> Lost, frame |-> frame, given |-> frame, raised |-> FALSE]
        ELSE LET acts == flows[CHOOSE i \in best : TRUE].acts
                 out == ProcessActions(acts, frame)
             IN  [port |-> IF out.raised THEN Lost ELSE out.port,
                  frame |-> [frame EXCEPT !.tags = out.tags],
                  given |-> AfterActions(acts, frame),
                  raised |-> out.raised]

-----------------------------------------------------------------------------
(* The links of PonSim: the PON port of the OLT leads to the ONUs, one     *)
(* after the other and with the same frame object until one of them        *)
(* raises, that of an ONU to the OLT.  hw[d] are the flows of device d.    *)
(* The results are the frames that leave the network, each with the        *)
(* logical port it leaves at.  An ONU's flows for frames from the OLT send *)
(* none back to it: FlowDecomposer makes no such flow.                     *)
ToOnus(hw, onus, frame) ==
    FoldLeft(LAMBDA acc, u :
        LET out == Ingress(hw[u], PON, acc.frame)
        IN  IF acc.raised THEN acc
            ELSE [frame |-> out.given, raised |-> out.raised,
                  left |-> acc.left \cup (IF out.port = NI THEN {[port |-> u, frame |-> out.frame]}
                                          ELSE {})],
        [frame |-> frame, raised |-> FALSE, left |-> {}], onus).left

ThroughOlt(hw, olt, onus, port, frame) ==
    LET out == Ingress(hw[olt], port, frame)
    IN  CASE out.port = NI -> {[port |-> olt, frame |-> out.frame]}
          [] out.port = PON -> ToOnus(hw, onus, out.frame)
          [] OTHER -> {}

(* PonSim.ingress of a frame at the logical port p.                        *)
Forward(hw, olt, onus, p, frame) ==
    IF p = olt THEN ThroughOlt(hw, olt, onus, NI, frame)
    ELSE LET out == Ingress(hw[p], NI, frame)
         IN  CASE out.port = PON -> ThroughOlt(hw, olt, onus, PON, out.frame)
               [] out.port = NI -> {[port |-> p, frame |-> out.frame]}
               [] OTHER -> {}
=============================================================================
