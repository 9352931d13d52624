----------------------------- MODULE DeviceLife -----------------------------
(***************************************************************************)
(* The life of an OLT and its ONUs in one VOLTHA instance: the operator's  *)
(* requests, the device agents that turn a change of the administrative    *)
(* state into calls of the adapter, and the handlers of the ponsim         *)
(* adapters, which run later and write their findings back into the tree.  *)
(*                                                                         *)
(* src/voltha/core/local_handler.py     the requests of the operator       *)
(* src/voltha/core/core.py              an agent for every device          *)
(* src/voltha/core/device_agent.py      admin_state_fsm                    *)
(* src/voltha/core/adapter_agent.py     what adapters may do to the tree   *)
(* src/voltha/adapters/iadapter.py      calls become reactor.callLater(0)  *)
(* src/voltha/adapters/ponsim_olt, ponsim_onu    the handlers              *)
(*                                                                         *)
(* A step is one callback of the reactor; a handler runs without a break   *)
(* except for the sleep of reboot().  sched is the queue of callLater(0)   *)
(* calls, run in order; requests of the operator fall between any two, and *)
(* so do crashes.  A handler that raises leaves behind what it had done so *)
(* far.                                                                    *)
(***************************************************************************)
EXTENDS Naturals, Sequences, FiniteSets, Functions

CONSTANTS
    olt,          \* the id of the OLT
    Onus,         \* the ids of the ONUs it detects
    MaxRequests,  \* bound on the requests of the operator
    MaxFailures,  \* bound on the calls that do not reach the OLT
    MaxCrashes    \* bound on the restarts of the instance

ASSUME DeviceLifeAssumption ==
    /\ olt \notin Onus
    /\ \A S \in SUBSET ({olt} \cup Onus) :    \* they are finitely many
           Cardinality(S) \in Nat /\ ExistsBijection(1..Cardinality(S), S)
    /\ {MaxRequests, MaxFailures, MaxCrashes} \subseteq Nat

VARIABLES
    dev,        \* /devices in memory; Absent for an id that is not there
    disk,       \* the same as persisted
    last,       \* last_data.admin_state of the agents; "none" without agent
    handlers,   \* the devices with an entry in devices_handlers
    sched,      \* the scheduled calls: [op, dev, arg]
    reboots,    \* the reboots in their sleep, first to last: [dev, oper, conn]
    ld,         \* the logical device exists
    ldKnown,    \* logical_device_id of the OLT's handler is set
    uni,        \* the ONUs with a logical port
    nniPort,    \* the OLT has its ports
    probed,     \* ofp_port_no of the OLT's handler is set
    host,       \* the OLT was created with a host_and_port
    kpi,        \* "none": the OLT's handler has no pm_metrics; else its loop
    onuPorts,   \* the ONUs that have their ports
    peers,      \* the peers of the OLT's PON port
    known,      \* the ids that have been in use
    calm,       \* no request or crash so far was one that Careful leaves out; no failure
    requests, failures, crashes

tree == <<dev, disk, known, host>>
logical == <<ld, uni>>
ports == <<nniPort, onuPorts, peers>>
memory == <<ldKnown, probed, kpi>>
bounds == <<requests, failures, crashes>>
vars == <<tree, last, handlers, sched, reboots, logical, memory, ports, calm, bounds>>

Devices == {olt} \cup Onus

(* The fields of a Device that matter here; parent: parent_id is set.      *)
Records ==
    [admin: {"PREPROVISIONED", "ENABLED", "DISABLED"},
     oper: {"UNKNOWN", "ACTIVATING", "ACTIVE", "FAILED"},
     conn: {"UNKNOWN", "REACHABLE", "UNREACHABLE"},
     parent: BOOLEAN]
Absent == [admin |-> "absent", oper |-> "UNKNOWN", conn |-> "UNKNOWN", parent |-> FALSE]
NewOlt == [Absent EXCEPT !.admin = "PREPROVISIONED"]
NewOnu == [Absent EXCEPT !.admin = "ENABLED", !.parent = TRUE]

Present(d) == dev[d] # Absent
Children == {u \in Onus : Present(u)}
Settled == sched = <<>> /\ reboots = <<>>

(* A set of devices, one after the other in some order.                    *)
Listed(S) == CHOOSE s \in Bijection(1..Cardinality(S), S) : TRUE

Call(op, d) == [op |-> op, dev |-> d, arg |-> Absent]
CallWith(op, d, rec) == [op |-> op, dev |-> d, arg |-> rec]

Init ==
    /\ dev = [d \in Devices |-> Absent]
    /\ disk = dev
    /\ known = {}
    /\ host = TRUE
    /\ last = [d \in Devices |-> "none"]
    /\ handlers = {}
    /\ sched = <<>>
    /\ reboots = <<>>
    /\ ld = FALSE /\ uni = {}
    /\ ldKnown = FALSE /\ probed = FALSE /\ kpi = "none"
    /\ nniPort = FALSE /\ onuPorts = {} /\ peers = <<>>
    /\ calm = TRUE
    /\ requests = 0 /\ failures = 0 /\ crashes = 0

-----------------------------------------------------------------------------
(* The device agent.                                                       *)

(* admin_state_fsm, the entries that call the adapter.  The entries that   *)
(* forbid a change do not: _validate_update raises inside a deferred that  *)
(* nobody looks at.                                                        *)
AdminStateFsm(old, new) ==
    CASE old \in {"UNKNOWN", "PREPROVISIONED"} /\ new = "ENABLED" -> "activate"
      [] old = "ENABLED" /\ new = "DISABLED" -> "disable"
      [] old = "DISABLED" /\ new = "ENABLED" -> "reenable"
      [] OTHER -> "none"

(* _process_update of the agents of the devices D after the tree got the   *)
(* values new: a transition schedules the handler's method.  Without a     *)
(* handler the adapter raises: _disable_device catches that, for           *)
(* _reenable_device last_data stays what it was.                           *)
Transition(d, new) == AdminStateFsm(last[d], new[d].admin)

ProcessUpdate(D, new) ==
    [d \in Devices |->
        IF d \notin D \/ (Transition(d, new) = "reenable" /\ d \notin handlers)
        THEN last[d] ELSE new[d].admin]

Calls(D, new) ==
    LET changed == {d \in D : Transition(d, new) \in {"disable", "reenable"} /\ d \in handlers}
    IN  [i \in 1..Cardinality(changed) |->
            LET d == Listed(changed)[i] IN Call(Transition(d, new), d)]

(* Mutant: last_data is not replaced by what a handler writes.             *)
UpdateDeviceUnseen(d, rec) ==
    /\ dev' = [dev EXCEPT ![d] = rec]
    /\ disk' = [disk EXCEPT ![d] = rec]
    /\ UNCHANGED last

(* DeviceAgent.update_device: what a handler writes is not a change to     *)
(* react to.                                                               *)
UpdateDevice(d, rec) ==
    /\ dev' = [dev EXCEPT ![d] = rec]
    /\ disk' = [disk EXCEPT ![d] = rec]
    /\ last' = [last EXCEPT ![d] = rec.admin]

-----------------------------------------------------------------------------
(* Requests of the operator (LocalHandler).                                *)
Request(ok) ==
    /\ requests < MaxRequests
    /\ requests' = requests + 1
    /\ calm' = (calm /\ ok /\ Settled)
    /\ UNCHANGED <<failures, crashes>>

(* An address of another kind than host_and_port is accepted as well.      *)
CreateDevice(hasHost) ==
    /\ olt \notin known
    /\ Request(hasHost)
    /\ host' = hasHost
    /\ dev' = [dev EXCEPT ![olt] = NewOlt]
    /\ disk' = [disk EXCEPT ![olt] = NewOlt]
    /\ known' = known \cup {olt}
    /\ last' = [last EXCEPT ![olt] = "PREPROVISIONED"]
    /\ UNCHANGED <<handlers, sched, reboots, logical, memory, ports>>

(* EnableDevice of a device that was never enabled: _activate_device sets  *)
(* the operational status on the very object the tree holds, so that       *)
(* nothing is written, and the handler gets that object.                   *)
EnableNew ==
    /\ dev[olt].admin = "PREPROVISIONED"
    /\ Request(TRUE)
    /\ LET rec == [dev[olt] EXCEPT !.admin = "ENABLED"]
           activating == [rec EXCEPT !.oper = "ACTIVATING"]
       IN  /\ disk' = [disk EXCEPT ![olt] = rec]
           /\ dev' = [dev EXCEPT ![olt] = activating]
           /\ last' = [last EXCEPT ![olt] = "ENABLED"]
           /\ sched' = Append(sched, CallWith("activate", olt, activating))
    /\ handlers' = handlers \cup {olt}
    /\ UNCHANGED <<known, host, reboots, logical, memory, ports>>

(* What calm leaves out: to switch an ONU below a disabled OLT, and to     *)
(* disable an OLT whose handler collects no KPIs, because it was made for  *)
(* an OLT that was disabled at a restart: disable() raises at once.        *)
Careful(d, new) ==
    /\ d \in Onus => dev[olt].admin = "ENABLED"
    /\ d = olt /\ new = "DISABLED" => kpi = "running"

(* EnableDevice and DisableDevice of a device that has been enabled.       *)
SetAdmin(d, old, new) ==
    /\ dev[d].admin = old
    /\ Request(Careful(d, new))
    /\ LET after == [dev EXCEPT ![d].admin = new]
       IN  /\ dev' = after
           /\ disk' = [disk EXCEPT ![d] = after[d]]
           /\ last' = ProcessUpdate({d}, after)
           /\ sched' = sched \o Calls({d}, after)
    /\ UNCHANGED <<known, host, handlers, reboots, logical, memory, ports>>

EnableDevice(d) == SetAdmin(d, "DISABLED", "ENABLED")
DisableDevice(d) == SetAdmin(d, "ENABLED", "DISABLED")

RebootDevice(d) ==
    /\ Present(d)
    /\ Request(d \in handlers)
    /\ sched' = IF d \in handlers THEN Append(sched, Call("reboot", d)) ELSE sched
    /\ UNCHANGED <<tree, last, handlers, reboots, logical, memory, ports>>

(* The deletions of the children that have a handler, scheduled as the     *)
(* core stops their agents (_handle_remove_device).                        *)
Deletions ==
    LET gone == Listed(Children \cap handlers)
    IN  [i \in 1..Len(gone) |-> Call("delete", gone[i])]

(* DeleteDevice, of an OLT only: its children go with it.  The adapter has *)
(* no handler for a device that was never enabled and raises, which keeps  *)
(* the agent in the table.  So does delete_all_child_devices if a child    *)
(* was not reconciled since a restart: nobody is subscribed to its proxied *)
(* messages, and the children stay in the tree.                            *)
DeleteDevice ==
    /\ dev[olt].admin \in {"DISABLED", "PREPROVISIONED"}
    /\ Request(TRUE)
    /\ LET whole == Children \subseteq handlers
           removed == IF whole THEN Devices ELSE {olt}
           stopped == IF whole /\ olt \in handlers THEN removed ELSE removed \ {olt}
           deletion == IF olt \in handlers THEN <<Call("delete", olt)>> ELSE <<>>
       IN  /\ dev' = [d \in Devices |-> IF d \in removed THEN Absent ELSE dev[d]]
           /\ disk' = [d \in Devices |-> IF d \in removed THEN Absent ELSE disk[d]]
           /\ last' = [d \in Devices |-> IF d \in stopped THEN "none" ELSE last[d]]
           /\ sched' = IF whole THEN sched \o Deletions \o deletion ELSE sched
    /\ UNCHANGED <<known, host, handlers, reboots, logical, memory, ports>>

-----------------------------------------------------------------------------
(* The scheduled methods of the handlers.                                  *)
Due(op, d) ==
    /\ sched # <<>>
    /\ Head(sched).op = op
    /\ Head(sched).dev = d

Fail ==
    /\ failures < MaxFailures
    /\ failures' = failures + 1
    /\ calm' = FALSE
    /\ UNCHANGED <<requests, crashes>>

(* A method that raises before it has changed anything in the tree: the    *)
(* device is gone (get_device, get_device_agent).                          *)
Gone(op, d) ==
    /\ Due(op, d)
    /\ ~Present(d)
    /\ sched' = Tail(sched)
    /\ kpi' = IF op = "disable" /\ d = olt /\ kpi = "running" THEN "stopped" ELSE kpi
    /\ UNCHANGED <<tree, last, handlers, reboots, logical, ldKnown, probed, ports, calm, bounds>>

(* The OLT has no host_and_port: activate and reconcile note that it       *)
(* failed, reenable has nobody to ask and raises.                          *)
OltWithoutHost ==
    /\ ~host
    /\ Present(olt)
    /\ \/ /\ Due("activate", olt) \/ Due("reconcile", olt)
          /\ UpdateDevice(olt, [Head(sched).arg EXCEPT !.oper = "FAILED"])
       \/ Due("reenable", olt) /\ UNCHANGED <<dev, disk, last>>
    /\ sched' = Tail(sched)
    /\ UNCHANGED <<known, host, handlers, reboots, logical, memory, ports, calm, bounds>>

(* GetDeviceInfo raises in activate, or in a reenable that has to ask.     *)
OltUnreachable ==
    /\ host
    /\ \/ Due("activate", olt)
       \/ Due("reenable", olt) /\ ~probed
    /\ Present(olt)
    /\ Fail
    /\ sched' = Tail(sched)
    /\ UNCHANGED <<tree, last, handlers, reboots, logical, memory, ports>>

(* PonSimOltHandler.activate: writes the object it was called with, then   *)
(* makes the ports, the logical device (there is none yet) and the ONUs,   *)
(* whose agents schedule their activation.                                 *)
OltActivate ==
    /\ host
    /\ Due("activate", olt)
    /\ Present(olt)
    /\ LET reached == [Head(sched).arg EXCEPT !.conn = "REACHABLE"]
           active == [reached EXCEPT !.parent = TRUE, !.oper = "ACTIVE"]
           found == Listed(Onus)
           onu == [NewOnu EXCEPT !.oper = "ACTIVATING"]
       IN  /\ dev' = [d \in Devices |-> IF d = olt THEN active ELSE onu]
           /\ disk' = [d \in Devices |-> IF d = olt THEN active ELSE NewOnu]
           /\ last' = [d \in Devices |-> dev'[d].admin]
           /\ sched' = Tail(sched) \o
                   [i \in 1..Len(found) |-> CallWith("activate", found[i], onu)]
    /\ known' = Devices
    /\ handlers' = Devices
    /\ ld' = TRUE
    /\ ldKnown' = TRUE
    /\ probed' = TRUE
    /\ kpi' = "running"
    /\ nniPort' = TRUE
    /\ UNCHANGED <<host, reboots, uni, onuPorts, peers, calm, bounds>>

(* PonSimOltHandler.disable: raises at once if there is no loop of KPIs to *)
(* stop, and needs the logical device to go on after the first write;      *)
(* delete_all_peer_references removes from the list it runs over and so    *)
(* misses every second entry.                                              *)
EverySecond(s) == [i \in 1..(Len(s) \div 2) |-> s[2 * i]]

OltDisable ==
    /\ Due("disable", olt)
    /\ Present(olt)
    /\ LET down == [dev EXCEPT ![olt].oper = "UNKNOWN", ![olt].conn = "UNREACHABLE"]
           after == [d \in Devices |->
                        IF d \in Children THEN [down[d] EXCEPT !.admin = "DISABLED"]
                        ELSE down[d]]
           changed == {u \in Children : after[u] # dev[u]}
       IN  IF kpi # "running"
           THEN /\ sched' = Tail(sched)
                /\ UNCHANGED <<dev, disk, last, logical, peers>>
           ELSE IF ldKnown /\ ld
           THEN /\ dev' = after
                /\ disk' = [d \in Devices |->
                        IF d = olt \/ d \in changed THEN after[d] ELSE disk[d]]
                /\ last' = ProcessUpdate(changed \cup {olt}, after)
                /\ sched' = Tail(sched) \o Calls(changed, after)
                /\ ld' = FALSE
                /\ uni' = {}
                /\ peers' = EverySecond(peers)
           ELSE /\ UpdateDevice(olt, down[olt])
                /\ sched' = Tail(sched)
                /\ UNCHANGED <<logical, peers>>
    /\ kpi' = IF kpi = "running" THEN "stopped" ELSE kpi
    /\ UNCHANGED <<known, host, handlers, reboots, ldKnown, probed, nniPort, onuPorts, calm, bounds>>

(* PonSimOltHandler.reenable: refused by create_logical_device if there is *)
(* a logical device, and raises after making one if the ports are missing. *)
(* Without pm_metrics the start of their loop, which comes last, raises.   *)
OltReenable ==
    /\ host \/ probed
    /\ Due("reenable", olt)
    /\ Present(olt)
    /\ probed' = TRUE
    /\ LET reached == [dev EXCEPT ![olt].conn = "REACHABLE"]
           active == [reached EXCEPT ![olt].parent = TRUE, ![olt].oper = "ACTIVE"]
           after == [d \in Devices |->
                        IF d \in Children THEN [active[d] EXCEPT !.admin = "ENABLED"]
                        ELSE active[d]]
           changed == {u \in Children : after[u] # dev[u]}
       IN  IF ~ld /\ nniPort
           THEN /\ dev' = after
                /\ disk' = [d \in Devices |->
                        IF d = olt \/ d \in changed THEN after[d] ELSE disk[d]]
                /\ last' = ProcessUpdate(changed \cup {olt}, after)
                /\ sched' = Tail(sched) \o Calls(changed, after)
                /\ ldKnown' = TRUE
                /\ kpi' = IF kpi = "none" THEN kpi ELSE "running"
           ELSE /\ UpdateDevice(olt, reached[olt])
                /\ sched' = Tail(sched)
                /\ UNCHANGED <<ldKnown, kpi>>
    /\ ld' = TRUE
    /\ UNCHANGED <<known, host, handlers, reboots, uni, ports, calm, bounds>>

(* PonSimOnuHandler.activate.                                              *)
AddPeer(u) == IF u \in Range(peers) THEN peers ELSE Append(peers, u)

(* peers.remove: the first entry of u goes, if there is one.               *)
PeerIndex(u) ==
    CHOOSE i \in 1..Len(peers) : peers[i] = u /\ \A j \in 1..(i - 1) : peers[j] # u

RemovePeer(u) ==
    IF u \in Range(peers)
    THEN SubSeq(peers, 1, PeerIndex(u) - 1) \o SubSeq(peers, PeerIndex(u) + 1, Len(peers))
    ELSE peers

(* Mutant: the update of a device that is gone adds it.                    *)
OnuActivateAdds(u) ==
    /\ Due("activate", u)
    /\ sched' = Tail(sched)
    /\ UpdateDevice(u, [Head(sched).arg EXCEPT !.conn = "REACHABLE"])
    /\ UNCHANGED <<known, host, handlers, reboots, logical, memory, ports, calm, bounds>>

OnuActivate(u) ==
    /\ Due("activate", u)
    /\ Present(u)
    /\ sched' = Tail(sched)
    /\ onuPorts' = onuPorts \cup {u}
    /\ peers' = AddPeer(u)
    /\ LET reached == [Head(sched).arg EXCEPT !.conn = "REACHABLE"]
       IN  IF ld
           THEN /\ UpdateDevice(u, [reached EXCEPT !.oper = "ACTIVE"])
                /\ uni' = uni \cup {u}
           ELSE /\ UpdateDevice(u, reached)
                /\ UNCHANGED uni
    /\ UNCHANGED <<known, host, handlers, reboots, ld, memory, nniPort, calm, bounds>>

(* Mutant: the reference to the PON port stays with the parent.            *)
OnuDisableKeepsPeer(u) ==
    /\ Due("disable", u)
    /\ Present(u)
    /\ sched' = Tail(sched)
    /\ UpdateDevice(u, [dev[u] EXCEPT !.oper = "UNKNOWN", !.conn = "UNREACHABLE"])
    /\ uni' = uni \ {u}
    /\ UNCHANGED <<known, host, handlers, reboots, ld, memory, ports, calm, bounds>>

OnuDisable(u) ==
    /\ Due("disable", u)
    /\ Present(u)
    /\ sched' = Tail(sched)
    /\ UpdateDevice(u, [dev[u] EXCEPT !.oper = "UNKNOWN", !.conn = "UNREACHABLE"])
    /\ uni' = uni \ {u}
    /\ peers' = RemovePeer(u)
    /\ UNCHANGED <<known, host, handlers, reboots, ld, memory, nniPort, onuPorts, calm, bounds>>

(* PonSimOnuHandler.reenable: raises at once without a PON port, and after *)
(* the first write without a logical device.                               *)
OnuReenable(u) ==
    /\ Due("reenable", u)
    /\ Present(u)
    /\ sched' = Tail(sched)
    /\ IF u \in onuPorts
       THEN /\ peers' = AddPeer(u)
            /\ UpdateDevice(u, [dev[u] EXCEPT
                    !.conn = "REACHABLE",
                    !.oper = IF ld THEN "ACTIVE" ELSE @])
            /\ uni' = IF ld THEN uni \cup {u} ELSE uni
       ELSE UNCHANGED <<dev, disk, last, uni, peers>>
    /\ UNCHANGED <<known, host, handlers, reboots, ld, memory, nniPort, onuPorts, calm, bounds>>

(* delete(): nothing that is modelled is left to do.                       *)
Deleted(d) ==
    /\ Due("delete", d)
    /\ sched' = Tail(sched)
    /\ UNCHANGED <<tree, last, handlers, reboots, logical, memory, ports, calm, bounds>>

-----------------------------------------------------------------------------
(* reboot(): before and after its sleep.  That of an OLT also sets the     *)
(* connection status of its children, through the tree.                    *)
Connect(d, rec, conn, rest) ==
    LET after == [c \in Devices |->
            IF c = d THEN rec
            ELSE IF d = olt /\ c \in Children THEN [dev[c] EXCEPT !.conn = conn]
            ELSE dev[c]]
        changed == {u \in Children \ {d} : after[u] # dev[u]}
    IN  /\ dev' = after
        /\ disk' = [c \in Devices |-> IF c = d \/ c \in changed THEN after[c] ELSE disk[c]]
        /\ last' = [ProcessUpdate(changed, after) EXCEPT ![d] = rec.admin]
        /\ sched' = rest \o Calls(changed, after)

RebootStarts(d) ==
    /\ Due("reboot", d)
    /\ Present(d)
    /\ Connect(d, [dev[d] EXCEPT !.oper = "ACTIVATING", !.conn = "UNREACHABLE"],
               "UNREACHABLE", Tail(sched))
    /\ reboots' = Append(reboots, [dev |-> d, oper |-> dev[d].oper, conn |-> dev[d].conn])
    /\ UNCHANGED <<known, host, handlers, logical, memory, ports, calm, bounds>>

(* Mutant: the connection status stays down after the reboot.              *)
RebootEndsUnreachable ==
    /\ reboots # <<>>
    /\ LET r == Head(reboots)
       IN  IF Present(r.dev)
           THEN Connect(r.dev, [dev[r.dev] EXCEPT !.oper = r.oper], "REACHABLE", sched)
           ELSE UNCHANGED <<dev, disk, last, sched>>
    /\ reboots' = Tail(reboots)
    /\ UNCHANGED <<known, host, handlers, logical, memory, ports, calm, bounds>>

RebootEnds ==
    /\ reboots # <<>>
    /\ LET r == Head(reboots)
       IN  IF Present(r.dev)
           THEN Connect(r.dev, [dev[r.dev] EXCEPT !.oper = r.oper, !.conn = r.conn],
                        "REACHABLE", sched)
           ELSE UNCHANGED <<dev, disk, last, sched>>
    /\ reboots' = Tail(reboots)
    /\ UNCHANGED <<known, host, handlers, logical, memory, ports, calm, bounds>>

-----------------------------------------------------------------------------
(* Restart: the tree comes back from the store, everything else is lost.   *)
(* Every device gets an agent whose last_data is the loaded device; the    *)
(* adapter reconciles the OLT, and the OLT its children.                   *)
Reconciling(new) ==
    LET enabled == Listed({u \in Onus : new[u].admin = "ENABLED"})
    IN  [i \in 1..Len(enabled) |-> CallWith("reconcile", enabled[i], new[enabled[i]])]

Restart ==
    /\ crashes < MaxCrashes
    /\ crashes' = crashes + 1
    /\ calm' = (calm /\ Settled)
    /\ dev' = disk
    /\ last' = [d \in Devices |-> IF disk[d] = Absent THEN "none" ELSE disk[d].admin]
    /\ reboots' = <<>>
    /\ ldKnown' = FALSE
    /\ probed' = FALSE
    /\ kpi' = "none"
    /\ CASE disk[olt] = Absent -> handlers' = {} /\ sched' = <<>>
         [] disk[olt].admin = "ENABLED" ->
                /\ handlers' = {olt}
                /\ sched' = <<CallWith("reconcile", olt, disk[olt])>>
         [] OTHER ->
                /\ handlers' = {d \in Devices : disk[d] # Absent}
                /\ sched' = Reconciling(disk)
    /\ UNCHANGED <<disk, known, host, logical, ports, requests, failures>>

(* PonSimOltHandler.reconcile: also writes the object it was called with.  *)
OltReconcile ==
    /\ host
    /\ Due("reconcile", olt)
    /\ Present(olt)
    /\ UpdateDevice(olt, [Head(sched).arg EXCEPT !.oper = "ACTIVE"])
    /\ probed' = TRUE
    /\ ldKnown' = Head(sched).arg.parent
    /\ kpi' = "running"
    /\ handlers' = handlers \cup Children
    /\ sched' = Tail(sched) \o Reconciling(dev)
    /\ UNCHANGED <<known, host, reboots, logical, ports, calm, bounds>>

OltReconcileFails ==
    /\ host
    /\ Due("reconcile", olt)
    /\ Present(olt)
    /\ Fail
    /\ UpdateDevice(olt, [Head(sched).arg EXCEPT !.oper = "UNKNOWN", !.conn = "UNREACHABLE"])
    /\ sched' = Tail(sched)
    /\ UNCHANGED <<known, host, handlers, reboots, logical, memory, ports>>

OnuReconcile(u) ==
    /\ Due("reconcile", u)
    /\ Present(u)
    /\ UpdateDevice(u, [Head(sched).arg EXCEPT !.oper = "ACTIVE", !.conn = "REACHABLE"])
    /\ sched' = Tail(sched)
    /\ UNCHANGED <<known, host, handlers, reboots, logical, memory, ports, calm, bounds>>

-----------------------------------------------------------------------------
Operator ==
    \/ \E hasHost \in BOOLEAN : CreateDevice(hasHost)
    \/ EnableNew
    \/ DeleteDevice
    \/ \E d \in Devices : EnableDevice(d) \/ DisableDevice(d) \/ RebootDevice(d)

Handlers ==
    \/ OltActivate \/ OltDisable \/ OltReenable \/ OltReconcile
    \/ OltUnreachable \/ OltReconcileFails \/ OltWithoutHost
    \/ \E u \in Onus : OnuActivate(u) \/ OnuDisable(u) \/ OnuReenable(u) \/ OnuReconcile(u)
    \/ \E d \in Devices : RebootStarts(d) \/ Deleted(d)
    \/ \E d \in Devices, op \in {"activate", "disable", "reenable", "reboot", "reconcile"} :
            Gone(op, d)

Next == Operator \/ Handlers \/ RebootEnds \/ Restart

Spec == Init /\ [][Next]_vars

-----------------------------------------------------------------------------
TypeOK ==
    /\ dev \in [Devices -> Records \cup {Absent}]
    /\ disk \in [Devices -> Records \cup {Absent}]
    /\ last \in [Devices -> {"none", "PREPROVISIONED", "ENABLED", "DISABLED"}]
    /\ handlers \subseteq Devices /\ known \subseteq Devices
    /\ uni \subseteq Onus /\ onuPorts \subseteq Onus /\ Range(peers) \subseteq Onus
    /\ {ld, ldKnown, nniPort, probed, host, calm} \subseteq BOOLEAN
    /\ kpi \in {"none", "stopped", "running"}

(* Every device in the tree has an agent in Core.device_agents that guards *)
(* it, and once the scheduled calls have run the agent's last_data, from   *)
(* which it computes the next transition, is in the state the tree shows,  *)
(* for every device the adapter has a handler for: whatever the order in   *)
(* which requests, handlers that write stale devices, failures and         *)
(* restarts change the one and the other.                                  *)
LastDataAgrees ==
    \A d \in Devices : Present(d) =>
        /\ last[d] # "none"
        /\ Settled /\ d \in handlers => last[d] = dev[d].admin

(* A device that DeleteDevice removed never comes back: a handler that was *)
(* scheduled before, or sleeps in reboot(), cannot write it again.         *)
DeletedStaysDeleted ==
    [][\A d \in known : ~Present(d) => dev'[d] = Absent]_vars

(* An operator who lets the scheduled calls of one request end before the  *)
(* next, does not switch an ONU below a disabled OLT, and does not disable *)
(* again an OLT that a restart found disabled (Careful), sees every        *)
(* enabled device active and reachable and no disabled device active,      *)
(* across reboots and restarts, as long as the OLT has an address and      *)
(* answers.                                                                *)
StatusAgrees ==
    calm /\ Settled =>
        \A d \in Devices :
            /\ dev[d].admin = "ENABLED" =>
                    dev[d].oper = "ACTIVE" /\ dev[d].conn = "REACHABLE"
            /\ dev[d].admin = "DISABLED" => dev[d].oper = "UNKNOWN"

(* For the same operator the logical device is there exactly while the OLT *)
(* is enabled, and exactly the enabled ONUs have their logical port and    *)
(* are peers of the OLT's PON port, though delete_all_peer_references      *)
(* misses some.                                                            *)
ServiceAgrees ==
    calm /\ Settled =>
        /\ ld <=> dev[olt].admin = "ENABLED"
        /\ uni = {u \in Onus : dev[u].admin = "ENABLED"}
        /\ Range(peers) = uni

(* Violated: disable() leaves the OLT inactive.  That of a handler which   *)
(* was made while the OLT was disabled, and has seen only reenable since,  *)
(* raises before it changes anything.                                      *)
DisableTakesEffect == [][OltDisable => dev'[olt].oper # "ACTIVE"]_vars

(* Violated: a disabled device is not shown as active.  DisableDevice      *)
(* during the sleep of reboot() ends with the status from before.          *)
DisabledIsInactive ==
    Settled => \A d \in Devices : dev[d].admin = "DISABLED" => dev[d].oper # "ACTIVE"
=============================================================================
