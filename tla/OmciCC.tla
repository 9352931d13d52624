------------------------------- MODULE OmciCC -------------------------------
(***************************************************************************)
(* The OMCI communication channel of one ONU: the table of outstanding     *)
(* requests by transaction id, the answers that complete them, the         *)
(* timeouts that give them up and the connectivity events derived from     *)
(* both.                                                                   *)
(*                                                                         *)
(* src/voltha/extensions/omci/omci_cc.py     the channel                   *)
(* src/voltha/extensions/omci/onu_device_entry.py   enables, disables it   *)
(* src/voltha/adapters/adtran_onu/omci/omci.py      listens to the events  *)
(*                                                                         *)
(* A step is one reactor callback.  The calls of send() are numbered; each *)
(* has its own deferred, whose life is status[r].  The link between OLT    *)
(* and ONU loses and reorders frames.  flush() is a generator function     *)
(* that is called and never iterated, at all three places, so no action    *)
(* contains it: requests outstanding at a stop stay outstanding.           *)
(***************************************************************************)
EXTENDS Naturals, Sequences, FiniteSets

CONSTANTS
    MaxSends,     \* bound on the calls of send()
    MaxTid,       \* MAX_OMCI_TX_ID
    AlarmLimit,   \* alarm_queue_limit
    MaxOnu,       \* bound on the autonomous frames of the ONU
    MaxRestarts   \* bound on the stops of the channel

ASSUME OmciCCAssumption ==
    /\ MaxTid \in Nat \ {0}
    /\ {MaxSends, AlarmLimit, MaxOnu, MaxRestarts} \subseteq Nat

VARIABLES
    enabled,    \* _enabled; _proxy_address is set exactly while it holds
    tx_tid,     \* _tx_tid, the next transaction id
    requests,   \* _requests: transaction id -> request
    status,     \* the life of each request's deferred
    tid,        \* the transaction id of each request, 0 before it is sent
    sent,       \* the position of each request in the order of sending
    forever,    \* the requests sent with timeout = 0
    got,        \* got[r]: the request whose answer completed r
    wire,       \* the frames under way: ["to": "onu" or "olt", req, tid]
    rxSeen,     \* _rx_frames # 0
    errors,     \* _consecutive_errors; 2 stands for two and more
    events,     \* the scheduled _publish_connectivity_event calls, in order
    link,       \* what the last connectivity event told its listeners
    alarms,     \* length of _alarm_queue; None once the channel was stopped
    autonomous, \* autonomous frames: received, scheduled, published
    restarts

calls == <<status, tid, sent, forever, got>>
vars == <<enabled, tx_tid, requests, calls, wire, rxSeen, errors, events, link,
          alarms, autonomous, restarts>>

Reqs == 1..MaxSends
None == MaxOnu + AlarmLimit + 1    \* a queue that is gone
NoReq == 0

Frames == [to: {"onu", "olt"}, req: Reqs, tid: 1..MaxTid]

Init ==
    /\ enabled = FALSE
    /\ tx_tid = 1
    /\ requests = <<>>
    /\ status = [r \in Reqs |-> "new"]
    /\ tid = [r \in Reqs |-> 0]
    /\ sent = [r \in Reqs |-> 0]
    /\ forever = {}
    /\ got = [r \in Reqs |-> NoReq]
    /\ wire = {}
    /\ rxSeen = FALSE
    /\ errors = 0
    /\ events = <<>>
    /\ link = "unknown"
    /\ alarms = 0
    /\ autonomous = [received |-> 0, scheduled |-> 0, published |-> 0]
    /\ restarts = 0

-----------------------------------------------------------------------------
(* The dictionary _requests.                                               *)
PopForgotten(t) == requests     \* mutant: looked up and left in place

Pop(t) == [u \in DOMAIN requests \ {t} |-> requests[u]]
Put(t, r) == [u \in DOMAIN requests \cup {t} |-> IF u = t THEN r ELSE requests[u]]

NextTidStuck(t) == t            \* mutant: every request has the same id

(* _get_tx_tid: the id after t; 0 is reserved for autonomous frames.       *)
NextTid(t) == IF t + 1 > MaxTid THEN 1 ELSE t + 1

(* A failed send or a timeout: the first error in a row schedules the      *)
(* event that the ONU is out of reach.                                     *)
CountError ==
    /\ errors' = IF errors = 2 THEN 2 ELSE errors + 1
    /\ events' = IF errors = 0 THEN Append(events, "down") ELSE events

(* Mutant: the very first answer is not an event. *)
CountAnswerSilent ==
    /\ events' = IF errors # 0 THEN Append(events, "up") ELSE events
    /\ rxSeen' = TRUE
    /\ errors' = 0

(* A decoded answer: the first one, or one that ends a row of errors,      *)
(* schedules the event that the ONU is in reach.                           *)
CountAnswer ==
    /\ events' = IF ~rxSeen \/ errors # 0 THEN Append(events, "up") ELSE events
    /\ rxSeen' = TRUE
    /\ errors' = 0

(* OnuDeviceEntry.start and stop, through the setter of enabled.  _stop    *)
(* drops the queues and nothing makes new ones.                            *)
Start ==
    /\ ~enabled
    /\ enabled' = TRUE
    /\ UNCHANGED <<tx_tid, requests, calls, wire, rxSeen, errors, events, link,
                   alarms, autonomous, restarts>>

Stop ==
    /\ enabled
    /\ restarts < MaxRestarts
    /\ restarts' = restarts + 1
    /\ enabled' = FALSE
    /\ alarms' = None
    /\ UNCHANGED <<tx_tid, requests, calls, wire, rxSeen, errors, events, link,
                   autonomous>>

-----------------------------------------------------------------------------
(* Assumption on the link and the reactor: a frame under way is lost, and  *)
(* a scheduled callback has run, before the channel has gone round all its *)
(* MaxTid (65535) transaction ids.                                         *)
Count == Cardinality({r \in Reqs : sent[r] > 0})
Aged(r) == sent[r] + MaxTid <= Count + 1

(* The requests are sent in the order of their numbers.                    *)
New(r) == status[r] = "new" /\ \A q \in 1..(r - 1) : status[q] # "new"

SendDisabled(r) ==
    /\ New(r)
    /\ ~enabled
    /\ status' = [status EXCEPT ![r] = "failed"]
    /\ UNCHANGED <<enabled, tx_tid, requests, tid, sent, forever, got, wire, rxSeen,
                   errors, events, link, alarms, autonomous, restarts>>

(* send(): take an id, refuse it if its last user is still outstanding,    *)
(* hand the frame to the OLT, which may raise, and note the request.       *)
Send(r, noTimeout, raises) ==
    /\ New(r)
    /\ enabled
    /\ \A q \in Reqs : status[q] = "answered" => ~Aged(q)
    /\ tx_tid' = NextTid(tx_tid)
    /\ tid' = [tid EXCEPT ![r] = tx_tid]
    /\ sent' = [sent EXCEPT ![r] = Count + 1]
    /\ LET fresh == {m \in wire : ~Aged(m.req)}
       IN  IF tx_tid \in DOMAIN requests \/ raises
           THEN /\ status' = [status EXCEPT ![r] = "failed"]
                /\ CountError
                /\ wire' = fresh
                /\ UNCHANGED <<requests, forever>>
           ELSE /\ status' = [status EXCEPT ![r] = "waiting"]
                /\ wire' = fresh \cup {[to |-> "onu", req |-> r, tid |-> tx_tid]}
                /\ requests' = Put(tx_tid, r)
                /\ forever' = IF noTimeout THEN forever \cup {r} ELSE forever
                /\ UNCHANGED <<errors, events>>
    /\ UNCHANGED <<enabled, got, rxSeen, link, alarms, autonomous, restarts>>

(* The ONU answers a request with its transaction id.                      *)
OnuAnswers(m) ==
    /\ m.to = "onu"
    /\ wire' = (wire \ {m}) \cup {[m EXCEPT !.to = "olt"]}
    /\ UNCHANGED <<enabled, tx_tid, requests, calls, rxSeen, errors, events, link,
                   alarms, autonomous, restarts>>

Lose(m) ==
    /\ wire' = wire \ {m}
    /\ UNCHANGED <<enabled, tx_tid, requests, calls, rxSeen, errors, events, link,
                   alarms, autonomous, restarts>>

(* receive_message for an answer that finds the channel disabled or that   *)
(* cannot be decoded: dropped.                                             *)
ReceiveDropped(m) ==
    /\ m.to = "olt"
    /\ wire' = wire \ {m}
    /\ UNCHANGED <<enabled, tx_tid, requests, calls, rxSeen, errors, events, link,
                   alarms, autonomous, restarts>>

(* receive_message for an answer: known is FALSE for an entity class       *)
(* without a definition, whose answer is decoded by _decode_unknown_me and *)
(* counts as neither a good frame nor an error.  The request is taken out  *)
(* of the table and its callback scheduled.                                *)
Receive(m, known) ==
    /\ m.to = "olt"
    /\ enabled
    /\ wire' = wire \ {m}
    /\ IF known THEN CountAnswer ELSE UNCHANGED <<events, rxSeen, errors>>
    /\ IF m.tid \in DOMAIN requests
       THEN LET r == requests[m.tid]
            IN  /\ requests' = Pop(m.tid)
                /\ status' = [status EXCEPT ![r] = "answered"]
                /\ got' = [got EXCEPT ![r] = m.req]
       ELSE UNCHANGED <<requests, status, got>>
    /\ UNCHANGED <<enabled, tx_tid, tid, sent, forever, link, alarms, autonomous,
                   restarts>>

(* The scheduled d.callback.                                               *)
Deliver(r) ==
    /\ status[r] = "answered"
    /\ status' = [status EXCEPT ![r] = "done"]
    /\ UNCHANGED <<enabled, tx_tid, requests, tid, sent, forever, got, wire, rxSeen,
                   errors, events, link, alarms, autonomous, restarts>>

(* Mutant: a stop also ends the timeouts. *)
TimeoutWhileEnabled(r) ==
    /\ enabled
    /\ status[r] \in {"waiting", "answered"}
    /\ r \notin forever
    /\ requests' = Pop(tid[r])
    /\ status' = [status EXCEPT ![r] = "failed"]
    /\ CountError
    /\ UNCHANGED <<enabled, tx_tid, tid, sent, forever, got, wire, rxSeen, link,
                   alarms, autonomous, restarts>>

(* The timeout of the deferred, _request_failure: it may still overtake    *)
(* the scheduled callback, which is then ignored.  The entry it removes is *)
(* looked up by transaction id alone.                                      *)
Timeout(r) ==
    /\ status[r] \in {"waiting", "answered"}
    /\ r \notin forever
    /\ requests' = Pop(tid[r])
    /\ status' = [status EXCEPT ![r] = "failed"]
    /\ CountError
    /\ UNCHANGED <<enabled, tx_tid, tid, sent, forever, got, wire, rxSeen, link,
                   alarms, autonomous, restarts>>

(* _publish_connectivity_event: says nothing while disabled.               *)
PublishConnectivity ==
    /\ events # <<>>
    /\ events' = Tail(events)
    /\ link' = IF enabled THEN Head(events) ELSE link
    /\ UNCHANGED <<enabled, tx_tid, requests, calls, wire, rxSeen, errors, alarms,
                   autonomous, restarts>>

-----------------------------------------------------------------------------
(* Mutant: queued first, published only if that succeeded. *)
ReceiveAutonomousQueueFirst ==
    /\ enabled
    /\ autonomous.received < MaxOnu
    /\ autonomous' = [autonomous EXCEPT
            !.received = @ + 1, !.scheduled = IF alarms < AlarmLimit THEN @ + 1 ELSE @]
    /\ alarms' = IF alarms < AlarmLimit THEN alarms + 1 ELSE alarms
    /\ UNCHANGED <<enabled, tx_tid, requests, calls, wire, rxSeen, errors, events,
                   link, restarts>>

(* _receive_onu_message for an alarm or an attribute value change: the     *)
(* publication is scheduled, then the frame is queued; a full queue is     *)
(* counted, a missing one raises, and both leave the publication alone. A  *)
(* frame of another type or one that cannot be decoded is dropped and      *)
(* changes nothing here.                                                   *)
ReceiveAutonomous ==
    /\ enabled
    /\ autonomous.received < MaxOnu
    /\ autonomous' = [autonomous EXCEPT !.received = @ + 1, !.scheduled = @ + 1]
    /\ alarms' = IF alarms < AlarmLimit THEN alarms + 1 ELSE alarms
    /\ UNCHANGED <<enabled, tx_tid, requests, calls, wire, rxSeen, errors, events,
                   link, restarts>>

PublishAutonomous ==
    /\ autonomous.scheduled > 0
    /\ autonomous' = [autonomous EXCEPT !.scheduled = @ - 1, !.published = @ + 1]
    /\ UNCHANGED <<enabled, tx_tid, requests, calls, wire, rxSeen, errors, events,
                   link, alarms, restarts>>

Next ==
    \/ Start
    \/ Stop
    \/ \E r \in Reqs : SendDisabled(r)
    \/ \E r \in Reqs, noTimeout, raises \in BOOLEAN : Send(r, noTimeout, raises)
    \/ \E m \in wire : OnuAnswers(m) \/ Lose(m) \/ ReceiveDropped(m)
    \/ \E m \in wire, known \in BOOLEAN : Receive(m, known)
    \/ \E r \in Reqs : Deliver(r) \/ Timeout(r)
    \/ PublishConnectivity
    \/ ReceiveAutonomous
    \/ PublishAutonomous

(* The reactor runs what is scheduled and what is due.                     *)
Fairness ==
    /\ \A r \in Reqs : WF_vars(Deliver(r)) /\ WF_vars(Timeout(r))
    /\ WF_vars(PublishConnectivity)
    /\ WF_vars(PublishAutonomous)

Spec == Init /\ [][Next]_vars /\ Fairness

-----------------------------------------------------------------------------
(* Types of the channel's state; a request has an id once it was sent.     *)
TypeOK ==
    /\ enabled \in BOOLEAN /\ rxSeen \in BOOLEAN
    /\ tx_tid \in 1..MaxTid
    /\ DOMAIN requests \subseteq 1..MaxTid
    /\ \A t \in DOMAIN requests : requests[t] \in Reqs
    /\ status \in [Reqs -> {"new", "waiting", "answered", "done", "failed"}]
    /\ tid \in [Reqs -> 0..MaxTid]
    /\ forever \subseteq Reqs
    /\ got \in [Reqs -> Reqs \cup {NoReq}]
    /\ wire \subseteq Frames
    /\ errors \in 0..2
    /\ link \in {"unknown", "up", "down"}
    /\ restarts \in 0..MaxRestarts

(* omci_cc.py 369, 535: the table of outstanding requests is exactly the   *)
(* requests that still wait, each under its own transaction id: none is    *)
(* dropped by the timeout of another one, none stays behind.               *)
RequestsExact ==
    /\ \A r \in Reqs : status[r] = "waiting" =>
            tid[r] \in DOMAIN requests /\ requests[tid[r]] = r
    /\ \A t \in DOMAIN requests : status[requests[t]] = "waiting"

(* omci_cc.py 369, 517: a request is completed with the answer to it, not  *)
(* with the late answer of an earlier request that had its id.             *)
OwnAnswer == \A r \in Reqs : got[r] # NoReq => got[r] = r

(* omci_cc.py 343, 540, 475: once all scheduled events are out, the        *)
(* listeners know whether the last exchange failed.                        *)
ConnectivityReported ==
    enabled /\ events = <<>> =>
        /\ link = "down" <=> errors # 0
        /\ link = "up" <=> rxSeen /\ errors = 0

(* The same as long as the channel has never been stopped.                 *)
ConnectivityTracked == restarts = 0 => ConnectivityReported

(* omci_cc.py 288-310: every alarm, attribute change and test result that  *)
(* was received and decoded is announced on the event bus, even when its   *)
(* queue is full or gone.                                                  *)
AutonomousAnnounced == []<>(autonomous.published = autonomous.received)

(* omci_cc.py 604, 609: a request that was sent with a timeout comes to an *)
(* end, even if the frame or its answer is lost, or the channel stopped.   *)
RequestSettles ==
    \A r \in Reqs :
        status[r] = "waiting" /\ r \notin forever ~> status[r] \in {"done", "failed"}
=============================================================================
