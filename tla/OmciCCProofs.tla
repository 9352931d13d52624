---------------------------- MODULE OmciCCProofs ----------------------------
(***************************************************************************)
(* Proofs about the OMCI channel, for every number of requests, every      *)
(* size of the transaction id space and any number of stops.               *)
(***************************************************************************)
EXTENDS OmciCC, FiniteSetTheorems, SequenceTheorems, TLAPS

Sent == {r \in Reqs : sent[r] > 0}

Typed ==
    /\ TypeOK
    /\ sent \in [Reqs -> Nat]
    /\ events \in Seq({"up", "down"})

(* A request gets its place in the order, and its id, when it is sent.     *)
Ordered ==
    \A r \in Reqs :
        /\ sent[r] <= Count
        /\ status[r] = "new" => sent[r] = 0
        /\ status[r] \in {"waiting", "answered"} => sent[r] > 0

(* The last MaxTid - 1 requests have the ids just before tx_tid, counted   *)
(* down and round: the one sent d requests ago has tx_tid - d, or          *)
(* tx_tid - d + MaxTid.                                                    *)
RecentIds ==
    \A r \in Sent :
        ~Aged(r) =>
            tid[r] + Count + 1 = IF Count + 1 < tx_tid + sent[r]
                                 THEN tx_tid + sent[r]
                                 ELSE tx_tid + sent[r] + MaxTid

(* An entry of the table stands under the id of its request; a request     *)
(* whose callback is scheduled shares its id with no outstanding one, so   *)
(* that a late timeout removes nobody's entry.                             *)
TableKeys ==
    /\ \A t \in DOMAIN requests : tid[requests[t]] = t
    /\ \A q, r \in Reqs :
            status[q] = "answered" /\ status[r] = "waiting" => tid[q] # tid[r]

(* A frame carries the id of its request, and no other request waits for   *)
(* an answer with that id.                                                 *)
FramesOwn ==
    \A m \in wire :
        /\ m.req \in Sent
        /\ m.tid = tid[m.req]
        /\ \A r \in Reqs : status[r] = "waiting" /\ tid[r] = m.tid => r = m.req

Matching == RequestsExact /\ OwnAnswer /\ TableKeys /\ FramesOwn

(* What the listeners will have been told once all events are out.         *)
Told == IF events = <<>> THEN link ELSE events[Len(events)]

(* Until the first stop: nothing has happened before the first start, and  *)
(* the last event agrees with the counters.                                *)
EventsFollow ==
    restarts = 0 =>
        /\ ~enabled => events = <<>> /\ wire = {} /\ \A r \in Reqs : status[r] \in {"new", "failed"}
        /\ Told = "down" <=> errors # 0
        /\ Told = "up" <=> rxSeen /\ errors = 0

(* The inductive invariant.                                                *)
IInv == Typed /\ Ordered /\ RecentIds /\ Matching /\ EventsFollow

-----------------------------------------------------------------------------
(* The order of sending and the transaction ids.                           *)

(* The requests sent so far can be counted.                                *)
LEMMA CountNat == IsFiniteSet(Sent) /\ Count = Cardinality(Sent) /\ Count \in Nat
<1>1. IsFiniteSet(Reqs)
  <2>1. MaxSends \in Int
    BY OmciCCAssumption
  <2> QED
    BY <2>1, FS_Interval DEF Reqs
<1>2. Sent \in SUBSET Reqs
  BY DEF Sent
<1>3. IsFiniteSet(Sent)
  BY <1>1, <1>2, FS_Subset
<1>4. Count = Cardinality(Sent)
  BY DEF Count, Sent
<1> QED
  BY <1>3, <1>4, FS_CardinalityType

(* A request that is sent is one more in the order.                        *)
LEMMA SendCounts ==
    ASSUME Typed, Ordered, NEW r \in Reqs, New(r), sent' = [sent EXCEPT ![r] = Count + 1]
    PROVE  Count' = Count + 1 /\ sent[r] = 0 /\ Sent' = Sent \cup {r}
<1>1. sent[r] = 0
  BY DEF Ordered, New
<1>2. Sent' = Sent \cup {r} /\ r \notin Sent
  <2>1. Count \in Nat
    BY CountNat
  <2>2. \A q \in Reqs : sent'[q] > 0 <=> sent[q] > 0 \/ q = r
    BY <2>1 DEF Typed
  <2> QED
    BY <1>1, <2>2 DEF Sent
<1>3. Count' = Cardinality(Sent')
  BY DEF Count, Sent
<1> QED
  BY <1>1, <1>2, <1>3, CountNat, FS_AddElement

(* The id that _get_tx_tid hands out next was used by none of the last     *)
(* MaxTid - 1 requests.                                                    *)
LEMMA NextIdUnused ==
    ASSUME Typed, Ordered, RecentIds, NEW r \in Sent, ~Aged(r)
    PROVE  tid[r] # tx_tid
<1>1. /\ sent[r] \in Nat /\ sent[r] <= Count /\ tid[r] \in Nat /\ tx_tid \in Nat
      /\ Count \in Nat /\ MaxTid \in Nat
  BY CountNat, OmciCCAssumption DEF Typed, TypeOK, Sent, Ordered
<1>2. sent[r] + MaxTid > Count + 1
  BY <1>1 DEF Aged
<1>3. tid[r] + Count + 1 = IF Count + 1 < tx_tid + sent[r]
                           THEN tx_tid + sent[r]
                           ELSE tx_tid + sent[r] + MaxTid
  BY DEF RecentIds
<1> QED
  BY <1>1, <1>2, <1>3

(* Going on by one id keeps the last ones apart.                           *)
LEMMA RecentKept ==
    ASSUME Typed, Ordered, RecentIds, NEW r \in Reqs, New(r),
           tx_tid' = NextTid(tx_tid), tid' = [tid EXCEPT ![r] = tx_tid],
           sent' = [sent EXCEPT ![r] = Count + 1]
    PROVE  RecentIds'
<1>1. Count' = Count + 1 /\ sent[r] = 0 /\ Sent' = Sent \cup {r}
  BY SendCounts
<1>2. SUFFICES ASSUME NEW q \in Sent', ~Aged(q)'
               PROVE  tid'[q] + Count' + 1 = IF Count' + 1 < tx_tid' + sent'[q]
                                             THEN tx_tid' + sent'[q]
                                             ELSE tx_tid' + sent'[q] + MaxTid
  BY DEF RecentIds
<1>3. /\ q \in Reqs /\ Count \in Nat /\ MaxTid \in Nat \ {0} /\ tx_tid \in 1..MaxTid
      /\ sent[q] \in Nat /\ sent[q] <= Count /\ tid[q] \in Nat
  BY CountNat, OmciCCAssumption DEF Typed, TypeOK, Sent, Ordered
<1>4. sent'[q] + MaxTid > Count + 2
  BY <1>1, <1>2, <1>3 DEF Aged, Typed
<1>5. CASE q = r
  <2>1. sent'[q] = Count + 1 /\ tid'[q] = tx_tid
    BY <1>5 DEF Typed, TypeOK
  <2> QED
    BY <1>1, <1>3, <1>4, <2>1 DEF NextTid
<1>6. CASE q # r
  <2>1. sent'[q] = sent[q] /\ tid'[q] = tid[q] /\ q \in Sent
    BY <1>1, <1>3, <1>6 DEF Typed, TypeOK
  <2>2. ~Aged(q)
    BY <1>3, <1>4, <2>1 DEF Aged
  <2>3. tid[q] + Count + 1 = IF Count + 1 < tx_tid + sent[q]
                             THEN tx_tid + sent[q]
                             ELSE tx_tid + sent[q] + MaxTid
    BY <2>1, <2>2 DEF RecentIds
  <2> QED
    BY <1>1, <1>3, <1>4, <2>1, <2>3 DEF NextTid
<1> QED
  BY <1>5, <1>6

(* The request that is sent is the last in the order.                      *)
LEMMA OrderedAfterSend ==
    ASSUME Typed, Ordered, NEW r \in Reqs, New(r), sent' = [sent EXCEPT ![r] = Count + 1],
           NEW s \in {"failed", "waiting"}, status' = [status EXCEPT ![r] = s]
    PROVE  Ordered'
<1>1. Count' = Count + 1 /\ Count \in Nat
  BY SendCounts, CountNat
<1>2. SUFFICES ASSUME NEW q \in Reqs
               PROVE  /\ sent'[q] <= Count'
                      /\ status'[q] = "new" => sent'[q] = 0
                      /\ status'[q] \in {"waiting", "answered"} => sent'[q] > 0
  BY DEF Ordered
<1>3. sent[q] \in Nat /\ sent[q] <= Count
  BY DEF Typed, Ordered
<1>4. CASE q = r
  <2>1. sent'[q] = Count + 1 /\ status'[q] = s
    BY <1>4 DEF Typed, TypeOK
  <2> QED
    BY <1>1, <2>1
<1>5. CASE q # r
  <2>1. sent'[q] = sent[q] /\ status'[q] = status[q]
    BY <1>5 DEF Typed, TypeOK
  <2> QED
    BY <1>1, <1>3, <2>1 DEF Ordered
<1> QED
  BY <1>4, <1>5

(* Steps that send nothing keep the order and the ids.                     *)
LEMMA OrderKept ==
    ASSUME Ordered, RecentIds, UNCHANGED <<sent, tid, tx_tid>>,
           \A r \in Reqs : \/ status'[r] = status[r]
                           \/ status'[r] \in {"done", "failed"}
                           \/ status'[r] = "answered" /\ status[r] = "waiting"
    PROVE  Ordered' /\ RecentIds'
<1>1. Count' = Count /\ Sent' = Sent
  BY DEF Count, Sent
<1> QED
  BY <1>1 DEF Ordered, RecentIds, Aged

-----------------------------------------------------------------------------
(* The table, the answers and the frames.                                  *)

(* An error is counted and may schedule an event.                          *)
LEMMA CountErrorTyped ==
    ASSUME Typed, CountError
    PROVE  errors' \in 0..2 /\ events' \in Seq({"up", "down"})
<1>1. errors' \in 0..2
  BY DEF CountError, Typed, TypeOK
<1>2. Append(events, "down") \in Seq({"up", "down"})
  BY AppendProperties DEF Typed
<1> QED
  BY <1>1, <1>2 DEF CountError, Typed

(* Sending keeps the table, the answers and the frames apart: the id is    *)
(* new to every frame under way and to every scheduled callback, and it is *)
(* refused when an outstanding request has it. A send that raises leaves   *)
(* the table as it is.                                                     *)
LEMMA SendKeeps ==
    ASSUME IInv, NEW r \in Reqs, NEW noTimeout \in BOOLEAN, NEW raises \in BOOLEAN,
           Send(r, noTimeout, raises)
    PROVE  Typed' /\ Ordered' /\ RecentIds' /\ Matching'
<1> USE DEF IInv
<1> DEFINE fresh == {m \in wire : ~Aged(m.req)}
<1>1. /\ New(r) /\ tx_tid' = NextTid(tx_tid) /\ tid' = [tid EXCEPT ![r] = tx_tid]
      /\ sent' = [sent EXCEPT ![r] = Count + 1] /\ got' = got
      /\ \A q \in Reqs : status[q] = "answered" => ~Aged(q)
  BY DEF Send
<1>2. Count' = Count + 1 /\ sent[r] = 0 /\ Sent' = Sent \cup {r} /\ Count \in Nat
  BY <1>1, SendCounts, CountNat
<1>3. RecentIds'
  BY <1>1, RecentKept
<1>4. tx_tid \in 1..MaxTid /\ tx_tid' \in 1..MaxTid
  BY <1>1, OmciCCAssumption DEF Typed, TypeOK, NextTid
<1>5. \A m \in fresh : m \in wire /\ m.req \in Sent /\ m.req # r /\ m.tid # tx_tid
  BY <1>2, NextIdUnused DEF Matching, FramesOwn, Sent
<1>6. \A q \in Reqs : status[q] = "answered" => q \in Sent /\ q # r /\ tid[q] # tx_tid
  BY <1>1, <1>2, NextIdUnused DEF Ordered, Sent
<1>7. \A q \in Reqs : q # r => tid'[q] = tid[q] /\ sent'[q] = sent[q]
  BY <1>1 DEF Typed, TypeOK
<1>8. tid'[r] = tx_tid /\ sent'[r] = Count + 1 /\ status[r] = "new"
  BY <1>1 DEF Typed, TypeOK, New
<1>9. tid' \in [Reqs -> 0..MaxTid] /\ sent' \in [Reqs -> Nat]
  BY <1>1, <1>2, <1>4 DEF Typed, TypeOK
<1>10. CASE tx_tid \in DOMAIN requests \/ raises
  <2>1. /\ status' = [status EXCEPT ![r] = "failed"] /\ CountError /\ wire' = fresh
        /\ UNCHANGED <<requests, forever, enabled, got, rxSeen, link, restarts>>
    BY <1>10 DEF Send
  <2>2. Typed'
    BY <1>4, <1>9, <2>1, CountErrorTyped DEF Typed, TypeOK
  <2>3. \A q \in Reqs : q # r => status'[q] = status[q]
    BY <2>1 DEF Typed, TypeOK
  <2>4. status'[r] = "failed"
    BY <2>1 DEF Typed, TypeOK
  <2>5. Ordered'
    BY <1>1, <2>1, OrderedAfterSend
  <2>6. RequestsExact'
    BY <1>7, <1>8, <2>1, <2>3, <2>4 DEF Matching, RequestsExact, Typed, TypeOK
  <2>7. TableKeys'
    BY <1>7, <1>8, <2>1, <2>3, <2>4 DEF Matching, RequestsExact, TableKeys, Typed, TypeOK
  <2>8. FramesOwn'
    BY <1>2, <1>5, <1>7, <2>1, <2>3, <2>4 DEF Matching, FramesOwn, Sent
  <2> QED
    BY <1>1, <1>3, <2>2, <2>5, <2>6, <2>7, <2>8 DEF Matching, OwnAnswer
<1>11. CASE tx_tid \notin DOMAIN requests /\ ~raises
  <2> DEFINE frame == [to |-> "onu", req |-> r, tid |-> tx_tid]
  <2>1. /\ status' = [status EXCEPT ![r] = "waiting"] /\ requests' = Put(tx_tid, r)
        /\ wire' = fresh \cup {frame}
        /\ forever' = IF noTimeout THEN forever \cup {r} ELSE forever
        /\ UNCHANGED <<errors, events, enabled, got, rxSeen, link, restarts>>
    BY <1>11 DEF Send
  <2>2. frame \in Frames
    BY <1>4 DEF Frames
  <2>3. /\ DOMAIN requests' = DOMAIN requests \cup {tx_tid}
        /\ requests'[tx_tid] = r
        /\ \A t \in DOMAIN requests : requests'[t] = requests[t]
    BY <1>11, <2>1 DEF Put
  <2>4. Typed'
    BY <1>4, <1>9, <2>1, <2>2, <2>3 DEF Typed, TypeOK
  <2>5. status'[r] = "waiting" /\ \A q \in Reqs : q # r => status'[q] = status[q]
    BY <2>1 DEF Typed, TypeOK
  <2>6. Ordered'
    BY <1>1, <2>1, OrderedAfterSend
  <2>7. \A q \in Reqs : status[q] = "waiting" => q # r /\ tid[q] # tx_tid
    BY <1>8, <1>11 DEF Matching, RequestsExact
  <2>8. \A t \in DOMAIN requests : requests[t] \in Reqs /\ requests[t] # r
    BY <1>8 DEF Matching, RequestsExact, Typed, TypeOK
  <2>9. RequestsExact'
    BY <1>7, <1>8, <1>11, <2>3, <2>5, <2>7, <2>8 DEF Matching, RequestsExact
  <2>10. TableKeys'
    <3>1. \A t \in DOMAIN requests' : tid'[requests'[t]] = t
      BY <1>7, <1>8, <2>3, <2>8 DEF Matching, TableKeys
    <3>2. ASSUME NEW p \in Reqs, NEW q \in Reqs, status'[p] = "answered", status'[q] = "waiting"
          PROVE  tid'[p] # tid'[q]
      BY <1>6, <1>7, <1>8, <2>5, <3>2 DEF Matching, TableKeys
    <3> QED
      BY <3>1, <3>2 DEF TableKeys
  <2>11. FramesOwn'
    <3>1. ASSUME NEW m \in fresh
          PROVE  /\ m.req \in Sent' /\ m.tid = tid'[m.req]
                 /\ \A q \in Reqs : status'[q] = "waiting" /\ tid'[q] = m.tid => q = m.req
      <4>1. m \in wire /\ m.req \in Sent /\ m.req # r /\ m.tid # tx_tid
        BY <1>5
      <4>2. m.req \in Reqs
        BY <4>1 DEF Sent
      <4> QED
        BY <1>2, <1>7, <1>8, <2>5, <4>1, <4>2 DEF Matching, FramesOwn
    <3>2. /\ frame.req \in Sent' /\ frame.tid = tid'[frame.req]
          /\ \A q \in Reqs : status'[q] = "waiting" /\ tid'[q] = frame.tid => q = frame.req
      BY <1>2, <1>7, <1>8, <2>5, <2>7
    <3> QED
      BY <2>1, <3>1, <3>2 DEF FramesOwn
  <2> QED
    BY <1>1, <1>3, <2>4, <2>6, <2>9, <2>10, <2>11 DEF Matching, OwnAnswer
<1> QED
  BY <1>10, <1>11

(* An answer completes the request it answers.                             *)
LEMMA ReceiveKeeps ==
    ASSUME IInv, NEW m \in wire, NEW known \in BOOLEAN, Receive(m, known)
    PROVE  Typed' /\ Ordered' /\ RecentIds' /\ Matching'
<1> USE DEF IInv
<1>1. /\ wire' = wire \ {m}
      /\ UNCHANGED <<enabled, tx_tid, tid, sent, forever, link, restarts>>
  BY DEF Receive
<1>2. /\ errors' \in 0..2 /\ rxSeen' \in BOOLEAN /\ events' \in Seq({"up", "down"})
  <2>1. Append(events, "up") \in Seq({"up", "down"})
    BY AppendProperties DEF Typed
  <2>2. CASE known
    BY <2>1, <2>2 DEF Receive, CountAnswer, Typed
  <2>3. CASE ~known
    BY <2>3 DEF Receive, Typed, TypeOK
  <2> QED
    BY <2>2, <2>3
<1>3. CASE m.tid \notin DOMAIN requests
  <2>1. UNCHANGED <<requests, status, got>>
    BY <1>3 DEF Receive
  <2>2. Ordered' /\ RecentIds'
    BY <1>1, <2>1, OrderKept
  <2>3. Typed'
    BY <1>1, <1>2, <2>1 DEF Typed, TypeOK
  <2>4. Matching'
    BY <1>1, <2>1 DEF Matching, RequestsExact, OwnAnswer, TableKeys, FramesOwn, Sent
  <2> QED
    BY <2>2, <2>3, <2>4
<1>4. CASE m.tid \in DOMAIN requests
  <2> DEFINE r == requests[m.tid]
  <2>1. /\ requests' = Pop(m.tid) /\ status' = [status EXCEPT ![r] = "answered"]
        /\ got' = [got EXCEPT ![r] = m.req]
    BY <1>4 DEF Receive
  <2>2. r \in Reqs /\ status[r] = "waiting" /\ tid[r] = m.tid
    BY <1>4 DEF Typed, TypeOK, Matching, RequestsExact, TableKeys
  <2>3. m.req = r
    BY <2>2 DEF Matching, FramesOwn
  <2> HIDE DEF r
  <2>4. status'[r] = "answered" /\ \A q \in Reqs : q # r => status'[q] = status[q]
    BY <2>1, <2>2 DEF Typed, TypeOK
  <2>5. /\ DOMAIN requests' = DOMAIN requests \ {m.tid}
        /\ \A t \in DOMAIN requests' : requests'[t] = requests[t]
    BY <2>1 DEF Pop
  <2>6. Typed'
    BY <1>1, <1>2, <2>1, <2>2, <2>3, <2>5 DEF Typed, TypeOK
  <2>7. Ordered' /\ RecentIds'
    BY <1>1, <2>2, <2>4, OrderKept
  <2>8. RequestsExact'
    BY <1>1, <2>2, <2>4, <2>5 DEF Matching, RequestsExact, TableKeys, Typed, TypeOK, r
  <2>9. TableKeys'
    BY <1>1, <2>2, <2>4, <2>5 DEF Matching, RequestsExact, TableKeys
  <2>10. FramesOwn'
    BY <1>1, <2>4 DEF Matching, FramesOwn, Sent
  <2>11. OwnAnswer'
    BY <2>1, <2>2, <2>3 DEF Matching, OwnAnswer, Typed, TypeOK
  <2> QED
    BY <2>6, <2>7, <2>8, <2>9, <2>10, <2>11 DEF Matching
<1> QED
  BY <1>3, <1>4

(* A timeout removes its own entry, or none.                               *)
LEMMA TimeoutKeeps ==
    ASSUME IInv, NEW r \in Reqs, Timeout(r)
    PROVE  Typed' /\ Ordered' /\ RecentIds' /\ Matching'
<1> USE DEF IInv
<1>1. /\ status[r] \in {"waiting", "answered"} /\ CountError
      /\ requests' = Pop(tid[r]) /\ status' = [status EXCEPT ![r] = "failed"]
      /\ UNCHANGED <<enabled, tx_tid, tid, sent, forever, got, wire, rxSeen, link, restarts>>
  BY DEF Timeout
<1>2. status'[r] = "failed" /\ \A q \in Reqs : q # r => status'[q] = status[q]
  BY <1>1 DEF Typed, TypeOK
<1>3. /\ DOMAIN requests' = DOMAIN requests \ {tid[r]}
      /\ \A t \in DOMAIN requests' : requests'[t] = requests[t]
  BY <1>1 DEF Pop
<1>4. Typed'
  BY <1>1, <1>3, CountErrorTyped DEF Typed, TypeOK
<1>5. Ordered' /\ RecentIds'
  BY <1>1, <1>2, OrderKept
<1>6. \A q \in Reqs : q # r /\ status[q] = "waiting" => tid[q] # tid[r]
  BY <1>1 DEF Matching, RequestsExact, TableKeys
<1>7. RequestsExact'
  BY <1>1, <1>2, <1>3, <1>6 DEF Matching, RequestsExact, TableKeys, Typed, TypeOK
<1>8. TableKeys'
  BY <1>1, <1>2, <1>3 DEF Matching, TableKeys
<1>9. FramesOwn'
  BY <1>1, <1>2 DEF Matching, FramesOwn, Sent
<1> QED
  BY <1>1, <1>4, <1>5, <1>7, <1>8, <1>9 DEF Matching, OwnAnswer

(* The steps that neither send, receive nor time out.                      *)
LEMMA OtherKeeps ==
    ASSUME IInv,
           \/ Start \/ Stop \/ PublishConnectivity \/ ReceiveAutonomous \/ PublishAutonomous
           \/ \E r \in Reqs : SendDisabled(r) \/ Deliver(r)
           \/ \E m \in wire : OnuAnswers(m) \/ Lose(m) \/ ReceiveDropped(m)
           \/ UNCHANGED vars
    PROVE  Typed' /\ Ordered' /\ RecentIds' /\ Matching'
<1> USE DEF IInv, calls
<1>1. CASE Start \/ Stop \/ ReceiveAutonomous \/ PublishAutonomous \/ UNCHANGED vars
  <2>1. /\ UNCHANGED <<tx_tid, requests, calls, wire, rxSeen, errors, events, link>>
        /\ enabled' \in BOOLEAN /\ restarts' \in 0..MaxRestarts
    <3>1. CASE Stop
      <4>1. MaxRestarts \in Nat
        BY OmciCCAssumption
      <4>2. restarts' \in 0..MaxRestarts
        BY <3>1, <4>1 DEF Stop, Typed, TypeOK
      <4> QED
        BY <3>1, <4>2 DEF Stop
    <3> QED
      BY <1>1, <3>1 DEF Start, ReceiveAutonomous, PublishAutonomous, vars, Typed, TypeOK
  <2>2. Ordered' /\ RecentIds'
    BY <2>1, OrderKept
  <2>3. Typed'
    BY <2>1 DEF Typed, TypeOK
  <2>4. Matching'
    BY <2>1 DEF Matching, RequestsExact, OwnAnswer, TableKeys, FramesOwn, Sent
  <2> QED
    BY <2>2, <2>3, <2>4
<1>2. CASE PublishConnectivity
  <2>1. /\ UNCHANGED <<enabled, tx_tid, requests, calls, wire, rxSeen, errors, restarts>>
        /\ events # <<>> /\ events' = Tail(events) /\ link' \in {link, Head(events)}
    BY <1>2 DEF PublishConnectivity
  <2>2. Head(events) \in {"up", "down"} /\ Tail(events) \in Seq({"up", "down"})
    BY <2>1, HeadTailProperties DEF Typed
  <2>3. Ordered' /\ RecentIds'
    BY <2>1, OrderKept
  <2>4. Typed'
    BY <2>1, <2>2 DEF Typed, TypeOK
  <2>5. Matching'
    BY <2>1 DEF Matching, RequestsExact, OwnAnswer, TableKeys, FramesOwn, Sent
  <2> QED
    BY <2>3, <2>4, <2>5
<1>3. ASSUME NEW r \in Reqs, SendDisabled(r) \/ Deliver(r)
      PROVE  Typed' /\ Ordered' /\ RecentIds' /\ Matching'
  <2>1. /\ UNCHANGED <<enabled, tx_tid, requests, tid, sent, forever, got, wire, rxSeen, errors,
                       events, link, restarts>>
        /\ status[r] \in {"new", "answered"}
        /\ \/ status' = [status EXCEPT ![r] = "failed"]
           \/ status' = [status EXCEPT ![r] = "done"]
    BY <1>3 DEF SendDisabled, Deliver, New
  <2>2. /\ status'[r] \in {"failed", "done"}
        /\ \A q \in Reqs : q # r => status'[q] = status[q]
    BY <2>1 DEF Typed, TypeOK
  <2>3. Ordered' /\ RecentIds'
    BY <2>1, <2>2, OrderKept
  <2>4. Typed'
    BY <2>1 DEF Typed, TypeOK
  <2>5. Matching'
    <3>1. RequestsExact'
      BY <2>1, <2>2 DEF Matching, RequestsExact, Typed, TypeOK
    <3>2. TableKeys'
      BY <2>1, <2>2 DEF Matching, TableKeys
    <3>3. FramesOwn'
      BY <2>1, <2>2 DEF Matching, FramesOwn, Sent
    <3> QED
      BY <2>1, <3>1, <3>2, <3>3 DEF Matching, OwnAnswer
  <2> QED
    BY <2>3, <2>4, <2>5
<1>4. ASSUME NEW m \in wire, OnuAnswers(m) \/ Lose(m) \/ ReceiveDropped(m)
      PROVE  Typed' /\ Ordered' /\ RecentIds' /\ Matching'
  <2> DEFINE reply == [m EXCEPT !.to = "olt"]
  <2>1. /\ UNCHANGED <<enabled, tx_tid, requests, calls, rxSeen, errors, events, link, restarts>>
        /\ wire' \subseteq wire \cup {reply}
    BY <1>4 DEF OnuAnswers, Lose, ReceiveDropped
  <2>2. reply \in Frames /\ reply.req = m.req /\ reply.tid = m.tid
    BY DEF Typed, TypeOK, Frames
  <2> HIDE DEF reply
  <2>3. Ordered' /\ RecentIds'
    BY <2>1, OrderKept
  <2>4. Typed'
    BY <2>1, <2>2 DEF Typed, TypeOK
  <2>5. FramesOwn'
    BY <2>1, <2>2 DEF Matching, FramesOwn, Sent
  <2>6. Matching'
    BY <2>1, <2>5 DEF Matching, RequestsExact, OwnAnswer, TableKeys
  <2> QED
    BY <2>3, <2>4, <2>6
<1> QED
  BY <1>1, <1>2, <1>3, <1>4

-----------------------------------------------------------------------------
(* The connectivity events.                                                *)

(* The event appended last is what the listeners will have been told.      *)
LEMMA AppendTold ==
    ASSUME Typed, NEW e \in {"up", "down"}, events' = Append(events, e)
    PROVE  Told' = e
<1>1. /\ events' # <<>> /\ Len(events') = Len(events) + 1
      /\ events'[Len(events) + 1] = e
  BY AppendProperties DEF Typed
<1> QED
  BY <1>1 DEF Told

(* Publishing an event changes nothing about the last one.                 *)
LEMMA PublishTold ==
    ASSUME Typed, events # <<>>, events' = Tail(events), link' = Head(events)
    PROVE  Told' = Told
<1>1. /\ Tail(events) \in Seq({"up", "down"}) /\ Len(Tail(events)) = Len(events) - 1
      /\ \A i \in 1..Len(Tail(events)) : Tail(events)[i] = events[i + 1]
      /\ Len(events) \in Nat \ {0}
  BY HeadTailProperties, EmptySeq DEF Typed
<1>2. CASE Len(events) = 1
  <2>1. Tail(events) = <<>> /\ Head(events) = events[1]
    BY <1>1, <1>2, EmptySeq
  <2> QED
    BY <1>2, <2>1 DEF Told
<1>3. CASE Len(events) > 1
  <2>1. Tail(events)[Len(events) - 1] = events[Len(events)]
    BY <1>1, <1>3
  <2>2. Tail(events) # <<>>
    BY <1>1, <1>3
  <2> QED
    BY <1>1, <2>1, <2>2 DEF Told
<1> QED
  BY <1>1, <1>2, <1>3

(* An error leaves "down" as the last event (send, _request_failure).      *)
LEMMA ErrorTold ==
    ASSUME Typed, CountError, UNCHANGED <<link, rxSeen>>,
           Told = "down" <=> errors # 0
    PROVE  Told' = "down" /\ errors' # 0
<1>1. CASE errors = 0
  BY <1>1, AppendTold DEF CountError
<1>2. CASE errors # 0
  BY <1>2 DEF CountError, Told, Typed, TypeOK
<1> QED
  BY <1>1, <1>2

(* An answer leaves "up" as the last event (receive_message).              *)
LEMMA AnswerTold ==
    ASSUME Typed, CountAnswer, UNCHANGED link,
           Told = "up" <=> rxSeen /\ errors = 0
    PROVE  Told' = "up" /\ errors' = 0 /\ rxSeen'
<1>1. CASE ~rxSeen \/ errors # 0
  BY <1>1, AppendTold DEF CountAnswer
<1>2. CASE rxSeen /\ errors = 0
  BY <1>2 DEF CountAnswer, Told
<1> QED
  BY <1>1, <1>2

(* Up to the first stop the last event agrees with the counters.           *)
LEMMA EventsKeep == IInv /\ [Next]_vars => EventsFollow'
<1> SUFFICES ASSUME IInv, [Next]_vars, restarts' = 0
             PROVE  /\ ~enabled' => /\ events' = <<>> /\ wire' = {}
                                    /\ \A r \in Reqs : status'[r] \in {"new", "failed"}
                    /\ Told' = "down" <=> errors' # 0
                    /\ Told' = "up" <=> rxSeen' /\ errors' = 0
  BY DEF EventsFollow
<1> USE DEF IInv, calls
<1>1. ~Stop /\ restarts = 0
  BY OmciCCAssumption
  DEF Next, vars, Stop, Start, SendDisabled, Send, OnuAnswers, Lose, ReceiveDropped, Receive, Deliver, Timeout,
      PublishConnectivity, ReceiveAutonomous, PublishAutonomous, Typed, TypeOK
<1>2. /\ ~enabled => events = <<>> /\ wire = {} /\ \A r \in Reqs : status[r] \in {"new", "failed"}
      /\ Told = "down" <=> errors # 0
      /\ Told = "up" <=> rxSeen /\ errors = 0
  BY <1>1 DEF EventsFollow
<1>3. CASE Start \/ ReceiveAutonomous \/ PublishAutonomous \/ UNCHANGED vars
  BY <1>2, <1>3 DEF Start, ReceiveAutonomous, PublishAutonomous, vars, Told
<1>4. CASE PublishConnectivity
  <2>1. events # <<>> /\ enabled
    BY <1>2, <1>4 DEF PublishConnectivity
  <2>2. /\ events' = Tail(events) /\ link' = Head(events) /\ enabled'
        /\ UNCHANGED <<errors, rxSeen>>
    BY <1>4, <2>1 DEF PublishConnectivity
  <2> QED
    BY <1>2, <2>1, <2>2, PublishTold
<1>5. ASSUME NEW r \in Reqs, SendDisabled(r)
      PROVE  /\ ~enabled' => /\ events' = <<>> /\ wire' = {}
                             /\ \A q \in Reqs : status'[q] \in {"new", "failed"}
             /\ Told' = "down" <=> errors' # 0
             /\ Told' = "up" <=> rxSeen' /\ errors' = 0
  BY <1>2, <1>5 DEF SendDisabled, Told, Typed, TypeOK
<1>6. ASSUME NEW r \in Reqs, NEW noTimeout \in BOOLEAN, NEW raises \in BOOLEAN,
           Send(r, noTimeout, raises)
      PROVE  /\ enabled'
             /\ Told' = "down" <=> errors' # 0
             /\ Told' = "up" <=> rxSeen' /\ errors' = 0
  <2>1. enabled' /\ UNCHANGED <<link, rxSeen>> /\ (CountError \/ UNCHANGED <<errors, events>>)
    BY <1>6 DEF Send
  <2>2. CASE CountError
    BY <1>2, <2>1, <2>2, ErrorTold
  <2>3. CASE UNCHANGED <<errors, events>>
    BY <1>2, <2>1, <2>3 DEF Told
  <2> QED
    BY <2>1, <2>2, <2>3
<1>7. ASSUME NEW m \in wire, OnuAnswers(m) \/ Lose(m) \/ ReceiveDropped(m)
      PROVE  /\ enabled'
             /\ Told' = "down" <=> errors' # 0
             /\ Told' = "up" <=> rxSeen' /\ errors' = 0
  BY <1>2, <1>7 DEF OnuAnswers, Lose, ReceiveDropped, Told
<1>8. ASSUME NEW m \in wire, NEW known \in BOOLEAN, Receive(m, known)
      PROVE  /\ enabled'
             /\ Told' = "down" <=> errors' # 0
             /\ Told' = "up" <=> rxSeen' /\ errors' = 0
  <2>1. enabled' /\ UNCHANGED link /\ (CountAnswer \/ UNCHANGED <<events, rxSeen, errors>>)
    BY <1>8 DEF Receive
  <2>2. CASE CountAnswer
    BY <1>2, <2>1, <2>2, AnswerTold
  <2>3. CASE UNCHANGED <<events, rxSeen, errors>>
    BY <1>2, <2>1, <2>3 DEF Told
  <2> QED
    BY <2>1, <2>2, <2>3
<1>9. ASSUME NEW r \in Reqs, Deliver(r) \/ Timeout(r)
      PROVE  /\ enabled'
             /\ Told' = "down" <=> errors' # 0
             /\ Told' = "up" <=> rxSeen' /\ errors' = 0
  <2>1. /\ enabled' /\ UNCHANGED <<link, rxSeen>>
        /\ CountError \/ UNCHANGED <<errors, events>>
    BY <1>2, <1>9 DEF Deliver, Timeout
  <2>2. CASE CountError
    BY <1>2, <2>1, <2>2, ErrorTold
  <2>3. CASE UNCHANGED <<errors, events>>
    BY <1>2, <2>1, <2>3 DEF Told
  <2> QED
    BY <2>1, <2>2, <2>3
<1> QED
  BY <1>1, <1>3, <1>4, <1>5, <1>6, <1>7, <1>8, <1>9 DEF Next

-----------------------------------------------------------------------------
(* A channel that was just made satisfies the invariant.                   *)
LEMMA InitIInv == Init => IInv
<1> SUFFICES ASSUME Init PROVE IInv
  OBVIOUS
<1>1. Typed
  <2>1. <<>> \in Seq({"up", "down"}) /\ 1 \in 1..MaxTid /\ 0 \in 0..MaxTid /\ 0 \in 0..MaxRestarts
    BY OmciCCAssumption, EmptySeq
  <2>2. requests = <<>> /\ DOMAIN requests = {}
    BY DEF Init
  <2>3. /\ status \in [Reqs -> {"new", "waiting", "answered", "done", "failed"}]
        /\ tid \in [Reqs -> 0..MaxTid] /\ sent \in [Reqs -> Nat]
        /\ got \in [Reqs -> Reqs \cup {NoReq}]
    BY <2>1 DEF Init
  <2>4. /\ enabled \in BOOLEAN /\ rxSeen \in BOOLEAN /\ forever = {} /\ wire = {}
        /\ tx_tid = 1 /\ errors = 0 /\ link = "unknown" /\ restarts = 0 /\ events = <<>>
    BY DEF Init
  <2> QED
    BY <2>1, <2>2, <2>3, <2>4 DEF Typed, TypeOK
<1>2. Ordered /\ RecentIds
  <2>1. Count \in Nat
    BY CountNat
  <2>2. Sent = {}
    BY DEF Init, Sent
  <2> QED
    BY <2>1, <2>2 DEF Init, Ordered, RecentIds
<1>3. Matching
  BY DEF Init, Matching, RequestsExact, OwnAnswer, TableKeys, FramesOwn
<1>4. EventsFollow
  BY DEF Init, EventsFollow, Told
<1> QED
  BY <1>1, <1>2, <1>3, <1>4 DEF IInv

(* Every callback of the channel preserves it.                             *)
LEMMA NextIInv == IInv /\ [Next]_vars => IInv'
BY SendKeeps, ReceiveKeeps, TimeoutKeeps, OtherKeeps, EventsKeep DEF IInv, Next

(* The inductive invariant holds in every reachable state.                 *)
THEOREM Invariance == Spec => []IInv
BY InitIInv, NextIInv, PTL DEF Spec

(* The state of the channel has its types.                                 *)
THEOREM TypeCorrect == Spec => []TypeOK
<1>1. IInv => TypeOK
  BY DEF IInv, Typed
<1> QED
  BY <1>1, Invariance, PTL

(* _requests holds exactly the requests that wait, each under its own id,  *)
(* for any size of the id space: no late timeout takes out an entry of     *)
(* another request.                                                        *)
THEOREM TableExact == Spec => []RequestsExact
<1>1. IInv => RequestsExact
  BY DEF IInv, Matching
<1> QED
  BY <1>1, Invariance, PTL

(* No request is completed with the answer to another one, however often   *)
(* the ids go round, requests time out and frames are lost or reordered,   *)
(* as long as no frame outlives one round of the ids (Aged).               *)
THEOREM AnswersOwn == Spec => []OwnAnswer
<1>1. IInv => OwnAnswer
  BY DEF IInv, Matching
<1> QED
  BY <1>1, Invariance, PTL

(* Until the channel is first stopped, its listeners know, once all events *)
(* are out, whether the last exchange failed.                              *)
THEOREM LinkTracked == Spec => []ConnectivityTracked
<1>1. IInv => ConnectivityTracked
  BY DEF IInv, EventsFollow, ConnectivityTracked, ConnectivityReported, Told
<1> QED
  BY <1>1, Invariance, PTL
=============================================================================
