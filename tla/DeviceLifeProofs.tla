-------------------------- MODULE DeviceLifeProofs --------------------------
(***************************************************************************)
(* Proofs about the life of an OLT and its ONUs, for any number of ONUs,   *)
(* of requests, of calls that fail and of restarts.                        *)
(***************************************************************************)
EXTENDS DeviceLife, TLAPS

Ops == {"activate", "disable", "reenable", "reboot", "reconcile", "delete"}
Stored == Records \cup {Absent}

(* A scheduled activation or reconciliation has an enabled device in hand. *)
ScheduledCalls ==
    {c \in [op: Ops, dev: Devices, arg: Stored] :
        c.op \in {"activate", "reconcile"} => c.arg \in Records /\ c.arg.admin = "ENABLED"}

Sleeping ==
    [dev: Devices, oper: {"UNKNOWN", "ACTIVATING", "ACTIVE", "FAILED"}, conn: {"UNKNOWN", "REACHABLE", "UNREACHABLE"}]

(* The calls q hold one of the method op of the device d.                  *)
Sent(q, op, d) == \E i \in 1..Len(q) : q[i].op = op /\ q[i].dev = d

(* The calls q hold at most one activation of the OLT.                     *)
Once(q) ==
    \A i, j \in 1..Len(q) :
        /\ q[i].op = "activate" /\ q[i].dev = olt
        /\ q[j].op = "activate" /\ q[j].dev = olt
        => i = j

Typed ==
    /\ dev \in [Devices -> Stored]
    /\ disk \in [Devices -> Stored]
    /\ last \in [Devices -> {"none", "PREPROVISIONED", "ENABLED", "DISABLED"}]
    /\ handlers \subseteq Devices /\ known \subseteq Devices
    /\ sched \in Seq(ScheduledCalls)
    /\ reboots \in Seq(Sleeping)

(* A restart finds every device in the administrative state it was in.     *)
Persisted == \A d \in Devices : disk[d].admin = dev[d].admin

(* The OLT is activated once in its life, before its ONUs are known.       *)
OneActivation ==
    /\ Once(sched)
    /\ Sent(sched, "activate", olt) => known \cap Onus = {}
    /\ olt \notin known => ~Present(olt)
    /\ olt \notin known \/ dev[olt].admin = "PREPROVISIONED" =>
            known \cap Onus = {} /\ ~Sent(sched, "activate", olt)

(* last_data is behind the tree only for a device that was enabled without *)
(* a handler, until its reconciliation is over.                            *)
Followed ==
    \A d \in Devices : Present(d) =>
        \/ last[d] = dev[d].admin
        \/ /\ last[d] = "DISABLED" /\ dev[d].admin = "ENABLED"
           /\ d \notin handlers \/ Sent(sched, "reconcile", d)

(* The inductive invariant.                                                *)
IInv == Typed /\ Persisted /\ OneActivation /\ Followed

-----------------------------------------------------------------------------
(* Queues of scheduled calls.                                              *)

(* The call at the head is the one that goes.                              *)
LEMMA TailSent ==
    ASSUME NEW q \in Seq(ScheduledCalls), q # <<>>
    PROVE  /\ Head(q) \in ScheduledCalls /\ Tail(q) \in Seq(ScheduledCalls)
           /\ \A op, d : Sent(q, op, d) <=> Sent(Tail(q), op, d) \/ (Head(q).op = op /\ Head(q).dev = d)
           /\ Once(q) => Once(Tail(q))
           /\ Once(q) /\ Head(q).op = "activate" /\ Head(q).dev = olt => ~Sent(Tail(q), "activate", olt)
<1>1. /\ Head(q) \in ScheduledCalls /\ Tail(q) \in Seq(ScheduledCalls)
      /\ Len(q) \in Nat \ {0} /\ Len(Tail(q)) = Len(q) - 1
      /\ \A i \in 1..Len(Tail(q)) : i + 1 \in 1..Len(q) /\ Tail(q)[i] = q[i + 1]
  OBVIOUS
<1>2. Head(q) = q[1] /\ 1 \in 1..Len(q)
  BY <1>1
<1>3. ASSUME NEW i \in 1..Len(q), i # 1 PROVE i - 1 \in 1..Len(Tail(q)) /\ Tail(q)[i - 1] = q[i]
  BY <1>1, <1>3
<1>4. ASSUME NEW op, NEW d
      PROVE  Sent(q, op, d) <=> Sent(Tail(q), op, d) \/ (Head(q).op = op /\ Head(q).dev = d)
  BY <1>1, <1>2, <1>3, ZenonT(30) DEF Sent
<1>5. Once(q) => Once(Tail(q))
  <2> SUFFICES ASSUME Once(q), NEW i \in 1..Len(Tail(q)), NEW j \in 1..Len(Tail(q)),
                      Tail(q)[i].op = "activate", Tail(q)[i].dev = olt,
                      Tail(q)[j].op = "activate", Tail(q)[j].dev = olt
               PROVE  i = j
    BY Zenon DEF Once
  <2>1. i + 1 = j + 1
    BY <1>1, Zenon DEF Once
  <2> QED
    BY <2>1
<1>6. Once(q) /\ Head(q).op = "activate" /\ Head(q).dev = olt => ~Sent(Tail(q), "activate", olt)
  <2> SUFFICES ASSUME Once(q), Head(q).op = "activate", Head(q).dev = olt,
                      NEW i \in 1..Len(Tail(q)), Tail(q)[i].op = "activate", Tail(q)[i].dev = olt
               PROVE  FALSE
    BY Zenon DEF Sent
  <2>1. i + 1 = 1
    BY <1>1, <1>2, Zenon DEF Once
  <2> QED
    BY <2>1
<1> QED
  BY <1>1, <1>4, <1>5, <1>6, Zenon

(* Calls that are scheduled follow the ones that are.                      *)
LEMMA ConcatSent ==
    ASSUME NEW q \in Seq(ScheduledCalls), NEW r \in Seq(ScheduledCalls)
    PROVE  /\ q \o r \in Seq(ScheduledCalls)
           /\ \A op, d : Sent(q \o r, op, d) <=> Sent(q, op, d) \/ Sent(r, op, d)
           /\ Once(q) /\ ~Sent(r, "activate", olt) => Once(q \o r)
<1>1. /\ q \o r \in Seq(ScheduledCalls) /\ Len(q \o r) = Len(q) + Len(r)
      /\ Len(q) \in Nat /\ Len(r) \in Nat
      /\ \A i \in 1..(Len(q) + Len(r)) : (q \o r)[i] = IF i <= Len(q) THEN q[i] ELSE r[i - Len(q)]
  OBVIOUS
<1>2. ASSUME NEW i \in 1..Len(q) PROVE i \in 1..Len(q \o r) /\ (q \o r)[i] = q[i]
  BY <1>1
<1>3. ASSUME NEW i \in 1..Len(r) PROVE Len(q) + i \in 1..Len(q \o r) /\ (q \o r)[Len(q) + i] = r[i]
  <2>1. Len(q) + i \in 1..(Len(q) + Len(r)) /\ ~(Len(q) + i <= Len(q)) /\ (Len(q) + i) - Len(q) = i
    BY <1>1
  <2> QED
    BY <1>1, <2>1, Zenon
<1>4. ASSUME NEW i \in 1..Len(q \o r)
      PROVE  \/ i \in 1..Len(q) /\ (q \o r)[i] = q[i]
             \/ i - Len(q) \in 1..Len(r) /\ (q \o r)[i] = r[i - Len(q)]
  BY <1>1
<1>5. ASSUME NEW op, NEW d PROVE Sent(q \o r, op, d) <=> Sent(q, op, d) \/ Sent(r, op, d)
  <2>1. Sent(q \o r, op, d) => Sent(q, op, d) \/ Sent(r, op, d)
    BY <1>4, Zenon DEF Sent
  <2>2. Sent(q, op, d) => Sent(q \o r, op, d)
    BY <1>2, Zenon DEF Sent
  <2>3. Sent(r, op, d) => Sent(q \o r, op, d)
    BY <1>3, Zenon DEF Sent
  <2> QED
    BY <2>1, <2>2, <2>3, Zenon
<1>6. Once(q) /\ ~Sent(r, "activate", olt) => Once(q \o r)
  BY <1>4, Zenon DEF Once, Sent
<1> QED
  BY <1>1, <1>5, <1>6, Zenon

(* The same for a single call.                                             *)
LEMMA AppendSent ==
    ASSUME NEW q \in Seq(ScheduledCalls), NEW c \in ScheduledCalls
    PROVE  /\ Append(q, c) \in Seq(ScheduledCalls)
           /\ \A op, d : Sent(Append(q, c), op, d) <=> Sent(q, op, d) \/ (c.op = op /\ c.dev = d)
           /\ Once(q) /\ (~Sent(q, "activate", olt) \/ c.op # "activate") => Once(Append(q, c))
<1>1. /\ Append(q, c) \in Seq(ScheduledCalls) /\ Len(Append(q, c)) = Len(q) + 1 /\ Len(q) \in Nat
      /\ \A i \in 1..Len(q) : Append(q, c)[i] = q[i]
      /\ Append(q, c)[Len(q) + 1] = c
  OBVIOUS
<1>2. \A i \in 1..Len(Append(q, c)) : i \in 1..Len(q) \/ i = Len(q) + 1
  BY <1>1
<1>3. \A i \in 1..Len(q) : i \in 1..Len(Append(q, c))
  BY <1>1
<1>4. Len(q) + 1 \in 1..Len(Append(q, c))
  BY <1>1
<1>5. ASSUME NEW op, NEW d PROVE Sent(Append(q, c), op, d) <=> Sent(q, op, d) \/ (c.op = op /\ c.dev = d)
  BY <1>1, <1>2, <1>3, <1>4, Zenon DEF Sent
<1>6. Once(q) /\ (~Sent(q, "activate", olt) \/ c.op # "activate") => Once(Append(q, c))
  BY <1>1, <1>2, Zenon DEF Sent, Once
<1> QED
  BY <1>1, <1>5, <1>6, Zenon

(* A set of devices as a sequence: every member has its place, and one     *)
(* only.                                                                   *)
LEMMA ListedAll ==
    ASSUME NEW S \in SUBSET Devices
    PROVE  /\ Cardinality(S) \in Nat
           /\ Listed(S) \in [1..Cardinality(S) -> S]
           /\ Listed(S) \in Seq(S) /\ Len(Listed(S)) = Cardinality(S)
           /\ \A x \in S : \E i \in 1..Cardinality(S) : Listed(S)[i] = x
           /\ \A i, j \in 1..Cardinality(S) : Listed(S)[i] = Listed(S)[j] => i = j
<1> DEFINE N == Cardinality(S)
<1>1. N \in Nat /\ ExistsBijection(1..N, S)
  BY DeviceLifeAssumption, Zenon DEF Devices
<1>2. Listed(S) \in Bijection(1..N, S)
  BY <1>1, Zenon DEF ExistsBijection, Listed
<1>3. Listed(S) \in [1..N -> S]
  BY <1>2, Zenon DEF Bijection, Injection
<1>4. \A x \in S : \E i \in 1..N : Listed(S)[i] = x
  BY <1>2, Zenon DEF Bijection, Surjection
<1>5. \A i, j \in 1..N : Listed(S)[i] = Listed(S)[j] => i = j
  BY <1>2, <1>3, Zenon DEF Bijection, Injection, IsInjective
<1> HIDE DEF N
<1>6. Listed(S) \in Seq(S) /\ Len(Listed(S)) = N
  BY <1>1, <1>3
<1> QED
  BY <1>1, <1>3, <1>4, <1>5, <1>6, Zenon DEF N

(* What an agent schedules after an update is no activation.               *)
LEMMA CallsSent ==
    ASSUME NEW D \in SUBSET Devices, NEW new \in [Devices -> Stored]
    PROVE  Calls(D, new) \in Seq(ScheduledCalls) /\ ~Sent(Calls(D, new), "activate", olt)
<1> DEFINE changed == {d \in D : Transition(d, new) \in {"disable", "reenable"} /\ d \in handlers}
           q == Listed(changed)
           N == Cardinality(changed)
<1>1. changed \in SUBSET Devices
  BY Zenon
<1>2. N \in Nat /\ q \in [1..N -> changed]
  BY <1>1, ListedAll, Zenon
<1>3. Calls(D, new) = [i \in 1..N |-> Call(Transition(q[i], new), q[i])]
  BY Zenon DEF Calls
<1>4. ASSUME NEW i \in 1..N
      PROVE  /\ Call(Transition(q[i], new), q[i]) \in ScheduledCalls
             /\ Call(Transition(q[i], new), q[i]).op # "activate"
  <2>1. q[i] \in Devices /\ Transition(q[i], new) \in {"disable", "reenable"}
    BY <1>2, Zenon
  <2> QED
    BY <2>1, Zenon DEF Call, ScheduledCalls, Ops, Stored
<1> HIDE DEF changed, q, N
<1>5. Calls(D, new) \in [1..N -> ScheduledCalls]
  BY <1>3, <1>4, Zenon
<1>6. Calls(D, new) \in Seq(ScheduledCalls) /\ Len(Calls(D, new)) = N
  BY <1>2, <1>5
<1> QED
  BY <1>3, <1>4, <1>6, Zenon DEF Sent

(* The OLT reconciles all its enabled ONUs.                                *)
LEMMA ReconcilingSent ==
    ASSUME NEW new \in [Devices -> Stored]
    PROVE  /\ Reconciling(new) \in Seq(ScheduledCalls)
           /\ ~Sent(Reconciling(new), "activate", olt)
           /\ \A u \in Onus : new[u].admin = "ENABLED" => Sent(Reconciling(new), "reconcile", u)
<1> DEFINE enabled == {u \in Onus : new[u].admin = "ENABLED"}
           q == Listed(enabled)
           N == Cardinality(enabled)
<1>1. enabled \in SUBSET Devices
  BY Zenon DEF Devices
<1>2. /\ N \in Nat /\ q \in [1..N -> enabled] /\ Len(q) = N
      /\ \A u \in enabled : \E i \in 1..N : q[i] = u
  BY <1>1, ListedAll, Zenon
<1>3. Reconciling(new) = [i \in 1..N |-> CallWith("reconcile", q[i], new[q[i]])]
  BY <1>2, Zenon DEF Reconciling
<1>4. ASSUME NEW i \in 1..N
      PROVE  /\ CallWith("reconcile", q[i], new[q[i]]) \in ScheduledCalls
             /\ CallWith("reconcile", q[i], new[q[i]]).op = "reconcile"
             /\ CallWith("reconcile", q[i], new[q[i]]).dev = q[i]
  <2>1. q[i] \in Devices /\ new[q[i]] \in Stored /\ new[q[i]].admin = "ENABLED"
    BY <1>2, Zenon DEF Devices
  <2>2. new[q[i]] \in Records
    BY <2>1 DEF Stored, Absent
  <2> QED
    BY <2>1, <2>2, Zenon DEF CallWith, ScheduledCalls, Ops
<1>5. \A u \in Onus : new[u].admin = "ENABLED" => \E i \in 1..N : q[i] = u
  BY <1>2, Zenon
<1> HIDE DEF enabled, q, N
<1>6. Reconciling(new) \in [1..N -> ScheduledCalls]
  BY <1>3, <1>4, Zenon
<1>7. Reconciling(new) \in Seq(ScheduledCalls) /\ Len(Reconciling(new)) = N
  BY <1>2, <1>6
<1>8. \A i \in 1..N : Reconciling(new)[i].op = "reconcile" /\ Reconciling(new)[i].dev = q[i]
  BY <1>3, <1>4, Zenon
<1>9. ~Sent(Reconciling(new), "activate", olt)
  BY <1>7, <1>8, Zenon DEF Sent
<1>10. ASSUME NEW u \in Onus, new[u].admin = "ENABLED" PROVE Sent(Reconciling(new), "reconcile", u)
  BY <1>5, <1>7, <1>8, <1>10 DEF Sent
<1> QED
  BY <1>7, <1>9, <1>10, Zenon

(* DeleteDevice deletes the children that have a handler, one by one.      *)
LEMMA DeletionsSent ==
    /\ Deletions \in Seq(ScheduledCalls) /\ Len(Deletions) = Cardinality(Children \cap handlers)
    /\ \A i \in 1..Len(Deletions) :
           Deletions[i].op = "delete" /\ Deletions[i].dev = Listed(Children \cap handlers)[i]
<1> DEFINE gone == Children \cap handlers
           s == Listed(gone)
           N == Cardinality(gone)
<1>1. gone \in SUBSET Devices
  BY Zenon DEF Children, Devices
<1>2. N \in Nat /\ s \in [1..N -> gone] /\ Len(s) = N
  BY <1>1, ListedAll, Zenon
<1>3. Deletions = [i \in 1..N |-> Call("delete", s[i])]
  BY <1>2, Zenon DEF Deletions
<1>4. ASSUME NEW i \in 1..N
      PROVE  /\ Call("delete", s[i]) \in ScheduledCalls
             /\ Call("delete", s[i]).op = "delete" /\ Call("delete", s[i]).dev = s[i]
  <2>1. s[i] \in Devices
    BY <1>1, <1>2, Zenon
  <2> QED
    BY <2>1, Zenon DEF Call, ScheduledCalls, Ops, Stored
<1> HIDE DEF gone, s, N
<1>5. Deletions \in [1..N -> ScheduledCalls]
  BY <1>3, <1>4, Zenon
<1>6. Deletions \in Seq(ScheduledCalls) /\ Len(Deletions) = N
  BY <1>2, <1>5
<1>7. \A i \in 1..N : Deletions[i].op = "delete" /\ Deletions[i].dev = s[i]
  BY <1>3, <1>4, Zenon
<1> QED
  BY <1>6, <1>7, Zenon DEF gone, s, N

-----------------------------------------------------------------------------
(* What a step of the model does to the state.                             *)

(* A step on the queue that schedules no activation of the OLT, and takes  *)
(* no reconciliation but of the devices R.                                 *)
SchedKept(R) ==
    /\ sched' \in Seq(ScheduledCalls)
    /\ Once(sched')
    /\ Sent(sched', "activate", olt) => Sent(sched, "activate", olt)
    /\ \A d \in Devices \ R : Sent(sched, "reconcile", d) => Sent(sched', "reconcile", d)

(* A handler runs, and schedules nothing.                                  *)
LEMMA SchedRun ==
    ASSUME IInv, sched # <<>>, NEW rest, rest = Tail(sched)
    PROVE  /\ rest \in Seq(ScheduledCalls) /\ Head(sched) \in ScheduledCalls
           /\ sched' = rest => SchedKept({Head(sched).dev})
           /\ sched' = rest /\ Head(sched).op # "reconcile" => SchedKept({})
<1>1. /\ rest \in Seq(ScheduledCalls) /\ Once(rest) /\ Head(sched) \in ScheduledCalls
      /\ \A op, d : Sent(sched, op, d) <=> Sent(rest, op, d) \/ (Head(sched).op = op /\ Head(sched).dev = d)
  BY TailSent, Zenon DEF IInv, Typed, OneActivation
<1>2. sched' = rest => SchedKept({Head(sched).dev})
  BY <1>1, Zenon DEF SchedKept
<1>3. sched' = rest /\ Head(sched).op # "reconcile" => SchedKept({})
  BY <1>1, Zenon DEF SchedKept
<1> QED
  BY <1>1, <1>2, <1>3, Zenon

(* A device is there exactly if it has an administrative state.            *)
LEMMA AbsentAdmin == \A rec \in Stored : rec = Absent <=> rec.admin = "absent"
<1>1. Absent.admin = "absent"
  BY Zenon DEF Absent
<1>2. \A rec \in Records : rec.admin # "absent"
  BY Zenon DEF Records
<1> QED
  BY <1>1, <1>2, Zenon DEF Stored

(* The handlers.  A record a handler writes keeps its type.                *)
LEMMA PresentRecord == ASSUME IInv, NEW d \in Devices, Present(d) PROVE dev[d] \in Records
BY Zenon DEF IInv, Typed, Stored, Present

(* The call that is due.                                                   *)
LEMMA DueCall ==
    ASSUME IInv, NEW op, NEW d, Due(op, d)
    PROVE  /\ sched # <<>> /\ Head(sched).op = op /\ Head(sched).dev = d /\ d \in Devices
           /\ op \in {"activate", "reconcile"} =>
                Head(sched).arg \in Records /\ Head(sched).arg.admin = "ENABLED"
<1>1. sched # <<>> /\ Head(sched).op = op /\ Head(sched).dev = d
  BY Zenon DEF Due
<1>2. Head(sched) \in ScheduledCalls
  BY <1>1, SchedRun, Zenon
<1> QED
  BY <1>1, <1>2, Zenon DEF ScheduledCalls

(* The agents of the devices D react to an update of the tree.             *)
AgentsUpdate(D, after) ==
    /\ dev' = after
    /\ disk' = [d \in Devices |-> IF d \in D THEN after[d] ELSE disk[d]]
    /\ last' = [d \in Devices |-> last'[d]]
    /\ \A d \in Devices : last'[d] = ProcessUpdate(D, after)[d] \/ (d \in D /\ last'[d] = after[d].admin)
    /\ \A d \in Devices \ D : after[d] = dev[d]
    /\ \A d \in D : Present(d) /\ after[d] \in Records
    /\ after[olt].admin = "PREPROVISIONED" => dev[olt].admin = "PREPROVISIONED"

(* PonSimOltHandler.disable and reenable, which also change the children.  *)
Below(own, admin) ==
    [d \in Devices |-> IF d = olt THEN own
                       ELSE IF d \in Children THEN [dev[d] EXCEPT !.admin = admin] ELSE dev[d]]

OltChanges(own, admin) ==
    LET after == Below(own, admin)
        changed == {u \in Children : after[u] # dev[u]}
    IN  /\ dev' = after
        /\ disk' = [d \in Devices |-> IF d = olt \/ d \in changed THEN after[d] ELSE disk[d]]
        /\ last' = ProcessUpdate(changed \cup {olt}, after)
        /\ sched' = Tail(sched) \o Calls(changed, after)

-----------------------------------------------------------------------------
(* The inductive invariant.                                                *)

(* The start of an empty VOLTHA.                                           *)
LEMMA InitIInv == Init => IInv
<1> SUFFICES ASSUME Init PROVE IInv
  BY Zenon
<1>1. Typed
  <2>1. <<>> \in Seq(ScheduledCalls) /\ <<>> \in Seq(Sleeping)
    OBVIOUS
  <2> QED
    BY <2>1, Zenon DEF Init, Typed, Stored
<1>2. Persisted
  BY Zenon DEF Init, Persisted
<1>3. \A op, d : ~Sent(<<>>, op, d)
  BY DEF Sent
<1>4. OneActivation
  <2>1. Once(<<>>)
    BY DEF Once
  <2> QED
    BY <1>3, <2>1, Zenon DEF Init, OneActivation, Present, Devices
<1>5. Followed
  BY Zenon DEF Init, Followed, Present
<1> QED
  BY <1>1, <1>2, <1>4, <1>5, Zenon DEF IInv

(* Every step preserves the invariant.                                     *)
LEMMA NextIInv == IInv /\ [Next]_vars => IInv'
(* A request schedules calls r.                                            *)
<1>SchedRequest.
      ASSUME IInv, NEW r \in Seq(ScheduledCalls), ~Sent(r, "activate", olt), sched' = sched \o r
      PROVE  SchedKept({})
  BY <1>SchedRequest, ConcatSent, Zenon DEF SchedKept, IInv, Typed, OneActivation
(* A handler runs and schedules the calls r.                               *)
<1>SchedRunRequest.
      ASSUME IInv, sched # <<>>, NEW r \in Seq(ScheduledCalls), ~Sent(r, "activate", olt),
             sched' = Tail(sched) \o r
      PROVE  /\ SchedKept({Head(sched).dev})
             /\ Head(sched).op # "reconcile" => SchedKept({})
             /\ \A d : Sent(r, "reconcile", d) => Sent(sched', "reconcile", d)
  <2> USE <1>SchedRunRequest
  <2>1. /\ Tail(sched) \in Seq(ScheduledCalls) /\ Once(Tail(sched))
        /\ \A op, d : Sent(sched, op, d) <=> Sent(Tail(sched), op, d) \/ (Head(sched).op = op /\ Head(sched).dev = d)
    BY TailSent, Zenon DEF IInv, Typed, OneActivation
  <2>2. /\ Tail(sched) \o r \in Seq(ScheduledCalls)
        /\ \A op, d : Sent(Tail(sched) \o r, op, d) <=> Sent(Tail(sched), op, d) \/ Sent(r, op, d)
        /\ Once(Tail(sched)) => Once(Tail(sched) \o r)
    BY <2>1, ConcatSent, Zenon
  <2> QED
    BY <2>1, <2>2, Zenon DEF SchedKept
(* A step that neither adds a device nor makes one preprovisioned, and     *)
(* after which the agents follow, preserves the invariant.                 *)
<1>StepKeeps.
      ASSUME IInv, NEW R, SchedKept(R), Followed',
             dev' \in [Devices -> Stored], disk' \in [Devices -> Stored],
             last' \in [Devices -> {"none", "PREPROVISIONED", "ENABLED", "DISABLED"}],
             ~Present(olt) => dev'[olt] = Absent,
             dev'[olt].admin = "PREPROVISIONED" => dev[olt].admin = "PREPROVISIONED",
             \A d \in Devices : disk'[d].admin = dev'[d].admin,
             handlers' \subseteq Devices, known' = known, reboots' \in Seq(Sleeping)
      PROVE  IInv'
  <2> USE <1>StepKeeps
  <2>1. Typed'
    BY Zenon DEF IInv, Typed, SchedKept
  <2>2. Persisted'
    BY Zenon DEF Persisted
  <2>3. OneActivation'
    BY Zenon DEF IInv, OneActivation, SchedKept, Present
  <2> QED
    BY <2>1, <2>2, <2>3, Zenon DEF IInv
(* DeviceAgent.update_device and a step that changes no device.            *)
<1>UpdateDeviceKeeps.
      ASSUME IInv, NEW d \in Devices, SchedKept({d}) \/ SchedKept({}), Present(d), NEW rec \in Records, UpdateDevice(d, rec),
             rec.admin = "PREPROVISIONED" => dev[d].admin = "PREPROVISIONED",
             handlers' = handlers, known' = known, reboots' \in Seq(Sleeping)
      PROVE  IInv'
  <2> USE <1>UpdateDeviceKeeps
  <2>1. /\ dev' \in [Devices -> Stored] /\ dev'[d] = rec /\ \A c \in Devices \ {d} : dev'[c] = dev[c]
    BY Zenon DEF IInv, Typed, UpdateDevice, Stored
  <2>2. /\ disk' \in [Devices -> Stored] /\ disk'[d] = rec /\ \A c \in Devices \ {d} : disk'[c] = disk[c]
    BY Zenon DEF IInv, Typed, UpdateDevice, Stored
  <2>3. rec.admin \in {"PREPROVISIONED", "ENABLED", "DISABLED"}
    BY Zenon DEF Records
  <2>4. /\ last' \in [Devices -> {"none", "PREPROVISIONED", "ENABLED", "DISABLED"}]
        /\ last'[d] = rec.admin /\ \A c \in Devices \ {d} : last'[c] = last[c]
    BY <2>3, Zenon DEF IInv, Typed, UpdateDevice
  <2>5. \A c \in Devices : disk'[c].admin = dev'[c].admin
    BY <2>1, <2>2, Zenon DEF IInv, Persisted
  <2>6. Followed'
    BY <2>1, <2>4, Zenon DEF IInv, Followed, Present, SchedKept
  <2>7. olt \in Devices
    BY Zenon DEF Devices
  <2>8. /\ dev'[olt].admin = "PREPROVISIONED" => dev[olt].admin = "PREPROVISIONED"
        /\ ~Present(olt) => dev'[olt] = Absent
    BY <2>1, <2>7, Zenon DEF Present
  <2>9. handlers' \subseteq Devices
    BY Zenon DEF IInv, Typed
  <2> QED
    BY <2>1, <2>2, <2>4, <2>5, <2>6, <2>8, <2>9, <1>StepKeeps, Zenon
(* A step that only makes or drops calls keeps the invariant, when no      *)
(* device that exists loses a call it waits for.                           *)
<1>NoDeviceKeeps.
      ASSUME IInv, NEW R, SchedKept(R), UNCHANGED <<dev, disk, last, handlers, known>>,
             reboots' \in Seq(Sleeping), \A c \in R : ~Present(c)
      PROVE  IInv'
  <2> USE <1>NoDeviceKeeps
  <2>1. Followed'
    BY Zenon DEF IInv, Followed, Present, SchedKept
  <2> QED
    BY <2>1, <1>StepKeeps, Zenon DEF IInv, Typed, Persisted, Present
(* They follow it, except where a handler is missing.                      *)
<1>AgentsFollow.
      ASSUME IInv, SchedKept({}), NEW D \in SUBSET Devices, NEW after \in [Devices -> Stored],
             AgentsUpdate(D, after), handlers' = handlers, known' = known, reboots' \in Seq(Sleeping)
      PROVE  IInv'
  <2> USE <1>AgentsFollow
  <2>0. /\ dev' = after /\ disk' = [d \in Devices |-> IF d \in D THEN after[d] ELSE disk[d]]
        /\ last' = [d \in Devices |-> last'[d]]
        /\ \A d \in Devices : last'[d] = ProcessUpdate(D, after)[d] \/ (d \in D /\ last'[d] = after[d].admin)
        /\ \A d \in Devices \ D : after[d] = dev[d]
        /\ \A d \in D : Present(d) /\ after[d] \in Records
        /\ after[olt].admin = "PREPROVISIONED" => dev[olt].admin = "PREPROVISIONED"
    BY Zenon DEF AgentsUpdate
  <2>1. \A d \in Devices : last'[d] = last[d] \/ (d \in D /\ last'[d] = after[d].admin)
    BY <2>0, Zenon DEF ProcessUpdate
  <2>2. \A d \in D : after[d].admin \in {"PREPROVISIONED", "ENABLED", "DISABLED"}
    BY <2>0, Zenon DEF Records
  <2>3. last' \in [Devices -> {"none", "PREPROVISIONED", "ENABLED", "DISABLED"}]
    <3>1. \A d \in Devices : last'[d] \in {"none", "PREPROVISIONED", "ENABLED", "DISABLED"}
      BY <2>1, <2>2, Zenon DEF IInv, Typed
    <3> QED
      BY <2>0, <3>1, Zenon
  <2>4. disk' \in [Devices -> Stored]
    BY <2>0, Zenon DEF IInv, Typed
  <2>5. \A d \in Devices : disk'[d].admin = dev'[d].admin
    BY <2>0, Zenon DEF IInv, Persisted
  <2>6. ASSUME NEW d \in Devices, Present(d)'
        PROVE  \/ last'[d] = dev'[d].admin
               \/ /\ last'[d] = "DISABLED" /\ dev'[d].admin = "ENABLED"
                  /\ d \notin handlers' \/ Sent(sched', "reconcile", d)
    <3>1. CASE d \in D /\ last'[d] # after[d].admin
      <4>1. Transition(d, after) = "reenable" /\ d \notin handlers /\ last'[d] = last[d]
        BY <2>0, <3>1, Zenon DEF ProcessUpdate
      <4>2. last[d] = "DISABLED" /\ after[d].admin = "ENABLED"
        BY <4>1, Zenon DEF Transition, AdminStateFsm
      <4> QED
        BY <2>0, <4>1, <4>2, Zenon
    <3>2. CASE d \notin D
      <4>1. last'[d] = last[d] /\ dev'[d] = dev[d] /\ Present(d)
        BY <2>0, <2>1, <2>6, <3>2, Zenon DEF Present
      <4> QED
        BY <4>1, Zenon DEF IInv, Followed, SchedKept
    <3> QED
      BY <2>0, <3>1, <3>2, Zenon
  <2>7. Followed'
    BY <2>6, Zenon DEF Followed
  <2>8. handlers' \subseteq Devices
    BY Zenon DEF IInv, Typed
  <2>9. ~Present(olt) => dev'[olt] = Absent
    BY <2>0, Zenon DEF Present, Devices
  <2> QED
    BY <2>0, <2>3, <2>4, <2>5, <2>7, <2>8, <2>9, <1>StepKeeps, Zenon
(* CreateDevice and the first EnableDevice: the OLT is there, and          *)
(* scheduled to be activated.                                              *)
<1>CreateIInv. ASSUME IInv, NEW hasHost \in BOOLEAN, CreateDevice(hasHost) PROVE IInv'
  <2> USE <1>CreateIInv
  <2> USE DEF IInv
  <2>0. olt \in Devices /\ NewOlt \in Records /\ NewOlt.admin = "PREPROVISIONED"
    BY Zenon DEF Devices, NewOlt, Absent, Records
  <2>1. /\ dev' = [dev EXCEPT ![olt] = NewOlt] /\ disk' = [disk EXCEPT ![olt] = NewOlt]
        /\ last' = [last EXCEPT ![olt] = "PREPROVISIONED"] /\ known' = known \cup {olt}
        /\ UNCHANGED <<handlers, sched, reboots>> /\ olt \notin known
    BY Zenon DEF CreateDevice
  <2>2. Typed'
    BY <2>0, <2>1, Zenon DEF Typed, Stored
  <2>3. Persisted'
    BY <2>0, <2>1, Zenon DEF Persisted, Typed
  <2>4. OneActivation'
    BY <2>0, <2>1, DeviceLifeAssumption, Zenon DEF OneActivation, Typed
  <2>5. Followed'
    BY <2>0, <2>1, Zenon DEF Followed, Present, Typed
  <2> QED
    BY <2>2, <2>3, <2>4, <2>5, Zenon
(* LocalHandler.EnableDevice of a new OLT: DeviceAgent._activate_device    *)
(* schedules its one activation.                                           *)
<1>EnableNewIInv. ASSUME IInv, EnableNew PROVE IInv'
  <2> USE <1>EnableNewIInv
  <2> USE DEF IInv
  <2> DEFINE rec == [dev[olt] EXCEPT !.admin = "ENABLED"]
             activating == [rec EXCEPT !.oper = "ACTIVATING"]
             call == CallWith("activate", olt, activating)
  <2>0. olt \in Devices /\ dev[olt].admin = "PREPROVISIONED" /\ dev[olt] \in Records
    BY DEF Devices, EnableNew, Typed, Stored, Absent
  <2>1. /\ rec \in Records /\ rec.admin = "ENABLED"
        /\ activating \in Records /\ activating.admin = "ENABLED"
    BY <2>0, Zenon DEF Records
  <2>2. call \in ScheduledCalls /\ call.op = "activate" /\ call.dev = olt
    BY <2>0, <2>1, Zenon DEF CallWith, ScheduledCalls, Ops, Stored
  <2>3. /\ dev' = [dev EXCEPT ![olt] = activating] /\ disk' = [disk EXCEPT ![olt] = rec]
        /\ last' = [last EXCEPT ![olt] = "ENABLED"] /\ sched' = Append(sched, call)
        /\ handlers' = handlers \cup {olt} /\ UNCHANGED <<known, reboots>>
    BY Zenon DEF EnableNew
  <2> HIDE DEF rec, activating, call
  <2>4. ~Sent(sched, "activate", olt) /\ known \cap Onus = {} /\ olt \in known
    BY <2>0, AbsentAdmin, Zenon DEF OneActivation, Present, Stored
  <2>5. /\ Append(sched, call) \in Seq(ScheduledCalls)
        /\ \A op, d : Sent(Append(sched, call), op, d) <=> Sent(sched, op, d) \/ (call.op = op /\ call.dev = d)
        /\ Once(Append(sched, call))
    BY <2>2, <2>4, AppendSent, Zenon DEF Typed, OneActivation
  <2>6. Typed'
    BY <2>0, <2>1, <2>3, <2>5, Zenon DEF Typed, Stored
  <2>7. Persisted'
    BY <2>0, <2>1, <2>3, Zenon DEF Persisted, Typed
  <2>8. OneActivation'
    <3>1. dev'[olt].admin = "ENABLED"
      BY <2>0, <2>1, <2>3, Zenon DEF Typed
    <3> QED
      BY <2>3, <2>4, <2>5, <3>1, Zenon DEF OneActivation, Present
  <2>9. Followed'
    <3>1. dev'[olt].admin = "ENABLED" /\ last'[olt] = "ENABLED"
      BY <2>0, <2>1, <2>3, Zenon DEF Typed
    <3>2. \A d \in Devices \ {olt} : dev'[d] = dev[d] /\ last'[d] = last[d] /\ (d \in handlers' <=> d \in handlers)
      BY <2>3, Zenon DEF Typed
    <3>3. \A d : Sent(sched, "reconcile", d) => Sent(sched', "reconcile", d)
      BY <2>3, <2>5, Zenon
    <3> QED
      BY <3>1, <3>2, <3>3, Zenon DEF Followed, Present
  <2> QED
    BY <2>6, <2>7, <2>8, <2>9, Zenon
(* EnableDevice and DisableDevice.                                         *)
<1>SetAdminIInv.
      ASSUME IInv, NEW d \in Devices, NEW old \in {"ENABLED", "DISABLED"}, NEW new \in {"ENABLED", "DISABLED"},
             SetAdmin(d, old, new)
      PROVE  IInv'
  <2> USE <1>SetAdminIInv
  <2> DEFINE after == [dev EXCEPT ![d].admin = new]
  <2>1. dev[d] \in Records /\ Present(d)
    BY DEF SetAdmin, IInv, Typed, Stored, Absent, Present
  <2>2. after[d] \in Records /\ after[d].admin = new /\ \A c \in Devices \ {d} : after[c] = dev[c]
    BY <2>1, Zenon DEF Records, IInv, Typed
  <2>3. after \in [Devices -> Stored]
    BY <2>1, Zenon DEF Records, IInv, Typed, Stored
  <2>4. /\ dev' = after /\ disk' = [disk EXCEPT ![d] = after[d]]
        /\ last' = ProcessUpdate({d}, after) /\ sched' = sched \o Calls({d}, after)
        /\ UNCHANGED <<known, handlers, reboots>>
    BY Zenon DEF SetAdmin
  <2> HIDE DEF after
  <2>5. SchedKept({})
    BY <2>3, <2>4, CallsSent, <1>SchedRequest, Zenon
  <2>6. disk' = [c \in Devices |-> IF c \in {d} THEN after[c] ELSE disk[c]]
    BY <2>4, Zenon DEF IInv, Typed
  <2>7. dev'[olt].admin = "PREPROVISIONED" => dev[olt].admin = "PREPROVISIONED"
    BY <2>2, <2>4, Zenon DEF Devices
  <2>8. last' = [c \in Devices |-> last'[c]]
    BY <2>4, Zenon DEF ProcessUpdate
  <2>9. reboots' \in Seq(Sleeping)
    BY <2>4, Zenon DEF IInv, Typed
  <2>10. AgentsUpdate({d}, after)
    BY <2>1, <2>2, <2>4, <2>6, <2>7, <2>8, Zenon DEF AgentsUpdate
  <2> QED
    BY <2>3, <2>4, <2>5, <2>9, <2>10, <1>AgentsFollow, Zenon
(* RebootDevice only schedules the reboot.                                 *)
<1>RebootDeviceIInv. ASSUME IInv, NEW d \in Devices, RebootDevice(d) PROVE IInv'
  <2> USE <1>RebootDeviceIInv
  <2>1. UNCHANGED <<dev, disk, last, handlers, known, reboots>>
    BY Zenon DEF RebootDevice, tree
  <2>2. SchedKept({})
    <3>1. CASE d \in handlers
      <4>1. Call("reboot", d) \in ScheduledCalls /\ Call("reboot", d).op = "reboot"
        BY Zenon DEF Call, ScheduledCalls, Ops, Stored
      <4>2. sched' = Append(sched, Call("reboot", d))
        BY <3>1, Zenon DEF RebootDevice
      <4> QED
        BY <4>1, <4>2, AppendSent, Zenon DEF SchedKept, IInv, Typed, OneActivation
    <3>2. CASE d \notin handlers
      BY <3>2, Zenon DEF RebootDevice, SchedKept, IInv, Typed, OneActivation
    <3> QED
      BY <3>1, <3>2, Zenon
  <2>3. reboots' \in Seq(Sleeping)
    BY <2>1, Zenon DEF IInv, Typed
  <2> QED
    BY <2>1, <2>2, <2>3, <1>NoDeviceKeeps, Zenon
(* DeleteDevice leaves no device, or all but the OLT.                      *)
<1>DeleteIInv. ASSUME IInv, DeleteDevice PROVE IInv'
  <2> USE <1>DeleteIInv
  <2> DEFINE own == IF olt \in handlers THEN <<Call("delete", olt)>> ELSE <<>>
  <2>0. CASE ~(Children \subseteq handlers)
    <3>1. /\ dev' = [d \in Devices |-> IF d \in {olt} THEN Absent ELSE dev[d]]
          /\ disk' = [d \in Devices |-> IF d \in {olt} THEN Absent ELSE disk[d]]
          /\ last' = [d \in Devices |-> IF d \in {olt} \ {olt} THEN "none" ELSE last[d]]
          /\ UNCHANGED <<known, handlers, reboots, sched>>
      BY <2>0, Zenon DEF DeleteDevice
    <3>2. olt \in Devices /\ Absent \in Stored
      BY Zenon DEF Devices, Stored
    <3>3. /\ dev' \in [Devices -> Stored] /\ disk' \in [Devices -> Stored]
          /\ last' \in [Devices -> {"none", "PREPROVISIONED", "ENABLED", "DISABLED"}]
          /\ handlers' \subseteq Devices /\ reboots' \in Seq(Sleeping)
      BY <3>1, <3>2, Zenon DEF IInv, Typed
    <3>4. /\ dev'[olt] = Absent /\ disk'[olt] = Absent
          /\ \A d \in Devices \ {olt} : dev'[d] = dev[d] /\ disk'[d] = disk[d] /\ last'[d] = last[d]
      BY <3>1, <3>2, Zenon
    <3>5. \A d \in Devices : disk'[d].admin = dev'[d].admin
      BY <3>4, Zenon DEF IInv, Persisted
    <3>6. SchedKept({})
      BY <3>1, Zenon DEF SchedKept, IInv, Typed, OneActivation
    <3>7. Followed'
      BY <3>1, <3>4, Zenon DEF IInv, Followed, Present
    <3>8. dev'[olt].admin # "PREPROVISIONED"
      BY <3>4 DEF Absent
    <3> QED
      BY <3>1, <3>3, <3>4, <3>5, <3>6, <3>7, <3>8, <1>StepKeeps, Zenon
  <2> SUFFICES ASSUME Children \subseteq handlers PROVE IInv'
    BY <2>0, Zenon
  <2>1. Deletions \in Seq(ScheduledCalls) /\ ~Sent(Deletions, "activate", olt)
    BY DeletionsSent, Zenon DEF Sent
  <2>2. \A d \in Devices : Call("delete", d) \in ScheduledCalls /\ Call("delete", d).op = "delete"
    BY Zenon DEF Call, ScheduledCalls, Ops, Stored
  <2>4. own \in Seq(ScheduledCalls) /\ ~Sent(own, "activate", olt)
    <3>1. olt \in Devices
      BY Zenon DEF Devices
    <3>2. CASE olt \in handlers
      <4>1. own = <<Call("delete", olt)>> /\ Len(own) = 1 /\ own[1] = Call("delete", olt)
        BY <3>2, Zenon
      <4>2. own \in Seq(ScheduledCalls)
        BY <2>2, <3>1, <4>1
      <4>3. ~Sent(own, "activate", olt)
        BY <2>2, <3>1, <4>1 DEF Sent
      <4> QED
        BY <4>2, <4>3, Zenon
    <3>3. CASE olt \notin handlers
      BY <3>3 DEF Sent
    <3> QED
      BY <3>2, <3>3, Zenon
  <2>5. sched' = (sched \o Deletions) \o own
    BY Zenon DEF DeleteDevice
  <2> HIDE DEF own
  <2>7. /\ sched \o Deletions \in Seq(ScheduledCalls) /\ Once(sched \o Deletions)
        /\ \A op, d : Sent(sched \o Deletions, op, d) <=> Sent(sched, op, d) \/ Sent(Deletions, op, d)
    BY <2>1, ConcatSent, Zenon DEF IInv, Typed, OneActivation
  <2>8. SchedKept({})
    <3> DEFINE q == sched \o Deletions
    <3> HIDE DEF q
    <3>1. q \in Seq(ScheduledCalls) /\ Once(q)
      BY <2>7, Zenon DEF q
    <3>2. /\ q \o own \in Seq(ScheduledCalls) /\ Once(q \o own)
          /\ \A op, d : Sent(q \o own, op, d) <=> Sent(q, op, d) \/ Sent(own, op, d)
      BY <2>4, <3>1, ConcatSent, Zenon
    <3>3. sched' = q \o own /\ \A op, d : Sent(q, op, d) <=> Sent(sched, op, d) \/ Sent(Deletions, op, d)
      BY <2>5, <2>7, Zenon DEF q
    <3> QED
      BY <2>4, <2>1, <3>2, <3>3, Zenon DEF SchedKept
  <2> DEFINE stopped == IF olt \in handlers THEN Devices ELSE Devices \ {olt}
  <2>9. /\ dev' = [d \in Devices |-> IF d \in Devices THEN Absent ELSE dev[d]]
        /\ disk' = [d \in Devices |-> IF d \in Devices THEN Absent ELSE disk[d]]
        /\ last' = [d \in Devices |-> IF d \in stopped THEN "none" ELSE last[d]]
        /\ UNCHANGED <<known, handlers, reboots>>
    BY Zenon DEF DeleteDevice
  <2> HIDE DEF stopped
  <2>10. /\ dev' \in [Devices -> Stored] /\ disk' \in [Devices -> Stored]
         /\ last' \in [Devices -> {"none", "PREPROVISIONED", "ENABLED", "DISABLED"}]
         /\ handlers' \subseteq Devices /\ reboots' \in Seq(Sleeping)
    BY <2>9, Zenon DEF IInv, Typed, Stored
  <2>11. \A d \in Devices : dev'[d] = Absent /\ disk'[d] = Absent
    BY <2>9, Zenon
  <2>12. Followed'
    BY <2>11, Zenon DEF Followed, Present
  <2>13. dev'[olt].admin # "PREPROVISIONED" /\ dev'[olt] = Absent
    BY <2>11 DEF Devices, Absent
  <2> QED
    BY <2>8, <2>9, <2>10, <2>11, <2>12, <2>13, <1>StepKeeps, Zenon
(* Methods that change no device: of one that is gone, of an OLT that does *)
(* not answer, and delete().                                               *)
<1>QuietIInv.
      ASSUME IInv, NEW op, NEW d, Due(op, d), op # "reconcile" \/ ~Present(d), sched' = Tail(sched),
             UNCHANGED <<dev, disk, last, handlers, known, reboots>>
      PROVE  IInv'
  <2> USE <1>QuietIInv
  <2>1. sched # <<>> /\ Head(sched).op = op /\ Head(sched).dev = d
    BY Zenon DEF Due
  <2>2. reboots' \in Seq(Sleeping)
    BY Zenon DEF IInv, Typed
  <2>3. CASE op # "reconcile"
    <3>1. SchedKept({})
      BY <2>1, <2>3, SchedRun, Zenon
    <3> QED
      BY <2>2, <3>1, <1>NoDeviceKeeps, Zenon
  <2>4. CASE ~Present(d)
    <3>1. SchedKept({d})
      BY <2>1, SchedRun, Zenon
    <3> QED
      BY <2>2, <2>4, <3>1, <1>NoDeviceKeeps, Zenon
  <2> QED
    BY <2>3, <2>4, Zenon
(* Methods that write their own device only.                               *)
<1>OwnIInv.
      ASSUME IInv, NEW op, NEW d, Due(op, d), Present(d), NEW rec \in Records, UpdateDevice(d, rec),
             rec.admin = "PREPROVISIONED" => dev[d].admin = "PREPROVISIONED",
             sched' = Tail(sched), UNCHANGED <<handlers, known, reboots>>
      PROVE  IInv'
  <2> USE <1>OwnIInv
  <2>1. sched # <<>> /\ Head(sched).op = op /\ Head(sched).dev = d /\ d \in Devices
    BY DueCall, Zenon
  <2>2. SchedKept({d})
    BY <2>1, SchedRun, Zenon
  <2>3. reboots' \in Seq(Sleeping)
    BY Zenon DEF IInv, Typed
  <2> QED
    BY <2>1, <2>2, <2>3, <1>UpdateDeviceKeeps, Zenon
(* PonSimOltHandler.activate.                                              *)
<1>OltActivateIInv. ASSUME IInv, OltActivate PROVE IInv'
  <2> USE <1>OltActivateIInv
  <2> DEFINE reached == [Head(sched).arg EXCEPT !.conn = "REACHABLE"]
             active == [reached EXCEPT !.parent = TRUE, !.oper = "ACTIVE"]
             found == Listed(Onus)
             onu == [NewOnu EXCEPT !.oper = "ACTIVATING"]
             more == [i \in 1..Len(found) |-> CallWith("activate", found[i], onu)]
  <2>1. /\ sched # <<>> /\ Head(sched).op = "activate" /\ Head(sched).dev = olt /\ olt \in Devices
        /\ Head(sched).arg \in Records /\ Head(sched).arg.admin = "ENABLED"
    <3>1. Due("activate", olt)
      BY Zenon DEF OltActivate
    <3> QED
      BY <3>1, DueCall, Zenon
  <2>2. active \in Records /\ active.admin = "ENABLED"
    BY <2>1, Zenon DEF Records
  <2>3. /\ onu \in Records /\ onu.admin = "ENABLED" /\ NewOnu \in Records /\ NewOnu.admin = "ENABLED"
    BY Zenon DEF NewOnu, Absent, Records
  <2>4. more \in Seq(ScheduledCalls) /\ ~Sent(more, "activate", olt)
    <3>1. Len(found) \in Nat /\ found \in [1..Len(found) -> Onus]
      BY ListedAll DEF Devices
    <3>2. ASSUME NEW i \in 1..Len(found)
          PROVE  CallWith("activate", found[i], onu) \in ScheduledCalls /\ CallWith("activate", found[i], onu).dev # olt
      <4>1. found[i] \in Devices /\ found[i] # olt
        BY <3>1, DeviceLifeAssumption, Zenon DEF Devices
      <4> QED
        BY <2>3, <4>1, Zenon DEF CallWith, ScheduledCalls, Ops, Stored
    <3> HIDE DEF found, onu
    <3>3. more \in [1..Len(found) -> ScheduledCalls]
      BY <3>2, Zenon
    <3>4. more \in Seq(ScheduledCalls) /\ Len(more) = Len(found)
      BY <3>1, <3>3
    <3> QED
      BY <3>2, <3>4, Zenon DEF Sent
  <2>5. /\ dev' = [d \in Devices |-> IF d = olt THEN active ELSE onu]
        /\ disk' = [d \in Devices |-> IF d = olt THEN active ELSE NewOnu]
        /\ last' = [d \in Devices |-> dev'[d].admin]
        /\ sched' = Tail(sched) \o more
        /\ known' = Devices /\ handlers' = Devices /\ reboots' = reboots
    BY Zenon DEF OltActivate
  <2> HIDE DEF reached, active, found, onu, more
  <2>6. /\ Tail(sched) \in Seq(ScheduledCalls) /\ Once(Tail(sched)) /\ ~Sent(Tail(sched), "activate", olt)
    BY <2>1, TailSent, Zenon DEF IInv, Typed, OneActivation
  <2>7. sched' \in Seq(ScheduledCalls) /\ Once(sched') /\ ~Sent(sched', "activate", olt)
    BY <2>4, <2>5, <2>6, ConcatSent, Zenon
  <2>8. \A d \in Devices : /\ dev'[d] \in Records /\ dev'[d].admin = "ENABLED" /\ last'[d] = "ENABLED"
                           /\ disk'[d] \in Records /\ disk'[d].admin = "ENABLED"
    BY <2>2, <2>3, <2>5, Zenon
  <2>9. Typed'
    <3>1. dev' \in [Devices -> Stored] /\ disk' \in [Devices -> Stored]
      BY <2>5, <2>8, Zenon DEF Stored
    <3>2. last' \in [Devices -> {"none", "PREPROVISIONED", "ENABLED", "DISABLED"}]
      BY <2>5, <2>8, Zenon
    <3> QED
      BY <2>5, <2>7, <3>1, <3>2, Zenon DEF Typed, IInv
  <2>10. Persisted' /\ Followed'
    BY <2>8, Zenon DEF Persisted, Followed
  <2>11. OneActivation'
    BY <2>1, <2>5, <2>7, <2>8, Zenon DEF OneActivation
  <2> QED
    BY <2>9, <2>10, <2>11, Zenon DEF IInv
(* They preserve the invariant.                                            *)
<1>OltChangesIInv.
      ASSUME IInv, NEW op \in {"disable", "reenable"}, Due(op, olt), Present(olt),
             NEW own \in Records, own.admin = dev[olt].admin, NEW admin \in {"ENABLED", "DISABLED"},
             OltChanges(own, admin), UNCHANGED <<known, handlers, reboots>>
      PROVE  IInv'
  <2> USE <1>OltChangesIInv
  <2> DEFINE after == Below(own, admin)
             changed == {u \in Children : after[u] # dev[u]}
             D == changed \cup {olt}
  <2>0. olt \in Devices /\ Children \subseteq Devices /\ olt \notin Children
    BY DeviceLifeAssumption, Zenon DEF Devices, Children
  <2>1. \A d \in Children : dev[d] \in Records /\ Present(d)
    BY <2>0, PresentRecord, Zenon DEF Children
  <2>2. \A d \in Children : [dev[d] EXCEPT !.admin = admin] \in Records
    BY <2>1, Zenon DEF Records
  <2>3. /\ after \in [Devices -> Stored] /\ after[olt] = own
        /\ \A d \in Children : after[d] = [dev[d] EXCEPT !.admin = admin]
        /\ \A d \in Devices : d # olt /\ d \notin Children => after[d] = dev[d]
    BY <2>0, <2>2, Zenon DEF IInv, Typed, Stored, Below
  <2>4. /\ dev' = after
        /\ disk' = [d \in Devices |-> IF d = olt \/ d \in changed THEN after[d] ELSE disk[d]]
        /\ last' = ProcessUpdate(D, after)
        /\ sched' = Tail(sched) \o Calls(changed, after)
    BY Zenon DEF OltChanges
  <2> HIDE DEF after
  <2>5. D \in SUBSET Devices /\ changed \in SUBSET Devices
    BY <2>0, Zenon
  <2>6. \A d \in D : Present(d) /\ after[d] \in Records
    BY <2>0, <2>1, <2>2, <2>3, Zenon
  <2>7. \A d \in Devices \ D : after[d] = dev[d]
    BY <2>3, Zenon
  <2>8. disk' = [d \in Devices |-> IF d \in D THEN after[d] ELSE disk[d]]
    BY <2>4, Zenon
  <2> HIDE DEF changed, D
  <2>9. SchedKept({})
    <3>1. sched # <<>> /\ Head(sched).op # "reconcile"
      BY Zenon DEF Due
    <3> QED
      BY <2>3, <2>4, <2>5, <3>1, CallsSent, <1>SchedRunRequest, Zenon
  <2>10. last' = [d \in Devices |-> last'[d]]
    BY <2>4, Zenon DEF ProcessUpdate
  <2>11. AgentsUpdate(D, after)
    BY <2>3, <2>4, <2>6, <2>7, <2>8, <2>10, Zenon DEF AgentsUpdate
  <2>12. reboots' \in Seq(Sleeping)
    BY Zenon DEF IInv, Typed
  <2> QED
    BY <2>3, <2>5, <2>9, <2>11, <2>12, <1>AgentsFollow, Zenon
(* PonSimOltHandler.disable takes the logical device down and disables the *)
(* ONUs through their agents.                                              *)
<1>OltDisableIInv. ASSUME IInv, OltDisable PROVE IInv'
  <2> USE <1>OltDisableIInv
  <2> DEFINE down == [dev EXCEPT ![olt].oper = "UNKNOWN", ![olt].conn = "UNREACHABLE"]
             after == [d \in Devices |->
                          IF d \in Children THEN [down[d] EXCEPT !.admin = "DISABLED"]
                          ELSE down[d]]
             changed == {u \in Children : after[u] # dev[u]}
             own == [dev[olt] EXCEPT !.oper = "UNKNOWN", !.conn = "UNREACHABLE"]
  <2>1. Due("disable", olt) /\ Present(olt) /\ olt \in Devices /\ UNCHANGED <<known, handlers, reboots>>
    BY Zenon DEF OltDisable, Devices
  <2>2. dev[olt] \in Records
    BY <2>1, PresentRecord, Zenon
  <2>3. own \in Records /\ own.admin = dev[olt].admin
    BY <2>2, Zenon DEF Records
  <2>4. down[olt] = own /\ \A d \in Devices \ {olt} : down[d] = dev[d]
    BY <2>1, Zenon DEF IInv, Typed
  <2>7. CASE kpi # "running"
    <3>1. sched' = Tail(sched) /\ UNCHANGED <<dev, disk, last>>
      BY <2>7, Zenon DEF OltDisable
    <3> QED
      BY <2>1, <3>1, <1>QuietIInv, Zenon
  <2>5. CASE kpi = "running" /\ ldKnown /\ ld
    <3>1. olt \notin Children
      BY DeviceLifeAssumption, Zenon DEF Children
    <3>2. /\ dev' = after /\ disk' = [d \in Devices |-> IF d = olt \/ d \in changed THEN after[d] ELSE disk[d]]
          /\ last' = ProcessUpdate(changed \cup {olt}, after)
          /\ sched' = Tail(sched) \o Calls(changed, after)
      BY <2>5, Zenon DEF OltDisable
    <3> HIDE DEF down, own
    <3>3. after = Below(own, "DISABLED")
      BY <2>4, <3>1, Zenon DEF Below
    <3>4. OltChanges(own, "DISABLED")
      BY <3>2, <3>3, Zenon DEF OltChanges
    <3> QED
      BY <2>1, <2>3, <3>4, <1>OltChangesIInv, Zenon
  <2>6. CASE kpi = "running" /\ ~(ldKnown /\ ld)
    <3>1. UpdateDevice(olt, own) /\ sched' = Tail(sched)
      BY <2>4, <2>6, Zenon DEF OltDisable
    <3> HIDE DEF own
    <3> QED
      BY <2>1, <2>3, <3>1, <1>OwnIInv, Zenon
  <2> QED
    BY <2>5, <2>6, <2>7, Zenon
(* PonSimOltHandler.reenable builds the logical device again and enables   *)
(* the ONUs through their agents.                                          *)
<1>OltReenableIInv. ASSUME IInv, OltReenable PROVE IInv'
  <2> USE <1>OltReenableIInv
  <2> DEFINE reached == [dev EXCEPT ![olt].conn = "REACHABLE"]
             active == [reached EXCEPT ![olt].parent = TRUE, ![olt].oper = "ACTIVE"]
             after == [d \in Devices |->
                          IF d \in Children THEN [active[d] EXCEPT !.admin = "ENABLED"]
                          ELSE active[d]]
             changed == {u \in Children : after[u] # dev[u]}
             up == [dev[olt] EXCEPT !.conn = "REACHABLE"]
             own == [up EXCEPT !.parent = TRUE, !.oper = "ACTIVE"]
  <2>1. Due("reenable", olt) /\ Present(olt) /\ olt \in Devices /\ UNCHANGED <<known, handlers, reboots>>
    BY Zenon DEF OltReenable, Devices
  <2>2. dev[olt] \in Records
    BY <2>1, PresentRecord, Zenon
  <2>3. up \in Records /\ up.admin = dev[olt].admin /\ own \in Records /\ own.admin = dev[olt].admin
    BY <2>2, Zenon DEF Records
  <2>4. reached[olt] = up /\ active[olt] = own /\ \A d \in Devices \ {olt} : active[d] = dev[d]
    BY <2>1, Zenon DEF IInv, Typed
  <2>5. CASE ~ld /\ nniPort
    <3>1. olt \notin Children
      BY DeviceLifeAssumption, Zenon DEF Children
    <3>2. /\ dev' = after /\ disk' = [d \in Devices |-> IF d = olt \/ d \in changed THEN after[d] ELSE disk[d]]
          /\ last' = ProcessUpdate(changed \cup {olt}, after)
          /\ sched' = Tail(sched) \o Calls(changed, after)
      BY <2>5, Zenon DEF OltReenable
    <3> HIDE DEF active, reached, up, own
    <3>3. after = Below(own, "ENABLED")
      BY <2>4, <3>1, Zenon DEF Below
    <3>4. OltChanges(own, "ENABLED")
      BY <3>2, <3>3, Zenon DEF OltChanges
    <3> QED
      BY <2>1, <2>3, <3>4, <1>OltChangesIInv, Zenon
  <2>6. CASE ~(~ld /\ nniPort)
    <3>1. UpdateDevice(olt, up) /\ sched' = Tail(sched)
      BY <2>4, <2>6, Zenon DEF OltReenable
    <3> HIDE DEF up
    <3> QED
      BY <2>1, <2>3, <3>1, <1>OwnIInv, Zenon
  <2> QED
    BY <2>5, <2>6, Zenon
(* PonSimOnuHandler.activate, disable, reenable and reconcile, and the     *)
(* reconciliation of an OLT that does not answer.                          *)
<1>OnuIInv.
      ASSUME IInv, NEW u \in Onus, OnuActivate(u) \/ OnuDisable(u) \/ OnuReenable(u) \/ OnuReconcile(u)
      PROVE  IInv'
  <2> USE <1>OnuIInv
  <2>0. u \in Devices /\ Present(u) /\ sched' = Tail(sched) /\ UNCHANGED <<handlers, known, reboots>>
    BY Zenon DEF OnuActivate, OnuDisable, OnuReenable, OnuReconcile, Devices
  <2>1. dev[u] \in Records
    BY <2>0, PresentRecord, Zenon
  <2>2. CASE OnuActivate(u)
    <3>1. Due("activate", u)
      BY <2>2, Zenon DEF OnuActivate
    <3>2. Head(sched).arg \in Records /\ Head(sched).arg.admin = "ENABLED"
      BY <3>1, DueCall, Zenon
    <3>3. PICK rec \in Records : rec.admin = "ENABLED" /\ UpdateDevice(u, rec)
      <4> DEFINE reached == [Head(sched).arg EXCEPT !.conn = "REACHABLE"]
                 active == [reached EXCEPT !.oper = "ACTIVE"]
      <4>1. reached \in Records /\ active \in Records /\ reached.admin = "ENABLED" /\ active.admin = "ENABLED"
        BY <3>2, Zenon DEF Records
      <4>2. UpdateDevice(u, reached) \/ UpdateDevice(u, active)
        BY <2>2, Zenon DEF OnuActivate
      <4> QED
        BY <4>1, <4>2, Zenon
    <3> QED
      BY <2>0, <3>1, <3>3, <1>OwnIInv, Zenon
  <2>3. CASE OnuDisable(u)
    <3> DEFINE rec == [dev[u] EXCEPT !.oper = "UNKNOWN", !.conn = "UNREACHABLE"]
    <3>1. Due("disable", u) /\ UpdateDevice(u, rec)
      BY <2>3, Zenon DEF OnuDisable
    <3>2. rec \in Records /\ rec.admin = dev[u].admin
      BY <2>1, Zenon DEF Records
    <3> HIDE DEF rec
    <3> QED
      BY <2>0, <3>1, <3>2, <1>OwnIInv, Zenon
  <2>4. CASE OnuReenable(u)
    <3>1. Due("reenable", u)
      BY <2>4, Zenon DEF OnuReenable
    <3>2. CASE u \in onuPorts
      <4> DEFINE rec == [dev[u] EXCEPT !.conn = "REACHABLE",
                                       !.oper = IF ld THEN "ACTIVE" ELSE @]
      <4>1. UpdateDevice(u, rec)
        BY <2>4, <3>2, Zenon DEF OnuReenable
      <4>2. rec \in Records /\ rec.admin = dev[u].admin
        BY <2>1, Zenon DEF Records
      <4> HIDE DEF rec
      <4> QED
        BY <2>0, <3>1, <4>1, <4>2, <1>OwnIInv, Zenon
    <3>3. CASE u \notin onuPorts
      <4>1. UNCHANGED <<dev, disk, last>>
        BY <2>4, <3>3, Zenon DEF OnuReenable
      <4> QED
        BY <2>0, <3>1, <4>1, <1>QuietIInv, Zenon
    <3> QED
      BY <3>2, <3>3, Zenon
  <2>5. CASE OnuReconcile(u)
    <3> DEFINE rec == [Head(sched).arg EXCEPT !.oper = "ACTIVE", !.conn = "REACHABLE"]
    <3>1. Due("reconcile", u) /\ UpdateDevice(u, rec)
      BY <2>5, Zenon DEF OnuReconcile
    <3>2. Head(sched).arg \in Records /\ Head(sched).arg.admin = "ENABLED"
      BY <3>1, DueCall, Zenon
    <3>3. rec \in Records /\ rec.admin = "ENABLED"
      BY <3>2, Zenon DEF Records
    <3> HIDE DEF rec
    <3> QED
      BY <2>0, <3>1, <3>3, <1>OwnIInv, Zenon
  <2> QED
    BY <2>2, <2>3, <2>4, <2>5, Zenon
(* PonSimOltHandler.reconcile of an OLT that does not answer writes it as  *)
(* unreachable and reconciles no ONU.                                      *)
<1>OltReconcileFailsIInv. ASSUME IInv, OltReconcileFails PROVE IInv'
  <2> USE <1>OltReconcileFailsIInv
  <2> DEFINE rec == [Head(sched).arg EXCEPT !.oper = "UNKNOWN", !.conn = "UNREACHABLE"]
  <2>1. /\ Due("reconcile", olt) /\ Present(olt) /\ UpdateDevice(olt, rec) /\ sched' = Tail(sched)
        /\ UNCHANGED <<handlers, known, reboots>>
    BY Zenon DEF OltReconcileFails
  <2>2. Head(sched).arg \in Records /\ Head(sched).arg.admin = "ENABLED"
    BY <2>1, DueCall, Zenon
  <2>3. rec \in Records /\ rec.admin = "ENABLED"
    BY <2>2, Zenon DEF Records
  <2> HIDE DEF rec
  <2> QED
    BY <2>1, <2>3, <1>OwnIInv, Zenon
(* Without an address activate and reconcile write the OLT as failed.      *)
<1>OltWithoutHostIInv. ASSUME IInv, OltWithoutHost PROVE IInv'
  <2> USE <1>OltWithoutHostIInv
  <2> DEFINE rec == [Head(sched).arg EXCEPT !.oper = "FAILED"]
  <2>1. Present(olt) /\ sched' = Tail(sched) /\ UNCHANGED <<handlers, known, reboots>>
    BY Zenon DEF OltWithoutHost
  <2>2. ASSUME NEW op \in {"activate", "reconcile"}, Due(op, olt), UpdateDevice(olt, rec) PROVE IInv'
    <3>1. Head(sched).arg \in Records /\ Head(sched).arg.admin = "ENABLED"
      BY <2>2, DueCall, Zenon
    <3>2. rec \in Records /\ rec.admin = "ENABLED"
      BY <3>1, Zenon DEF Records
    <3> HIDE DEF rec
    <3> QED
      BY <2>1, <2>2, <3>2, <1>OwnIInv, Zenon
  <2>3. CASE Due("reenable", olt) /\ UNCHANGED <<dev, disk, last>>
    BY <2>1, <2>3, <1>QuietIInv, Zenon
  <2> QED
    BY <2>2, <2>3, Zenon DEF OltWithoutHost
(* PonSimOltHandler.reconcile: the children get their handlers, and those  *)
(* whose agents are behind are about to be reconciled.                     *)
<1>OltReconcileIInv. ASSUME IInv, OltReconcile PROVE IInv'
  <2> USE <1>OltReconcileIInv
  <2> USE DEF IInv
  <2> DEFINE rec == [Head(sched).arg EXCEPT !.oper = "ACTIVE"]
  <2>1. /\ Due("reconcile", olt) /\ Present(olt) /\ UpdateDevice(olt, rec) /\ sched' = Tail(sched) \o Reconciling(dev)
        /\ handlers' = handlers \cup Children /\ UNCHANGED <<known, reboots>>
    BY Zenon DEF OltReconcile
  <2>2. /\ sched # <<>> /\ Head(sched).dev = olt /\ olt \in Devices
        /\ Head(sched).arg \in Records /\ Head(sched).arg.admin = "ENABLED"
    BY <2>1, DueCall, Zenon
  <2>3. rec \in Records /\ rec.admin = "ENABLED"
    BY <2>2, Zenon DEF Records
  <2> HIDE DEF rec
  <2>4. dev \in [Devices -> Stored]
    BY Zenon DEF Typed
  <2>5. /\ SchedKept({olt})
        /\ \A d : Sent(Reconciling(dev), "reconcile", d) => Sent(sched', "reconcile", d)
    BY <2>1, <2>2, <2>4, ReconcilingSent, <1>SchedRunRequest, Zenon
  <2>6. /\ dev' \in [Devices -> Stored] /\ dev'[olt] = rec /\ \A c \in Devices \ {olt} : dev'[c] = dev[c]
    BY <2>1, <2>2, <2>3, Zenon DEF Typed, UpdateDevice, Stored
  <2>7. /\ disk' \in [Devices -> Stored] /\ disk'[olt] = rec /\ \A c \in Devices \ {olt} : disk'[c] = disk[c]
    BY <2>1, <2>2, <2>3, Zenon DEF Typed, UpdateDevice, Stored
  <2>8. /\ last' \in [Devices -> {"none", "PREPROVISIONED", "ENABLED", "DISABLED"}]
        /\ last'[olt] = rec.admin /\ \A c \in Devices \ {olt} : last'[c] = last[c]
    BY <2>1, <2>2, <2>3, Zenon DEF Typed, UpdateDevice
  <2>9. \A c \in Devices : disk'[c].admin = dev'[c].admin
    BY <2>6, <2>7, Zenon DEF Persisted
  <2>10. ASSUME NEW d \in Devices \ {olt}, Present(d)', last'[d] # dev'[d].admin
         PROVE  last'[d] = "DISABLED" /\ dev'[d].admin = "ENABLED" /\ Sent(sched', "reconcile", d)
    <3>1. d \in Onus /\ Present(d) /\ last[d] # dev[d].admin /\ last'[d] = last[d] /\ dev'[d] = dev[d]
      BY <2>6, <2>8, <2>10, Zenon DEF Present, Devices
    <3>2. last[d] = "DISABLED" /\ dev[d].admin = "ENABLED"
      BY <3>1, Zenon DEF Followed
    <3> QED
      BY <2>4, <2>5, <3>1, <3>2, ReconcilingSent, Zenon
  <2>11. Followed'
    BY <2>6, <2>8, <2>10, Zenon DEF Followed
  <2>12. handlers' \subseteq Devices /\ reboots' \in Seq(Sleeping)
    BY <2>1, Zenon DEF Typed, Children, Devices
  <2>13. dev'[olt].admin # "PREPROVISIONED"
    BY <2>3, <2>6, Zenon
  <2> QED
    BY <2>1, <2>5, <2>6, <2>7, <2>8, <2>9, <2>11, <2>12, <2>13, <1>StepKeeps, Zenon
(* Both ends of the sleep of reboot().                                     *)
<1>ConnectIInv.
      ASSUME IInv, NEW d \in Devices, Present(d), NEW rec \in Records, rec.admin = dev[d].admin,
             NEW conn \in {"REACHABLE", "UNREACHABLE"}, NEW rest, Connect(d, rec, conn, rest),
             rest = sched \/ (rest = Tail(sched) /\ Due("reboot", d)),
             UNCHANGED <<known, handlers>>, reboots' \in Seq(Sleeping)
      PROVE  IInv'
  <2> USE <1>ConnectIInv
  <2> DEFINE after == [c \in Devices |->
                  IF c = d THEN rec
                  ELSE IF d = olt /\ c \in Children THEN [dev[c] EXCEPT !.conn = conn]
                  ELSE dev[c]]
             changed == {u \in Children \ {d} : after[u] # dev[u]}
             D == changed \cup {d}
  <2>1. Children \subseteq Devices /\ \A c \in Children : dev[c] \in Records /\ Present(c)
    BY PresentRecord, Zenon DEF Children, Devices
  <2>2. \A c \in Children : [dev[c] EXCEPT !.conn = conn] \in Records
    BY <2>1, Zenon DEF Records
  <2>3. /\ after \in [Devices -> Stored] /\ after[d] = rec
        /\ \A c \in Children : after[c] \in Records
        /\ \A c \in Devices : c \notin Children /\ c # d => after[c] = dev[c]
        /\ \A c \in Children \ {d} : after[c].admin = dev[c].admin
    <3>1. \A c \in Children : [dev[c] EXCEPT !.conn = conn].admin = dev[c].admin
      BY <2>1, Zenon DEF Records
    <3> QED
      BY <2>1, <2>2, <3>1, Zenon DEF IInv, Typed, Stored
  <2>4. /\ dev' = after
        /\ disk' = [c \in Devices |-> IF c = d \/ c \in changed THEN after[c] ELSE disk[c]]
        /\ last' = [ProcessUpdate(changed, after) EXCEPT ![d] = rec.admin]
        /\ sched' = rest \o Calls(changed, after)
    BY Zenon DEF Connect
  <2> HIDE DEF after
  <2>5. D \in SUBSET Devices /\ changed \in SUBSET Devices /\ d \notin changed
    BY <2>1, Zenon
  <2>6. \A c \in D : Present(c) /\ after[c] \in Records
    BY <2>1, <2>3, Zenon
  <2>7. \A c \in Devices \ D : after[c] = dev[c]
    BY <2>3, Zenon
  <2>8. disk' = [c \in Devices |-> IF c \in D THEN after[c] ELSE disk[c]]
    BY <2>4, Zenon
  <2>9. /\ last' = [c \in Devices |-> last'[c]]
        /\ last'[d] = after[d].admin
        /\ \A c \in Devices \ {d} : last'[c] = ProcessUpdate(changed, after)[c]
    BY <2>3, <2>4, Zenon DEF ProcessUpdate
  <2>10. \A c \in Devices \ {d} : ProcessUpdate(changed, after)[c] = ProcessUpdate(D, after)[c]
    BY Zenon DEF ProcessUpdate
  <2>11. after[olt].admin = "PREPROVISIONED" => dev[olt].admin = "PREPROVISIONED"
    <3>1. olt \in Devices /\ olt \notin Children
      BY DeviceLifeAssumption, Zenon DEF Devices, Children
    <3> QED
      BY <2>3, <3>1, Zenon
  <2>12. d \in D
    BY Zenon
  <2> HIDE DEF changed, D
  <2>13. SchedKept({})
    <3>1. CASE rest = sched
      BY <2>3, <2>4, <2>5, <3>1, CallsSent, <1>SchedRequest, Zenon
    <3>2. CASE rest = Tail(sched) /\ Due("reboot", d)
      <4>1. sched # <<>> /\ Head(sched).op # "reconcile"
        BY <3>2, Zenon DEF Due
      <4> QED
        BY <2>3, <2>4, <2>5, <3>2, <4>1, CallsSent, <1>SchedRunRequest, Zenon
    <3> QED
      BY <3>1, <3>2, Zenon
  <2>14. AgentsUpdate(D, after)
    BY <2>4, <2>6, <2>7, <2>8, <2>9, <2>10, <2>11, <2>12, Zenon DEF AgentsUpdate
  <2> QED
    BY <2>3, <2>5, <2>13, <2>14, <1>AgentsFollow, Zenon
(* A handler's reboot writes its two states and goes to sleep.             *)
<1>RebootStartsIInv. ASSUME IInv, NEW d \in Devices, RebootStarts(d) PROVE IInv'
  <2> USE <1>RebootStartsIInv
  <2> DEFINE rec == [dev[d] EXCEPT !.oper = "ACTIVATING", !.conn = "UNREACHABLE"]
             r == [dev |-> d, oper |-> dev[d].oper, conn |-> dev[d].conn]
  <2>1. /\ Due("reboot", d) /\ Present(d) /\ Connect(d, rec, "UNREACHABLE", Tail(sched))
        /\ reboots' = Append(reboots, r) /\ UNCHANGED <<known, handlers>>
    BY Zenon DEF RebootStarts
  <2>2. dev[d] \in Records
    BY <2>1, PresentRecord, Zenon
  <2>3. rec \in Records /\ rec.admin = dev[d].admin /\ r \in Sleeping
    BY <2>2, Zenon DEF Records, Sleeping
  <2> HIDE DEF rec, r
  <2>4. reboots' \in Seq(Sleeping)
    BY <2>1, <2>3 DEF IInv, Typed
  <2> QED
    BY <2>1, <2>3, <2>4, <1>ConnectIInv, Zenon
(* A handler's reboot wakes up and writes the states it took before it     *)
(* slept.                                                                  *)
<1>RebootEndsIInv. ASSUME IInv, RebootEnds PROVE IInv'
  <2> USE <1>RebootEndsIInv
  <2> DEFINE r == Head(reboots)
             rec == [dev[r.dev] EXCEPT !.oper = r.oper, !.conn = r.conn]
  <2>1. reboots # <<>> /\ reboots' = Tail(reboots) /\ UNCHANGED <<known, handlers>>
    BY Zenon DEF RebootEnds
  <2>2. r \in Sleeping /\ reboots' \in Seq(Sleeping)
    BY <2>1 DEF IInv, Typed
  <2>3. r.dev \in Devices
    BY <2>2, Zenon DEF Sleeping
  <2>4. CASE Present(r.dev)
    <3>1. Connect(r.dev, rec, "REACHABLE", sched)
      BY <2>4, Zenon DEF RebootEnds
    <3>2. dev[r.dev] \in Records
      BY <2>3, <2>4, PresentRecord, Zenon
    <3>3. rec \in Records /\ rec.admin = dev[r.dev].admin
      BY <2>2, <3>2, Zenon DEF Records, Sleeping
    <3> HIDE DEF rec, r
    <3> QED
      BY <2>1, <2>2, <2>3, <2>4, <3>1, <3>3, <1>ConnectIInv, Zenon
  <2>5. CASE ~Present(r.dev)
    <3>1. UNCHANGED <<dev, disk, last, sched>>
      BY <2>5, Zenon DEF RebootEnds
    <3>2. SchedKept({})
      BY <3>1, Zenon DEF SchedKept, IInv, Typed, OneActivation
    <3> QED
      BY <2>1, <2>2, <3>1, <3>2, <1>NoDeviceKeeps, Zenon
  <2> QED
    BY <2>4, <2>5, Zenon
(* Restart.                                                                *)
<1>RestartIInv. ASSUME IInv, Restart PROVE IInv'
  <2> USE <1>RestartIInv
  <2> USE DEF IInv
  <2>0. olt \in Devices
    BY Zenon DEF Devices
  <2>1. /\ dev' = disk /\ disk' = disk /\ known' = known /\ reboots' = <<>>
        /\ last' = [d \in Devices |-> IF disk[d] = Absent THEN "none" ELSE disk[d].admin]
    BY Zenon DEF Restart, tree
  <2>2. /\ handlers' \subseteq Devices /\ sched' \in Seq(ScheduledCalls) /\ ~Sent(sched', "activate", olt)
    <3>1. CASE disk[olt] = Absent
      <4>1. disk[olt].admin # "ENABLED"
        BY <3>1 DEF Absent
      <4>2. handlers' = {} /\ sched' = <<>>
        BY <3>1, <4>1, Zenon DEF Restart
      <4> QED
        BY <4>2 DEF Sent
    <3>2. CASE disk[olt] # Absent /\ disk[olt].admin = "ENABLED"
      <4> DEFINE c == CallWith("reconcile", olt, disk[olt])
      <4>1. handlers' = {olt} /\ sched' = <<c>>
        BY <3>2, Zenon DEF Restart
      <4>2. disk[olt] \in Records
        BY <2>0, <3>2, Zenon DEF Typed, Stored
      <4>3. c \in ScheduledCalls /\ c.op = "reconcile"
        BY <2>0, <3>2, <4>2, Zenon DEF CallWith, ScheduledCalls, Ops, Stored
      <4> HIDE DEF c
      <4>4. sched' \in Seq(ScheduledCalls) /\ Len(sched') = 1 /\ sched'[1] = c
        BY <4>1, <4>3
      <4> QED
        BY <2>0, <4>1, <4>3, <4>4 DEF Sent
    <3>3. CASE disk[olt] # Absent /\ disk[olt].admin # "ENABLED"
      <4>1. handlers' = {d \in Devices : disk[d] # Absent} /\ sched' = Reconciling(disk)
        BY <3>3, Zenon DEF Restart
      <4>2. disk \in [Devices -> Stored]
        BY Zenon DEF Typed
      <4> QED
        BY <4>1, <4>2, ReconcilingSent, Zenon
    <3> QED
      BY <3>1, <3>2, <3>3, Zenon
  <2>3. Typed'
    <3>1. \A d \in Devices : disk[d] # Absent => disk[d].admin \in {"PREPROVISIONED", "ENABLED", "DISABLED"}
      BY Zenon DEF Typed, Stored, Records
    <3>2. last' \in [Devices -> {"none", "PREPROVISIONED", "ENABLED", "DISABLED"}]
      BY <2>1, <3>1, Zenon
    <3>3. reboots' \in Seq(Sleeping)
      BY <2>1
    <3> QED
      BY <2>1, <2>2, <3>2, <3>3, Zenon DEF Typed
  <2>4. Persisted'
    BY <2>1, Zenon DEF Persisted
  <2>5. OneActivation'
    <3>1. Once(sched')
      BY <2>2, Zenon DEF Once, Sent
    <3>2. dev'[olt].admin = dev[olt].admin
      BY <2>0, <2>1, Zenon DEF Persisted
    <3>3. ~Present(olt) => ~Present(olt)'
      BY <2>0, <2>1, <3>2, AbsentAdmin, Zenon DEF Present, Typed
    <3> QED
      BY <2>1, <2>2, <3>1, <3>2, <3>3, Zenon DEF OneActivation
  <2>6. Followed'
    BY <2>1, Zenon DEF Followed, Present
  <2> QED
    BY <2>3, <2>4, <2>5, <2>6, Zenon
<1> SUFFICES ASSUME IInv, [Next]_vars PROVE IInv'
  BY Zenon
<1>1. ASSUME NEW hasHost \in BOOLEAN, CreateDevice(hasHost) PROVE IInv'
  BY <1>1, <1>CreateIInv, Zenon
<1>2. CASE EnableNew
  BY <1>2, <1>EnableNewIInv, Zenon
<1>3. CASE DeleteDevice
  BY <1>3, <1>DeleteIInv, Zenon
<1>4. ASSUME NEW d \in Devices, EnableDevice(d) \/ DisableDevice(d) PROVE IInv'
  BY <1>4, <1>SetAdminIInv, Zenon DEF EnableDevice, DisableDevice
<1>5. ASSUME NEW d \in Devices, RebootDevice(d) PROVE IInv'
  BY <1>5, <1>RebootDeviceIInv, Zenon
<1>6. CASE OltActivate
  BY <1>6, <1>OltActivateIInv, Zenon
<1>7. CASE OltDisable
  BY <1>7, <1>OltDisableIInv, Zenon
<1>8. CASE OltReenable
  BY <1>8, <1>OltReenableIInv, Zenon
<1>9. CASE OltReconcile
  BY <1>9, <1>OltReconcileIInv, Zenon
<1>10. CASE OltUnreachable
  <2>1. /\ Due("activate", olt) \/ Due("reenable", olt)
        /\ sched' = Tail(sched) /\ UNCHANGED <<dev, disk, last, handlers, known, reboots>>
    BY <1>10, Zenon DEF OltUnreachable, tree
  <2> QED
    BY <2>1, <1>QuietIInv, Zenon
<1>11. CASE OltReconcileFails \/ OltWithoutHost
  BY <1>11, <1>OltReconcileFailsIInv, <1>OltWithoutHostIInv, Zenon
<1>12. ASSUME NEW u \in Onus, OnuActivate(u) \/ OnuDisable(u) \/ OnuReenable(u) \/ OnuReconcile(u) PROVE IInv'
  BY <1>12, <1>OnuIInv, Zenon
<1>13. ASSUME NEW d \in Devices, RebootStarts(d) PROVE IInv'
  BY <1>13, <1>RebootStartsIInv, Zenon
<1>14. ASSUME NEW d \in Devices, Deleted(d) PROVE IInv'
  <2>1. Due("delete", d) /\ sched' = Tail(sched) /\ UNCHANGED <<dev, disk, last, handlers, known, reboots>>
    BY <1>14, Zenon DEF Deleted, tree
  <2> QED
    BY <2>1, <1>QuietIInv, Zenon
<1>15. ASSUME NEW d \in Devices, NEW op, Gone(op, d) PROVE IInv'
  <2>1. /\ Due(op, d) /\ ~Present(d) /\ sched' = Tail(sched)
        /\ UNCHANGED <<dev, disk, last, handlers, known, reboots>>
    BY <1>15, Zenon DEF Gone, tree
  <2> QED
    BY <2>1, <1>QuietIInv, Zenon
<1>16. CASE RebootEnds
  BY <1>16, <1>RebootEndsIInv, Zenon
<1>17. CASE Restart
  BY <1>17, <1>RestartIInv, Zenon
<1>18. CASE UNCHANGED vars
  BY <1>18, Zenon DEF vars, tree, IInv, Typed, Persisted, OneActivation, Followed, Present
<1>19. CASE Operator
  BY <1>1, <1>2, <1>3, <1>4, <1>5, <1>19, Zenon DEF Operator
<1>20. CASE Handlers
  BY <1>6, <1>7, <1>8, <1>9, <1>10, <1>11, <1>12, <1>13, <1>14, <1>15, <1>20, Zenon DEF Handlers
<1> QED
  BY <1>16, <1>17, <1>18, <1>19, <1>20, Zenon DEF Next

(* The inductive invariant holds in every reachable state.                 *)
THEOREM Invariance == Spec => []IInv
BY InitIInv, NextIInv, PTL DEF Spec

(* Every device in the tree has an agent, whose last_data shows the state  *)
(* of the tree once the scheduled calls have run, if the adapter has a     *)
(* handler for the device.                                                 *)
THEOREM LastDataFollows == Spec => []LastDataAgrees
<1>1. IInv => LastDataAgrees
  <2> SUFFICES ASSUME IInv, NEW d \in Devices, Present(d)
               PROVE  last[d] # "none" /\ (Settled /\ d \in handlers => last[d] = dev[d].admin)
    BY Zenon DEF LastDataAgrees
  <2>1. dev[d] \in Records
    BY PresentRecord, Zenon
  <2>2. dev[d].admin # "none"
    BY <2>1, Zenon DEF Records
  <2>3. Settled => ~Sent(sched, "reconcile", d)
    BY DEF Settled, Sent
  <2> QED
    BY <2>2, <2>3, Zenon DEF IInv, Followed
<1> QED
  BY <1>1, Invariance, PTL

(* A step brings in no device that has been known before.                  *)
LEMMA StepAddsNone ==
    ASSUME IInv, Next, NEW d \in known, ~Present(d) PROVE dev'[d] = Absent
<1>0. d \in Devices /\ dev[d] = Absent /\ dev \in [Devices -> Stored] /\ olt \in Devices
  BY Zenon DEF IInv, Typed, Present, Devices
<1>1. d \notin Children /\ (Present(olt) => d # olt)
  BY Zenon DEF Children
<1>2. \A c \in Devices : \A rec : Present(c) /\ UpdateDevice(c, rec) => dev'[d] = Absent
  BY <1>0, Zenon DEF UpdateDevice, Present
<1>3. ASSUME NEW hasHost \in BOOLEAN, CreateDevice(hasHost) PROVE dev'[d] = Absent
  BY <1>0, <1>3, Zenon DEF CreateDevice
<1>4. CASE EnableNew
  <2>1. Present(olt)
    BY <1>4, AbsentAdmin DEF EnableNew, Present, Absent
  <2> QED
    BY <1>0, <1>1, <1>4, <2>1, Zenon DEF EnableNew
<1>5. CASE DeleteDevice
  BY <1>0, <1>5, Zenon DEF DeleteDevice
<1>6. ASSUME NEW c \in Devices, EnableDevice(c) \/ DisableDevice(c) PROVE dev'[d] = Absent
  <2>1. c # d
    BY <1>0, <1>6 DEF EnableDevice, DisableDevice, SetAdmin, Absent
  <2> QED
    BY <1>0, <1>6, <2>1, Zenon DEF EnableDevice, DisableDevice, SetAdmin
<1>7. ASSUME NEW c \in Devices, RebootDevice(c) \/ Deleted(c) \/ (\E op : Gone(op, c)) \/ OltUnreachable
      PROVE  dev'[d] = Absent
  BY <1>0, <1>7, Zenon DEF RebootDevice, Deleted, Gone, OltUnreachable, tree
<1>8. CASE OltActivate
  <2>1. Due("activate", olt) /\ Present(olt)
    BY <1>8, Zenon DEF OltActivate
  <2>2. sched \in Seq(ScheduledCalls) /\ sched # <<>> /\ Head(sched).op = "activate" /\ Head(sched).dev = olt
    BY <2>1, Zenon DEF Due, IInv, Typed
  <2>3. Sent(sched, "activate", olt)
    BY <2>2, TailSent, Zenon
  <2> QED
    BY <1>0, <1>1, <2>1, <2>3, Zenon DEF IInv, OneActivation, Devices
<1>9. CASE OltDisable \/ OltReenable
  <2>1. Present(olt)
    BY <1>9, Zenon DEF OltDisable, OltReenable
  <2>2. CASE \E rec : UpdateDevice(olt, rec)
    BY <1>0, <1>2, <2>1, <2>2, Zenon
  <2>3. CASE ~\E rec : UpdateDevice(olt, rec)
    BY <1>0, <1>1, <1>9, <2>1, <2>3, Zenon DEF OltDisable, OltReenable
  <2> QED
    BY <2>2, <2>3, Zenon
<1>10. CASE OltReconcile \/ OltReconcileFails \/ OltWithoutHost
  BY <1>0, <1>2, <1>10, Zenon DEF OltReconcile, OltReconcileFails, OltWithoutHost
<1>11. ASSUME NEW u \in Onus, OnuActivate(u) \/ OnuDisable(u) \/ OnuReenable(u) \/ OnuReconcile(u)
       PROVE  dev'[d] = Absent
  <2>1. Present(u) /\ u \in Devices
    BY <1>11, Zenon DEF OnuActivate, OnuDisable, OnuReenable, OnuReconcile, Devices
  <2>2. UNCHANGED dev \/ \E rec : UpdateDevice(u, rec)
    BY <1>11, Zenon DEF OnuActivate, OnuDisable, OnuReenable, OnuReconcile
  <2> QED
    BY <1>0, <1>2, <2>1, <2>2, Zenon
<1>12. ASSUME NEW c \in Devices, Present(c), NEW rec, NEW conn, NEW rest, Connect(c, rec, conn, rest)
       PROVE  dev'[d] = Absent
  BY <1>0, <1>1, <1>12, Zenon DEF Connect, Present
<1>13. ASSUME NEW c \in Devices, RebootStarts(c) PROVE dev'[d] = Absent
  BY <1>12, <1>13, Zenon DEF RebootStarts
<1>14. CASE RebootEnds
  <2>1. Head(reboots) \in Sleeping
    BY <1>14 DEF RebootEnds, IInv, Typed
  <2>2. Head(reboots).dev \in Devices
    BY <2>1, Zenon DEF Sleeping
  <2>3. CASE Present(Head(reboots).dev)
    BY <1>12, <1>14, <2>2, <2>3, Zenon DEF RebootEnds
  <2>4. CASE ~Present(Head(reboots).dev)
    BY <1>0, <1>14, <2>4, Zenon DEF RebootEnds
  <2> QED
    BY <2>3, <2>4, Zenon
<1>15. CASE Restart
  <2>1. disk[d].admin = "absent" /\ disk[d] \in Stored
    BY <1>0 DEF IInv, Persisted, Typed, Absent
  <2> QED
    BY <1>15, <2>1, AbsentAdmin, Zenon DEF Restart
<1>16. CASE Operator
  BY <1>3, <1>4, <1>5, <1>6, <1>7, <1>16, Zenon DEF Operator
<1>17. CASE Handlers
  BY <1>0, <1>7, <1>8, <1>9, <1>10, <1>11, <1>13, <1>17, Zenon DEF Handlers
<1> QED
  BY <1>14, <1>15, <1>16, <1>17, Zenon DEF Next

(* A device that DeleteDevice removed never comes back, whatever handlers  *)
(* are still scheduled or asleep.                                          *)
THEOREM DeletedGone == Spec => DeletedStaysDeleted
<1>1. IInv /\ [Next]_vars => [\A d \in known : ~Present(d) => dev'[d] = Absent]_vars
  BY StepAddsNone, Zenon
<1> QED
  BY <1>1, Invariance, PTL DEF Spec, DeletedStaysDeleted

-----------------------------------------------------------------------------
(***************************************************************************)
(* What an operator sees in the end: while every request waits until the   *)
(* one before is done and no call fails (calm), the calls that are         *)
(* scheduled and the states of the devices fit together, and each call     *)
(* finds what it needs.  CInv says so for every intermediate state; when   *)
(* nothing is scheduled it gives StatusAgrees and ServiceAgrees.           *)
(***************************************************************************)

(* A call of the device d is scheduled that will change its status.        *)
Busy(d) == \E op \in {"activate", "disable", "reenable"} : Sent(sched, op, d)

(* Calls of different devices, those for the reconciliation of the OLT     *)
(* with one that was active.                                               *)
Orderly(q) ==
    /\ \A i, j \in 1..Len(q) : q[i].dev = q[j].dev => i = j
    /\ \A i \in 1..Len(q) : q[i].op = "reconcile" /\ q[i].dev = olt =>
            q[i].arg.conn = "REACHABLE" /\ q[i].arg.parent

(* One request at a time: only one reboot sleeps, with nothing scheduled,  *)
(* and what the OLT has to do, its ONUs wait for.  A reboot is alone.      *)
OneAtATime ==
    /\ Orderly(sched)
    /\ reboots # <<>> => sched = <<>> /\ Len(reboots) = 1 /\ Present(reboots[1].dev)
    /\ \A op, other \in Ops, u \in Onus :
            Sent(sched, op, olt) /\ op # "delete" => ~Sent(sched, other, u)
    /\ \A d, e \in Devices, op \in Ops :
            Sent(sched, "reboot", d) /\ Sent(sched, op, e) => e = d

(* The status of d once the reboot is over.                                *)
Asleep(d) == reboots # <<>> /\ reboots[1].dev = d
Oper(d) == IF Asleep(d) THEN reboots[1].oper ELSE dev[d].oper
Conn(d) == IF Asleep(d) THEN reboots[1].conn
           ELSE IF Asleep(olt) THEN "REACHABLE" ELSE dev[d].conn

Rests(d) ==
    /\ dev[d].admin = "ENABLED" => Oper(d) = "ACTIVE" /\ Conn(d) = "REACHABLE"
    /\ dev[d].admin = "DISABLED" => Oper(d) = "UNKNOWN"

(* The agents and the store know the state of the devices, and the adapter *)
(* has the handlers.                                                       *)
AgentsFit ==
    /\ \A d \in Devices : Present(d) => last[d] = dev[d].admin
    /\ \A d \in Devices : ~Sent(sched, "activate", d) => disk[d] = dev[d]
    /\ dev[olt].admin \in {"ENABLED", "DISABLED"} => olt \in handlers
    /\ ~Sent(sched, "reconcile", olt) => Children \subseteq handlers
    /\ dev[olt].admin \notin {"ENABLED", "DISABLED"} => Children = {}

(* The OLT rests and its logical device agrees, or a call is scheduled     *)
(* that finds what it needs to make them agree.                            *)
OltFits ==
    /\ Sent(sched, "activate", olt) => dev[olt].admin = "ENABLED" /\ Children = {}
    /\ Sent(sched, "disable", olt) => dev[olt].admin = "DISABLED" /\ ld /\ ldKnown /\ kpi = "running"
    /\ Sent(sched, "reenable", olt) => dev[olt].admin = "ENABLED" /\ ~ld
    /\ Sent(sched, "reconcile", olt) => dev[olt].admin = "ENABLED"
    /\ ~Busy(olt) => Rests(olt) /\ (ld <=> dev[olt].admin = "ENABLED")
    /\ dev[olt].admin = "ENABLED" /\ ~Busy(olt) =>
            dev[olt].parent /\ (ldKnown \/ Sent(sched, "reconcile", olt))
    /\ dev[olt].admin \in {"ENABLED", "DISABLED"} => nniPort \/ Sent(sched, "activate", olt)
    /\ host

(* The same for an ONU, its logical port and its place among the peers.    *)
OnuFits(u) ==
    /\ Sent(sched, "activate", u) => dev[u].admin = "ENABLED" /\ u \notin uni
    /\ Sent(sched, "disable", u) => dev[u].admin = "DISABLED"
    /\ Sent(sched, "reenable", u) => dev[u].admin = "ENABLED" /\ u \notin uni
    /\ Sent(sched, "reconcile", u) => dev[u].admin = "ENABLED"
    /\ dev[u].admin = "ENABLED" => ld
    /\ ~Busy(u) => /\ Rests(u)
                   /\ u \in uni <=> dev[u].admin = "ENABLED"
                   /\ u \in Range(peers) <=> dev[u].admin = "ENABLED"
    /\ Present(u) => u \in onuPorts \/ Sent(sched, "activate", u)
    /\ dev[u].admin # "PREPROVISIONED"

(* The peers of the OLT's PON port are ONUs, each of them once.            *)
Distinct(s) == \A i, j \in 1..Len(s) : s[i] = s[j] => i = j

PortsTyped ==
    /\ uni \subseteq Onus
    /\ peers \in Seq(Onus) /\ Distinct(peers)

CInv ==
    /\ PortsTyped
    /\ calm => OneAtATime /\ AgentsFit /\ OltFits /\ \A u \in Onus : OnuFits(u)
-----------------------------------------------------------------------------
(* Orderly queues.                                                         *)

Fits == OneAtATime /\ AgentsFit /\ OltFits /\ \A u \in Onus : OnuFits(u)

-----------------------------------------------------------------------------
(* Queues of scheduled calls.                                              *)

(* Calls that an agent schedules with callLater when none is due are then  *)
(* all the calls that are due.                                             *)
LEMMA NothingBefore == ASSUME NEW q \in Seq(ScheduledCalls) PROVE <<>> \o q = q
OBVIOUS

(* Calls of other devices may follow.                                      *)
Apart(q, r) == \A op, other, d : ~(Sent(q, op, d) /\ Sent(r, other, d))

(* Calls scheduled behind others, as the agents do with callLater, keep    *)
(* the queue orderly when they are of other devices.                       *)
LEMMA ConcatOrderly ==
    ASSUME NEW q \in Seq(ScheduledCalls), NEW r \in Seq(ScheduledCalls),
           Orderly(q), Orderly(r), Apart(q, r)
    PROVE  Orderly(q \o r)
<1>1. /\ Len(q \o r) = Len(q) + Len(r) /\ Len(q) \in Nat /\ Len(r) \in Nat
      /\ \A i \in 1..(Len(q) + Len(r)) : (q \o r)[i] = IF i <= Len(q) THEN q[i] ELSE r[i - Len(q)]
  OBVIOUS
<1>2. \A i \in 1..Len(q \o r) :
          \/ i \in 1..Len(q) /\ (q \o r)[i] = q[i]
          \/ i - Len(q) \in 1..Len(r) /\ (q \o r)[i] = r[i - Len(q)]
  BY <1>1
<1>3. \A i \in 1..Len(q), j \in 1..Len(r) : q[i].dev # r[j].dev
  <2> SUFFICES ASSUME NEW i \in 1..Len(q), NEW j \in 1..Len(r), q[i].dev = r[j].dev PROVE FALSE
    BY Zenon
  <2>1. Sent(q, q[i].op, q[i].dev) /\ Sent(r, r[j].op, q[i].dev)
    BY Zenon DEF Sent
  <2> QED
    BY <2>1, Zenon DEF Apart
<1>4. ASSUME NEW i \in 1..Len(q \o r), NEW j \in 1..Len(q \o r), (q \o r)[i].dev = (q \o r)[j].dev
      PROVE  i = j
  <2>1. i \in Nat /\ j \in Nat
    BY <1>1
  <2>2. CASE i \in 1..Len(q) /\ (q \o r)[i] = q[i]
    BY <1>2, <1>3, <1>4, <2>2 DEF Orderly
  <2>3. CASE i - Len(q) \in 1..Len(r) /\ (q \o r)[i] = r[i - Len(q)]
    <3>1. j - Len(q) \in 1..Len(r) /\ (q \o r)[j] = r[j - Len(q)]
      BY <1>2, <1>3, <1>4, <2>3, Zenon
    <3>2. i - Len(q) = j - Len(q)
      BY <1>4, <2>3, <3>1, Zenon DEF Orderly
    <3> QED
      BY <1>1, <2>1, <3>2
  <2> QED
    BY <1>2, <2>2, <2>3, Zenon
<1>5. ASSUME NEW i \in 1..Len(q \o r), (q \o r)[i].op = "reconcile", (q \o r)[i].dev = olt
      PROVE  (q \o r)[i].arg.conn = "REACHABLE" /\ (q \o r)[i].arg.parent
  BY <1>2, <1>5 DEF Orderly
<1> QED
  BY <1>4, <1>5, Zenon DEF Orderly

(* One call of each of the devices S.                                      *)
LEMMA ListedOrderly ==
    ASSUME NEW S \in SUBSET Devices, NEW q, Len(q) = Cardinality(S),
           \A i \in 1..Len(q) : q[i].dev = Listed(S)[i],
           \A i \in 1..Len(q) : q[i].op # "reconcile" \/ q[i].dev # olt
    PROVE  /\ Orderly(q)
           /\ \A op, d : Sent(q, op, d) => d \in S
           /\ \A d \in S : \E i \in 1..Len(q) : q[i].dev = d
<1>1. /\ Cardinality(S) \in Nat /\ Listed(S) \in [1..Cardinality(S) -> S]
      /\ \A x \in S : \E i \in 1..Cardinality(S) : Listed(S)[i] = x
      /\ \A i, j \in 1..Cardinality(S) : Listed(S)[i] = Listed(S)[j] => i = j
  BY ListedAll, Zenon
<1> QED
  BY <1>1 DEF Orderly, Sent

(* What the agents of D schedule, exactly.                                 *)
LEMMA CallsExact ==
    ASSUME NEW D \in SUBSET Devices, NEW new \in [Devices -> Stored]
    PROVE  /\ Calls(D, new) \in Seq(ScheduledCalls) /\ Orderly(Calls(D, new))
           /\ \A op, d : Sent(Calls(D, new), op, d) <=>
                  d \in D /\ d \in handlers /\ op \in {"disable", "reenable"} /\ Transition(d, new) = op
<1> DEFINE changed == {d \in D : Transition(d, new) \in {"disable", "reenable"} /\ d \in handlers}
           s == Listed(changed)
           N == Cardinality(changed)
           q == Calls(D, new)
<1>1. changed \in SUBSET Devices
  BY Zenon
<1>2. N \in Nat /\ s \in [1..N -> changed]
  BY <1>1, ListedAll, Zenon
<1>3. q = [i \in 1..N |-> Call(Transition(s[i], new), s[i])]
  BY Zenon DEF Calls
<1>4. q \in Seq(ScheduledCalls)
  BY CallsSent, Zenon
<1> HIDE DEF q
<1>5. DOMAIN q = 1..N
  BY <1>3, Zenon
<1>6. Len(q) = N
  BY <1>2, <1>4, <1>5
<1>7. \A i \in 1..N : /\ q[i].op = Transition(s[i], new) /\ q[i].dev = s[i] /\ s[i] \in changed
                      /\ q[i].op \in {"disable", "reenable"}
  BY <1>2, <1>3, Zenon DEF Call
<1>8. /\ Orderly(q)
      /\ \A op, d : Sent(q, op, d) => d \in changed
      /\ \A d \in changed : \E i \in 1..Len(q) : q[i].dev = d
  <2>1. Len(q) = Cardinality(changed) /\ \A i \in 1..Len(q) : q[i].dev = Listed(changed)[i]
    BY <1>6, <1>7, Zenon
  <2>2. \A i \in 1..Len(q) : q[i].op # "reconcile" \/ q[i].dev # olt
    BY <1>6, <1>7, Zenon
  <2> HIDE DEF changed
  <2> QED
    BY <1>1, <2>1, <2>2, ListedOrderly
<1>9. ASSUME NEW op, NEW d, Sent(q, op, d)
      PROVE  d \in changed /\ Transition(d, new) = op
  BY <1>6, <1>7, <1>9, Zenon DEF Sent
<1>10. ASSUME NEW d \in changed PROVE Sent(q, Transition(d, new), d)
  BY <1>6, <1>7, <1>8, Zenon DEF Sent
<1>11. ASSUME NEW op, NEW d
       PROVE  Sent(q, op, d) <=>
                  d \in D /\ d \in handlers /\ op \in {"disable", "reenable"} /\ Transition(d, new) = op
  BY <1>9, <1>10, Zenon
<1> QED
  BY <1>4, <1>8, <1>11, Zenon DEF q

(* The OLT reconciles exactly its enabled ONUs.                            *)
LEMMA ReconcilingExact ==
    ASSUME NEW new \in [Devices -> Stored]
    PROVE  /\ Reconciling(new) \in Seq(ScheduledCalls) /\ Orderly(Reconciling(new))
           /\ \A op, d : Sent(Reconciling(new), op, d) <=>
                  op = "reconcile" /\ d \in Onus /\ new[d].admin = "ENABLED"
<1> DEFINE enabled == {u \in Onus : new[u].admin = "ENABLED"}
           s == Listed(enabled)
           N == Cardinality(enabled)
           q == Reconciling(new)
<1>1. enabled \in SUBSET Devices
  BY Zenon DEF Devices
<1>2. N \in Nat /\ s \in [1..N -> enabled] /\ Len(s) = N
  BY <1>1, ListedAll, Zenon
<1>3. q = [i \in 1..N |-> CallWith("reconcile", s[i], new[s[i]])]
  BY <1>2, Zenon DEF Reconciling
<1>4. q \in Seq(ScheduledCalls) /\ \A d \in enabled : Sent(q, "reconcile", d)
  BY ReconcilingSent, Zenon
<1> HIDE DEF q
<1>5. DOMAIN q = 1..N
  BY <1>3, Zenon
<1>6. Len(q) = N
  BY <1>2, <1>4, <1>5
<1>7. \A i \in 1..N : q[i].op = "reconcile" /\ q[i].dev = s[i] /\ s[i] \in enabled
  BY <1>2, <1>3, Zenon DEF CallWith
<1>8. \A d \in enabled : d # olt
  BY DeviceLifeAssumption, Zenon
<1> HIDE DEF N, s
<1>9. Orderly(q) /\ \A op, d : Sent(q, op, d) => d \in enabled
  BY <1>1, <1>6, <1>7, <1>8, ListedOrderly DEF N, s
<1>10. ASSUME NEW op, NEW d PROVE Sent(q, op, d) <=> op = "reconcile" /\ d \in enabled
  <2>1. Sent(q, op, d) => op = "reconcile"
    BY <1>6, <1>7, Zenon DEF Sent
  <2> QED
    BY <1>4, <1>9, <2>1, Zenon
<1> QED
  BY <1>4, <1>9, <1>10, Zenon DEF q

(* An empty queue is orderly and holds no call.                            *)
LEMMA NoCalls == Orderly(<<>>) /\ <<>> \in Seq(ScheduledCalls) /\ \A op, d : ~Sent(<<>>, op, d)
BY DEF Orderly, Sent

-----------------------------------------------------------------------------
(* The scheduled methods.                                                  *)

(* The methods that write the status of their device.                      *)
Changing == {"activate", "disable", "reenable", "reconcile"}

(* Nothing happens to an ONU, nor to the OLT.                              *)
SameOnu(v) ==
    /\ dev'[v] = dev[v] /\ reboots = <<>> /\ reboots' = <<>>
    /\ \A op \in Changing : Sent(sched', op, v) <=> Sent(sched, op, v)
    /\ v \in uni' <=> v \in uni
    /\ v \in Range(peers') <=> v \in Range(peers)
    /\ v \in onuPorts => v \in onuPorts'
    /\ ld => ld'

SameOlt ==
    /\ dev'[olt] = dev[olt] /\ reboots = <<>> /\ reboots' = <<>>
    /\ \A op \in Changing : Sent(sched', op, olt) <=> Sent(sched, op, olt)
    /\ ld' = ld /\ ldKnown' = ldKnown /\ kpi' = kpi /\ host' = host /\ nniPort' = nniPort
    /\ Children' \subseteq Children

(* In a calm history the calls and the states fit.                         *)
LEMMA CInvFits == ASSUME CInv, calm PROVE Fits
BY Zenon DEF CInv, Fits

(* What an action has to show: the ports keep their types, and a history   *)
(* that is still calm fits.                                                *)
LEMMA FitsCInv == ASSUME PortsTyped', calm' => Fits' PROVE CInv'
BY Zenon DEF CInv, Fits

(* A call that is due is the only one of its device, and the only one of   *)
(* all if it is a reboot or one of the OLT, which is not being deleted.    *)
LEMMA CalmDue ==
    ASSUME IInv, Fits, NEW op, NEW d, Due(op, d)
    PROVE  /\ d \in Devices /\ op \in Ops /\ Tail(sched) \in Seq(ScheduledCalls) /\ Orderly(Tail(sched))
           /\ reboots = <<>>
           /\ \A o : ~Sent(Tail(sched), o, d)
           /\ \A o, e : e # d => (Sent(Tail(sched), o, e) <=> Sent(sched, o, e))
           /\ \A o : Sent(sched, o, d) <=> o = op
           /\ op = "reconcile" /\ d = olt => Head(sched).arg.conn = "REACHABLE" /\ Head(sched).arg.parent
           /\ op = "reboot" \/ (d = olt /\ op # "delete") => \A o, e : ~Sent(Tail(sched), o, e)
(* The call that goes was the only one of its device.                      *)
<1>TailOrderly.
      ASSUME NEW q \in Seq(ScheduledCalls), q # <<>>, Orderly(q)
      PROVE  /\ Tail(q) \in Seq(ScheduledCalls) /\ Orderly(Tail(q))
             /\ \A m : ~Sent(Tail(q), m, Head(q).dev)
             /\ \A m, e : e # Head(q).dev => (Sent(Tail(q), m, e) <=> Sent(q, m, e))
             /\ \A m : Sent(q, m, Head(q).dev) <=> m = Head(q).op
             /\ Head(q).op = "reconcile" /\ Head(q).dev = olt =>
                  Head(q).arg.conn = "REACHABLE" /\ Head(q).arg.parent
  <2> USE <1>TailOrderly
  <2>1. /\ Tail(q) \in Seq(ScheduledCalls)
        /\ Len(q) \in Nat \ {0} /\ Len(Tail(q)) = Len(q) - 1
        /\ \A i \in 1..Len(Tail(q)) : i + 1 \in 1..Len(q) /\ Tail(q)[i] = q[i + 1]
    OBVIOUS
  <2>2. Head(q) = q[1] /\ 1 \in 1..Len(q)
    BY <2>1
  <2>3. \A m, e : Sent(q, m, e) <=> Sent(Tail(q), m, e) \/ (Head(q).op = m /\ Head(q).dev = e)
    BY TailSent, Zenon
  <2>4. Orderly(Tail(q))
    <3>1. ASSUME NEW i \in 1..Len(Tail(q)), NEW j \in 1..Len(Tail(q)), Tail(q)[i].dev = Tail(q)[j].dev
          PROVE  i = j
      <4>1. i + 1 = j + 1
        BY <2>1, <3>1 DEF Orderly
      <4> QED
        BY <4>1
    <3>2. ASSUME NEW i \in 1..Len(Tail(q)), Tail(q)[i].op = "reconcile", Tail(q)[i].dev = olt
          PROVE  Tail(q)[i].arg.conn = "REACHABLE" /\ Tail(q)[i].arg.parent
      BY <2>1, <3>2 DEF Orderly
    <3> QED
      BY <3>1, <3>2, Zenon DEF Orderly
  <2>5. ASSUME NEW m, Sent(Tail(q), m, Head(q).dev) PROVE FALSE
    <3>1. PICK i \in 1..Len(Tail(q)) : Tail(q)[i].dev = Head(q).dev
      BY <2>5, Zenon DEF Sent
    <3>2. i + 1 = 1
      BY <2>1, <2>2, <3>1, Zenon DEF Orderly
    <3> QED
      BY <3>2
  <2>6. Head(q).op = "reconcile" /\ Head(q).dev = olt =>
          Head(q).arg.conn = "REACHABLE" /\ Head(q).arg.parent
    BY <2>2, Zenon DEF Orderly
  <2> QED
    BY <2>1, <2>3, <2>4, <2>5, <2>6, Zenon
<1>1. sched # <<>> /\ Head(sched).op = op /\ Head(sched).dev = d
  BY Zenon DEF Due
<1>2. sched \in Seq(ScheduledCalls) /\ Orderly(sched)
  BY Zenon DEF IInv, Typed, Fits, OneAtATime
<1>3. /\ Tail(sched) \in Seq(ScheduledCalls) /\ Orderly(Tail(sched))
      /\ \A o : ~Sent(Tail(sched), o, d)
      /\ \A o, e : e # d => (Sent(Tail(sched), o, e) <=> Sent(sched, o, e))
      /\ \A o : Sent(sched, o, d) <=> o = op
      /\ op = "reconcile" /\ d = olt => Head(sched).arg.conn = "REACHABLE" /\ Head(sched).arg.parent
  BY <1>1, <1>2, <1>TailOrderly, Zenon
<1>4. \A o, e : Sent(sched, o, e) => o \in Ops /\ e \in Devices
  <2>1. \A i \in 1..Len(sched) : sched[i] \in ScheduledCalls
    BY <1>2
  <2> QED
    BY <2>1, Zenon DEF Sent, ScheduledCalls
<1>5. d \in Devices /\ op \in Ops
  BY <1>3, <1>4, Zenon
<1>6. ASSUME op = "reboot" \/ (d = olt /\ op # "delete"), NEW o, NEW e, Sent(Tail(sched), o, e)
      PROVE  FALSE
  <2>1. e # d /\ Sent(sched, o, e) /\ Sent(sched, op, d)
    BY <1>3, <1>6, Zenon
  <2>2. o \in Ops /\ e \in Devices
    BY <1>4, <2>1, Zenon
  <2>3. CASE op = "reboot"
    BY <1>5, <2>1, <2>2, <2>3, Zenon DEF Fits, OneAtATime
  <2>4. CASE d = olt /\ op # "delete"
    BY <1>5, <2>1, <2>2, <2>4, Zenon DEF Fits, OneAtATime, Devices
  <2> QED
    BY <1>6, <2>3, <2>4, Zenon
<1>7. reboots = <<>>
  BY <1>1, Zenon DEF Fits, OneAtATime
<1> QED
  BY <1>3, <1>5, <1>6, <1>7, Zenon

(* An ONU that a step does not touch fits as before.                       *)
LEMMA SameOnuFits == ASSUME NEW v \in Onus, OnuFits(v), SameOnu(v) PROVE OnuFits(v)'
<1>1. \A op \in {"activate", "disable", "reenable", "reconcile"} : Sent(sched', op, v) <=> Sent(sched, op, v)
  BY Zenon DEF SameOnu, Changing
<1>2. Busy(v)' <=> Busy(v)
  BY <1>1, Zenon DEF Busy
<1>3. ~Asleep(v) /\ ~Asleep(olt) /\ ~Asleep(v)' /\ ~Asleep(olt)'
  BY Zenon DEF SameOnu, Asleep
<1>4. Rests(v)' <=> Rests(v)
  BY <1>3 DEF SameOnu, Rests, Oper, Conn
<1> QED
  BY <1>1, <1>2, <1>4 DEF SameOnu, OnuFits, Present

(* An OLT that a step does not touch fits as before.                       *)
LEMMA SameOltFits == ASSUME OltFits, SameOlt PROVE OltFits'
<1>1. \A op \in {"activate", "disable", "reenable", "reconcile"} : Sent(sched', op, olt) <=> Sent(sched, op, olt)
  BY Zenon DEF SameOlt, Changing
<1>2. Busy(olt)' <=> Busy(olt)
  BY <1>1, Zenon DEF Busy
<1>3. ~Asleep(olt) /\ ~Asleep(olt)'
  BY Zenon DEF SameOlt, Asleep
<1>4. Rests(olt)' <=> Rests(olt)
  BY <1>3 DEF SameOlt, Rests, Oper, Conn
<1>5. Children = {} => Children' = {}
  BY Zenon DEF SameOlt
<1> QED
  BY <1>1, <1>2, <1>4, <1>5, Zenon DEF SameOlt, OltFits

(* A call runs, and schedules nothing.                                     *)
LEMMA CalmTail ==
    ASSUME IInv, Fits, NEW op, NEW d, Due(op, d), sched' = Tail(sched), reboots' = reboots
    PROVE  /\ OneAtATime' /\ reboots' = <<>>
           /\ \A o : ~Sent(sched', o, d)
           /\ \A o, e : e # d => (Sent(sched', o, e) <=> Sent(sched, o, e))
<1>1. /\ Orderly(sched') /\ reboots' = <<>>
      /\ \A o : ~Sent(sched', o, d)
      /\ \A o, e : e # d => (Sent(sched', o, e) <=> Sent(sched, o, e))
  BY CalmDue, Zenon
<1>2. \A o, e : Sent(sched', o, e) => Sent(sched, o, e)
  BY <1>1, Zenon
<1>3. OneAtATime'
  BY <1>1, <1>2, Zenon DEF Fits, OneAtATime
<1> QED
  BY <1>1, <1>3, Zenon

(* An ONU has done what it was asked to.                                   *)
Done(u, rec) ==
    \/ /\ rec.admin = "ENABLED" /\ rec.oper = "ACTIVE" /\ rec.conn = "REACHABLE"
       /\ ld /\ u \in uni' /\ u \in Range(peers')
    \/ /\ rec.admin = "DISABLED" /\ rec.oper = "UNKNOWN"
       /\ u \notin uni' /\ u \notin Range(peers')

(* The scheduled methods of the ONUs' handlers.                            *)
LEMMA OnuCInv ==
    \A u \in Onus :
        IInv /\ CInv /\ (OnuActivate(u) \/ OnuDisable(u) \/ OnuReenable(u) \/ OnuReconcile(u)) => CInv'
(* AdapterAgent._add_peer_reference adds the ONU to the peers when it is   *)
(* not among them, and never a second time.                                *)
<1>AddPeerAdds.
      ASSUME PortsTyped, NEW u \in Onus
      PROVE  /\ AddPeer(u) \in Seq(Onus) /\ Distinct(AddPeer(u))
             /\ Range(AddPeer(u)) = Range(peers) \cup {u}
  <2> USE <1>AddPeerAdds
  <2>1. peers \in Seq(Onus) /\ Distinct(peers) /\ Len(peers) \in Nat /\ DOMAIN peers = 1..Len(peers)
    BY DEF PortsTyped
  <2>2. CASE u \in Range(peers)
    BY <2>1, <2>2, Zenon DEF AddPeer
  <2>3. CASE u \notin Range(peers)
    <3> DEFINE s == Append(peers, u)
    <3>1. /\ s \in Seq(Onus) /\ Len(s) = Len(peers) + 1 /\ DOMAIN s = 1..Len(s)
          /\ \A i \in 1..Len(peers) : s[i] = peers[i]
          /\ s[Len(peers) + 1] = u
      BY <2>1
    <3>2. AddPeer(u) = s
      BY <2>3, Zenon DEF AddPeer
    <3> HIDE DEF s
    <3>3. \A i \in 1..Len(s) : i \in 1..Len(peers) \/ i = Len(peers) + 1
      BY <2>1, <3>1
    <3>4. \A i \in 1..Len(peers) : peers[i] # u
      BY <2>1, <2>3, Zenon DEF Range
    <3>5. Distinct(s)
      BY <2>1, <3>1, <3>3, <3>4, Zenon DEF Distinct
    <3>6. Range(s) = Range(peers) \cup {u}
      <4>1. \A i \in 1..Len(peers) : i \in 1..Len(s)
        BY <2>1, <3>1
      <4>2. Len(peers) + 1 \in 1..Len(s)
        BY <2>1, <3>1
      <4> QED
        BY <2>1, <3>1, <3>3, <4>1, <4>2, Zenon DEF Range
    <3> QED
      BY <3>1, <3>2, <3>5, <3>6, Zenon
  <2> QED
    BY <2>2, <2>3, Zenon
(* AdapterAgent._del_peer_reference takes the one entry of the ONU out of  *)
(* the peers.                                                              *)
<1>RemovePeerRemoves.
      ASSUME PortsTyped, NEW u \in Onus
      PROVE  /\ RemovePeer(u) \in Seq(Onus) /\ Distinct(RemovePeer(u))
             /\ Range(RemovePeer(u)) = Range(peers) \ {u}
  <2> USE <1>RemovePeerRemoves
  (* What remains of a sequence after its first k entries.                   *)
  <2>RestOfSequence.
        ASSUME NEW S, NEW s \in Seq(S), NEW k \in 1..Len(s), NEW b, b = SubSeq(s, k + 1, Len(s))
        PROVE  /\ b \in Seq(S)
               /\ Len(b) = Len(s) - k
               /\ \A i \in 1..(Len(s) - k) : b[i] = s[i + k]
    <3> USE <2>RestOfSequence
    <3>1. /\ Len(s) \in Nat /\ k + 1 \in Int /\ Len(s) \in Int /\ k <= Len(s) /\ k \in Nat
          /\ \A i \in (k + 1)..Len(s) : s[i] \in S
      OBVIOUS
    <3>2. b \in Seq(S)
      BY <3>1
    <3>3. CASE k < Len(s)
      BY <3>1, <3>2, <3>3
    <3>4. CASE k = Len(s)
      <4>1. b = << >>
        BY <3>1, <3>4
      <4> QED
        BY <3>1, <3>4, <4>1
    <3> QED
      BY <3>1, <3>2, <3>3, <3>4
  <2>1. peers \in Seq(Onus) /\ Distinct(peers) /\ Len(peers) \in Nat /\ DOMAIN peers = 1..Len(peers)
    BY DEF PortsTyped
  <2>2. CASE u \notin Range(peers)
    BY <2>1, <2>2, Zenon DEF RemovePeer, Range
  <2>3. CASE u \in Range(peers)
    <3>1. PICK k \in 1..Len(peers) : peers[k] = u
      BY <2>1, <2>3, Zenon DEF Range
    <3>2. \A i \in 1..Len(peers) : peers[i] = u <=> i = k
      BY <2>1, <3>1, Zenon DEF Distinct
    <3>3. \A i \in 1..Len(peers) :
              (peers[i] = u /\ \A j \in 1..(i - 1) : peers[j] # u) <=> i = k
      <4>1. \A j \in 1..(k - 1) : j \in 1..Len(peers) /\ j # k
        BY <2>1
      <4> QED
        BY <3>2, <4>1, Zenon
    <3>4. PeerIndex(u) = k
      BY <3>3, Zenon DEF PeerIndex
    <3>5. RemovePeer(u) = SubSeq(peers, 1, k - 1) \o SubSeq(peers, k + 1, Len(peers))
      BY <2>3, <3>4, Zenon DEF RemovePeer
    <3> DEFINE a == SubSeq(peers, 1, k - 1)
               b == SubSeq(peers, k + 1, Len(peers))
               s == a \o b
    <3>6. k \in Nat /\ 1 <= k /\ k <= Len(peers)
      BY <2>1
    <3>7. a \in Seq(Onus) /\ Len(a) = k - 1 /\ \A i \in 1..(k - 1) : a[i] = peers[i]
      BY <2>1, <3>6
    <3>8. b \in Seq(Onus) /\ Len(b) = Len(peers) - k /\ \A i \in 1..(Len(peers) - k) : b[i] = peers[i + k]
      <4>1. b = SubSeq(peers, k + 1, Len(peers))
        BY Zenon
      <4>2. peers \in Seq(Onus) /\ k \in 1..Len(peers)
        BY <2>1, Zenon
      <4> HIDE DEF b
      <4>3. b \in Seq(Onus)
        BY <4>1, <4>2, <2>RestOfSequence, Zenon
      <4>4. Len(b) = Len(peers) - k
        BY <4>1, <4>2, <2>RestOfSequence, Zenon
      <4>5. \A i \in 1..(Len(peers) - k) : b[i] = peers[i + k]
        BY <4>1, <4>2, <2>RestOfSequence
      <4> QED
        BY <4>3, <4>4, <4>5, Zenon
    <3> HIDE DEF a, b
    <3>9. /\ s \in Seq(Onus) /\ Len(s) = Len(peers) - 1 /\ DOMAIN s = 1..Len(s)
          /\ \A i \in 1..Len(s) : s[i] = IF i < k THEN peers[i] ELSE peers[i + 1]
      <4>1. s \in Seq(Onus) /\ Len(s) = Len(a) + Len(b) /\ DOMAIN s = 1..Len(s)
        <5>1. a \in Seq(Onus) /\ b \in Seq(Onus)
          BY <3>7, <3>8, Zenon
        <5>2. s \in Seq(Onus) /\ Len(s) = Len(a) + Len(b)
          BY <5>1
        <5> HIDE DEF s
        <5> QED
          BY <5>2
      <4>2. Len(s) = Len(peers) - 1
        BY <2>1, <3>6, <3>7, <3>8, <4>1
      <4>3. ASSUME NEW i \in 1..Len(s), i < k PROVE s[i] = peers[i]
        <5>1. i \in 1..Len(a) /\ i \in 1..(k - 1)
          BY <3>6, <3>7, <4>2, <4>3, <2>1
        <5>2. s[i] = a[i]
          BY <3>7, <3>8, <5>1
        <5> QED
          BY <3>7, <5>1, <5>2, Zenon
      <4>4. ASSUME NEW i \in 1..Len(s), ~(i < k) PROVE s[i] = peers[i + 1]
        <5>1. i - (k - 1) \in 1..(Len(peers) - k) /\ (i - (k - 1)) + k = i + 1 /\ i \notin 1..Len(a)
          BY <3>6, <3>7, <4>2, <4>4, <2>1
        <5>2. s[i] = b[i - (k - 1)]
          BY <3>6, <3>7, <3>8, <4>1, <4>4, <5>1
        <5> QED
          BY <3>8, <5>1, <5>2, Zenon
      <4> QED
        BY <4>1, <4>2, <4>3, <4>4, Zenon
    <3>10. RemovePeer(u) = s
      BY <3>5, Zenon DEF a, b
    <3> HIDE DEF s
    <3>11. Distinct(s)
      BY <2>1, <3>6, <3>9 DEF Distinct
    <3>12. ASSUME NEW x \in Range(s) PROVE x \in Range(peers) \ {u}
      BY <2>1, <3>2, <3>6, <3>9, <3>12 DEF Range
    <3>13. ASSUME NEW x \in Range(peers) \ {u} PROVE x \in Range(s)
      <4>1. PICK i \in 1..Len(peers) : peers[i] = x
        BY <2>1, <3>13, Zenon DEF Range
      <4>2. i # k
        BY <3>1, <3>13, <4>1, Zenon
      <4>3. CASE i < k
        BY <2>1, <3>6, <3>9, <4>1, <4>3 DEF Range
      <4>4. CASE i > k
        <5>1. i - 1 \in 1..Len(s) /\ ~(i - 1 < k) /\ (i - 1) + 1 = i
          BY <2>1, <3>6, <3>9, <4>1, <4>4
        <5>2. s[i - 1] = x
          BY <3>9, <4>1, <5>1, Zenon
        <5> QED
          BY <3>9, <5>1, <5>2, Zenon DEF Range
      <4> QED
        BY <2>1, <3>6, <4>2, <4>3, <4>4
    <3> QED
      BY <3>9, <3>10, <3>11, <3>12, <3>13, Zenon
  <2> QED
    BY <2>2, <2>3, Zenon
(* A handler of an ONU that takes its call from the queue and finishes its *)
(* work leaves everything fitting.                                         *)
<1>OnuStepFits.
      ASSUME IInv, Fits, NEW op, NEW u \in Onus, Due(op, u), Present(u), sched' = Tail(sched),
             NEW rec \in Records, UpdateDevice(u, rec), Done(u, rec),
             UNCHANGED <<handlers, reboots, ld, ldKnown, kpi, host, nniPort>>,
             onuPorts \subseteq onuPorts', u \in onuPorts',
             \A v \in Onus \ {u} : v \in uni' <=> v \in uni,
             \A v \in Onus \ {u} : v \in Range(peers') <=> v \in Range(peers)
      PROVE  Fits'
  <2> USE <1>OnuStepFits
  <2>0. u # olt /\ u \in Devices /\ olt \in Devices /\ rec # Absent
    BY DeviceLifeAssumption DEF Devices, Records, Absent
  <2>1. /\ OneAtATime' /\ reboots' = <<>> /\ reboots = <<>>
        /\ \A o : ~Sent(sched', o, u)
        /\ \A o, e : e # u => (Sent(sched', o, e) <=> Sent(sched, o, e))
    BY CalmTail, Zenon
  <2>2. /\ dev'[u] = rec /\ \A e \in Devices \ {u} : dev'[e] = dev[e]
        /\ disk'[u] = rec /\ \A e \in Devices \ {u} : disk'[e] = disk[e]
        /\ last'[u] = rec.admin /\ \A e \in Devices \ {u} : last'[e] = last[e]
    BY <2>0, Zenon DEF IInv, Typed, UpdateDevice
  <2>3. Children' = Children
    BY <2>0, <2>2, Zenon DEF Children, Present, Devices
  <2>4. AgentsFit'
    BY <2>0, <2>1, <2>2, <2>3, Zenon DEF Fits, AgentsFit, Present
  <2>5. OltFits'
    <3>1. SameOlt
      BY <2>0, <2>1, <2>2, <2>3, Zenon DEF SameOlt
    <3> QED
      BY <3>1, SameOltFits, Zenon DEF Fits
  <2>6. ASSUME NEW v \in Onus \ {u} PROVE OnuFits(v)'
    <3>1. SameOnu(v)
      BY <2>1, <2>2, Zenon DEF SameOnu, Devices
    <3> QED
      BY <3>1, SameOnuFits, Zenon DEF Fits
  <2>7. OnuFits(u)'
    <3>1. ~Asleep(u)' /\ ~Asleep(olt)'
      BY <2>1, Zenon DEF Asleep
    <3>2. Rests(u)'
      BY <2>2, <3>1, Zenon DEF Rests, Oper, Conn, Done
    <3> QED
      BY <2>1, <2>2, <3>2, Zenon DEF OnuFits, Done
  <2> QED
    BY <2>1, <2>4, <2>5, <2>6, <2>7, Zenon DEF Fits
(* The handlers of an ONU.                                                 *)
<1>OnuActivateCInv. ASSUME IInv, CInv, NEW u \in Onus, OnuActivate(u) PROVE CInv'
  <2> USE <1>OnuActivateCInv
  <2> DEFINE reached == [Head(sched).arg EXCEPT !.conn = "REACHABLE"]
             rec == [reached EXCEPT !.oper = "ACTIVE"]
  <2>1. /\ Due("activate", u) /\ Present(u) /\ sched' = Tail(sched)
        /\ onuPorts' = onuPorts \cup {u} /\ peers' = AddPeer(u) /\ calm' = calm
        /\ UNCHANGED <<handlers, reboots, ld, ldKnown, kpi, host, nniPort>>
    BY Zenon DEF OnuActivate, memory
  <2>2. ld => UpdateDevice(u, rec) /\ uni' = uni \cup {u}
    BY Zenon DEF OnuActivate
  <2>3. ~ld => uni' = uni
    BY Zenon DEF OnuActivate
  <2>4. PortsTyped
    BY Zenon DEF CInv
  <2>5. peers' \in Seq(Onus) /\ Distinct(peers') /\ Range(peers') = Range(peers) \cup {u}
    BY <2>1, <2>4, <1>AddPeerAdds, Zenon
  <2>6. PortsTyped'
    BY <2>2, <2>3, <2>4, <2>5, Zenon DEF PortsTyped
  <2>7. Head(sched).arg \in Records /\ Head(sched).arg.admin = "ENABLED"
    BY <2>1, DueCall, Zenon
  <2>8. rec \in Records /\ rec.admin = "ENABLED" /\ rec.oper = "ACTIVE" /\ rec.conn = "REACHABLE"
    BY <2>7, Zenon DEF Records
  <2> HIDE DEF rec
  <2>9. ASSUME calm PROVE Fits'
    <3>1. Fits
      BY <2>9, CInvFits, Zenon
    <3>2. Sent(sched, "activate", u)
      BY <2>1, <3>1, CalmDue, Zenon
    <3>3. ld /\ u \notin uni
      BY <3>1, <3>2, Zenon DEF Fits, OnuFits
    <3>4. UpdateDevice(u, rec) /\ Done(u, rec)
      BY <2>2, <2>5, <2>8, <3>3, Zenon DEF Done
    <3>5. \A v \in Onus \ {u} : (v \in uni' <=> v \in uni) /\ (v \in Range(peers') <=> v \in Range(peers))
      BY <2>2, <2>5, <3>3, Zenon
    <3> QED
      BY <2>1, <2>8, <3>1, <3>4, <3>5, <1>OnuStepFits, Zenon
  <2> QED
    BY <2>1, <2>6, <2>9, FitsCInv, Zenon
(* PonSimOnuHandler.disable: the logical port and the peer go, and the ONU *)
(* rests disabled.                                                         *)
<1>OnuDisableCInv. ASSUME IInv, CInv, NEW u \in Onus, OnuDisable(u) PROVE CInv'
  <2> USE <1>OnuDisableCInv
  <2> DEFINE rec == [dev[u] EXCEPT !.oper = "UNKNOWN", !.conn = "UNREACHABLE"]
  <2>1. /\ Due("disable", u) /\ Present(u) /\ sched' = Tail(sched) /\ UpdateDevice(u, rec)
        /\ uni' = uni \ {u} /\ peers' = RemovePeer(u) /\ calm' = calm
        /\ UNCHANGED <<handlers, reboots, ld, ldKnown, kpi, host, nniPort, onuPorts>>
    BY Zenon DEF OnuDisable, memory
  <2>2. PortsTyped
    BY Zenon DEF CInv
  <2>3. peers' \in Seq(Onus) /\ Distinct(peers') /\ Range(peers') = Range(peers) \ {u}
    BY <2>1, <2>2, <1>RemovePeerRemoves, Zenon
  <2>4. PortsTyped'
    BY <2>1, <2>2, <2>3, Zenon DEF PortsTyped
  <2>5. dev[u] \in Records
    BY <2>1, PresentRecord, Zenon DEF Devices
  <2>6. rec \in Records /\ rec.admin = dev[u].admin /\ rec.oper = "UNKNOWN"
    BY <2>5, Zenon DEF Records
  <2> HIDE DEF rec
  <2>7. ASSUME calm PROVE Fits'
    <3>1. Fits
      BY <2>7, CInvFits, Zenon
    <3>2. Sent(sched, "disable", u) /\ ~Sent(sched, "activate", u)
      BY <2>1, <3>1, CalmDue, Zenon
    <3>3. dev[u].admin = "DISABLED" /\ u \in onuPorts
      BY <2>1, <3>1, <3>2, Zenon DEF Fits, OnuFits
    <3>4. Done(u, rec)
      BY <2>1, <2>3, <2>6, <3>3, Zenon DEF Done
    <3>5. \A v \in Onus \ {u} : (v \in uni' <=> v \in uni) /\ (v \in Range(peers') <=> v \in Range(peers))
      BY <2>1, <2>3, Zenon
    <3> QED
      BY <2>1, <2>6, <3>1, <3>3, <3>4, <3>5, <1>OnuStepFits, Zenon
  <2> QED
    BY <2>1, <2>4, <2>7, FitsCInv, Zenon
(* PonSimOnuHandler.reenable finds its PON port and the logical device, so *)
(* it runs to the end.                                                     *)
<1>OnuReenableCInv. ASSUME IInv, CInv, NEW u \in Onus, OnuReenable(u) PROVE CInv'
  <2> USE <1>OnuReenableCInv
  <2> DEFINE oper == IF ld THEN "ACTIVE" ELSE dev[u].oper
             rec == [dev[u] EXCEPT !.conn = "REACHABLE", !.oper = oper]
  <2>1. /\ Due("reenable", u) /\ Present(u) /\ sched' = Tail(sched) /\ calm' = calm
        /\ UNCHANGED <<handlers, reboots, ld, ldKnown, kpi, host, nniPort, onuPorts>>
    BY Zenon DEF OnuReenable, memory
  <2>2. dev[u] \in Records
    BY <2>1, PresentRecord, Zenon DEF Devices
  <2>3. u \in onuPorts => peers' = AddPeer(u) /\ UpdateDevice(u, rec) /\ uni' = IF ld THEN uni \cup {u} ELSE uni
    BY <2>2, Zenon DEF OnuReenable, Records
  <2>4. u \notin onuPorts => UNCHANGED <<uni, peers>>
    BY Zenon DEF OnuReenable
  <2>5. PortsTyped
    BY Zenon DEF CInv
  <2>6. AddPeer(u) \in Seq(Onus) /\ Distinct(AddPeer(u)) /\ Range(AddPeer(u)) = Range(peers) \cup {u}
    BY <2>5, <1>AddPeerAdds, Zenon
  <2>7. PortsTyped'
    BY <2>3, <2>4, <2>5, <2>6, Zenon DEF PortsTyped
  <2>8. oper \in {"UNKNOWN", "ACTIVATING", "ACTIVE", "FAILED"}
    BY <2>2, Zenon DEF Records
  <2> HIDE DEF oper
  <2>9. rec \in Records /\ rec.admin = dev[u].admin /\ rec.oper = oper /\ rec.conn = "REACHABLE"
    BY <2>2, <2>8, Zenon DEF Records
  <2> HIDE DEF rec
  <2>10. ASSUME calm PROVE Fits'
    <3>1. Fits
      BY <2>10, CInvFits, Zenon
    <3>2. Sent(sched, "reenable", u) /\ ~Sent(sched, "activate", u)
      BY <2>1, <3>1, CalmDue, Zenon
    <3>3. dev[u].admin = "ENABLED" /\ ld /\ u \notin uni /\ u \in onuPorts
      BY <2>1, <3>1, <3>2, Zenon DEF Fits, OnuFits
    <3>4. oper = "ACTIVE"
      BY <3>3, Zenon DEF oper
    <3>5. Done(u, rec) /\ UpdateDevice(u, rec)
      BY <2>3, <2>6, <2>9, <3>3, <3>4, Zenon DEF Done
    <3>6. \A v \in Onus \ {u} : (v \in uni' <=> v \in uni) /\ (v \in Range(peers') <=> v \in Range(peers))
      BY <2>3, <2>6, <3>3, Zenon
    <3> QED
      BY <2>1, <2>9, <3>1, <3>3, <3>5, <3>6, <1>OnuStepFits, Zenon
  <2> QED
    BY <2>1, <2>7, <2>10, FitsCInv, Zenon
(* PonSimOnuHandler.reconcile: the ONU was in service before the restart   *)
(* and is again.                                                           *)
<1>OnuReconcileCInv. ASSUME IInv, CInv, NEW u \in Onus, OnuReconcile(u) PROVE CInv'
  <2> USE <1>OnuReconcileCInv
  <2> DEFINE rec == [Head(sched).arg EXCEPT !.oper = "ACTIVE", !.conn = "REACHABLE"]
  <2>1. /\ Due("reconcile", u) /\ Present(u) /\ sched' = Tail(sched) /\ UpdateDevice(u, rec) /\ calm' = calm
        /\ UNCHANGED <<handlers, reboots, ld, ldKnown, kpi, host, nniPort, onuPorts, uni, peers>>
    BY Zenon DEF OnuReconcile, logical, memory, ports
  <2>2. PortsTyped'
    BY <2>1, Zenon DEF CInv, PortsTyped
  <2>3. Head(sched).arg \in Records /\ Head(sched).arg.admin = "ENABLED"
    BY <2>1, DueCall, Zenon
  <2>4. rec \in Records /\ rec.admin = "ENABLED" /\ rec.oper = "ACTIVE" /\ rec.conn = "REACHABLE"
    BY <2>3, Zenon DEF Records
  <2> HIDE DEF rec
  <2>5. ASSUME calm PROVE Fits'
    <3>1. Fits
      BY <2>5, CInvFits, Zenon
    <3>2. \A o : Sent(sched, o, u) <=> o = "reconcile"
      BY <2>1, <3>1, CalmDue, Zenon
    <3>3. ~Busy(u)
      BY <3>2, Zenon DEF Busy
    <3>4. ld /\ u \in uni /\ u \in Range(peers) /\ u \in onuPorts
      BY <2>1, <3>1, <3>2, <3>3, Zenon DEF Fits, OnuFits
    <3>5. Done(u, rec)
      BY <2>1, <2>4, <3>4, Zenon DEF Done
    <3> QED
      BY <2>1, <2>4, <3>1, <3>4, <3>5, <1>OnuStepFits, Zenon
  <2> QED
    BY <2>1, <2>2, <2>5, FitsCInv, Zenon
<1> QED
  BY <1>OnuActivateCInv, <1>OnuDisableCInv, <1>OnuReenableCInv, <1>OnuReconcileCInv, Zenon

(* A request or a restart that leaves calls of one kind only.              *)
LEMMA OneKind ==
    ASSUME Orderly(sched'), reboots' = <<>>,
           \/ \A op, d : ~Sent(sched', op, d)
           \/ \E c \in Devices : \A op, d : Sent(sched', op, d) => d = c
           \/ \A op, d : Sent(sched', op, d) => op # "reboot" /\ (d = olt => op = "delete")
    PROVE  OneAtATime'
<1>1. ASSUME NEW op \in Ops, NEW other \in Ops, NEW u \in Onus, Sent(sched', op, olt), op # "delete"
      PROVE  ~Sent(sched', other, u)
  BY <1>1, DeviceLifeAssumption, Zenon
<1>2. ASSUME NEW d \in Devices, NEW e \in Devices, NEW op \in Ops, Sent(sched', "reboot", d), Sent(sched', op, e)
      PROVE  e = d
  BY <1>2, Zenon
<1> QED
  BY <1>1, <1>2, Zenon DEF OneAtATime

(* The ONUs that an activation finds are activated.                        *)
Activations == [i \in 1..Len(Listed(Onus)) |-> CallWith("activate", Listed(Onus)[i], [NewOnu EXCEPT !.oper = "ACTIVATING"])]

(* The scheduled methods of the OLT's handler, when the OLT answers.       *)
LEMMA OltCInv == IInv /\ CInv /\ (OltActivate \/ OltDisable \/ OltReenable \/ OltReconcile) => CInv'
(* What the OLT finds when it has something to do.                         *)
<1>OltDue.
      ASSUME IInv, Fits, NEW op, op # "delete", Due(op, olt)
      PROVE  /\ reboots = <<>> /\ \A o : Sent(sched, o, olt) <=> o = op
             /\ \A u \in Onus : ~Busy(u) /\ Rests(u) /\ Oper(u) = dev[u].oper /\ Conn(u) = dev[u].conn
             /\ \A u \in Onus : (u \in uni <=> dev[u].admin = "ENABLED") /\ (u \in Range(peers) <=> dev[u].admin = "ENABLED")
             /\ \A u \in Onus : (Present(u) => u \in onuPorts) /\ (dev[u].admin = "ENABLED" => ld)
             /\ \A u \in Onus : dev[u].admin # "PREPROVISIONED"
             /\ \A d \in Devices : Present(d) => last[d] = dev[d].admin
             /\ \A u \in Onus : disk[u] = dev[u]
  <2> USE <1>OltDue
  <2>1. /\ reboots = <<>> /\ \A o : Sent(sched, o, olt) <=> o = op
        /\ \A o, e : ~Sent(Tail(sched), o, e)
        /\ \A o, e : e # olt => (Sent(Tail(sched), o, e) <=> Sent(sched, o, e))
    BY CalmDue, Zenon
  <2>2. \A o : \A u \in Onus : ~Sent(sched, o, u)
    BY <2>1, DeviceLifeAssumption, Zenon
  <2>3. \A u \in Onus : ~Busy(u)
    BY <2>2, Zenon DEF Busy
  <2>4. \A u \in Onus : Oper(u) = dev[u].oper /\ Conn(u) = dev[u].conn
    BY <2>1, Zenon DEF Oper, Conn, Asleep
  <2>5. \A u \in Onus : Rests(u) /\ (u \in uni <=> dev[u].admin = "ENABLED") /\ (u \in Range(peers) <=> dev[u].admin = "ENABLED")
    BY <2>3, Zenon DEF Fits, OnuFits
  <2>6. \A u \in Onus : (Present(u) => u \in onuPorts) /\ (dev[u].admin = "ENABLED" => ld) /\ dev[u].admin # "PREPROVISIONED"
    BY <2>2, Zenon DEF Fits, OnuFits
  <2>7. \A d \in Devices : Present(d) => last[d] = dev[d].admin
    BY Zenon DEF Fits, AgentsFit
  <2>8. \A u \in Onus : disk[u] = dev[u]
    BY <2>2, Zenon DEF Fits, AgentsFit, Devices
  <2> QED
    BY <2>1, <2>3, <2>4, <2>5, <2>6, <2>7, <2>8, Zenon
(* It schedules the calls r.                                               *)
<1>OltSchedules.
      ASSUME IInv, Fits, NEW op, op # "delete", Due(op, olt),
             NEW r \in Seq(ScheduledCalls), Orderly(r), sched' = Tail(sched) \o r
      PROVE  Orderly(sched') /\ \A o, e : Sent(sched', o, e) <=> Sent(r, o, e)
  <2> USE <1>OltSchedules
  <2>1. Tail(sched) \in Seq(ScheduledCalls) /\ Orderly(Tail(sched)) /\ \A o, e : ~Sent(Tail(sched), o, e)
    BY CalmDue, Zenon
  <2>2. Apart(Tail(sched), r)
    BY <2>1, Zenon DEF Apart
  <2> DEFINE rest == Tail(sched)
  <2> HIDE DEF rest
  <2>3. rest \in Seq(ScheduledCalls) /\ Orderly(rest) /\ Apart(rest, r) /\ \A o, e : ~Sent(rest, o, e)
    BY <2>1, <2>2, Zenon DEF rest
  <2>4. Orderly(rest \o r) /\ \A o, e : Sent(rest \o r, o, e) <=> Sent(rest, o, e) \/ Sent(r, o, e)
    BY <2>3, ConcatSent, ConcatOrderly, Zenon
  <2>5. sched' = rest \o r
    BY Zenon DEF rest
  <2> QED
    BY <2>3, <2>4, <2>5, Zenon
(* PonSimOltHandler.activate: the logical device exists before the         *)
(* activations of the ONUs run.                                            *)
<1>OltActivateCInv. ASSUME IInv, CInv, OltActivate PROVE CInv'
  <2> USE <1>OltActivateCInv
  (* PonSimOltHandler.activate has child_device_detected schedule one        *)
  (* activation of each ONU and nothing else.                                *)
  <2>ActivationsExact.
        /\ Activations \in Seq(ScheduledCalls) /\ Orderly(Activations)
        /\ \A op, d : Sent(Activations, op, d) <=> op = "activate" /\ d \in Onus
    <3> DEFINE onu == [NewOnu EXCEPT !.oper = "ACTIVATING"]
               s == Listed(Onus)
               N == Cardinality(Onus)
               q == Activations
    <3>1. Onus \in SUBSET Devices /\ olt \notin Onus
      BY DeviceLifeAssumption, Zenon DEF Devices
    <3>2. N \in Nat /\ s \in [1..N -> Onus] /\ Len(s) = N
      BY <3>1, ListedAll, Zenon
    <3>3. onu \in Records /\ onu.admin = "ENABLED"
      BY Zenon DEF NewOnu, Absent, Records
    <3>4. q = [i \in 1..N |-> CallWith("activate", s[i], onu)]
      BY <3>2, Zenon DEF Activations
    <3> HIDE DEF q, onu
    <3>5. \A i \in 1..N : /\ q[i].op = "activate" /\ q[i].dev = s[i] /\ s[i] \in Onus
                          /\ q[i] \in ScheduledCalls
      <4> SUFFICES ASSUME NEW i \in 1..N
                   PROVE  /\ q[i].op = "activate" /\ q[i].dev = s[i] /\ s[i] \in Onus
                          /\ q[i] \in ScheduledCalls
        BY Zenon
      <4>1. q[i] = CallWith("activate", s[i], onu) /\ s[i] \in Onus /\ s[i] \in Devices
        BY <3>2, <3>4, Zenon DEF Devices
      <4> DEFINE c == CallWith("activate", s[i], onu)
      <4>2. c \in ScheduledCalls /\ c.op = "activate" /\ c.dev = s[i]
        BY <3>3, <4>1, Zenon DEF CallWith, ScheduledCalls, Ops, Stored
      <4> QED
        BY <4>1, <4>2, Zenon
    <3>6. q \in [1..N -> ScheduledCalls]
      BY <3>4, <3>5, Zenon
    <3>7. q \in Seq(ScheduledCalls) /\ Len(q) = N
      BY <3>2, <3>6
    <3> HIDE DEF N, s
    <3>8. /\ Orderly(q) /\ \A op, d : Sent(q, op, d) => d \in Onus
          /\ \A d \in Onus : \E i \in 1..Len(q) : q[i].dev = d
      BY <3>1, <3>5, <3>7, ListedOrderly DEF N, s
    <3>9. ASSUME NEW op, NEW d PROVE Sent(q, op, d) <=> op = "activate" /\ d \in Onus
      BY <3>5, <3>7, <3>8, Zenon DEF Sent
    <3> QED
      BY <3>7, <3>8, <3>9, Zenon DEF q
  <2> DEFINE reached == [Head(sched).arg EXCEPT !.conn = "REACHABLE"]
             active == [reached EXCEPT !.parent = TRUE, !.oper = "ACTIVE"]
             onu == [NewOnu EXCEPT !.oper = "ACTIVATING"]
  <2>0. olt \in Devices /\ olt \notin Onus /\ \A u \in Onus : u \in Devices /\ u # olt
    BY DeviceLifeAssumption, Zenon DEF Devices
  <2>1. /\ Due("activate", olt) /\ calm' = calm
        /\ dev' = [d \in Devices |-> IF d = olt THEN active ELSE onu]
        /\ disk' = [d \in Devices |-> IF d = olt THEN active ELSE NewOnu]
        /\ last' = [d \in Devices |-> dev'[d].admin]
        /\ sched' = Tail(sched) \o Activations
        /\ handlers' = Devices /\ ld' = TRUE /\ ldKnown' = TRUE /\ nniPort' = TRUE /\ host'
        /\ UNCHANGED <<reboots, uni, onuPorts, peers>>
    BY Zenon DEF OltActivate, Activations
  <2>2. Head(sched).arg \in Records /\ Head(sched).arg.admin = "ENABLED"
    BY <2>1, DueCall, Zenon
  <2>3. /\ active \in Records /\ active.admin = "ENABLED" /\ active.conn = "REACHABLE"
        /\ active.oper = "ACTIVE" /\ active.parent
    BY <2>2, Zenon DEF Records
  <2>4. onu \in Records /\ onu.admin = "ENABLED"
    BY Zenon DEF NewOnu, Absent, Records
  <2>5. PortsTyped'
    BY <2>1, Zenon DEF CInv, PortsTyped
  <2> HIDE DEF active, onu
  <2>6. ASSUME calm PROVE Fits'
    <3>1. Fits
      BY <2>6, CInvFits, Zenon
    <3>2. /\ reboots = <<>> /\ Sent(sched, "activate", olt)
          /\ \A u \in Onus : u \in uni <=> dev[u].admin = "ENABLED"
      BY <2>1, <3>1, <1>OltDue, Zenon
    <3>3. Children = {}
      BY <3>1, <3>2, Zenon DEF Fits, OltFits
    <3>4. \A u \in Onus : u \notin uni
      BY <3>2, <3>3 DEF Children, Present, Absent
    <3>5. Orderly(sched') /\ \A o, d : Sent(sched', o, d) <=> o = "activate" /\ d \in Onus
      BY <2>1, <3>1, <2>ActivationsExact, <1>OltSchedules, Zenon
    <3>6. /\ dev'[olt] = active /\ disk'[olt] = active
          /\ \A u \in Onus : dev'[u] = onu
          /\ \A d \in Devices : last'[d] = dev'[d].admin
      BY <2>0, <2>1, Zenon
    <3>7. OneAtATime'
      BY <2>0, <2>1, <3>2, <3>5, OneKind, Zenon
    <3>8. AgentsFit'
      <4>1. \A d \in Devices : d = olt \/ d \in Onus
        BY Zenon DEF Devices
      <4>2. Children' \subseteq Devices
        BY Zenon DEF Children, Devices
      <4> QED
        BY <2>0, <2>1, <2>3, <3>5, <3>6, <4>1, <4>2, Zenon DEF AgentsFit
    <3>9. OltFits'
      <4>1. Rests(olt)'
        BY <2>1, <2>3, <3>2, <3>6, ZenonT(30) DEF Rests, Oper, Conn, Asleep
      <4> QED
        BY <2>0, <2>1, <2>3, <3>5, <3>6, <4>1, Zenon DEF OltFits
    <3>10. ASSUME NEW u \in Onus PROVE OnuFits(u)'
      <4>1. Busy(u)'
        BY <3>5, Zenon DEF Busy
      <4>2. dev'[u].admin = "ENABLED" /\ u \notin uni' /\ ld'
        BY <2>1, <2>4, <3>4, <3>6, Zenon
      <4>3. \A o : Sent(sched', o, u) <=> o = "activate"
        BY <3>5, Zenon
      <4> QED
        BY <4>1, <4>2, <4>3 DEF OnuFits
    <3> QED
      BY <3>7, <3>8, <3>9, <3>10, Zenon DEF Fits
  <2> QED
    BY <2>1, <2>5, <2>6, FitsCInv, Zenon
(* PonSimOltHandler.reconcile learns the logical device from the record in *)
(* hand and reconciles the enabled ONUs.                                   *)
<1>OltReconcileCInv. ASSUME IInv, CInv, OltReconcile PROVE CInv'
  <2> USE <1>OltReconcileCInv
  <2> DEFINE rec == [Head(sched).arg EXCEPT !.oper = "ACTIVE"]
  <2>0. olt \in Devices /\ olt \notin Onus /\ \A u \in Onus : u \in Devices /\ u # olt
    BY DeviceLifeAssumption, Zenon DEF Devices
  <2>1. /\ Due("reconcile", olt) /\ Present(olt) /\ UpdateDevice(olt, rec) /\ calm' = calm
        /\ ldKnown' = Head(sched).arg.parent /\ host'
        /\ handlers' = handlers \cup Children /\ sched' = Tail(sched) \o Reconciling(dev)
        /\ UNCHANGED <<reboots, ld, uni, nniPort, onuPorts, peers>>
    BY Zenon DEF OltReconcile, logical, ports
  <2>2. Head(sched).arg \in Records /\ Head(sched).arg.admin = "ENABLED"
    BY <2>1, DueCall, Zenon
  <2>3. /\ rec \in Records /\ rec.admin = "ENABLED" /\ rec.conn = Head(sched).arg.conn
        /\ rec.oper = "ACTIVE" /\ rec.parent = Head(sched).arg.parent
    BY <2>2, Zenon DEF Records
  <2>4. PortsTyped'
    BY <2>1, Zenon DEF CInv, PortsTyped
  <2> HIDE DEF rec
  <2>5. ASSUME calm PROVE Fits'
    <3>1. Fits
      BY <2>5, CInvFits, Zenon
    <3>2. /\ reboots = <<>> /\ \A o : Sent(sched, o, olt) <=> o = "reconcile"
          /\ \A u \in Onus : ~Busy(u) /\ Rests(u) /\ Oper(u) = dev[u].oper /\ Conn(u) = dev[u].conn
          /\ \A u \in Onus : (u \in uni <=> dev[u].admin = "ENABLED") /\ (u \in Range(peers) <=> dev[u].admin = "ENABLED")
          /\ \A u \in Onus : (Present(u) => u \in onuPorts) /\ (dev[u].admin = "ENABLED" => ld)
          /\ \A u \in Onus : dev[u].admin # "PREPROVISIONED"
          /\ \A d \in Devices : Present(d) => last[d] = dev[d].admin
          /\ \A u \in Onus : disk[u] = dev[u]
      BY <2>1, <3>1, <1>OltDue, Zenon
    <3>3. Head(sched).arg.conn = "REACHABLE" /\ Head(sched).arg.parent
      BY <2>1, <3>1, CalmDue, Zenon
    <3>4. dev[olt].admin = "ENABLED" /\ ld /\ nniPort
      <4>1. ~Busy(olt)
        BY <3>2, Zenon DEF Busy
      <4>2. dev[olt].admin = "ENABLED"
        BY <3>1, <3>2, Zenon DEF Fits, OltFits
      <4> QED
        BY <3>1, <3>2, <4>1, <4>2 DEF Fits, OltFits
    <3>5. /\ dev'[olt] = rec /\ disk'[olt] = rec /\ last'[olt] = rec.admin
          /\ \A u \in Onus : dev'[u] = dev[u] /\ disk'[u] = disk[u] /\ last'[u] = last[u]
      BY <2>0, <2>1, Zenon DEF IInv, Typed, UpdateDevice
    <3>6. Children' = Children
      BY <3>5, Zenon DEF Children, Present
    <3>7. Orderly(sched') /\ \A o, d : Sent(sched', o, d) <=> o = "reconcile" /\ d \in Onus /\ dev[d].admin = "ENABLED"
      <4>1. /\ Reconciling(dev) \in Seq(ScheduledCalls) /\ Orderly(Reconciling(dev))
            /\ \A o, d : Sent(Reconciling(dev), o, d) <=> o = "reconcile" /\ d \in Onus /\ dev[d].admin = "ENABLED"
        BY ReconcilingExact, Zenon DEF IInv, Typed
      <4> QED
        BY <2>1, <3>1, <4>1, <1>OltSchedules, Zenon
    <3>8. OneAtATime'
      BY <2>0, <2>1, <3>2, <3>7, OneKind, Zenon
    <3>9. AgentsFit'
      <4>1. olt \in handlers
        BY <3>1, <3>4, Zenon DEF Fits, AgentsFit
      <4>2. \A d \in Devices : d = olt \/ d \in Onus
        BY Zenon DEF Devices
      <4>3. \A d \in Devices : disk'[d] = dev'[d] /\ (Present(d)' => last'[d] = dev'[d].admin)
        BY <3>2, <3>5, <4>2, Zenon DEF Present, Devices
      <4> QED
        BY <2>1, <2>3, <3>5, <3>6, <4>1, <4>3, Zenon DEF AgentsFit
    <3>10. OltFits'
      <4>1. Rests(olt)'
        BY <2>1, <2>3, <3>2, <3>3, <3>5, ZenonT(30) DEF Rests, Oper, Conn, Asleep
      <4> QED
        BY <2>0, <2>1, <2>3, <3>3, <3>4, <3>5, <3>7, <4>1, Zenon DEF OltFits
    <3>11. ASSUME NEW u \in Onus PROVE OnuFits(u)'
      <4>1. Rests(u)'
        <5>1. Oper(u)' = dev[u].oper /\ Conn(u)' = dev[u].conn
          BY <2>1, <3>2, <3>5, Zenon DEF Oper, Conn, Asleep
        <5>2. Rests(u) /\ Oper(u) = dev[u].oper /\ Conn(u) = dev[u].conn /\ dev'[u] = dev[u]
          BY <3>2, <3>5, Zenon
        <5> QED
          BY <5>1, <5>2, Zenon DEF Rests
      <4>2. \A o : Sent(sched', o, u) => o = "reconcile" /\ dev[u].admin = "ENABLED"
        BY <3>7, Zenon
      <4>3. /\ ~Sent(sched', "activate", u) /\ ~Sent(sched', "disable", u) /\ ~Sent(sched', "reenable", u)
            /\ Sent(sched', "reconcile", u) => dev[u].admin = "ENABLED"
        BY <4>2
      <4>4. dev'[u] = dev[u] /\ uni' = uni /\ peers' = peers /\ onuPorts' = onuPorts /\ ld'
        BY <2>1, <3>4, <3>5, Zenon
      <4>5. /\ u \in uni' <=> dev'[u].admin = "ENABLED"
            /\ u \in Range(peers)' <=> dev'[u].admin = "ENABLED"
            /\ dev'[u].admin # "PREPROVISIONED"
        BY <3>2, <4>4, Zenon
      <4>6. Present(u)' => u \in onuPorts'
        BY <3>2, <4>4, Zenon DEF Present
      <4> QED
        BY <4>1, <4>3, <4>4, <4>5, <4>6, Zenon DEF OnuFits
    <3> QED
      BY <3>8, <3>9, <3>10, <3>11, Zenon DEF Fits
  <2> QED
    BY <2>1, <2>4, <2>5, FitsCInv, Zenon
(* What PonSimOltHandler.disable and reenable do to the devices.           *)
<1>OltChangesExact.
      ASSUME IInv, Fits, NEW op \in {"disable", "reenable"}, Due(op, olt), Present(olt),
             NEW own \in Records, own.admin = dev[olt].admin, NEW admin \in {"ENABLED", "DISABLED"},
             OltChanges(own, admin), UNCHANGED <<handlers, reboots>>
      PROVE  /\ Children' = Children
             /\ dev'[olt] = own
             /\ \A u \in Onus : u \notin Children \/ dev[u].admin = admin => dev'[u] = dev[u]
             /\ \A u \in Children : dev'[u].admin = admin
             /\ AgentsFit'
             /\ Orderly(sched')
             /\ \A o, e : Sent(sched', o, e) <=>
                  /\ e \in Children /\ dev[e].admin # admin
                  /\ o = IF admin = "ENABLED" THEN "reenable" ELSE "disable"
             /\ OneAtATime'
  <2> USE <1>OltChangesExact
  <2> DEFINE after == Below(own, admin)
             changed == {u \in Children : after[u] # dev[u]}
             method == IF admin = "ENABLED" THEN "reenable" ELSE "disable"
  <2>0. olt \in Devices /\ olt \notin Onus /\ \A u \in Onus : u \in Devices /\ u # olt
    BY DeviceLifeAssumption, Zenon DEF Devices
  <2>1. /\ reboots = <<>> /\ \A o : Sent(sched, o, olt) <=> o = op
        /\ \A u \in Onus : disk[u] = dev[u]
        /\ \A d \in Devices : Present(d) => last[d] = dev[d].admin
        /\ \A u \in Onus : dev[u].admin # "PREPROVISIONED"
    BY <1>OltDue, Zenon
  <2>2. \A u \in Children : u \in Onus /\ dev[u] \in Records /\ Present(u) /\ u \in handlers
    <3>1. Children \subseteq handlers
      BY <2>1 DEF Fits, AgentsFit
    <3> QED
      BY <2>0, <3>1, PresentRecord, Zenon DEF Children
  <2>3. /\ dev' = after
        /\ disk' = [d \in Devices |-> IF d = olt \/ d \in changed THEN after[d] ELSE disk[d]]
        /\ last' = ProcessUpdate(changed \cup {olt}, after)
        /\ sched' = Tail(sched) \o Calls(changed, after)
    BY Zenon DEF OltChanges
  <2>4. \A u \in Children : /\ [dev[u] EXCEPT !.admin = admin] \in Records
                            /\ [dev[u] EXCEPT !.admin = admin].admin = admin
                            /\ dev[u].admin = admin => [dev[u] EXCEPT !.admin = admin] = dev[u]
    BY <2>2, Zenon DEF Records
  <2>5. /\ after[olt] = own
        /\ \A u \in Children : after[u] \in Records /\ after[u].admin = admin
        /\ \A u \in Onus : u \notin Children \/ dev[u].admin = admin => after[u] = dev[u]
    BY <2>0, <2>2, <2>4, Zenon DEF Below
  <2>6. after \in [Devices -> Stored]
    <3>1. \A d \in Devices : after[d] \in Stored
      BY <2>0, <2>5, Zenon DEF IInv, Typed, Stored, Devices
    <3> QED
      BY <3>1, Zenon DEF Below
  <2>7. \A rec \in Records : rec # Absent
    BY DEF Records, Absent
  <2> HIDE DEF after
  <2>8. \A u \in Onus : u \in changed <=> u \in Children /\ dev[u].admin # admin
    BY <2>2, <2>5, Zenon
  <2>9. changed \subseteq Children /\ changed \in SUBSET Devices
    BY <2>0, <2>2, Zenon
  <2> HIDE DEF changed
  <2>10. Children' = Children
    <3>1. \A u \in Children : dev'[u] # Absent
      BY <2>3, <2>5, <2>7, Zenon
    <3> QED
      BY <2>3, <2>5, <3>1, Zenon DEF Children, Present
  <2>11. \A u \in changed : Transition(u, after) = method
    <3> SUFFICES ASSUME NEW u \in changed PROVE Transition(u, after) = method
      BY Zenon
    <3>1. u \in Onus /\ u \in Children /\ dev[u].admin # admin /\ after[u].admin = admin
      BY <2>2, <2>5, <2>8, <2>9, Zenon
    <3>2. dev[u] \in Records /\ last[u] = dev[u].admin /\ dev[u].admin # "PREPROVISIONED"
      BY <2>0, <2>1, <2>2, <3>1, Zenon
    <3>3. last[u] \in {"ENABLED", "DISABLED"}
      BY <3>2, Zenon DEF Records
    <3> QED
      BY <3>1, <3>2, <3>3, Zenon DEF Transition, AdminStateFsm
  <2>12. /\ Orderly(sched')
         /\ \A o, e : Sent(sched', o, e) <=> e \in Children /\ dev[e].admin # admin /\ o = method
    <3>1. /\ Calls(changed, after) \in Seq(ScheduledCalls) /\ Orderly(Calls(changed, after))
          /\ \A o, e : Sent(Calls(changed, after), o, e) <=>
                e \in changed /\ e \in handlers /\ o \in {"disable", "reenable"} /\ Transition(e, after) = o
      BY <2>6, <2>9, CallsExact, Zenon
    <3>2. Orderly(sched') /\ \A o, e : Sent(sched', o, e) <=> Sent(Calls(changed, after), o, e)
      BY <2>3, <3>1, <1>OltSchedules, Zenon
    <3>3. method \in {"disable", "reenable"}
      BY Zenon
    <3> HIDE DEF method
    <3>4. ASSUME NEW o, NEW e
          PROVE  Sent(sched', o, e) <=> e \in Children /\ dev[e].admin # admin /\ o = method
      BY <2>2, <2>8, <2>9, <2>11, <3>1, <3>2, <3>3, Zenon
    <3> QED
      BY <3>2, <3>4, Zenon
  <2>13. OneAtATime'
    BY <2>0, <2>1, <2>2, <2>12, OneKind, Zenon
  <2>14. AgentsFit'
    <3>1. ASSUME NEW d \in Devices PROVE disk'[d] = dev'[d]
      BY <2>1, <2>3, <2>5, <2>8, <3>1, Zenon DEF Devices
    <3>2. ASSUME NEW d \in Devices, Present(d)' PROVE last'[d] = dev'[d].admin
      <4>0. d \in Onus /\ Present(d) => d \in Children
        BY Zenon DEF Children
      <4>1. last'[d] = IF d \notin changed \cup {olt} \/ (Transition(d, after) = "reenable" /\ d \notin handlers)
                       THEN last[d] ELSE after[d].admin
        BY <2>3, Zenon DEF ProcessUpdate
      <4>2. CASE d = olt
        BY <2>0, <2>1, <2>3, <2>5, <4>1, <4>2, Zenon
      <4>3. CASE d \in changed
        BY <2>2, <2>3, <2>9, <4>1, <4>3, Zenon
      <4>4. CASE d \in Onus /\ d \notin changed
        <5>1. dev'[d] = dev[d] /\ last'[d] = last[d]
          BY <2>0, <2>3, <2>5, <2>8, <4>1, <4>4, Zenon
        <5> QED
          BY <2>1, <3>2, <5>1, Zenon DEF Present
      <4> QED
        BY <4>2, <4>3, <4>4, Zenon DEF Devices
    <3>3. dev'[olt].admin = dev[olt].admin
      BY <2>3, <2>5, Zenon
    <3> QED
      BY <2>2, <2>10, <3>1, <3>2, <3>3, Zenon DEF Fits, AgentsFit
  <2> QED
    BY <2>3, <2>5, <2>10, <2>12, <2>13, <2>14, Zenon
(* PonSimOltHandler.disable: the OLT rests, and each enabled ONU has the   *)
(* one call that will disable it.                                          *)
<1>OltDisableCInv. ASSUME IInv, CInv, OltDisable PROVE CInv'
  <2> USE <1>OltDisableCInv
  (* Removing entries from the list that is iterated over leaves some of the *)
  (* peers, in their order.                                                  *)
  <2>EverySecondRemains.
        ASSUME PortsTyped
        PROVE  /\ EverySecond(peers) \in Seq(Onus) /\ Distinct(EverySecond(peers))
               /\ Range(EverySecond(peers)) \subseteq Range(peers)
    <3> USE <2>EverySecondRemains
    <3>1. peers \in Seq(Onus) /\ Distinct(peers) /\ Len(peers) \in Nat /\ DOMAIN peers = 1..Len(peers)
      BY DEF PortsTyped
    <3> DEFINE n == Len(peers) \div 2
               s == EverySecond(peers)
    <3>2. n \in Nat /\ \A i \in 1..n : 2 * i \in 1..Len(peers)
      BY <3>1
    <3>3. s = [i \in 1..n |-> peers[2 * i]]
      BY Zenon DEF EverySecond
    <3> HIDE DEF n, s
    <3>4. s \in [1..n -> Onus] /\ \A i \in 1..n : s[i] = peers[2 * i]
      BY <3>1, <3>2, <3>3
    <3>5. s \in Seq(Onus) /\ Len(s) = n /\ DOMAIN s = 1..n
      BY <3>2, <3>4
    <3>6. Distinct(s)
      <4> SUFFICES ASSUME NEW i \in 1..n, NEW j \in 1..n, s[i] = s[j] PROVE i = j
        BY <3>5, Zenon DEF Distinct
      <4>1. 2 * i = 2 * j
        BY <3>1, <3>2, <3>4, Zenon DEF Distinct
      <4> QED
        BY <4>1
    <3>7. Range(s) \subseteq Range(peers)
      BY <3>1, <3>2, <3>4, <3>5, Zenon DEF Range
    <3> QED
      BY <3>5, <3>6, <3>7, Zenon DEF s
  <2> DEFINE down == [dev EXCEPT ![olt].oper = "UNKNOWN", ![olt].conn = "UNREACHABLE"]
             after == [d \in Devices |->
                          IF d \in Children THEN [down[d] EXCEPT !.admin = "DISABLED"]
                          ELSE down[d]]
             changed == {u \in Children : after[u] # dev[u]}
             own == [dev[olt] EXCEPT !.oper = "UNKNOWN", !.conn = "UNREACHABLE"]
  <2>0. olt \in Devices /\ olt \notin Onus /\ \A u \in Onus : u \in Devices /\ u # olt
    BY DeviceLifeAssumption, Zenon DEF Devices
  <2>1. /\ Due("disable", olt) /\ Present(olt) /\ calm' = calm
        /\ UNCHANGED <<handlers, reboots, ldKnown, host, nniPort, onuPorts>>
    BY Zenon DEF OltDisable
  <2>2. dev[olt] \in Records
    BY <2>0, <2>1, PresentRecord, Zenon
  <2>3. own \in Records /\ own.admin = dev[olt].admin /\ own.oper = "UNKNOWN"
    BY <2>2, Zenon DEF Records
  <2>4. down[olt] = own /\ \A d \in Devices \ {olt} : down[d] = dev[d]
    BY <2>0, Zenon DEF IInv, Typed
  <2>5. kpi = "running" /\ ldKnown /\ ld =>
          /\ dev' = after /\ disk' = [d \in Devices |-> IF d = olt \/ d \in changed THEN after[d] ELSE disk[d]]
          /\ last' = ProcessUpdate(changed \cup {olt}, after)
          /\ sched' = Tail(sched) \o Calls(changed, after)
          /\ ld' = FALSE /\ uni' = {} /\ peers' = EverySecond(peers)
    BY Zenon DEF OltDisable
  <2>6. ~(kpi = "running" /\ ldKnown /\ ld) => UNCHANGED <<ld, uni, peers>>
    BY Zenon DEF OltDisable, logical
  <2> HIDE DEF down, own
  <2>7. after = Below(own, "DISABLED")
    BY <2>0, <2>4, Zenon DEF Below, Children
  <2> HIDE DEF after
  <2>8. PortsTyped
    BY Zenon DEF CInv
  <2>9. /\ EverySecond(peers) \in Seq(Onus) /\ Distinct(EverySecond(peers))
        /\ Range(EverySecond(peers)) \subseteq Range(peers)
    BY <2>8, <2>EverySecondRemains, Zenon
  <2>10. PortsTyped'
    BY <2>5, <2>6, <2>8, <2>9, Zenon DEF PortsTyped
  <2>11. ASSUME calm PROVE Fits'
    <3>1. Fits
      BY <2>11, CInvFits, Zenon
    <3>2. /\ reboots = <<>> /\ Sent(sched, "disable", olt) /\ ~Sent(sched, "activate", olt)
          /\ \A u \in Onus : ~Busy(u) /\ Rests(u) /\ Oper(u) = dev[u].oper /\ Conn(u) = dev[u].conn
          /\ \A u \in Onus : u \in Range(peers) <=> dev[u].admin = "ENABLED"
          /\ \A u \in Onus : (Present(u) => u \in onuPorts) /\ dev[u].admin # "PREPROVISIONED"
      BY <2>1, <3>1, <1>OltDue
    <3>3. dev[olt].admin = "DISABLED" /\ ld /\ ldKnown /\ kpi = "running" /\ nniPort /\ host
      BY <3>1, <3>2, Zenon DEF Fits, OltFits
    <3>4. OltChanges(own, "DISABLED")
      BY <2>5, <2>7, <3>3, Zenon DEF OltChanges
    <3>5. /\ Children' = Children /\ dev'[olt] = own
          /\ \A u \in Onus : u \notin Children \/ dev[u].admin = "DISABLED" => dev'[u] = dev[u]
          /\ \A u \in Children : dev'[u].admin = "DISABLED"
          /\ AgentsFit' /\ OneAtATime'
      BY <2>1, <2>3, <3>1, <3>4, <1>OltChangesExact, Zenon
    <3>6. \A o, e : Sent(sched', o, e) <=> e \in Children /\ dev[e].admin # "DISABLED" /\ o = "disable"
      BY <2>1, <2>3, <3>1, <3>4, <1>OltChangesExact, ZenonT(30)
    <3>7. \A u \in Onus : u \notin Children => dev[u].admin = "absent"
      BY DEF Children, Present, Absent
    <3>8. OltFits'
      <4>1. Rests(olt)'
        BY <2>1, <2>3, <3>2, <3>3, <3>5, Zenon DEF Rests, Oper, Conn, Asleep
      <4>2. \A o : ~Sent(sched', o, olt)
        BY <2>0, <3>6, Zenon DEF Children
      <4> QED
        BY <2>1, <2>3, <2>5, <3>3, <3>5, <4>1, <4>2, ZenonT(30) DEF OltFits
    <3>9. ASSUME NEW u \in Onus PROVE OnuFits(u)'
      <4>1. dev'[u].admin \in {"DISABLED", "absent"} /\ (Present(u)' => u \in onuPorts')
        BY <2>1, <3>2, <3>5, <3>7, Zenon DEF Children
      <4>2. \A o : Sent(sched', o, u) => o = "disable" /\ dev'[u].admin = "DISABLED"
        BY <3>5, <3>6, Zenon
      <4>3. u \notin uni'
        BY <2>5, <3>3, Zenon
      <4>4. ~Busy(u)' => dev[u].admin # "ENABLED" /\ dev'[u] = dev[u]
        <5>1. ~Busy(u)' => ~Sent(sched', "disable", u)
          BY Zenon DEF Busy
        <5> QED
          BY <3>5, <3>6, <3>7, <5>1, Zenon
      <4>5. ~Busy(u)' => Rests(u)' /\ u \notin Range(peers')
        <5>1. Oper(u)' = dev'[u].oper /\ Conn(u)' = dev'[u].conn
          BY <2>1, <3>2, Zenon DEF Oper, Conn, Asleep
        <5> QED
          BY <2>5, <2>9, <3>2, <3>3, <4>4, <5>1, Zenon DEF Rests
      <4> QED
        BY <4>1, <4>2, <4>3, <4>5 DEF OnuFits
    <3> QED
      BY <3>5, <3>8, <3>9, Zenon DEF Fits
  <2> QED
    BY <2>1, <2>10, <2>11, FitsCInv, Zenon
(* PonSimOltHandler.reenable: the logical device is there again, and each  *)
(* disabled ONU has the one call that will enable it.                      *)
<1>OltReenableCInv. ASSUME IInv, CInv, OltReenable PROVE CInv'
  <2> USE <1>OltReenableCInv
  <2> DEFINE reached == [dev EXCEPT ![olt].conn = "REACHABLE"]
             active == [reached EXCEPT ![olt].parent = TRUE, ![olt].oper = "ACTIVE"]
             after == [d \in Devices |->
                          IF d \in Children THEN [active[d] EXCEPT !.admin = "ENABLED"]
                          ELSE active[d]]
             changed == {u \in Children : after[u] # dev[u]}
             up == [dev[olt] EXCEPT !.conn = "REACHABLE"]
             own == [up EXCEPT !.parent = TRUE, !.oper = "ACTIVE"]
  <2>0. olt \in Devices /\ olt \notin Onus /\ \A u \in Onus : u \in Devices /\ u # olt
    BY DeviceLifeAssumption, Zenon DEF Devices
  <2>1. /\ Due("reenable", olt) /\ Present(olt) /\ calm' = calm /\ ld' = TRUE
        /\ UNCHANGED <<handlers, reboots, host, nniPort, onuPorts, uni, peers>>
    BY Zenon DEF OltReenable, ports
  <2>2. dev[olt] \in Records
    BY <2>0, <2>1, PresentRecord, Zenon
  <2>3. /\ own \in Records /\ own.admin = dev[olt].admin /\ own.oper = "ACTIVE"
        /\ own.conn = "REACHABLE" /\ own.parent
    BY <2>2, Zenon DEF Records
  <2>4. active[olt] = own /\ \A d \in Devices \ {olt} : active[d] = dev[d]
    BY <2>0, Zenon DEF IInv, Typed
  <2>5. ~ld /\ nniPort =>
          /\ dev' = after /\ disk' = [d \in Devices |-> IF d = olt \/ d \in changed THEN after[d] ELSE disk[d]]
          /\ last' = ProcessUpdate(changed \cup {olt}, after)
          /\ sched' = Tail(sched) \o Calls(changed, after)
          /\ ldKnown' = TRUE
    BY Zenon DEF OltReenable
  <2> HIDE DEF active, reached, up, own
  <2>6. after = Below(own, "ENABLED")
    BY <2>0, <2>4, Zenon DEF Below, Children
  <2> HIDE DEF after
  <2>7. PortsTyped'
    BY <2>1, Zenon DEF CInv, PortsTyped
  <2>8. ASSUME calm PROVE Fits'
    <3>1. Fits
      BY <2>8, CInvFits, Zenon
    <3>2. /\ reboots = <<>> /\ Sent(sched, "reenable", olt) /\ ~Sent(sched, "activate", olt)
          /\ \A u \in Onus : ~Busy(u) /\ Rests(u) /\ Oper(u) = dev[u].oper /\ Conn(u) = dev[u].conn
          /\ \A u \in Onus : (u \in uni <=> dev[u].admin = "ENABLED") /\ (u \in Range(peers) <=> dev[u].admin = "ENABLED")
          /\ \A u \in Onus : (Present(u) => u \in onuPorts) /\ dev[u].admin # "PREPROVISIONED"
      BY <2>1, <3>1, <1>OltDue
    <3>3. dev[olt].admin = "ENABLED" /\ ~ld /\ nniPort /\ host
      BY <3>1, <3>2, Zenon DEF Fits, OltFits
    <3>4. OltChanges(own, "ENABLED")
      BY <2>5, <2>6, <3>3, Zenon DEF OltChanges
    <3>5. /\ Children' = Children /\ dev'[olt] = own
          /\ \A u \in Onus : u \notin Children \/ dev[u].admin = "ENABLED" => dev'[u] = dev[u]
          /\ \A u \in Children : dev'[u].admin = "ENABLED"
          /\ AgentsFit' /\ OneAtATime'
      BY <2>1, <2>3, <3>1, <3>4, <1>OltChangesExact, Zenon
    <3>6. \A o, e : Sent(sched', o, e) <=> e \in Children /\ dev[e].admin # "ENABLED" /\ o = "reenable"
      BY <2>1, <2>3, <3>1, <3>4, <1>OltChangesExact, Zenon
    <3>7. \A u \in Onus : u \notin Children => dev[u].admin = "absent"
      BY DEF Children, Present, Absent
    <3>8. OltFits'
      <4>1. Rests(olt)'
        BY <2>1, <2>3, <3>2, <3>3, <3>5, Zenon DEF Rests, Oper, Conn, Asleep
      <4>2. \A o : ~Sent(sched', o, olt)
        BY <2>0, <3>6, Zenon DEF Children
      <4> QED
        BY <2>1, <2>3, <2>5, <3>3, <3>5, <4>1, <4>2, Zenon DEF OltFits
    <3>9. ASSUME NEW u \in Onus PROVE OnuFits(u)'
      <4>1. dev'[u].admin \in {"ENABLED", "absent"} /\ (Present(u)' => u \in onuPorts')
        BY <2>1, <3>2, <3>5, <3>7, Zenon DEF Children
      <4>2. \A o : Sent(sched', o, u) => o = "reenable" /\ dev'[u].admin = "ENABLED" /\ u \notin uni'
        BY <2>1, <3>2, <3>5, <3>6, Zenon
      <4>3. ~Busy(u)' => dev'[u] = dev[u]
        <5>1. ~Busy(u)' => ~Sent(sched', "reenable", u)
          BY Zenon DEF Busy
        <5> QED
          BY <3>5, <3>6, <5>1, Zenon
      <4>4. ~Busy(u)' => Rests(u)'
        <5>1. Oper(u)' = dev'[u].oper /\ Conn(u)' = dev'[u].conn
          BY <2>1, <3>2, Zenon DEF Oper, Conn, Asleep
        <5> QED
          BY <3>2, <4>3, <5>1, Zenon DEF Rests
      <4>5. ~Busy(u)' => (u \in uni' <=> dev'[u].admin = "ENABLED") /\ (u \in Range(peers') <=> dev'[u].admin = "ENABLED")
        BY <2>1, <3>2, <4>3, Zenon
      <4> QED
        BY <2>1, <4>1, <4>2, <4>4, <4>5, Zenon DEF OnuFits
    <3> QED
      BY <3>5, <3>8, <3>9, Zenon DEF Fits
  <2> QED
    BY <2>1, <2>7, <2>8, FitsCInv, Zenon
<1> QED
  BY <1>OltActivateCInv, <1>OltReconcileCInv, <1>OltDisableCInv, <1>OltReenableCInv, Zenon

(* A reboot of the OLT or of an ONU, before and after its sleep.           *)
LEMMA RebootCInv == IInv /\ CInv /\ (RebootEnds \/ \E d \in Devices : RebootStarts(d)) => CInv'
(* A queue that holds no call is empty.                                    *)
<1>NothingSent.
      ASSUME NEW q \in Seq(ScheduledCalls), \A op, d : ~Sent(q, op, d)
      PROVE  q = <<>>
  <2> USE <1>NothingSent
  <2> SUFFICES ASSUME q # <<>> PROVE FALSE
    BY Zenon
  <2>1. \A op, d : Sent(q, op, d) <=> Sent(Tail(q), op, d) \/ (Head(q).op = op /\ Head(q).dev = d)
    BY TailSent, Zenon
  <2>2. Sent(q, Head(q).op, Head(q).dev)
    BY <2>1, Zenon
  <2> QED
    BY <2>2, Zenon
(* What both ends of the sleep of reboot() do to the devices: the agents   *)
(* see no change of an administrative state.                               *)
<1>ConnectExact.
      ASSUME IInv, NEW d \in Devices, Present(d), NEW rec \in Records, rec.admin = dev[d].admin,
             NEW conn \in {"REACHABLE", "UNREACHABLE"}, Connect(d, rec, conn, <<>>),
             \A c \in Devices : disk[c] = dev[c] /\ (Present(c) => last[c] = dev[c].admin)
      PROVE  /\ sched' = <<>> /\ dev'[d] = rec /\ Children' = Children
             /\ \A c \in Devices : disk'[c] = dev'[c] /\ dev'[c].admin = dev[c].admin
             /\ \A c \in Devices : Present(c)' => last'[c] = dev'[c].admin
             /\ \A c \in Devices \ {d} : dev'[c].oper = dev[c].oper
             /\ \A c \in Devices \ {d} : d = olt /\ c \in Children => dev'[c].conn = conn
             /\ \A c \in Devices \ {d} : ~(d = olt /\ c \in Children) => dev'[c] = dev[c]
  <2> USE <1>ConnectExact
  <2> DEFINE after == [c \in Devices |->
                  IF c = d THEN rec
                  ELSE IF d = olt /\ c \in Children THEN [dev[c] EXCEPT !.conn = conn]
                  ELSE dev[c]]
             changed == {u \in Children \ {d} : after[u] # dev[u]}
  <2>1. Children \subseteq Devices /\ \A c \in Children : dev[c] \in Records /\ Present(c)
    BY PresentRecord, Zenon DEF Children, Devices
  <2>2. \A c \in Children : /\ [dev[c] EXCEPT !.conn = conn] \in Records
                            /\ [dev[c] EXCEPT !.conn = conn].admin = dev[c].admin
                            /\ [dev[c] EXCEPT !.conn = conn].oper = dev[c].oper
                            /\ [dev[c] EXCEPT !.conn = conn].conn = conn
    BY <2>1, Zenon DEF Records
  <2>3. /\ after[d] = rec
        /\ \A c \in Devices : after[c].admin = dev[c].admin
        /\ \A c \in Devices \ {d} : after[c].oper = dev[c].oper
        /\ \A c \in Devices \ {d} : d = olt /\ c \in Children => after[c].conn = conn /\ after[c] \in Records
        /\ \A c \in Devices \ {d} : ~(d = olt /\ c \in Children) => after[c] = dev[c]
    BY <2>2, Zenon
  <2>4. after \in [Devices -> Stored]
    <3>1. \A c \in Devices : after[c] \in Stored
      BY <2>3, Zenon DEF IInv, Typed, Stored
    <3> QED
      BY <3>1, Zenon
  <2>5. /\ dev' = after
        /\ disk' = [c \in Devices |-> IF c = d \/ c \in changed THEN after[c] ELSE disk[c]]
        /\ last' = [ProcessUpdate(changed, after) EXCEPT ![d] = rec.admin]
        /\ sched' = <<>> \o Calls(changed, after)
    BY Zenon DEF Connect
  <2>6. changed \in SUBSET Devices /\ \A c \in Devices \ {d} : c \notin changed => after[c] = dev[c]
    BY <2>1, <2>3, Zenon
  <2>7. \A c \in Devices : after[c] = Absent <=> dev[c] = Absent
    <3>1. \A c \in Devices : after[c] \in Stored /\ dev[c] \in Stored
      BY <2>4, Zenon DEF IInv, Typed
    <3> HIDE DEF after
    <3> QED
      BY <2>3, <3>1, AbsentAdmin, Zenon
  <2>8. \A c \in changed : c \in Devices /\ Present(c)
    BY <2>1, Zenon
  <2> HIDE DEF after, changed
  <2>9. \A c \in changed : Transition(c, after) = "none"
    <3> SUFFICES ASSUME NEW c \in changed PROVE Transition(c, after) = "none"
      BY Zenon
    <3>1. last[c] = after[c].admin
      BY <2>3, <2>8, Zenon
    <3> QED
      BY <3>1, Zenon DEF Transition, AdminStateFsm
  <2>10. sched' = <<>>
    <3>1. /\ Calls(changed, after) \in Seq(ScheduledCalls)
          /\ \A o, c : Sent(Calls(changed, after), o, c) <=>
                c \in changed /\ c \in handlers /\ o \in {"disable", "reenable"} /\ Transition(c, after) = o
      BY <2>4, <2>6, CallsExact, Zenon
    <3>2. \A o, c : ~Sent(Calls(changed, after), o, c)
      BY <2>9, <3>1, Zenon
    <3>3. Calls(changed, after) = <<>>
      BY <3>1, <3>2, <1>NothingSent, Zenon
    <3> QED
      BY <2>5, <3>3
  <2>11. \A c \in Devices : disk'[c] = dev'[c]
    BY <2>5, <2>6, Zenon
  <2>12. \A c \in Devices \ {d} : last'[c] = last[c] \/ last'[c] = after[c].admin
    BY <2>5, Zenon DEF ProcessUpdate
  <2>13. last'[d] = rec.admin
    BY <2>5, Zenon DEF ProcessUpdate
  <2>14. \A c \in Devices : Present(c)' => last'[c] = dev'[c].admin
    BY <2>3, <2>5, <2>7, <2>12, <2>13, ZenonT(30) DEF Present
  <2>15. Children' = Children
    BY <2>5, <2>7, Zenon DEF Children, Present, Devices
  <2> QED
    BY <2>3, <2>5, <2>10, <2>11, <2>14, <2>15, Zenon
(* The reboot of a device sleeps alone and holds the states of a device    *)
(* that rests.                                                             *)
<1>RebootStartsCInv. ASSUME IInv, CInv, NEW d \in Devices, RebootStarts(d) PROVE CInv'
  <2> USE <1>RebootStartsCInv
  <2> DEFINE rec == [dev[d] EXCEPT !.oper = "ACTIVATING", !.conn = "UNREACHABLE"]
             r == [dev |-> d, oper |-> dev[d].oper, conn |-> dev[d].conn]
  <2>0. olt \in Devices /\ olt \notin Onus /\ \A u \in Onus : u \in Devices /\ u # olt
    BY DeviceLifeAssumption, Zenon DEF Devices
  <2>1. /\ Due("reboot", d) /\ Present(d) /\ Connect(d, rec, "UNREACHABLE", Tail(sched))
        /\ reboots' = Append(reboots, r) /\ calm' = calm
        /\ UNCHANGED <<handlers, ld, uni, ldKnown, kpi, host, nniPort, onuPorts, peers>>
    BY Zenon DEF RebootStarts, logical, memory, ports
  <2>2. dev[d] \in Records
    BY <2>1, PresentRecord, Zenon
  <2>3. rec \in Records /\ rec.admin = dev[d].admin /\ rec.parent = dev[d].parent
    BY <2>2, Zenon DEF Records
  <2>4. r.dev = d /\ r.oper = dev[d].oper /\ r.conn = dev[d].conn
    BY Zenon
  <2>5. PortsTyped'
    BY <2>1, Zenon DEF CInv, PortsTyped
  <2> HIDE DEF rec, r
  <2>6. ASSUME calm PROVE Fits'
    <3>1. Fits
      BY <2>6, CInvFits, Zenon
    <3>2. /\ reboots = <<>> /\ Tail(sched) \in Seq(ScheduledCalls)
          /\ \A o, e : ~Sent(Tail(sched), o, e)
          /\ \A o : Sent(sched, o, d) <=> o = "reboot"
          /\ \A o, e : e # d => (Sent(Tail(sched), o, e) <=> Sent(sched, o, e))
      BY <2>1, <3>1, CalmDue, Zenon
    <3>3. Tail(sched) = <<>>
      BY <3>2, <1>NothingSent, Zenon
    <3>4. \A o, e : Sent(sched, o, e) => o = "reboot"
      BY <3>2, Zenon
    <3>5. \A c \in Devices : disk[c] = dev[c] /\ (Present(c) => last[c] = dev[c].admin)
      BY <3>1, <3>4, Zenon DEF Fits, AgentsFit
    <3>6. Connect(d, rec, "UNREACHABLE", <<>>)
      BY <2>1, <3>3, Zenon
    <3>7. /\ sched' = <<>> /\ dev'[d] = rec /\ Children' = Children
          /\ \A c \in Devices : disk'[c] = dev'[c] /\ dev'[c].admin = dev[c].admin
          /\ \A c \in Devices : Present(c)' => last'[c] = dev'[c].admin
          /\ \A c \in Devices \ {d} : dev'[c].oper = dev[c].oper
          /\ \A c \in Devices \ {d} : ~(d = olt /\ c \in Children) => dev'[c] = dev[c]
      BY <2>1, <2>3, <3>5, <3>6, <1>ConnectExact, Zenon
    <3>8. reboots' = <<r>> /\ reboots' # <<>> /\ Len(reboots') = 1 /\ reboots'[1] = r
      BY <2>1, <3>2
    <3>9. \A o, e : ~Sent(sched', o, e)
      BY <3>7, NoCalls, Zenon
    <3>10. OneAtATime'
      <4>1. Present(d)'
        <5>1. \A x \in Records : x # Absent
          BY DEF Records, Absent
        <5> QED
          BY <2>3, <3>7, <5>1, Zenon DEF Present
      <4>2. Orderly(sched')
        BY <3>7, NoCalls, Zenon
      <4> QED
        BY <2>4, <3>7, <3>8, <3>9, <4>1, <4>2, Zenon DEF OneAtATime
    <3>11. AgentsFit'
      <4>1. Children \subseteq handlers
        BY <3>1, <3>4, Zenon DEF Fits, AgentsFit
      <4> QED
        BY <2>0, <2>1, <3>1, <3>7, <4>1, Zenon DEF Fits, AgentsFit
    <3>12. \A e : Asleep(e)' <=> e = d
      BY <2>4, <3>8, Zenon DEF Asleep
    <3>13. \A e : ~Asleep(e) /\ ~Busy(e) /\ ~Busy(e)'
      BY <3>2, <3>4, <3>9, Zenon DEF Asleep, Busy
    <3>14. ASSUME NEW e \in Devices, Rests(e) PROVE Rests(e)'
      <4>1. Oper(e) = dev[e].oper /\ Conn(e) = dev[e].conn
        BY <3>13, Zenon DEF Oper, Conn
      <4>2. Oper(e)' = dev[e].oper
        BY <2>4, <3>7, <3>8, <3>12, Zenon DEF Oper
      <4>3. Conn(e)' = dev[e].conn \/ Conn(e)' = "REACHABLE"
        BY <2>4, <3>7, <3>8, <3>12, Zenon DEF Conn
      <4> QED
        BY <3>7, <3>14, <4>1, <4>2, <4>3, Zenon DEF Rests
    <3>15. OltFits'
      <4>1. Rests(olt)'
        BY <2>0, <3>1, <3>13, <3>14, Zenon DEF Fits, OltFits
      <4>2. dev'[olt].parent = dev[olt].parent
        BY <2>0, <2>3, <3>7, Zenon DEF Children
      <4> QED
        BY <2>0, <2>1, <3>1, <3>4, <3>7, <3>9, <3>13, <4>1, <4>2, Zenon DEF Fits, OltFits
    <3>16. ASSUME NEW u \in Onus PROVE OnuFits(u)'
      <4>1. Rests(u)'
        BY <2>0, <3>1, <3>13, <3>14, Zenon DEF Fits, OnuFits
      <4>2. Present(u)' <=> Present(u)
        BY <3>7, Zenon DEF Children
      <4> QED
        BY <2>0, <2>1, <3>1, <3>4, <3>7, <3>9, <3>13, <4>1, <4>2, Zenon DEF Fits, OnuFits
    <3> QED
      BY <3>10, <3>11, <3>15, <3>16, Zenon DEF Fits
  <2> QED
    BY <2>1, <2>5, <2>6, FitsCInv, Zenon
(* The reboot that wakes up writes the states of a device that rests, and  *)
(* only those.                                                             *)
<1>RebootEndsCInv. ASSUME IInv, CInv, RebootEnds PROVE CInv'
  <2> USE <1>RebootEndsCInv
  <2> DEFINE r == Head(reboots)
             rec == [dev[r.dev] EXCEPT !.oper = r.oper, !.conn = r.conn]
  <2>0. olt \in Devices /\ olt \notin Onus /\ \A u \in Onus : u \in Devices /\ u # olt
    BY DeviceLifeAssumption, Zenon DEF Devices
  <2>1. /\ reboots # <<>> /\ reboots' = Tail(reboots) /\ calm' = calm
        /\ UNCHANGED <<handlers, ld, uni, ldKnown, kpi, host, nniPort, onuPorts, peers>>
        /\ Present(r.dev) => Connect(r.dev, rec, "REACHABLE", sched)
    BY Zenon DEF RebootEnds, logical, memory, ports
  <2>2. r \in Sleeping /\ reboots \in Seq(Sleeping) /\ r = reboots[1]
    BY <2>1 DEF IInv, Typed
  <2>3. r.dev \in Devices /\ r.oper \in {"UNKNOWN", "ACTIVATING", "ACTIVE", "FAILED"} /\ r.conn \in {"UNKNOWN", "REACHABLE", "UNREACHABLE"}
    BY <2>2, Zenon DEF Sleeping
  <2>4. PortsTyped'
    BY <2>1, Zenon DEF CInv, PortsTyped
  <2> HIDE DEF r
  <2>5. ASSUME calm PROVE Fits'
    <3>1. Fits
      BY <2>5, CInvFits, Zenon
    <3>2. sched = <<>> /\ Len(reboots) = 1 /\ Present(r.dev)
      BY <2>1, <2>2, <3>1, Zenon DEF Fits, OneAtATime
    <3>3. reboots' = <<>>
      BY <2>1, <2>2, <3>2
    <3>4. dev[r.dev] \in Records
      BY <2>3, <3>2, PresentRecord, Zenon
    <3>5. /\ rec \in Records /\ rec.admin = dev[r.dev].admin /\ rec.parent = dev[r.dev].parent
          /\ rec.oper = r.oper /\ rec.conn = r.conn
      BY <2>3, <3>4, Zenon DEF Records
    <3> HIDE DEF rec
    <3>6. \A o, e : ~Sent(sched, o, e)
      BY <3>2, NoCalls, Zenon
    <3>7. \A c \in Devices : disk[c] = dev[c] /\ (Present(c) => last[c] = dev[c].admin)
      BY <3>1, <3>6, Zenon DEF Fits, AgentsFit
    <3>8. Connect(r.dev, rec, "REACHABLE", <<>>)
      BY <2>1, <3>2, Zenon
    <3>9. /\ sched' = <<>> /\ dev'[r.dev] = rec /\ Children' = Children
          /\ \A c \in Devices : disk'[c] = dev'[c] /\ dev'[c].admin = dev[c].admin
          /\ \A c \in Devices : Present(c)' => last'[c] = dev'[c].admin
          /\ \A c \in Devices \ {r.dev} : dev'[c].oper = dev[c].oper
          /\ \A c \in Devices \ {r.dev} : r.dev = olt /\ c \in Children => dev'[c].conn = "REACHABLE"
          /\ \A c \in Devices \ {r.dev} : ~(r.dev = olt /\ c \in Children) => dev'[c] = dev[c]
      BY <2>3, <3>2, <3>5, <3>7, <3>8, <1>ConnectExact, Zenon
    <3>10. \A o, e : ~Sent(sched', o, e)
      BY <3>9, NoCalls, Zenon
    <3>11. OneAtATime'
      <4>1. Orderly(sched')
        BY <3>9, NoCalls, Zenon
      <4> QED
        BY <3>3, <3>10, <4>1, OneKind, Zenon
    <3>12. AgentsFit'
      <4>1. Children \subseteq handlers
        BY <3>1, <3>6, Zenon DEF Fits, AgentsFit
      <4> QED
        BY <2>0, <2>1, <3>1, <3>9, <4>1, Zenon DEF Fits, AgentsFit
    <3>13. \A e : (Asleep(e) <=> e = r.dev) /\ ~Asleep(e)' /\ ~Busy(e) /\ ~Busy(e)'
      BY <2>1, <2>2, <3>3, <3>6, <3>10, Zenon DEF Asleep, Busy
    <3>14. ASSUME NEW e \in Devices, Rests(e), e = olt \/ Present(e) PROVE Rests(e)'
      <4>1. Oper(e)' = dev'[e].oper /\ Conn(e)' = dev'[e].conn
        BY <3>13, Zenon DEF Oper, Conn
      <4>2. Oper(e) = dev'[e].oper
        BY <2>1, <2>2, <3>5, <3>9, <3>13, Zenon DEF Oper
      <4>3. Conn(e) = dev'[e].conn
        <5>1. CASE e = r.dev
          BY <2>2, <3>5, <3>9, <3>13, <5>1, Zenon DEF Conn
        <5>2. CASE e # r.dev /\ r.dev = olt
          <6>1. e \in Children
            BY <3>14, <5>2, Zenon DEF Children, Devices
          <6> QED
            BY <3>9, <3>13, <5>2, <6>1, Zenon DEF Conn
        <5>3. CASE e # r.dev /\ r.dev # olt
          BY <3>9, <3>13, <5>3, Zenon DEF Conn
        <5> QED
          BY <5>1, <5>2, <5>3, Zenon
      <4> QED
        BY <3>9, <3>14, <4>1, <4>2, <4>3, Zenon DEF Rests
    <3>15. OltFits'
      <4>1. Rests(olt)'
        BY <2>0, <3>1, <3>13, <3>14, Zenon DEF Fits, OltFits
      <4>2. dev'[olt].parent = dev[olt].parent
        BY <2>0, <3>5, <3>9, Zenon DEF Children
      <4> QED
        BY <2>0, <2>1, <3>1, <3>6, <3>9, <3>10, <3>13, <4>1, <4>2, Zenon DEF Fits, OltFits
    <3>16. ASSUME NEW u \in Onus PROVE OnuFits(u)'
      <4>1. Rests(u)'
        <5>1. CASE Present(u)
          BY <2>0, <3>1, <3>13, <3>14, <5>1, Zenon DEF Fits, OnuFits
        <5>2. CASE ~Present(u)
          <6>1. dev'[u].admin = "absent"
            BY <2>0, <3>9, <5>2 DEF Present, Absent
          <6> QED
            BY <6>1, Zenon DEF Rests
        <5> QED
          BY <5>1, <5>2, Zenon
      <4>2. Present(u)' <=> Present(u)
        BY <3>9, Zenon DEF Children
      <4> QED
        BY <2>0, <2>1, <3>1, <3>6, <3>9, <3>10, <3>13, <4>1, <4>2, Zenon DEF Fits, OnuFits
    <3> QED
      BY <3>11, <3>12, <3>15, <3>16, Zenon DEF Fits
  <2> QED
    BY <2>1, <2>4, <2>5, FitsCInv, Zenon
<1> QED
  BY <1>RebootStartsCInv, <1>RebootEndsCInv, Zenon

(* A call that finds its device gone, or has nothing to do.                *)
LEMMA DropFits ==
    ASSUME IInv, Fits, NEW op, NEW d, Due(op, d), op = "delete" \/ ~Present(d), sched' = Tail(sched),
           op # "disable" => kpi' = kpi,
           UNCHANGED <<dev, disk, last, handlers, reboots, ld, uni, ldKnown, host, nniPort, onuPorts, peers>>
    PROVE  Fits'
<1>1. /\ OneAtATime' /\ reboots' = <<>> /\ reboots = <<>>
      /\ \A o : ~Sent(sched', o, d)
      /\ \A o, e : e # d => (Sent(sched', o, e) <=> Sent(sched, o, e))
  BY CalmTail, Zenon
<1>2. d \in Devices /\ Sent(sched, op, d) /\ \A o : Sent(sched, o, d) <=> o = op
  BY CalmDue, Zenon
<1>3. op \notin Changing
  <2>1. CASE op = "delete"
    BY <2>1, Zenon DEF Changing
  <2>2. CASE ~Present(d)
    <3>1. dev[d].admin = "absent"
      BY <2>2 DEF Present, Absent
    <3>2. CASE d = olt
      BY <1>2, <3>1, <3>2, Zenon DEF Fits, OltFits, Changing
    <3>3. CASE d \in Onus
      BY <1>2, <3>1, <3>3, Zenon DEF Fits, OnuFits, Changing
    <3> QED
      BY <1>2, <3>2, <3>3, Zenon DEF Devices
  <2> QED
    BY <2>1, <2>2, Zenon
<1>4. \A e : \A o \in Changing : Sent(sched', o, e) <=> Sent(sched, o, e)
  BY <1>1, <1>2, <1>3, Zenon
<1>5. AgentsFit'
  <2>1. \A e : (Sent(sched', "activate", e) <=> Sent(sched, "activate", e)) /\ (Sent(sched', "reconcile", e) <=> Sent(sched, "reconcile", e))
    BY <1>4, Zenon DEF Changing
  <2> QED
    BY <2>1, Zenon DEF Fits, AgentsFit, Present, Children
<1>6. OltFits'
  <2>1. kpi' = kpi
    BY <1>3, Zenon DEF Changing
  <2>2. SameOlt
    BY <1>1, <1>4, <2>1, Zenon DEF SameOlt, Children, Present
  <2> QED
    BY <2>2, SameOltFits, Zenon DEF Fits
<1>7. ASSUME NEW v \in Onus PROVE OnuFits(v)'
  <2>1. SameOnu(v)
    BY <1>1, <1>4, Zenon DEF SameOnu
  <2> QED
    BY <2>1, SameOnuFits, Zenon DEF Fits
<1> QED
  BY <1>1, <1>5, <1>6, <1>7, Zenon DEF Fits

(* A call that finds its device gone, or has nothing to do.                *)
LEMMA GoneCInv ==
    ASSUME IInv, CInv, NEW op, NEW d, Gone(op, d) \/ (op = "delete" /\ Deleted(d))
    PROVE  CInv'
<1>1. /\ Due(op, d) /\ (op = "delete" \/ ~Present(d)) /\ sched' = Tail(sched) /\ calm' = calm
      /\ op # "disable" => kpi' = kpi
      /\ UNCHANGED <<dev, disk, last, handlers, reboots, ld, uni, ldKnown, host, nniPort, onuPorts, peers>>
  BY Zenon DEF Gone, Deleted, tree, logical, memory, ports
<1>2. PortsTyped'
  BY <1>1, Zenon DEF CInv, PortsTyped
<1>3. calm => Fits'
  BY <1>1, CInvFits, DropFits, Zenon
<1> QED
  BY <1>1, <1>2, <1>3, FitsCInv, Zenon

(* A step that ends the calm.                                              *)
LEMMA StormCInv == ASSUME CInv, ~calm', UNCHANGED <<uni, peers>> PROVE CInv'
<1>1. PortsTyped'
  BY Zenon DEF CInv, PortsTyped
<1> QED
  BY <1>1, FitsCInv, Zenon

(* After a call that the OLT does not answer, or of an OLT that has no     *)
(* address, the history is not calm.                                       *)
LEMMA FailsCInv == ASSUME CInv, OltUnreachable \/ OltReconcileFails \/ OltWithoutHost PROVE CInv'
<1>1. calm => host
  BY CInvFits, Zenon DEF Fits, OltFits
<1>2. ~calm' /\ UNCHANGED <<uni, peers>>
  <2>1. CASE OltUnreachable
    BY <2>1, Zenon DEF OltUnreachable, Fail, logical, ports
  <2>2. CASE OltReconcileFails
    BY <2>2, Zenon DEF OltReconcileFails, Fail, logical, ports
  <2>3. CASE OltWithoutHost
    <3>1. ~host /\ calm' = calm /\ UNCHANGED <<uni, peers>>
      BY <2>3, Zenon DEF OltWithoutHost, logical, ports
    <3> QED
      BY <1>1, <3>1, Zenon
  <2> QED
    BY <2>1, <2>2, <2>3, Zenon
<1> QED
  BY <1>2, StormCInv, Zenon

-----------------------------------------------------------------------------
(* The requests of the operator and a restart.                             *)

(* A queue of one call, and an empty one.                                  *)
LEMMA SingleCall ==
    ASSUME NEW c \in ScheduledCalls,
           c.op = "reconcile" /\ c.dev = olt => c.arg.conn = "REACHABLE" /\ c.arg.parent
    PROVE  /\ <<c>> \in Seq(ScheduledCalls) /\ Orderly(<<c>>)
           /\ \A op, d : Sent(<<c>>, op, d) <=> c.op = op /\ c.dev = d
<1>1. Len(<<c>>) = 1 /\ <<c>>[1] = c /\ <<c>> \in Seq(ScheduledCalls)
  OBVIOUS
<1> DEFINE q == <<c>>
<1> HIDE DEF q
<1>2. Len(q) = 1 /\ q[1] = c
  BY <1>1, Zenon DEF q
<1>3. \A i \in 1..Len(q) : i = 1
  BY <1>2
<1>4. 1 \in 1..Len(q)
  BY <1>2
<1>5. Orderly(q)
  BY <1>2, <1>3, Zenon DEF Orderly
<1>6. ASSUME NEW op, NEW d PROVE Sent(q, op, d) <=> c.op = op /\ c.dev = d
  BY <1>2, <1>3, <1>4, Zenon DEF Sent
<1> QED
  BY <1>1, <1>5, <1>6, Zenon DEF q

(* Nothing is scheduled and nobody sleeps: the devices rest.               *)
LEMMA CalmSettled ==
    ASSUME IInv, Fits, Settled
    PROVE  /\ sched = <<>> /\ reboots = <<>> /\ \A op, d : ~Sent(sched, op, d)
           /\ \A d \in Devices : ~Busy(d) /\ Rests(d) /\ Oper(d) = dev[d].oper /\ Conn(d) = dev[d].conn
           /\ \A d \in Devices : disk[d] = dev[d] /\ (Present(d) => last[d] = dev[d].admin)
           /\ Children \subseteq handlers
           /\ ld <=> dev[olt].admin = "ENABLED"
           /\ \A u \in Onus : dev[u].admin = "ENABLED" => ld
           /\ \A u \in Onus : (u \in uni <=> dev[u].admin = "ENABLED") /\ (u \in Range(peers) <=> dev[u].admin = "ENABLED")
           /\ \A u \in Onus : Present(u) => u \in onuPorts
<1>1. sched = <<>> /\ reboots = <<>> /\ \A op, d : ~Sent(sched, op, d)
  BY NoCalls, Zenon DEF Settled
<1>2. \A d : ~Busy(d)
  BY <1>1, Zenon DEF Busy
<1>3. \A d : ~Asleep(d)
  BY <1>1, Zenon DEF Asleep
<1>4. \A d : Oper(d) = dev[d].oper /\ Conn(d) = dev[d].conn
  BY <1>3, Zenon DEF Oper, Conn
<1>5. Rests(olt) /\ (ld <=> dev[olt].admin = "ENABLED")
  BY <1>2, Zenon DEF Fits, OltFits
<1>6. \A u \in Onus : Rests(u) /\ (u \in uni <=> dev[u].admin = "ENABLED") /\ (u \in Range(peers) <=> dev[u].admin = "ENABLED")
  BY <1>2, Zenon DEF Fits, OnuFits
<1>7. \A u \in Onus : (dev[u].admin = "ENABLED" => ld) /\ (Present(u) => u \in onuPorts)
  BY <1>1, Zenon DEF Fits, OnuFits
<1>8. /\ \A d \in Devices : disk[d] = dev[d] /\ (Present(d) => last[d] = dev[d].admin)
      /\ Children \subseteq handlers
  BY <1>1, Zenon DEF Fits, AgentsFit
<1>9. \A d \in Devices : Rests(d)
  BY <1>5, <1>6, Zenon DEF Devices
<1> QED
  BY <1>1, <1>2, <1>4, <1>5, <1>6, <1>7, <1>8, <1>9, Zenon

(* LocalHandler.CreateDevice: the new OLT has no ONU and nothing           *)
(* scheduled.                                                              *)
LEMMA CreateCInv == ASSUME IInv, CInv, NEW hasHost \in BOOLEAN, CreateDevice(hasHost) PROVE CInv'
<1>1. /\ olt \notin known /\ dev' = [dev EXCEPT ![olt] = NewOlt] /\ disk' = [disk EXCEPT ![olt] = NewOlt]
      /\ last' = [last EXCEPT ![olt] = "PREPROVISIONED"] /\ calm' = (calm /\ hasHost /\ Settled) /\ host' = hasHost
      /\ UNCHANGED <<handlers, sched, reboots, ld, uni, ldKnown, kpi, nniPort, onuPorts, peers>>
  BY Zenon DEF CreateDevice, Request, logical, memory, ports
<1>2. PortsTyped'
  BY <1>1, Zenon DEF CInv, PortsTyped
<1>3. ASSUME calm' PROVE Fits'
  <2>0. olt \in Devices /\ olt \notin Onus /\ NewOlt.admin = "PREPROVISIONED" /\ NewOlt # Absent
    BY DeviceLifeAssumption, Zenon DEF Devices, NewOlt, Absent
  <2>1. Fits /\ Settled
    BY <1>1, <1>3, CInvFits, Zenon
  <2>2. /\ sched = <<>> /\ reboots = <<>> /\ \A op, d : ~Sent(sched, op, d)
        /\ ld <=> dev[olt].admin = "ENABLED"
        /\ \A d \in Devices : disk[d] = dev[d] /\ (Present(d) => last[d] = dev[d].admin)
        /\ Children \subseteq handlers
    BY <2>1, CalmSettled, Zenon
  <2>3. dev[olt] = Absent /\ dev[olt].admin = "absent"
    BY <1>1 DEF IInv, OneActivation, Present, Absent
  <2>4. Children = {} /\ ~ld
    BY <2>1, <2>2, <2>3, Zenon DEF Fits, AgentsFit
  <2>5. /\ dev'[olt] = NewOlt /\ disk'[olt] = NewOlt /\ last'[olt] = "PREPROVISIONED"
        /\ \A d \in Devices \ {olt} : dev'[d] = dev[d] /\ disk'[d] = disk[d] /\ last'[d] = last[d]
    BY <1>1, <2>0, Zenon DEF IInv, Typed
  <2>6. Children' = Children
    BY <2>0, <2>5, Zenon DEF Children, Present, Devices
  <2>7. \A op, d : ~Sent(sched', op, d)
    BY <1>1, <2>2, Zenon
  <2>8. OneAtATime'
    BY <1>1, <2>1, <2>2, <2>7, OneKind, Zenon DEF Fits, OneAtATime
  <2>9. AgentsFit'
    BY <1>1, <2>0, <2>2, <2>4, <2>5, <2>6, <2>7, Zenon DEF AgentsFit, Present
  <2>10. OltFits'
    <3>1. Rests(olt)'
      BY <2>0, <2>5, Zenon DEF Rests
    <3> QED
      BY <1>1, <1>3, <2>0, <2>4, <2>5, <2>7, <3>1, Zenon DEF OltFits
  <2>11. ASSUME NEW u \in Onus PROVE OnuFits(u)'
    <3>1. SameOnu(u)
      BY <1>1, <2>0, <2>2, <2>5, <2>7, Zenon DEF SameOnu, Devices
    <3> QED
      BY <2>1, <3>1, SameOnuFits, Zenon DEF Fits
  <2> QED
    BY <2>8, <2>9, <2>10, <2>11, Zenon DEF Fits
<1> QED
  BY <1>2, <1>3, FitsCInv, Zenon

(* LocalHandler.EnableDevice of a new OLT: the activation is the only      *)
(* call.                                                                   *)
LEMMA EnableNewCInv == ASSUME IInv, CInv, EnableNew PROVE CInv'
<1> DEFINE rec == [dev[olt] EXCEPT !.admin = "ENABLED"]
           activating == [rec EXCEPT !.oper = "ACTIVATING"]
           call == CallWith("activate", olt, activating)
<1>0. olt \in Devices /\ olt \notin Onus /\ dev[olt].admin = "PREPROVISIONED" /\ dev[olt] \in Records
  BY DeviceLifeAssumption DEF Devices, EnableNew, IInv, Typed, Stored, Absent
<1>1. activating \in Records /\ activating.admin = "ENABLED" /\ activating # Absent
  BY <1>0, Zenon DEF Records, Absent
<1>2. call \in ScheduledCalls /\ call.op = "activate" /\ call.dev = olt
  BY <1>0, <1>1, Zenon DEF CallWith, ScheduledCalls, Ops, Stored
<1>3. /\ dev' = [dev EXCEPT ![olt] = activating] /\ disk' = [disk EXCEPT ![olt] = rec]
      /\ last' = [last EXCEPT ![olt] = "ENABLED"] /\ sched' = Append(sched, call)
      /\ handlers' = handlers \cup {olt} /\ calm' = (calm /\ TRUE /\ Settled)
      /\ UNCHANGED <<reboots, ld, uni, ldKnown, kpi, host, nniPort, onuPorts, peers>>
  BY Zenon DEF EnableNew, Request, logical, memory, ports
<1> HIDE DEF rec, activating, call
<1>4. PortsTyped'
  BY <1>3, Zenon DEF CInv, PortsTyped
<1>5. ASSUME calm' PROVE Fits'
  <2>1. Fits /\ Settled
    BY <1>3, <1>5, CInvFits, Zenon
  <2>2. /\ sched = <<>> /\ reboots = <<>> /\ \A op, d : ~Sent(sched, op, d)
        /\ ld <=> dev[olt].admin = "ENABLED"
        /\ \A d \in Devices : disk[d] = dev[d] /\ (Present(d) => last[d] = dev[d].admin)
    BY <2>1, CalmSettled, Zenon
  <2>3. Children = {} /\ ~ld
    BY <1>0, <2>1, <2>2, Zenon DEF Fits, AgentsFit
  <2>4. /\ dev'[olt] = activating /\ last'[olt] = "ENABLED"
        /\ \A d \in Devices \ {olt} : dev'[d] = dev[d] /\ disk'[d] = disk[d] /\ last'[d] = last[d]
    BY <1>0, <1>3, Zenon DEF IInv, Typed
  <2>5. Children' = Children
    BY <1>0, <2>4, Zenon DEF Children, Present, Devices
  <2>6. Orderly(sched') /\ \A op, d : Sent(sched', op, d) <=> op = "activate" /\ d = olt
    <3>1. sched' = <<call>>
      BY <1>3, <2>2
    <3> QED
      BY <1>2, <3>1, SingleCall, Zenon
  <2>7. OneAtATime'
    BY <1>0, <1>3, <2>2, <2>6, OneKind, ZenonT(30)
  <2>8. AgentsFit'
    BY <1>0, <1>1, <1>3, <2>2, <2>3, <2>4, <2>5, <2>6, ZenonT(30) DEF AgentsFit, Present
  <2>9. OltFits'
    <3>1. Busy(olt)'
      BY <2>6, Zenon DEF Busy
    <3>2. host
      BY <2>1, Zenon DEF Fits, OltFits
    <3> QED
      BY <1>1, <1>3, <2>3, <2>4, <2>5, <2>6, <3>1, <3>2 DEF OltFits
  <2>10. ASSUME NEW u \in Onus PROVE OnuFits(u)'
    <3>1. SameOnu(u)
      BY <1>0, <1>3, <2>2, <2>4, <2>6 DEF SameOnu, Devices
    <3> QED
      BY <2>1, <3>1, SameOnuFits, Zenon DEF Fits
  <2> QED
    BY <2>7, <2>8, <2>9, <2>10, Zenon DEF Fits
<1> QED
  BY <1>4, <1>5, FitsCInv, Zenon

(* LocalHandler.EnableDevice and DisableDevice: on a settled system the    *)
(* one call that the agent schedules finds what it needs.                  *)
LEMMA SetAdminCInv ==
    ASSUME IInv, CInv, NEW d \in Devices, NEW old \in {"ENABLED", "DISABLED"}, NEW new \in {"ENABLED", "DISABLED"},
           old # new, SetAdmin(d, old, new)
    PROVE  CInv'
<1> DEFINE after == [dev EXCEPT ![d].admin = new]
           op == IF new = "ENABLED" THEN "reenable" ELSE "disable"
<1>0. olt \in Devices /\ olt \notin Onus
  BY DeviceLifeAssumption, Zenon DEF Devices
<1>1. dev[d] \in Records /\ Present(d) /\ dev[d].admin = old
  BY DEF SetAdmin, IInv, Typed, Stored, Absent, Present
<1>2. after[d] \in Records /\ after[d].admin = new /\ \A c \in Devices \ {d} : after[c] = dev[c]
  BY <1>1, Zenon DEF Records, IInv, Typed
<1>3. after \in [Devices -> Stored] /\ after[d] # Absent
  <2>1. after \in [Devices -> Stored]
    BY <1>1, Zenon DEF Records, IInv, Typed, Stored
  <2>2. \A rec \in Records : rec # Absent
    BY DEF Records, Absent
  <2> QED
    BY <1>2, <2>1, <2>2, Zenon
<1>4. /\ dev' = after /\ disk' = [disk EXCEPT ![d] = after[d]]
      /\ last' = ProcessUpdate({d}, after) /\ sched' = sched \o Calls({d}, after)
      /\ calm' = (calm /\ Careful(d, new) /\ Settled)
      /\ UNCHANGED <<handlers, reboots, ld, uni, ldKnown, kpi, host, nniPort, onuPorts, peers>>
  BY Zenon DEF SetAdmin, Request, logical, memory, ports
<1> HIDE DEF after
<1>5. PortsTyped'
  BY <1>4, Zenon DEF CInv, PortsTyped
<1>6. ASSUME calm' PROVE Fits'
  <2>1. Fits /\ Settled /\ (d \in Onus => dev[olt].admin = "ENABLED") /\ (d = olt /\ new = "DISABLED" => kpi = "running")
    BY <1>4, <1>6, CInvFits, Zenon DEF Careful
  <2>2. /\ sched = <<>> /\ reboots = <<>> /\ \A o, c : ~Sent(sched, o, c)
        /\ \A c \in Devices : disk[c] = dev[c] /\ (Present(c) => last[c] = dev[c].admin)
        /\ Children \subseteq handlers
        /\ ld <=> dev[olt].admin = "ENABLED"
        /\ \A u \in Onus : (u \in uni <=> dev[u].admin = "ENABLED") /\ (dev[u].admin = "ENABLED" => ld)
        /\ \A u \in Onus : Present(u) => u \in onuPorts
    BY <2>1, CalmSettled, Zenon
  <2>3. d \in handlers
    BY <1>1, <2>1, <2>2, Zenon DEF Fits, AgentsFit, Children, Devices
  <2>4. Transition(d, after) = op
    <3>1. last[d] = old /\ after[d].admin = new
      BY <1>1, <1>2, <2>2, Zenon
    <3> QED
      BY <3>1 DEF Transition, AdminStateFsm
  <2>5. /\ last'[d] = new /\ \A c \in Devices \ {d} : last'[c] = last[c]
        /\ disk'[d] = dev'[d] /\ \A c \in Devices \ {d} : disk'[c] = disk[c]
        /\ dev'[d].admin = new /\ dev'[d] # Absent /\ \A c \in Devices \ {d} : dev'[c] = dev[c]
    <3>1. \A c \in Devices : last'[c] = IF c \notin {d} \/ (Transition(c, after) = "reenable" /\ c \notin handlers)
                                        THEN last[c] ELSE after[c].admin
      BY <1>4, Zenon DEF ProcessUpdate
    <3> QED
      BY <1>2, <1>3, <1>4, <2>3, <3>1, Zenon DEF IInv, Typed
  <2>6. Orderly(sched') /\ \A o, c : Sent(sched', o, c) <=> o = op /\ c = d
    <3>1. /\ Calls({d}, after) \in Seq(ScheduledCalls) /\ Orderly(Calls({d}, after))
          /\ \A o, c : Sent(Calls({d}, after), o, c) <=>
                c \in {d} /\ c \in handlers /\ o \in {"disable", "reenable"} /\ Transition(c, after) = o
      BY <1>3, CallsExact
    <3>2. sched' = Calls({d}, after)
      BY <1>4, <2>2, <3>1, NothingBefore, Zenon
    <3> QED
      BY <2>3, <2>4, <3>1, <3>2, Zenon
  <2>7. Children' = Children
    BY <1>1, <2>5, Zenon DEF Children, Present, Devices
  <2>8. OneAtATime'
    BY <1>4, <2>2, <2>6, OneKind, ZenonT(30)
  <2>9. AgentsFit'
    <3>1. \A c \in Devices : Present(c)' => last'[c] = dev'[c].admin
      BY <1>1, <2>2, <2>5, Zenon DEF Present
    <3>2. \A c \in Devices : disk'[c] = dev'[c]
      BY <2>2, <2>5, Zenon
    <3>3. dev'[olt].admin \in {"ENABLED", "DISABLED"} <=> dev[olt].admin \in {"ENABLED", "DISABLED"}
      BY <1>0, <1>1, <2>5, Zenon
    <3> QED
      BY <1>4, <2>1, <2>2, <2>7, <3>1, <3>2, <3>3, Zenon DEF Fits, AgentsFit
  <2>10. OltFits'
    <3>1. CASE d = olt
      <4>1. Busy(olt)'
        BY <2>6, <3>1, Zenon DEF Busy
      <4>2. dev[olt].admin = "ENABLED" => ldKnown
        <5>1. ~Busy(olt) /\ ~Sent(sched, "reconcile", olt)
          BY <2>2, Zenon DEF Busy
        <5> QED
          BY <2>1, <5>1, Zenon DEF Fits, OltFits
      <4>3. nniPort /\ host
        BY <1>1, <2>1, <2>2, <3>1, Zenon DEF Fits, OltFits
      <4>4. ~Sent(sched', "activate", olt) /\ ~Sent(sched', "reconcile", olt)
        BY <2>6
      <4>5. /\ Sent(sched', "disable", olt) => new = "DISABLED" /\ old = "ENABLED"
            /\ Sent(sched', "reenable", olt) => new = "ENABLED" /\ old = "DISABLED"
        BY <2>6
      <4>6. old = "ENABLED" => ld /\ ldKnown
        BY <1>1, <2>2, <3>1, <4>2, Zenon
      <4>7. old = "DISABLED" => ~ld
        BY <1>1, <2>2, <3>1, Zenon
      <4>8. dev'[olt].admin = new /\ ld' = ld /\ ldKnown' = ldKnown /\ nniPort' = nniPort /\ kpi' = kpi /\ host' = host
        BY <1>4, <2>5, <3>1, Zenon
      <4>9. new = "DISABLED" => kpi = "running"
        BY <2>1, <3>1, Zenon
      <4> QED
        BY <4>1, <4>3, <4>4, <4>5, <4>6, <4>7, <4>8, <4>9, Zenon DEF OltFits
    <3>2. CASE d # olt
      <4>1. SameOlt
        BY <1>0, <1>4, <2>2, <2>5, <2>6, <2>7, <3>2, Zenon DEF SameOlt
      <4> QED
        BY <2>1, <4>1, SameOltFits, Zenon DEF Fits
    <3> QED
      BY <3>1, <3>2, Zenon
  <2>11. ASSUME NEW u \in Onus PROVE OnuFits(u)'
    <3>1. CASE u # d
      <4>1. SameOnu(u)
        BY <1>4, <2>2, <2>5, <2>6, <3>1, Zenon DEF SameOnu, Devices
      <4> QED
        BY <2>1, <4>1, SameOnuFits, Zenon DEF Fits
    <3>2. CASE u = d
      <4>1. Busy(u)'
        BY <2>6, <3>2, Zenon DEF Busy
      <4>2. u \in onuPorts /\ ld /\ (u \in uni <=> old = "ENABLED")
        BY <1>1, <2>1, <2>2, <3>2, Zenon
      <4>3. /\ ~Sent(sched', "activate", u) /\ ~Sent(sched', "reconcile", u)
            /\ Sent(sched', "disable", u) => new = "DISABLED"
            /\ Sent(sched', "reenable", u) => new = "ENABLED"
        BY <2>6
      <4>4. dev'[u].admin = new /\ (new = "ENABLED" => u \notin uni') /\ ld' /\ u \in onuPorts'
        BY <1>4, <2>5, <3>2, <4>2, Zenon
      <4> QED
        BY <4>1, <4>3, <4>4, Zenon DEF OnuFits
    <3> QED
      BY <3>1, <3>2, Zenon
  <2> QED
    BY <2>8, <2>9, <2>10, <2>11, Zenon DEF Fits
<1> QED
  BY <1>5, <1>6, FitsCInv, Zenon

(* LocalHandler.RebootDevice: on a settled system the reboot is alone in   *)
(* the queue.                                                              *)
LEMMA RebootDeviceCInv == ASSUME IInv, CInv, NEW d \in Devices, RebootDevice(d) PROVE CInv'
<1>1. /\ Present(d) /\ sched' = (IF d \in handlers THEN Append(sched, Call("reboot", d)) ELSE sched)
      /\ calm' = (calm /\ d \in handlers /\ Settled)
      /\ UNCHANGED <<dev, disk, last, handlers, reboots, ld, uni, ldKnown, kpi, host, nniPort, onuPorts, peers>>
  BY Zenon DEF RebootDevice, Request, tree, logical, memory, ports
<1>2. PortsTyped'
  BY <1>1, Zenon DEF CInv, PortsTyped
<1>3. ASSUME calm' PROVE Fits'
  <2>1. Fits /\ Settled /\ d \in handlers
    BY <1>1, <1>3, CInvFits, Zenon
  <2>2. sched = <<>> /\ reboots = <<>> /\ \A o, c : ~Sent(sched, o, c)
    BY <2>1, CalmSettled, Zenon
  <2>3. Orderly(sched') /\ \A o, c : Sent(sched', o, c) <=> o = "reboot" /\ c = d
    <3>1. sched' = <<Call("reboot", d)>>
      BY <1>1, <2>1, <2>2
    <3>2. Call("reboot", d) \in ScheduledCalls /\ Call("reboot", d).op = "reboot" /\ Call("reboot", d).dev = d
      BY Zenon DEF Call, ScheduledCalls, Ops, Stored
    <3> QED
      BY <3>1, <3>2, SingleCall, Zenon
  <2>4. OneAtATime'
    BY <1>1, <2>2, <2>3, OneKind
  <2>5. \A c : \A o \in Changing : Sent(sched', o, c) <=> Sent(sched, o, c)
    BY <2>2, <2>3, Zenon DEF Changing
  <2>6. AgentsFit'
    <3>1. \A c : ~Sent(sched', "activate", c) /\ ~Sent(sched', "reconcile", c)
      BY <2>3
    <3> QED
      BY <1>1, <2>1, <2>2, <3>1, Zenon DEF Fits, AgentsFit, Present, Children
  <2>7. OltFits'
    <3>1. SameOlt
      BY <1>1, <2>2, <2>5, Zenon DEF SameOlt, Children, Present
    <3> QED
      BY <2>1, <3>1, SameOltFits, Zenon DEF Fits
  <2>8. ASSUME NEW v \in Onus PROVE OnuFits(v)'
    <3>1. SameOnu(v)
      BY <1>1, <2>2, <2>5, Zenon DEF SameOnu
    <3> QED
      BY <2>1, <3>1, SameOnuFits, Zenon DEF Fits
  <2> QED
    BY <2>4, <2>6, <2>7, <2>8, Zenon DEF Fits
<1> QED
  BY <1>2, <1>3, FitsCInv, Zenon

(* LocalHandler.DeleteDevice: the OLT and its ONUs leave the tree          *)
(* together, and only their deletions are scheduled.                       *)
LEMMA DeleteCInv == ASSUME IInv, CInv, DeleteDevice PROVE CInv'
<1> DEFINE own == IF olt \in handlers THEN <<Call("delete", olt)>> ELSE <<>>
           q == Deletions
<1>0. olt \in Devices /\ olt \notin Onus
  BY DeviceLifeAssumption, Zenon DEF Devices
<1>1. /\ dev[olt].admin \in {"DISABLED", "PREPROVISIONED"}
      /\ calm' = (calm /\ TRUE /\ Settled)
      /\ UNCHANGED <<handlers, reboots, ld, uni, ldKnown, kpi, host, nniPort, onuPorts, peers>>
  BY Zenon DEF DeleteDevice, Request, logical, memory, ports
<1>10. ASSUME Children \subseteq handlers
       PROVE  /\ dev' = [d \in Devices |-> IF d \in Devices THEN Absent ELSE dev[d]]
              /\ disk' = [d \in Devices |-> IF d \in Devices THEN Absent ELSE disk[d]]
              /\ sched' = (sched \o q) \o own
  BY <1>10, Zenon DEF DeleteDevice
<1>2. \A d : Call("delete", d).op = "delete" /\ Call("delete", d).dev = d
  BY Zenon DEF Call
<1>3. \A d \in Devices : Call("delete", d) \in ScheduledCalls
  BY Zenon DEF Call, ScheduledCalls, Ops, Stored
<1>6. PortsTyped'
  BY <1>1, Zenon DEF CInv, PortsTyped
<1>7. /\ q \in Seq(ScheduledCalls) /\ Orderly(q)
      /\ \A o, c : Sent(q, o, c) => o = "delete" /\ c \in Onus
  <2> DEFINE gone == Children \cap handlers
  <2>1. gone \in SUBSET Devices /\ gone \subseteq Onus
    BY Zenon DEF Children, Devices
  <2>2. /\ q \in Seq(ScheduledCalls) /\ Len(q) = Cardinality(gone)
        /\ \A i \in 1..Len(q) : q[i].op = "delete" /\ q[i].dev = Listed(gone)[i]
    BY DeletionsSent, Zenon
  <2> HIDE DEF q, gone
  <2>3. Orderly(q) /\ \A o, c : Sent(q, o, c) => c \in gone
    BY <2>1, <2>2, ListedOrderly, Zenon
  <2> QED
    BY <2>1, <2>2, <2>3, Zenon DEF Sent
<1>8. /\ own \in Seq(ScheduledCalls) /\ Orderly(own)
      /\ \A o, c : Sent(own, o, c) => o = "delete" /\ c = olt
  <2>1. CASE olt \in handlers
    BY <1>0, <1>2, <1>3, <2>1, SingleCall
  <2>2. CASE olt \notin handlers
    BY <2>2, NoCalls, Zenon
  <2> QED
    BY <2>1, <2>2, Zenon
<1> HIDE DEF q, own
<1>9. ASSUME calm' PROVE Fits'
  <2>1. Fits /\ Settled
    BY <1>1, <1>9, CInvFits, Zenon
  <2>2. /\ sched = <<>> /\ reboots = <<>> /\ Children \subseteq handlers /\ host
        /\ ld <=> dev[olt].admin = "ENABLED"
        /\ \A u \in Onus : (u \in uni <=> dev[u].admin = "ENABLED") /\ (u \in Range(peers) <=> dev[u].admin = "ENABLED")
        /\ \A u \in Onus : dev[u].admin = "ENABLED" => ld
    BY <2>1, CalmSettled, Zenon DEF Fits, OltFits
  <2>3. ~ld /\ \A u \in Onus : u \notin uni /\ u \notin Range(peers)
    BY <1>1, <2>2, Zenon
  <2>4. Orderly(sched') /\ \A o, c : Sent(sched', o, c) => o = "delete"
    <3>1. sched' = q \o own
      BY <1>10, <1>7, <2>2, NothingBefore, Zenon
    <3>2. Apart(q, own)
      BY <1>0, <1>7, <1>8, Zenon DEF Apart
    <3>3. \A o, c : Sent(q \o own, o, c) <=> Sent(q, o, c) \/ Sent(own, o, c)
      BY <1>7, <1>8, ConcatSent, Zenon
    <3>4. Orderly(q \o own)
      BY <1>7, <1>8, <3>2, ConcatOrderly, Zenon
    <3> QED
      BY <1>7, <1>8, <3>1, <3>3, <3>4, Zenon
  <2>5. \A d \in Devices : dev'[d] = Absent /\ disk'[d] = Absent /\ dev'[d].admin = "absent"
    <3>1. /\ dev' = [d \in Devices |-> IF d \in Devices THEN Absent ELSE dev[d]]
          /\ disk' = [d \in Devices |-> IF d \in Devices THEN Absent ELSE disk[d]]
      BY <1>10, <2>2, Zenon
    <3>2. Absent.admin = "absent"
      BY Zenon DEF Absent
    <3>3. \A d \in Devices : dev'[d] = Absent /\ disk'[d] = Absent
      BY <3>1, Zenon
    <3> QED
      BY <3>2, <3>3, Zenon
  <2>6. Children' = {}
    BY <2>5, Zenon DEF Children, Present, Devices
  <2>7. OneAtATime'
    BY <1>1, <2>2, <2>4, OneKind, Zenon
  <2>8. AgentsFit'
    BY <1>0, <2>5, <2>6, Zenon DEF AgentsFit, Present
  <2>9. \A d \in Devices : Rests(d)'
    BY <2>5, Zenon DEF Rests
  <2>10. OltFits'
    BY <1>0, <1>1, <2>2, <2>3, <2>4, <2>5, <2>9, Zenon DEF OltFits
  <2>11. ASSUME NEW u \in Onus PROVE OnuFits(u)'
    BY <1>1, <2>3, <2>4, <2>5, <2>9, Zenon DEF OnuFits, Present, Devices
  <2> QED
    BY <2>7, <2>8, <2>10, <2>11, Zenon DEF Fits
<1> QED
  BY <1>6, <1>9, FitsCInv, Zenon

(* A restart of a settled system loads what was last stored, and schedules *)
(* the reconciliation of the OLT when it is enabled.                       *)
LEMMA RestartCInv == ASSUME IInv, CInv, Restart PROVE CInv'
<1>0. olt \in Devices /\ olt \notin Onus
  BY DeviceLifeAssumption, Zenon DEF Devices
<1>1. /\ dev' = disk /\ reboots' = <<>> /\ ldKnown' = FALSE /\ calm' = (calm /\ Settled)
      /\ last' = [d \in Devices |-> IF disk[d] = Absent THEN "none" ELSE disk[d].admin]
      /\ UNCHANGED <<disk, host, ld, uni, nniPort, onuPorts, peers>>
  BY Zenon DEF Restart, logical, ports
<1>2. disk[olt] = Absent => handlers' = {} /\ sched' = <<>>
  BY DEF Restart, Absent
<1>3. disk[olt] # Absent /\ disk[olt].admin = "ENABLED" =>
        handlers' = {olt} /\ sched' = <<CallWith("reconcile", olt, disk[olt])>>
  BY Zenon DEF Restart
<1>4. disk[olt] # Absent /\ disk[olt].admin # "ENABLED" =>
        handlers' = {d \in Devices : disk[d] # Absent} /\ sched' = Reconciling(disk)
  BY Zenon DEF Restart
<1>5. PortsTyped'
  BY <1>1, Zenon DEF CInv, PortsTyped
<1>6. ASSUME calm' PROVE Fits'
  <2>1. Fits /\ Settled
    BY <1>1, <1>6, CInvFits, Zenon
  <2>2. /\ sched = <<>> /\ reboots = <<>> /\ \A o, c : ~Sent(sched, o, c)
        /\ \A d \in Devices : disk[d] = dev[d]
        /\ ld <=> dev[olt].admin = "ENABLED"
        /\ \A u \in Onus : dev[u].admin = "ENABLED" => ld
    BY <2>1, CalmSettled, ZenonT(30)
  <2>3. Rests(olt) /\ ~Busy(olt) /\ Oper(olt) = dev[olt].oper /\ Conn(olt) = dev[olt].conn
    BY <1>0, <2>1, CalmSettled, Zenon
  <2>4. \A d \in Devices : dev'[d] = dev[d] /\ disk'[d] = dev[d]
    BY <1>1, <2>2, Zenon
  <2>5. /\ Children' = Children
        /\ \A d \in Devices : Present(d)' => last'[d] = dev'[d].admin
    BY <1>1, <2>2, <2>4, Zenon DEF Children, Present, Devices
  <2>6. dev[olt].admin \notin {"ENABLED", "DISABLED"} => Children = {}
    BY <2>1, Zenon DEF Fits, AgentsFit
  <2>7. dev[olt].admin = "ENABLED" => dev[olt].conn = "REACHABLE" /\ dev[olt].parent
    BY <2>1, <2>3, Zenon DEF Fits, OltFits, Rests
  <2>8. host /\ (dev[olt].admin \in {"ENABLED", "DISABLED"} => nniPort)
    BY <2>1, <2>2, Zenon DEF Fits, OltFits
  <2>9. /\ Orderly(sched')
        /\ \A o, c : Sent(sched', o, c) <=> o = "reconcile" /\ c = olt /\ dev[olt].admin = "ENABLED"
    <3>1. CASE disk[olt] = Absent
      <4>1. dev[olt].admin = "absent"
        BY <1>0, <2>2, <3>1 DEF Absent
      <4> QED
        BY <1>2, <3>1, <4>1, NoCalls, Zenon
    <3>2. CASE disk[olt] # Absent /\ disk[olt].admin = "ENABLED"
      <4> DEFINE c == CallWith("reconcile", olt, disk[olt])
      <4>1. disk[olt] \in Records
        BY <1>0, <3>2, Zenon DEF IInv, Typed, Stored
      <4>2. c \in ScheduledCalls /\ c.op = "reconcile" /\ c.dev = olt /\ c.arg = disk[olt]
        BY <1>0, <3>2, <4>1, Zenon DEF CallWith, ScheduledCalls, Ops, Stored
      <4>3. sched' = <<c>>
        BY <1>3, <3>2, Zenon
      <4> HIDE DEF c
      <4>4. disk[olt] = dev[olt]
        BY <1>0, <2>2, Zenon
      <4>5. c.arg.conn = "REACHABLE" /\ c.arg.parent
        BY <2>7, <3>2, <4>2, <4>4, Zenon
      <4>6. Orderly(<<c>>) /\ \A o, d : Sent(<<c>>, o, d) <=> c.op = o /\ c.dev = d
        BY <4>2, <4>5, SingleCall, Zenon
      <4> QED
        BY <3>2, <4>2, <4>3, <4>4, <4>6, Zenon
    <3>3. CASE disk[olt] # Absent /\ disk[olt].admin # "ENABLED"
      <4>1. /\ Orderly(Reconciling(disk))
            /\ \A o, d : Sent(Reconciling(disk), o, d) <=> o = "reconcile" /\ d \in Onus /\ disk[d].admin = "ENABLED"
        BY ReconcilingExact, Zenon DEF IInv, Typed
      <4>2. \A u \in Onus : disk[u].admin # "ENABLED"
        BY <1>0, <2>2, <3>3, Zenon DEF Devices
      <4>3. dev[olt].admin # "ENABLED"
        BY <1>0, <2>2, <3>3, Zenon
      <4> QED
        BY <1>4, <3>3, <4>1, <4>2, <4>3, Zenon
    <3> QED
      BY <3>1, <3>2, <3>3, ZenonT(30)
  <2>10. OneAtATime'
    BY <1>0, <1>1, <2>9, OneKind, ZenonT(30)
  <2>11. AgentsFit'
    <3>1. dev[olt].admin \in {"ENABLED", "DISABLED"} => olt \in handlers'
      BY <1>0, <1>3, <1>4, <2>2 DEF Absent
    <3>2. dev[olt].admin # "ENABLED" => Children \subseteq handlers'
      <4>1. CASE disk[olt] = Absent
        BY <1>0, <2>2, <2>6, <4>1 DEF Absent
      <4>2. CASE disk[olt] # Absent
        BY <1>0, <1>4, <2>2, <4>2, Zenon DEF Children, Present, Devices
      <4> QED
        BY <4>1, <4>2, Zenon
    <3> QED
      BY <1>0, <2>4, <2>5, <2>6, <2>9, <3>1, <3>2, Zenon DEF AgentsFit
  <2>12. OltFits'
    <3>1. Rests(olt)'
      <4>1. ~Asleep(olt)'
        BY <1>1, Zenon DEF Asleep
      <4> QED
        BY <1>0, <2>3, <2>4, <4>1 DEF Rests, Oper, Conn
    <3>2. dev[olt].admin = "ENABLED" => dev[olt].parent
      BY <2>7, Zenon
    <3>3. ~Sent(sched', "activate", olt) /\ ~Sent(sched', "disable", olt) /\ ~Sent(sched', "reenable", olt)
      BY <2>9
    <3>4. Sent(sched', "reconcile", olt) <=> dev[olt].admin = "ENABLED"
      BY <2>9, Zenon
    <3>5. dev'[olt] = dev[olt] /\ host' = host /\ ld' = ld /\ nniPort' = nniPort /\ (ld <=> dev[olt].admin = "ENABLED")
      BY <1>0, <1>1, <2>2, <2>4, Zenon
    <3> QED
      BY <2>8, <3>1, <3>2, <3>3, <3>4, <3>5, ZenonT(30) DEF OltFits
  <2>13. ASSUME NEW u \in Onus PROVE OnuFits(u)'
    <3>1. SameOnu(u)
      BY <1>0, <1>1, <2>2, <2>4, <2>9, Zenon DEF SameOnu, Devices
    <3> QED
      BY <2>1, <3>1, SameOnuFits, Zenon DEF Fits
  <2> QED
    BY <2>10, <2>11, <2>12, <2>13, Zenon DEF Fits
<1> QED
  BY <1>5, <1>6, FitsCInv, Zenon

-----------------------------------------------------------------------------
(* The second invariant.                                                   *)

(* Nothing is scheduled before the first device is created.                *)
LEMMA InitCInv == Init => CInv
<1> SUFFICES ASSUME Init PROVE CInv
  BY Zenon
<1>0. olt \in Devices /\ \A u \in Onus : u \in Devices
  BY Zenon DEF Devices
<1>1. PortsTyped
  <2>1. <<>> \in Seq(Onus) /\ Distinct(<<>>)
    BY DEF Distinct
  <2> QED
    BY <2>1, Zenon DEF Init, PortsTyped
<1>2. sched = <<>> /\ reboots = <<>> /\ uni = {} /\ peers = <<>> /\ ld = FALSE /\ host
  BY Zenon DEF Init
<1>3. \A op, d : ~Sent(sched, op, d)
  BY <1>2, NoCalls, Zenon
<1>4. \A d \in Devices : dev[d] = Absent /\ disk[d] = Absent /\ dev[d].admin = "absent"
  BY Zenon DEF Init, Absent
<1>5. Children = {}
  BY <1>0, <1>4, Zenon DEF Children, Present
<1>6. OneAtATime
  BY <1>2, <1>3, NoCalls, Zenon DEF OneAtATime
<1>7. AgentsFit
  BY <1>0, <1>4, <1>5, Zenon DEF AgentsFit, Present
<1>8. \A d \in Devices : Rests(d)
  BY <1>4, Zenon DEF Rests
<1>9. OltFits
  BY <1>0, <1>2, <1>3, <1>4, <1>8, Zenon DEF OltFits
<1>10. Range(peers) = {}
  BY <1>2 DEF Range
<1>11. ASSUME NEW u \in Onus PROVE OnuFits(u)
  BY <1>0, <1>2, <1>3, <1>4, <1>8, <1>10, Zenon DEF OnuFits, Present
<1> QED
  BY <1>1, <1>6, <1>7, <1>9, <1>11, Zenon DEF CInv

(* Every step of an operator, a handler or a restart keeps the invariant   *)
(* of the calm histories.                                                  *)
LEMMA NextCInv == IInv /\ CInv /\ [Next]_vars => CInv'
<1> SUFFICES ASSUME IInv, CInv, [Next]_vars PROVE CInv'
  BY Zenon
<1>1. ASSUME NEW hasHost \in BOOLEAN, CreateDevice(hasHost) PROVE CInv'
  BY <1>1, CreateCInv, Zenon
<1>2. CASE EnableNew
  BY <1>2, EnableNewCInv, Zenon
<1>3. CASE DeleteDevice
  BY <1>3, DeleteCInv, Zenon
<1>4. ASSUME NEW d \in Devices, EnableDevice(d) \/ DisableDevice(d) PROVE CInv'
  BY <1>4, SetAdminCInv, Zenon DEF EnableDevice, DisableDevice
<1>5. ASSUME NEW d \in Devices, RebootDevice(d) PROVE CInv'
  BY <1>5, RebootDeviceCInv, Zenon
<1>6. CASE OltActivate
  BY <1>6, OltCInv, Zenon
<1>7. CASE OltDisable
  BY <1>7, OltCInv, Zenon
<1>8. CASE OltReenable
  BY <1>8, OltCInv, Zenon
<1>9. CASE OltReconcile
  BY <1>9, OltCInv, Zenon
<1>10. CASE OltUnreachable \/ OltReconcileFails \/ OltWithoutHost
  BY <1>10, FailsCInv, Zenon
<1>11. ASSUME NEW u \in Onus, OnuActivate(u) \/ OnuDisable(u) \/ OnuReenable(u) \/ OnuReconcile(u) PROVE CInv'
  BY <1>11, OnuCInv, Zenon
<1>12. ASSUME NEW d \in Devices, RebootStarts(d) PROVE CInv'
  BY <1>12, RebootCInv, Zenon
<1>13. ASSUME NEW d \in Devices, Deleted(d) PROVE CInv'
  BY <1>13, GoneCInv, Zenon
<1>14. ASSUME NEW d \in Devices, NEW op, Gone(op, d) PROVE CInv'
  BY <1>14, GoneCInv, Zenon
<1>15. CASE RebootEnds
  BY <1>15, RebootCInv, Zenon
<1>16. CASE Restart
  BY <1>16, RestartCInv, Zenon
<1>17. CASE UNCHANGED vars
  <2>1. UNCHANGED <<dev, disk, last, handlers, sched, reboots, ld, uni, ldKnown, kpi, host, nniPort, onuPorts, peers, calm>>
    BY <1>17, Zenon DEF vars, tree, logical, memory, ports
  <2>2. PortsTyped'
    BY <2>1, Zenon DEF CInv, PortsTyped
  <2>3. Fits => Fits'
    BY <2>1, ZenonT(30) DEF Fits, OneAtATime, AgentsFit, OltFits, OnuFits, Present, Children, Busy, Rests, Oper, Conn, Asleep
  <2> QED
    BY <2>1, <2>2, <2>3, CInvFits, FitsCInv, Zenon
<1>18. CASE Operator
  BY <1>1, <1>2, <1>3, <1>4, <1>5, <1>18, Zenon DEF Operator
<1>19. CASE Handlers
  BY <1>6, <1>7, <1>8, <1>9, <1>10, <1>11, <1>12, <1>13, <1>14, <1>19, Zenon DEF Handlers
<1> QED
  BY <1>15, <1>16, <1>17, <1>18, <1>19, Zenon DEF Next

(* The second invariant holds in every reachable state: while the history  *)
(* of requests is calm (each found the one before settled and was Careful, *)
(* the OLT had an address and answered), each scheduled call of a handler  *)
(* finds the states, ports and KPI loop it needs to run to its end.        *)
THEOREM CalmInvariance == Spec => [](IInv /\ CInv)
BY InitIInv, NextIInv, InitCInv, NextCInv, PTL DEF Spec

(* As long as the operator waits for each request to settle, the OLT has   *)
(* an address and answers, no ONU is switched below a disabled OLT, and no *)
(* OLT is disabled whose handler collects no KPIs (a restart found it      *)
(* disabled, and disable() raises): every enabled device is active and     *)
(* reachable and no disabled device is active once the calls have run,     *)
(* whatever was rebooted, disabled, deleted or restarted before.           *)
THEOREM StatusFollows == Spec => []StatusAgrees
<1>1. IInv /\ CInv => StatusAgrees
  <2> SUFFICES ASSUME IInv, CInv, calm, Settled, NEW d \in Devices
               PROVE  /\ dev[d].admin = "ENABLED" => dev[d].oper = "ACTIVE" /\ dev[d].conn = "REACHABLE"
                      /\ dev[d].admin = "DISABLED" => dev[d].oper = "UNKNOWN"
    BY Zenon DEF StatusAgrees
  <2>1. Fits
    BY CInvFits, Zenon
  <2>2. Rests(d) /\ Oper(d) = dev[d].oper /\ Conn(d) = dev[d].conn
    BY <2>1, CalmSettled, Zenon
  <2> QED
    BY <2>2, Zenon DEF Rests
<1> QED
  BY <1>1, CalmInvariance, PTL

(* For the same operator the logical device, the logical ports of the ONUs *)
(* and the peers of the OLT's PON port are those of the enabled devices.   *)
THEOREM ServiceFollows == Spec => []ServiceAgrees
<1>1. IInv /\ CInv => ServiceAgrees
  <2> SUFFICES ASSUME IInv, CInv, calm, Settled
               PROVE  /\ ld <=> dev[olt].admin = "ENABLED"
                      /\ uni = {u \in Onus : dev[u].admin = "ENABLED"}
                      /\ Range(peers) = uni
    BY Zenon DEF ServiceAgrees
  <2>1. Fits
    BY CInvFits, Zenon
  <2>2. /\ ld <=> dev[olt].admin = "ENABLED"
        /\ \A u \in Onus : (u \in uni <=> dev[u].admin = "ENABLED") /\ (u \in Range(peers) <=> dev[u].admin = "ENABLED")
    BY <2>1, CalmSettled, Zenon
  <2>3. uni \subseteq Onus /\ Range(peers) \subseteq Onus
    <3>1. peers \in Seq(Onus) /\ uni \subseteq Onus
      BY Zenon DEF CInv, PortsTyped
    <3>2. DOMAIN peers = 1..Len(peers) /\ \A i \in 1..Len(peers) : peers[i] \in Onus
      BY <3>1
    <3> QED
      BY <3>1, <3>2, Zenon DEF Range
  <2> QED
    BY <2>2, <2>3, Zenon
<1> QED
  BY <1>1, CalmInvariance, PTL

(* The rest of the types: what the adapter and the core have set up.       *)
Flags ==
    /\ onuPorts \subseteq Onus /\ {ld, ldKnown, nniPort, probed, host, calm} \subseteq BOOLEAN
    /\ kpi \in {"none", "stopped", "running"}

(* Every step keeps the types of the flags.                                *)
LEMMA NextFlags == IInv /\ Flags /\ [Next]_vars => Flags'
<1> SUFFICES ASSUME IInv, Flags, [Next]_vars PROVE Flags'
  BY Zenon
<1>1. /\ onuPorts \subseteq Onus /\ ld \in BOOLEAN /\ ldKnown \in BOOLEAN
      /\ nniPort \in BOOLEAN /\ probed \in BOOLEAN /\ calm \in BOOLEAN
      /\ host \in BOOLEAN /\ kpi \in {"none", "stopped", "running"}
  BY Zenon DEF Flags
<1>2. ASSUME NEW ok, Request(ok) PROVE calm' \in BOOLEAN
  BY <1>2, Zenon DEF Request
<1>3. CASE Operator
  <2>1. UNCHANGED <<logical, memory, ports>>
    BY <1>3, Zenon DEF Operator, CreateDevice, EnableNew, DeleteDevice, EnableDevice, DisableDevice, SetAdmin, RebootDevice
  <2>2. \E ok : Request(ok)
    BY <1>3, Zenon DEF Operator, CreateDevice, EnableNew, DeleteDevice, EnableDevice, DisableDevice, SetAdmin, RebootDevice
  <2>3. host' \in BOOLEAN
    BY <1>1, <1>3, Zenon DEF Operator, CreateDevice, EnableNew, DeleteDevice, EnableDevice, DisableDevice, SetAdmin, RebootDevice, tree
  <2> QED
    BY <1>1, <1>2, <2>1, <2>2, <2>3, Zenon DEF Flags, logical, memory, ports
<1>4. CASE OltActivate \/ OltDisable \/ OltReenable
  <2>1. /\ onuPorts' = onuPorts /\ calm' = calm
        /\ ld' \in {ld, TRUE, FALSE} /\ ldKnown' \in {ldKnown, TRUE}
        /\ nniPort' \in {nniPort, TRUE} /\ probed' \in {probed, TRUE}
        /\ host' = host /\ kpi' \in {kpi, "stopped", "running"}
    BY <1>4, Zenon DEF OltActivate, OltDisable, OltReenable, logical, memory, ports
  <2> QED
    BY <1>1, <2>1, Zenon DEF Flags
<1>5. CASE OltReconcile
  <2>1. Due("reconcile", olt) /\ ldKnown' = Head(sched).arg.parent
    BY <1>5, Zenon DEF OltReconcile
  <2>2. Head(sched).arg \in Records
    BY <2>1, DueCall, Zenon
  <2>3. ldKnown' \in BOOLEAN
    BY <2>1, <2>2, Zenon DEF Records
  <2>4. probed' = TRUE /\ kpi' = "running" /\ UNCHANGED <<ld, host, nniPort, onuPorts, calm>>
    BY <1>5, Zenon DEF OltReconcile, logical, ports
  <2> QED
    BY <1>1, <2>3, <2>4, Zenon DEF Flags
<1>6. CASE OltUnreachable \/ OltReconcileFails \/ OltWithoutHost
  <2>1. calm' \in {calm, FALSE} /\ UNCHANGED <<ld, ldKnown, kpi, host, nniPort, probed, onuPorts>>
    BY <1>6, Zenon DEF OltUnreachable, OltReconcileFails, OltWithoutHost, Fail, tree, logical, memory, ports
  <2> QED
    BY <1>1, <2>1, Zenon DEF Flags
<1>7. ASSUME NEW u \in Onus, OnuActivate(u) \/ OnuDisable(u) \/ OnuReenable(u) \/ OnuReconcile(u) PROVE Flags'
  <2>1. UNCHANGED <<ld, ldKnown, kpi, host, nniPort, probed, calm>> /\ onuPorts' \in {onuPorts, onuPorts \cup {u}}
    BY <1>7, Zenon DEF OnuActivate, OnuDisable, OnuReenable, OnuReconcile, logical, memory, ports
  <2> QED
    BY <1>1, <2>1, Zenon DEF Flags
<1>8. ASSUME NEW d, NEW op, RebootStarts(d) \/ Deleted(d) \/ Gone(op, d) PROVE Flags'
  <2>1. UNCHANGED <<ld, ldKnown, host, nniPort, probed, calm, onuPorts>> /\ kpi' \in {kpi, "stopped"}
    BY <1>8, Zenon DEF RebootStarts, Deleted, Gone, tree, logical, memory, ports
  <2> QED
    BY <1>1, <2>1, Zenon DEF Flags
<1>9. CASE RebootEnds
  <2>1. UNCHANGED <<ld, ldKnown, kpi, host, nniPort, probed, calm, onuPorts>>
    BY <1>9, Zenon DEF RebootEnds, logical, memory, ports
  <2> QED
    BY <1>1, <2>1, Zenon DEF Flags
<1>10. CASE Restart
  <2>1. UNCHANGED <<ld, host, nniPort, onuPorts>> /\ kpi' = "none" /\ ldKnown' = FALSE /\ probed' = FALSE
    BY <1>10, Zenon DEF Restart, logical, ports
  <2>2. calm' \in BOOLEAN
    BY <1>10, Zenon DEF Restart
  <2> QED
    BY <1>1, <2>1, <2>2, Zenon DEF Flags
<1>11. CASE UNCHANGED vars
  BY <1>11, Zenon DEF vars, Flags, tree, logical, memory, ports
<1>12. CASE Handlers
  BY <1>4, <1>5, <1>6, <1>7, <1>8, <1>12, Zenon DEF Handlers
<1> QED
  BY <1>3, <1>9, <1>10, <1>11, <1>12, Zenon DEF Next

(* Every variable of the agents, of the adapter and of the core keeps its  *)
(* type: what a handler writes is a device, and only the detected ONUs are *)
(* peers of the OLT or have ports.                                         *)
THEOREM TypeCorrect == Spec => []TypeOK
<1>1. Init => Flags
  BY Zenon DEF Init, Flags
<1>2. IInv /\ CInv /\ Flags => TypeOK
  <2> SUFFICES ASSUME IInv, CInv, Flags PROVE TypeOK
    BY Zenon
  <2>1. Typed /\ PortsTyped
    BY Zenon DEF IInv, CInv
  <2>2. Range(peers) \subseteq Onus
    <3>1. peers \in Seq(Onus)
      BY <2>1, Zenon DEF PortsTyped
    <3>2. DOMAIN peers = 1..Len(peers) /\ \A i \in 1..Len(peers) : peers[i] \in Onus
      BY <3>1
    <3> QED
      BY <3>2, Zenon DEF Range
  <2> QED
    BY <2>1, <2>2, Zenon DEF TypeOK, Typed, PortsTyped, Flags, Stored
<1> QED
  BY <1>1, <1>2, InitIInv, NextIInv, InitCInv, NextCInv, NextFlags, PTL DEF Spec
=============================================================================
