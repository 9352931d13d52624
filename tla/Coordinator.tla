---------------------------- MODULE Coordinator -----------------------------
(***************************************************************************)
(* voltha/coordinator.py: the coordinator of each voltha instance keeps a  *)
(* Consul session alive, holds the instance's membership record with it    *)
(* and competes for the leader key, whose holder runs a Leader object.     *)
(*                                                                         *)
(* Three loops run on the reactor of each instance and interleave at every *)
(* request to Consul:                                                      *)
(*   _session_tracking_loop      renews the session, or replaces it        *)
(*   _maintain_membership_record acquires the record with the new session  *)
(*   _leadership_tracking_loop   PUT (acquire), GET, watch, sleep          *)
(*                                                                         *)
(* Consul is external: a session that is not renewed expires, and with     *)
(* behavior='release' the keys it locks stay but lose their Session; with  *)
(* lock_delay=1 nobody can lock them for a second. An index read from      *)
(* Consul is kept as what it is used for: whether the leader key has       *)
(* changed since (fresh). A request that fails is repeated by _retry and   *)
(* is no step, unless Consul had applied it (PutAnswerLost).               *)
(*                                                                         *)
(* An instance is one process: its id ends in its start time (main.py), so *)
(* a process that is started again is another instance.                    *)
(***************************************************************************)
EXTENDS Naturals

CONSTANTS
    Instances,      \* the instance ids
    None,           \* Python's None
    MaxFaults       \* sessions that lapse and requests that get lost

ASSUME FaultsAssumption == MaxFaults \in Nat

(* A session is its owner and a serial number: an instance creates one     *)
(* when it starts, one after a fault and one more while it stops.          *)
MaxSessions == MaxFaults + 2
Sessions == Instances \X (1..MaxSessions)
Owner(s) == s[1]

ASSUME NoneAssumption == None \notin Instances \cup Sessions

VARIABLES
    sessions,       \* Consul: the sessions that are alive
    leaderKey,      \* Consul: Value and Session of the leader key
    lockDelay,      \* Consul: the leader key was released less than a second ago
    memberKey,      \* Consul: the Session of each membership record
    status,         \* how far the process of an instance is
    session_id,     \* self.session_id
    redo,           \* _redo_session has deleted the session and not created one
    loop,           \* where _leadership_tracking_loop is
    result,         \* its local result: the answer to the PUT
    answer,         \* its local record: the leader key as it was read back
    fresh,          \* the leader key has not changed since it was read
    i_am_leader,    \* self.i_am_leader; a Leader object exists exactly then
    faults          \* lapses and losses so far

consulVars == <<sessions, leaderKey, lockDelay, memberKey>>
loopVars == <<loop, result, answer, fresh>>
vars == <<sessions, leaderKey, lockDelay, memberKey, status, session_id, redo, loop, result,
          answer, fresh, i_am_leader, faults>>

Record == [session : Sessions \cup {None}, value : Instances \cup {None}]
NoRecord == [session |-> None, value |-> None]

TypeOK ==
    /\ sessions \subseteq Sessions
    /\ leaderKey \in Record
    /\ lockDelay \in BOOLEAN
    /\ memberKey \in [Instances -> Sessions \cup {None}]
    /\ status \in [Instances -> {"off", "starting", "joining", "up", "stopping", "dead"}]
    /\ session_id \in [Instances -> Sessions \cup {None}]
    /\ redo \in [Instances -> BOOLEAN]
    /\ loop \in [Instances -> {"off", "put", "get", "got", "watch", "sleep", "doze", "ended"}]
    /\ result \in [Instances -> BOOLEAN]
    /\ answer \in [Instances -> Record]
    /\ fresh \in [Instances -> BOOLEAN]
    /\ i_am_leader \in [Instances -> BOOLEAN]
    /\ faults \in 0..MaxFaults

Init ==
    /\ sessions = {}
    /\ leaderKey = NoRecord
    /\ lockDelay = FALSE
    /\ memberKey = [n \in Instances |-> None]
    /\ status = [n \in Instances |-> "off"]
    /\ session_id = [n \in Instances |-> None]
    /\ redo = [n \in Instances |-> FALSE]
    /\ loop = [n \in Instances |-> "off"]
    /\ result = [n \in Instances |-> FALSE]
    /\ answer = [n \in Instances |-> NoRecord]
    /\ fresh = [n \in Instances |-> FALSE]
    /\ i_am_leader = [n \in Instances |-> FALSE]
    /\ faults = 0

-----------------------------------------------------------------------------
(* Consul *)

(* The session s ends: its locks are released, and whoever watches a       *)
(* released key hears of it. A tracking loop that is asleep by now may     *)
(* wake before the lock delay is over; one that goes to sleep later may    *)
(* not, because tracking_loop_delay is as long as lock_delay.              *)
Invalidate(s) ==
    /\ sessions' = sessions \ {s}
    /\ memberKey' = [n \in Instances |-> IF memberKey[n] = s THEN None ELSE memberKey[n]]
    /\ IF leaderKey.session = s
       THEN /\ leaderKey' = [leaderKey EXCEPT !.session = None]
            /\ lockDelay' = TRUE
            /\ fresh' = [n \in Instances |-> FALSE]
            /\ loop' = [n \in Instances |-> IF loop[n] = "sleep" THEN "doze" ELSE loop[n]]
       ELSE UNCHANGED <<leaderKey, lockDelay, fresh, loop>>

Fault ==
    /\ faults < MaxFaults
    /\ faults' = faults + 1

Running(n) == status[n] \in {"starting", "joining", "up", "stopping"}

(* Nobody renews the session of a process that is gone, nor one that the   *)
(* process has replaced.                                                   *)
Abandoned(s) == ~Running(Owner(s)) \/ session_id[Owner(s)] # s

ExpireAbandoned(s) ==
    /\ s \in sessions
    /\ Abandoned(s)
    /\ Invalidate(s)
    /\ UNCHANGED <<status, session_id, redo, result, answer, i_am_leader, faults>>

(* The renewals did not arrive in time.                                    *)
ExpireInUse(s) ==
    /\ s \in sessions
    /\ ~Abandoned(s)
    /\ Fault
    /\ Invalidate(s)
    /\ UNCHANGED <<status, session_id, redo, result, answer, i_am_leader>>

EndLockDelay ==
    /\ lockDelay
    /\ lockDelay' = FALSE
    /\ UNCHANGED <<sessions, leaderKey, memberKey, status, session_id, redo, loop, result, answer,
                   fresh, i_am_leader, faults>>

(* The process of an instance ends, and its memory with it.                *)
EndProcess(n) ==
    /\ status' = [status EXCEPT ![n] = "dead"]
    /\ session_id' = [session_id EXCEPT ![n] = None]
    /\ redo' = [redo EXCEPT ![n] = FALSE]
    /\ loop' = [loop EXCEPT ![n] = "off"]
    /\ result' = [result EXCEPT ![n] = FALSE]
    /\ answer' = [answer EXCEPT ![n] = NoRecord]
    /\ fresh' = [fresh EXCEPT ![n] = FALSE]
    /\ i_am_leader' = [i_am_leader EXCEPT ![n] = FALSE]
    /\ UNCHANGED <<consulVars, faults>>

Crash(n) == Running(n) /\ EndProcess(n)

-----------------------------------------------------------------------------
(* Start, stop, session and membership *)

start(n) ==
    /\ status[n] = "off"
    /\ status' = [status EXCEPT ![n] = "starting"]
    /\ UNCHANGED <<consulVars, session_id, redo, loopVars, i_am_leader, faults>>

(* consul.session.create: a session that nobody has had.                   *)
NewSession(n) ==
    \E k \in 1..MaxSessions :
        /\ session_id[n] = IF k = 1 THEN None ELSE <<n, k - 1>>
        /\ session_id' = [session_id EXCEPT ![n] = <<n, k>>]
        /\ sessions' = sessions \cup {<<n, k>>}

(* _async_init goes on even if stop has been called in the meantime.       *)
_create_session(n) ==
    /\ Running(n) /\ session_id[n] = None
    /\ NewSession(n)
    /\ status' = [status EXCEPT ![n] = IF @ = "starting" THEN "joining" ELSE @]
    /\ UNCHANGED <<leaderKey, lockDelay, memberKey, redo, loopVars, i_am_leader, faults>>

(* Variant: acquire always names the session of the start.                 *)
AcquireMembershipFirst(n) ==
    /\ <<n, 1>> \in sessions
    /\ memberKey[n] = None
    /\ memberKey' = [memberKey EXCEPT ![n] = <<n, 1>>]

(* PUT of the membership record with acquire. It is answered with False,   *)
(* and repeated, as long as another session holds the record, and with an  *)
(* error when the session is gone.                                         *)
AcquireMembership(n) ==
    /\ session_id[n] \in sessions
    /\ memberKey[n] = None
    /\ memberKey' = [memberKey EXCEPT ![n] = session_id[n]]

_create_membership_record(n) ==
    /\ status[n] \in {"joining", "stopping"} /\ loop[n] = "off"
    /\ AcquireMembership(n)
    /\ status' = [status EXCEPT ![n] = IF @ = "joining" THEN "up" ELSE @]
    /\ loop' = [loop EXCEPT ![n] = "put"]
    /\ UNCHANGED <<sessions, leaderKey, lockDelay, session_id, redo, result, answer, fresh,
                   i_am_leader, faults>>

_maintain_membership_record(n) ==
    /\ Running(n) /\ loop[n] # "off"
    /\ memberKey[n] # session_id[n]
    /\ AcquireMembership(n)
    /\ UNCHANGED <<sessions, leaderKey, lockDelay, status, session_id, redo, loopVars, i_am_leader,
                   faults>>

(* The request may fail, which is only logged.                             *)
_delete_session(n) == Invalidate(session_id[n])
DeleteFails == UNCHANGED <<consulVars, loop, fresh>>

Tracking(n) == Running(n) /\ session_id[n] # None /\ ~redo[n]

(* The renewal got no answer in time, or Consul does not know the session. *)
_renew_session_timeout(n) ==
    /\ Tracking(n)
    /\ \/ /\ session_id[n] \in sessions
          /\ Fault
          /\ _delete_session(n) \/ DeleteFails
       \/ /\ session_id[n] \notin sessions
          /\ DeleteFails /\ UNCHANGED faults
    /\ redo' = [redo EXCEPT ![n] = TRUE]
    /\ UNCHANGED <<status, session_id, result, answer, i_am_leader>>

_redo_session(n) ==
    /\ Running(n) /\ redo[n]
    /\ redo' = [redo EXCEPT ![n] = FALSE]
    /\ \/ NewSession(n) /\ UNCHANGED faults
       \/ Fault /\ UNCHANGED <<session_id, sessions>>
    /\ UNCHANGED <<leaderKey, lockDelay, memberKey, status, loopVars, i_am_leader>>

(* Without a session there is nothing to delete, and Consul refuses.       *)
stop(n) ==
    /\ status[n] \in {"starting", "joining", "up"}
    /\ status' = [status EXCEPT ![n] = "stopping"]
    /\ \/ session_id[n] # None /\ _delete_session(n) /\ UNCHANGED faults
       \/ session_id[n] # None /\ DeleteFails /\ Fault
       \/ session_id[n] = None /\ DeleteFails /\ UNCHANGED faults
    /\ UNCHANGED <<session_id, redo, result, answer, i_am_leader>>

(* The rest of stop, and of the shutdown of the process.                   *)
stopped(n) == status[n] = "stopping" /\ EndProcess(n)

-----------------------------------------------------------------------------
(* _leadership_tracking_loop *)

(* Both also set leader_id, which only says that some leader is known and  *)
(* which nothing here depends on.                                          *)
_assert_leadership(n) == i_am_leader' = [i_am_leader EXCEPT ![n] = TRUE]

_assert_nonleadership(n) == i_am_leader' = [i_am_leader EXCEPT ![n] = FALSE]

InLoop(n, where) == Running(n) /\ loop[n] = where

(* finally: the loop runs again after tracking_loop_delay, except in       *)
(* shutdown.                                                               *)
AfterFinally(n) == IF status[n] = "stopping" THEN "ended" ELSE "sleep"

(* PUT with acquire: True when nobody else holds the lock and no lock      *)
(* delay is in the way. _retry repeats it when the session is gone.        *)
Put(n) ==
    /\ InLoop(n, "put")
    /\ session_id[n] \in sessions
    /\ LET free == leaderKey.session \in {None, session_id[n]} /\ ~lockDelay
       IN  /\ result' = [result EXCEPT ![n] = free]
           /\ IF free
              THEN /\ leaderKey' = [session |-> session_id[n], value |-> n]
                   /\ fresh' = [m \in Instances |-> FALSE]
              ELSE UNCHANGED <<leaderKey, fresh>>
    /\ loop' = [loop EXCEPT ![n] = "get"]
    /\ UNCHANGED <<sessions, lockDelay, memberKey, status, session_id, redo, answer, i_am_leader,
                   faults>>

(* The connection breaks after Consul has applied the PUT: _retry sends it *)
(* again, with the session of the moment.                                  *)
PutAnswerLost(n) ==
    /\ InLoop(n, "get")
    /\ Fault
    /\ loop' = [loop EXCEPT ![n] = "put"]
    /\ result' = [result EXCEPT ![n] = FALSE]
    /\ UNCHANGED <<consulVars, status, session_id, redo, answer, fresh, i_am_leader>>

(* Consul answers the GET that reads the record back.                      *)
Get(n) ==
    /\ InLoop(n, "get")
    /\ answer' = [answer EXCEPT ![n] = leaderKey]
    /\ fresh' = [fresh EXCEPT ![n] = TRUE]
    /\ loop' = [loop EXCEPT ![n] = "got"]
    /\ UNCHANGED <<consulVars, status, session_id, redo, result, i_am_leader, faults>>

(* Variant: the index is read when the watch begins, not with the record.  *)
ResumeLateIndex(n) ==
    /\ InLoop(n, "got")
    /\ IF result[n] /\ answer[n].session = session_id[n]
       THEN _assert_leadership(n)
       ELSE _assert_nonleadership(n)
    /\ loop' = [loop EXCEPT ![n] = "watch"]
    /\ result' = [result EXCEPT ![n] = FALSE]
    /\ answer' = [answer EXCEPT ![n] = NoRecord]
    /\ fresh' = [fresh EXCEPT ![n] = TRUE]
    /\ UNCHANGED <<consulVars, status, session_id, redo, faults>>

(* The loop resumes with that answer. A record without a Session raises    *)
(* KeyError, which ends this round of the loop.                            *)
Resume(n) ==
    /\ InLoop(n, "got")
    /\ \/ /\ result[n] /\ answer[n].session = None
          /\ loop' = [loop EXCEPT ![n] = AfterFinally(n)]
          /\ UNCHANGED i_am_leader
       \/ /\ ~(result[n] /\ answer[n].session = None)
          /\ loop' = [loop EXCEPT ![n] = "watch"]
          /\ CASE result[n] /\ answer[n].session = session_id[n] -> _assert_leadership(n)
               [] result[n] /\ answer[n].session # session_id[n] -> UNCHANGED i_am_leader
               [] ~result[n] -> _assert_nonleadership(n)
    /\ result' = [result EXCEPT ![n] = FALSE]
    /\ answer' = [answer EXCEPT ![n] = NoRecord]
    /\ fresh' = [fresh EXCEPT ![n] = @ /\ loop'[n] = "watch"]
    /\ UNCHANGED <<consulVars, status, session_id, redo, faults>>

(* Variant: a timeout of the blocking GET is taken for a change.           *)
LeaderKeyTimeout(n) ==
    /\ InLoop(n, "watch")
    /\ _assert_nonleadership(n)
    /\ loop' = [loop EXCEPT ![n] = AfterFinally(n)]
    /\ fresh' = [fresh EXCEPT ![n] = FALSE]
    /\ UNCHANGED <<consulVars, status, session_id, redo, result, answer, faults>>

(* Variant: only a deleted key counts as a change.                         *)
LeaderKeyDeleted(n) ==
    /\ InLoop(n, "watch")
    /\ ~fresh[n] /\ leaderKey.value = None
    /\ IF i_am_leader[n] THEN _assert_nonleadership(n) ELSE UNCHANGED i_am_leader
    /\ loop' = [loop EXCEPT ![n] = AfterFinally(n)]
    /\ UNCHANGED <<consulVars, status, session_id, redo, result, answer, fresh, faults>>

(* The blocking GET answers only when the key has changed since the index  *)
(* was read; its time-out, and an answer that comes after the time-out,    *)
(* make the loop ask again.                                                *)
consul_get_with_timeout(n) == ~fresh[n]

(* The blocking GET returns because the key has changed.                   *)
LeaderKeyChange(n) ==
    /\ InLoop(n, "watch")
    /\ consul_get_with_timeout(n)
    /\ IF i_am_leader[n] THEN _assert_nonleadership(n) ELSE UNCHANGED i_am_leader
    /\ loop' = [loop EXCEPT ![n] = AfterFinally(n)]
    /\ UNCHANGED <<consulVars, status, session_id, redo, result, answer, fresh, faults>>

(* Variant: tracking_loop_delay is shorter than the lock delay.            *)
WakeSoon(n) ==
    /\ Running(n)
    /\ loop[n] \in {"sleep", "doze"}
    /\ loop' = [loop EXCEPT ![n] = "put"]
    /\ UNCHANGED <<consulVars, status, session_id, redo, result, answer, fresh, i_am_leader, faults>>

(* tracking_loop_delay has passed since the loop went to sleep.            *)
Wake(n) ==
    /\ Running(n)
    /\ \/ loop[n] = "sleep" /\ ~lockDelay
       \/ loop[n] = "doze"
    /\ loop' = [loop EXCEPT ![n] = "put"]
    /\ UNCHANGED <<consulVars, status, session_id, redo, result, answer, fresh, i_am_leader, faults>>

-----------------------------------------------------------------------------
SessionLoop(n) == _create_session(n) \/ _renew_session_timeout(n) \/ _redo_session(n)
MembershipLoop(n) == _create_membership_record(n) \/ _maintain_membership_record(n)
LeadershipLoop(n) == Put(n) \/ Get(n) \/ Resume(n) \/ LeaderKeyChange(n) \/ Wake(n)

Next ==
    \/ EndLockDelay
    \/ \E s \in Sessions : ExpireAbandoned(s) \/ ExpireInUse(s)
    \/ \E n \in Instances :
          \/ start(n) \/ stop(n) \/ stopped(n) \/ Crash(n) \/ PutAnswerLost(n)
          \/ SessionLoop(n) \/ MembershipLoop(n) \/ LeadershipLoop(n)

Spec == Init /\ [][Next]_vars

(* The loops of a running process go on (the reactor makes every delayed   *)
(* call, _retry repeats every request), Consul expires what is not renewed *)
(* and ends the lock delay, and a process that stops ends. No instance     *)
(* need start, no session in use need lapse.                               *)
SessionLost(n) == session_id[n] \notin sessions /\ _renew_session_timeout(n)

FairSpec ==
    /\ Spec
    /\ WF_vars(EndLockDelay)
    /\ \A s \in Sessions : WF_vars(ExpireAbandoned(s))
    /\ \A n \in Instances :
          /\ WF_vars(_create_session(n) \/ SessionLost(n) \/ _redo_session(n))
          /\ WF_vars(MembershipLoop(n))
          /\ WF_vars(LeadershipLoop(n))
          /\ WF_vars(stopped(n))

-----------------------------------------------------------------------------
(* Properties *)

Leads(n) == Running(n) /\ i_am_leader[n]
Holds(n) == leaderKey.session # None /\ leaderKey.value = n

(* A leader that no longer has the lock always has the change of the key   *)
(* still to read in its watch: between PUT, GET and the blocking GET no    *)
(* release can slip through unseen (the index of lines 409-442).           *)
LossIsUnread ==
    \A n \in Instances :
        Leads(n) /\ ~Holds(n) => loop[n] = "watch" /\ ~fresh[n]

(* A leader that has lost the lock steps down, or ends.                    *)
DeposedStepsDown ==
    \A n \in Instances : Leads(n) /\ ~Holds(n) ~> ~Leads(n)

(* However often its session lapses or is replaced, a running instance is  *)
(* a member again: its record gets locked by the session it has then, even *)
(* where the old session outlives a failed _delete_session.                *)
MemberAgain ==
    \A n \in Instances :
        status[n] = "up" ~> (status[n] # "up" \/ memberKey[n] = session_id[n])

(* A vacancy that a running instance is told of is filled: it sleeps out   *)
(* the lock delay (lines 464-466) and its next PUT gets the lock unless    *)
(* another instance had it first.                                          *)
NoticesVacancy(n) ==
    /\ status[n] = "up"
    /\ leaderKey.session = None
    /\ loop[n] = "sleep" \/ (loop[n] = "watch" /\ ~fresh[n])

NoticedVacancyFilled ==
    \A n \in Instances :
        NoticesVacancy(n) ~> (leaderKey.session # None \/ status[n] # "up")

(* The coordinators implement the abstract election: lock granted before   *)
(* leading, no stepping down from a lock one still has.                    *)
E == INSTANCE Election WITH
        running <- {n \in Instances : Running(n)},
        holder <- IF leaderKey.session = None THEN None ELSE leaderKey.value,
        granted <- {n \in Instances : Leads(n) \/ (Running(n) /\ loop[n] \in {"get", "got"} /\ result[n])},
        leaders <- {n \in Instances : Leads(n)}

ImplementsElection == E!Spec

(* leader.py, lines 38-41: a single Leader exists across the cluster.      *)
OneLeader == \A m, n \in Instances : Leads(m) /\ Leads(n) => m = n

(* coordinator.py, lines 392-394: an acquire that is answered with False   *)
(* means that there is a leader, so that once an instance is up the        *)
(* cluster has a leader as long as some instance stays up.                 *)
LeaderElected ==
    \A n \in Instances :
        status[n] = "up" ~> (leaderKey.session # None \/ status[n] # "up")
=============================================================================
