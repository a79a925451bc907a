---------------------------- MODULE Coordinator -----------------------------
(***************************************************************************)
(* voltha/coordinator.py: every VOLTHA instance opens one Consul session,  *)
(* puts its membership record and competes for the leader key with it.     *)
(* The holder of the leader key instantiates a Leader.                     *)
(*                                                                         *)
(* A step is either Consul executing a call, or the reactor running the    *)
(* code up to the next call; the two are merged where the code changes no  *)
(* field in between.  _retry repeats a call that raised, so a call that    *)
(* Consul refuses with an exception (a session it does not know) is no     *)
(* step: the coroutine stays where it is.  The answer of an executed put   *)
(* may be lost, and then the put is repeated.                              *)
(***************************************************************************)
EXTENDS Naturals, FiniteSets

CONSTANTS
  Instances,    \* instance ids
  MaxSessions,  \* bound: sessions ever created
  MaxCrashes,   \* bound: processes that die
  MaxWipes,     \* bound: administrative deletions of keys
  MaxExpiries,  \* bound: sessions that expire under a running instance
  MaxStops,     \* bound: calls of stop()
  MaxLosses,    \* bound: lost answers of executed calls
  NoKey         \* the record of a key that does not exist

Sessions == 1..MaxSessions
NoSession == 0
LeaderKey == "leader"

ASSUME CoordinatorAssumption ==
  /\ MaxSessions \in Nat /\ MaxCrashes \in Nat
  /\ MaxWipes \in Nat /\ MaxExpiries \in Nat
  /\ MaxStops \in Nat /\ MaxLosses \in Nat
  /\ \A s \in 0..MaxSessions, i \in Instances :
       NoKey # [session |-> s, value |-> i]
  /\ LeaderKey \notin Instances

VARIABLES
  created,       \* Consul: number of sessions created so far
  sessions,      \* Consul: the live sessions
  leader_key,    \* Consul: the record of the leader key, or NoKey
  member_key,    \* Consul: instance -> session that holds its record
  lock_delay,    \* Consul: keys whose lock may not be taken again yet
  budget,        \* faults left, see the bounds; and calls of stop()
  up,            \* the process runs
  session_id,
  init_pc,       \* _async_init: "session", "member" or "done"
  lead_pc,       \* _leadership_tracking_loop
  put_result,    \* its local variable result
  record,        \* its local variable record
  seen,          \* the leader key did not change since record was read
  i_am_leader,
  leader_id,
  leader,        \* the Leader object: "None", "starting" or "running"
  mem_pc,        \* _maintain_membership_record
  mem_seen,      \* the membership key did not change since it was read
  shutting_down,
  stop_pc        \* stop(): "no", "destroy", "destroyed", "done", "failed"

consulVars == <<created, sessions, leader_key, member_key, lock_delay>>
leadVars == <<lead_pc, put_result, record, seen, i_am_leader, leader_id,
              leader>>
memVars == <<mem_pc, mem_seen>>
procVars == <<up, session_id, init_pc, shutting_down, stop_pc>>
vars == <<consulVars, budget, leadVars, memVars, procVars>>

Keys == Instances \cup {LeaderKey}
Record == [session : Sessions, value : Instances]

TypeOK ==
  /\ created \in 0..MaxSessions
  /\ sessions \in SUBSET Sessions
  /\ leader_key = NoKey \/ leader_key \in Record
  /\ member_key \in [Instances -> Sessions \cup {NoSession}]
  /\ lock_delay \in SUBSET Keys
  /\ budget \in [crashes : Nat, wipes : Nat, expiries : Nat, stops : Nat,
                 losses : Nat]
  /\ up \in [Instances -> BOOLEAN]
  /\ session_id \in [Instances -> Sessions \cup {NoSession}]
  /\ init_pc \in [Instances -> {"session", "member", "done"}]
  /\ lead_pc \in [Instances -> {"off", "put", "get", "got", "start", "watch"}]
  /\ put_result \in [Instances -> BOOLEAN]
  /\ DOMAIN record = Instances
  /\ \A i \in Instances : record[i] = NoKey \/ record[i] \in Record
  /\ seen \in [Instances -> BOOLEAN]
  /\ i_am_leader \in [Instances -> BOOLEAN]
  /\ DOMAIN leader_id = Instances
  /\ \A i \in Instances : leader_id[i] = NoKey \/ leader_id[i] \in Instances
  /\ leader \in [Instances -> {"None", "starting", "running"}]
  /\ mem_pc \in [Instances -> {"off", "get", "put"}]
  /\ mem_seen \in [Instances -> BOOLEAN]
  /\ shutting_down \in [Instances -> BOOLEAN]
  /\ stop_pc \in [Instances -> {"no", "destroy", "destroyed", "done",
                                "failed"}]

\* A process that is not running; __init__ gives the fields these values.
Init ==
  /\ created = 0
  /\ sessions = {}
  /\ leader_key = NoKey
  /\ member_key = [i \in Instances |-> NoSession]
  /\ lock_delay = {}
  /\ budget = [crashes |-> MaxCrashes, wipes |-> MaxWipes,
               expiries |-> MaxExpiries, stops |-> MaxStops,
               losses |-> MaxLosses]
  /\ up = [i \in Instances |-> FALSE]
  /\ session_id = [i \in Instances |-> NoSession]
  /\ init_pc = [i \in Instances |-> "session"]
  /\ lead_pc = [i \in Instances |-> "off"]
  /\ put_result = [i \in Instances |-> FALSE]
  /\ record = [i \in Instances |-> NoKey]
  /\ seen = [i \in Instances |-> FALSE]
  /\ i_am_leader = [i \in Instances |-> FALSE]
  /\ leader_id = [i \in Instances |-> NoKey]
  /\ leader = [i \in Instances |-> "None"]
  /\ mem_pc = [i \in Instances |-> "off"]
  /\ mem_seen = [i \in Instances |-> FALSE]
  /\ shutting_down = [i \in Instances |-> FALSE]
  /\ stop_pc = [i \in Instances |-> "no"]

-----------------------------------------------------------------------------
(* Consul (external): sessions with behavior='delete' and a lock delay.    *)

\* A put with acquire is granted to the holder, or when nobody holds the key
\* and no lock delay is running for it.
MayAcquire(s, k, holder) ==
  /\ s \in sessions
  /\ holder = s \/ (holder = NoSession /\ k \notin lock_delay)

LeaderHolder == IF leader_key = NoKey THEN NoSession ELSE leader_key.session

\* The session ends: the keys that it holds are deleted.
Invalidate(s) ==
  LET held == {i \in Instances : member_key[i] = s}
  IN /\ sessions' = sessions \ {s}
     /\ member_key' = [i \in Instances |->
                         IF i \in held THEN NoSession ELSE member_key[i]]
     /\ leader_key' = IF LeaderHolder = s THEN NoKey ELSE leader_key
     /\ lock_delay' = lock_delay \cup held
                        \cup (IF LeaderHolder = s THEN {LeaderKey} ELSE {})
     /\ seen' = IF LeaderHolder = s THEN [i \in Instances |-> FALSE] ELSE seen
     /\ mem_seen' = [i \in Instances |-> mem_seen[i] /\ i \notin held]
     /\ UNCHANGED created

\* The connection fails after Consul executed a call.
LoseAnswer ==
  /\ budget.losses > 0
  /\ budget' = [budget EXCEPT !.losses = @ - 1]

\* The TTL runs out.  A running instance renews its session three times
\* within the TTL; when the renewals fail they are only logged.
Expire(s) ==
  /\ s \in sessions
  /\ IF \E i \in Instances : up[i] /\ session_id[i] = s
     THEN /\ budget.expiries > 0
          /\ budget' = [budget EXCEPT !.expiries = @ - 1]
     ELSE UNCHANGED budget
  /\ Invalidate(s)
  /\ UNCHANGED <<lead_pc, put_result, record, i_am_leader, leader_id, leader,
                 mem_pc, procVars>>

LockDelayOver(k) ==
  /\ k \in lock_delay
  /\ lock_delay' = lock_delay \ {k}
  /\ UNCHANGED <<created, sessions, leader_key, member_key, budget, leadVars,
                 memVars, procVars>>

\* An administrator deletes the leader key or a membership record.
Wipe(k) ==
  /\ budget.wipes > 0
  /\ budget' = [budget EXCEPT !.wipes = @ - 1]
  /\ IF k = LeaderKey
     THEN /\ leader_key # NoKey
          /\ leader_key' = NoKey
          /\ seen' = [i \in Instances |-> FALSE]
          /\ UNCHANGED <<member_key, mem_seen>>
     ELSE /\ member_key[k] # NoSession
          /\ member_key' = [member_key EXCEPT ![k] = NoSession]
          /\ mem_seen' = [mem_seen EXCEPT ![k] = FALSE]
          /\ UNCHANGED <<leader_key, seen>>
  /\ UNCHANGED <<created, sessions, lock_delay, lead_pc, put_result, record,
                 i_am_leader, leader_id, leader, mem_pc, procVars>>

-----------------------------------------------------------------------------
(* The process: start(), _async_init, stop() and death.                    *)

Start(i) ==
  /\ ~up[i]
  /\ up' = [up EXCEPT ![i] = TRUE]
  /\ UNCHANGED <<consulVars, budget, leadVars, memVars, session_id, init_pc,
                 shutting_down, stop_pc>>

\* _create_session; when the answer is lost the session stays behind and
\* another one is created.
CreateSession(i) ==
  /\ up[i] /\ init_pc[i] = "session"
  /\ created < MaxSessions
  /\ created' = created + 1
  /\ sessions' = sessions \cup {created + 1}
  /\ \/ /\ session_id' = [session_id EXCEPT ![i] = created + 1]
        /\ init_pc' = [init_pc EXCEPT ![i] = "member"]
        /\ UNCHANGED budget
     \/ LoseAnswer /\ UNCHANGED <<session_id, init_pc>>
  /\ UNCHANGED <<leader_key, member_key, lock_delay, leadVars, memVars, up,
                 shutting_down, stop_pc>>

\* Mutant: the record is put without acquire.
PutMembership_NoAcquire(i) ==
  /\ session_id[i] \in sessions
  /\ UNCHANGED <<created, sessions, leader_key, member_key, lock_delay>>

\* _do_create_membership_record, when the put is granted.  Otherwise it
\* raises StaleMembershipEntryException, and is retried.
PutMembership(i) ==
  /\ MayAcquire(session_id[i], i, member_key[i])
  /\ member_key' = [member_key EXCEPT ![i] = session_id[i]]
  /\ UNCHANGED <<created, sessions, leader_key, lock_delay>>

\* _create_membership_record returns; both loops and the worker are started.
JoinCluster(i) ==
  /\ up[i] /\ init_pc[i] = "member"
  /\ PutMembership(i)
  /\ \/ /\ init_pc' = [init_pc EXCEPT ![i] = "done"]
        /\ mem_pc' = [mem_pc EXCEPT ![i] = "get"]
        /\ lead_pc' = [lead_pc EXCEPT ![i] = "put"]
        /\ UNCHANGED budget
     \/ LoseAnswer /\ UNCHANGED <<init_pc, mem_pc, lead_pc>>
  /\ UNCHANGED <<put_result, record, seen, i_am_leader, leader_id,
                 leader, mem_seen, up, session_id, shutting_down, stop_pc>>

\* The beginning of stop(), which may come while _async_init is still under
\* way: that goes on until the process exits.
Stop(i) ==
  /\ up[i] /\ stop_pc[i] = "no"
  /\ budget.stops > 0
  /\ budget' = [budget EXCEPT !.stops = @ - 1]
  /\ shutting_down' = [shutting_down EXCEPT ![i] = TRUE]
  /\ stop_pc' = [stop_pc EXCEPT ![i] = "destroy"]
  /\ UNCHANGED <<consulVars, leadVars, memVars, up, session_id,
                 init_pc>>

\* _delete_session: not retried.  When the connection fails, before or after
\* Consul executed it, stop() ends with the exception.  Before the session
\* is created the call names the session None, and destroys nothing.
DestroySession(i) ==
  /\ up[i] /\ stop_pc[i] = "destroy"
  /\ \E pc \in {"destroyed", "failed"} :
       /\ stop_pc' = [stop_pc EXCEPT ![i] = pc]
       /\ \/ session_id[i] # NoSession /\ Invalidate(session_id[i])
          \/ /\ pc = "failed" \/ session_id[i] = NoSession
             /\ UNCHANGED <<consulVars, seen, mem_seen>>
  /\ UNCHANGED <<budget, lead_pc, put_result, record, i_am_leader, leader_id,
                 leader, mem_pc, up, session_id, init_pc, shutting_down>>

\* The rest of stop(): the worker and the leader are stopped.
StopRest(i) ==
  /\ up[i] /\ stop_pc[i] = "destroyed"
  /\ stop_pc' = [stop_pc EXCEPT ![i] = "done"]
  /\ leader' = [leader EXCEPT ![i] = "None"]
  /\ UNCHANGED <<consulVars, budget, lead_pc, put_result, record, seen,
                 i_am_leader, leader_id, memVars, up, session_id, init_pc,
                 shutting_down>>

\* result and record are not used after the record has been judged, but to
\* recognise a change of the key, which seen stands for.
Forget(i) ==
  /\ put_result' = [put_result EXCEPT ![i] = FALSE]
  /\ record' = [record EXCEPT ![i] = NoKey]

\* The process is gone; its session lives on until the TTL runs out.
Die(i) ==
  /\ up' = [up EXCEPT ![i] = FALSE]
  /\ session_id' = [session_id EXCEPT ![i] = NoSession]
  /\ init_pc' = [init_pc EXCEPT ![i] = "session"]
  /\ lead_pc' = [lead_pc EXCEPT ![i] = "off"]
  /\ Forget(i)
  /\ seen' = [seen EXCEPT ![i] = FALSE]
  /\ i_am_leader' = [i_am_leader EXCEPT ![i] = FALSE]
  /\ leader_id' = [leader_id EXCEPT ![i] = NoKey]
  /\ leader' = [leader EXCEPT ![i] = "None"]
  /\ mem_pc' = [mem_pc EXCEPT ![i] = "off"]
  /\ mem_seen' = [mem_seen EXCEPT ![i] = FALSE]
  /\ shutting_down' = [shutting_down EXCEPT ![i] = FALSE]
  /\ stop_pc' = [stop_pc EXCEPT ![i] = "no"]
  /\ UNCHANGED consulVars

\* The process dies without stop().
Crash(i) ==
  /\ up[i]
  /\ budget.crashes > 0
  /\ budget' = [budget EXCEPT !.crashes = @ - 1]
  /\ Die(i)

\* The reactor shuts down once stop() has returned or failed.
Exit(i) ==
  /\ up[i] /\ stop_pc[i] \in {"done", "failed"}
  /\ Die(i)
  /\ UNCHANGED budget

-----------------------------------------------------------------------------
(* _maintain_membership_record.  It does not look at shutting_down while    *)
(* it loops.                                                                *)

\* The blocking query returns: the record is ours, or it has to be remade.
MembershipRead(i) ==
  /\ up[i] /\ mem_pc[i] = "get" /\ ~mem_seen[i]
  /\ mem_seen' = [mem_seen EXCEPT ![i] = TRUE]
  /\ mem_pc' = [mem_pc EXCEPT ![i] =
                  IF member_key[i] = session_id[i] THEN "get" ELSE "put"]
  /\ UNCHANGED <<consulVars, budget, leadVars, procVars>>

RemakeMembership(i) ==
  /\ up[i] /\ mem_pc[i] = "put"
  /\ PutMembership(i)
  /\ mem_seen' = [mem_seen EXCEPT ![i] = FALSE]
  /\ \/ /\ mem_pc' = [mem_pc EXCEPT ![i] = "get"]
        /\ UNCHANGED budget
     \/ LoseAnswer /\ UNCHANGED mem_pc
  /\ UNCHANGED <<leadVars, procVars>>

-----------------------------------------------------------------------------
(* _leadership_tracking_loop.                                              *)

\* The attempt to acquire the leader key.  Every granted put changes the key.
LeaderPut(i) ==
  /\ up[i] /\ lead_pc[i] = "put"
  /\ session_id[i] \in sessions
  /\ IF MayAcquire(session_id[i], LeaderKey, LeaderHolder)
     THEN /\ leader_key' = [session |-> session_id[i], value |-> i]
          /\ seen' = [j \in Instances |-> FALSE]
          /\ \/ /\ put_result' = [put_result EXCEPT ![i] = TRUE]
                /\ lead_pc' = [lead_pc EXCEPT ![i] = "get"]
                /\ UNCHANGED budget
             \/ LoseAnswer /\ UNCHANGED <<put_result, lead_pc>>
     ELSE /\ put_result' = [put_result EXCEPT ![i] = FALSE]
          /\ lead_pc' = [lead_pc EXCEPT ![i] = "get"]
          /\ UNCHANGED <<leader_key, seen, budget>>
  /\ UNCHANGED <<created, sessions, member_key, lock_delay, record, i_am_leader,
                 leader_id, leader, memVars, procVars>>

\* Consul answers the read that follows.
LeaderGet(i) ==
  /\ up[i] /\ lead_pc[i] = "get"
  /\ record' = [record EXCEPT ![i] = leader_key]
  /\ seen' = [seen EXCEPT ![i] = TRUE]
  /\ lead_pc' = [lead_pc EXCEPT ![i] = "got"]
  /\ UNCHANGED <<consulVars, budget, put_result, i_am_leader, leader_id,
                 leader, memVars, procVars>>

\* The end of an iteration: again after a delay, except in shutdown.
Relatch(i) == IF shutting_down[i] THEN "off" ELSE "put"

\* The key vanished in between: try again.
NoRecord(i) ==
  /\ up[i] /\ lead_pc[i] = "got" /\ record[i] = NoKey
  /\ lead_pc' = [lead_pc EXCEPT ![i] = Relatch(i)]
  /\ Forget(i)
  /\ UNCHANGED <<consulVars, budget, seen, i_am_leader, leader_id, leader,
                 memVars, procVars>>

\* Mutant: neither the answer nor the record is looked at.
AssertLeadership_Unproven(i) ==
  /\ up[i] /\ lead_pc[i] = "got" /\ record[i] # NoKey
  /\ i_am_leader' = [i_am_leader EXCEPT ![i] = TRUE]
  /\ leader_id' = [leader_id EXCEPT ![i] = i]
  /\ leader' = [leader EXCEPT ![i] = IF i_am_leader[i] THEN @ ELSE "starting"]
  /\ lead_pc' = [lead_pc EXCEPT ![i] =
                   IF i_am_leader[i] THEN "watch" ELSE "start"]
  /\ Forget(i)
  /\ UNCHANGED <<consulVars, budget, seen, memVars, procVars>>

\* Granted, and the record read back shows our session: _assert_leadership.
AssertLeadership(i) ==
  /\ up[i] /\ lead_pc[i] = "got" /\ put_result[i]
  /\ record[i] # NoKey /\ record[i].session = session_id[i]
  /\ IF i_am_leader[i]
     THEN /\ lead_pc' = [lead_pc EXCEPT ![i] = "watch"]
          /\ UNCHANGED <<i_am_leader, leader_id, leader>>
     ELSE /\ i_am_leader' = [i_am_leader EXCEPT ![i] = TRUE]
          /\ leader_id' = [leader_id EXCEPT ![i] = i]
          /\ leader' = [leader EXCEPT ![i] = "starting"]
          /\ lead_pc' = [lead_pc EXCEPT ![i] = "start"]
  /\ Forget(i)
  /\ UNCHANGED <<consulVars, budget, seen, memVars, procVars>>

\* Leader.start() has put the placeholder workload.
LeaderStarted(i) ==
  /\ up[i] /\ lead_pc[i] = "start"
  /\ leader' = [leader EXCEPT ![i] = IF @ = "starting" THEN "running" ELSE @]
  /\ lead_pc' = [lead_pc EXCEPT ![i] = "watch"]
  /\ UNCHANGED <<consulVars, budget, put_result, record, seen, i_am_leader,
                 leader_id, memVars, procVars>>

\* Granted, but the record shows another session: the key changed hands in
\* between.  Nothing is asserted, and the key is watched.
Confusion(i) ==
  /\ up[i] /\ lead_pc[i] = "got" /\ put_result[i]
  /\ record[i] # NoKey /\ record[i].session # session_id[i]
  /\ lead_pc' = [lead_pc EXCEPT ![i] = "watch"]
  /\ Forget(i)
  /\ UNCHANGED <<consulVars, budget, seen, i_am_leader, leader_id, leader,
                 memVars, procVars>>

\* Mutant: the Leader is not halted.
AssertNonleadership_KeepsLeader(i) ==
  /\ up[i] /\ lead_pc[i] = "got" /\ ~put_result[i]
  /\ record[i] # NoKey
  /\ leader_id' = [leader_id EXCEPT ![i] = record[i].value]
  /\ i_am_leader' = [i_am_leader EXCEPT ![i] = FALSE]
  /\ lead_pc' = [lead_pc EXCEPT ![i] = "watch"]
  /\ Forget(i)
  /\ UNCHANGED <<consulVars, budget, seen, leader, memVars, procVars>>

\* Refused: _assert_nonleadership, which halts a Leader that was running (and
\* raises if stop() has already taken it away).
AssertNonleadership(i) ==
  /\ up[i] /\ lead_pc[i] = "got" /\ ~put_result[i]
  /\ record[i] # NoKey
  /\ leader_id' = [leader_id EXCEPT ![i] = record[i].value]
  /\ i_am_leader' = [i_am_leader EXCEPT ![i] = FALSE]
  /\ leader' = [leader EXCEPT ![i] = IF i_am_leader[i] THEN "None" ELSE @]
  /\ lead_pc' = [lead_pc EXCEPT ![i] =
                   IF i_am_leader[i] /\ leader[i] = "None"
                   THEN Relatch(i) ELSE "watch"]
  /\ Forget(i)
  /\ UNCHANGED <<consulVars, budget, seen, memVars, procVars>>

\* Mutant: the loop ends after one round.
LeaderWatch_NotRelatched(i) ==
  /\ up[i] /\ lead_pc[i] = "watch" /\ ~seen[i]
  /\ lead_pc' = [lead_pc EXCEPT ![i] = "off"]
  /\ UNCHANGED <<consulVars, budget, put_result, record, seen, i_am_leader,
                 leader_id, leader, memVars, procVars>>

\* The blocking query returns with a changed key.
LeaderWatch(i) ==
  /\ up[i] /\ lead_pc[i] = "watch" /\ ~seen[i]
  /\ lead_pc' = [lead_pc EXCEPT ![i] = Relatch(i)]
  /\ UNCHANGED <<consulVars, budget, put_result, record, seen, i_am_leader,
                 leader_id, leader, memVars, procVars>>

-----------------------------------------------------------------------------
LeadershipLoop(i) ==
  \/ LeaderPut(i)
  \/ LeaderGet(i)
  \/ NoRecord(i)
  \/ AssertLeadership(i)
  \/ LeaderStarted(i)
  \/ Confusion(i)
  \/ AssertNonleadership(i)
  \/ LeaderWatch(i)

MembershipLoop(i) == MembershipRead(i) \/ RemakeMembership(i)

Next ==
  \/ \E s \in Sessions : Expire(s)
  \/ \E k \in Keys : LockDelayOver(k) \/ Wipe(k)
  \/ \E i \in Instances :
       \/ Start(i) \/ CreateSession(i) \/ JoinCluster(i)
       \/ Stop(i) \/ DestroySession(i) \/ StopRest(i) \/ Crash(i) \/ Exit(i)
       \/ LeadershipLoop(i) \/ MembershipLoop(i)

\* A session nobody renews expires and a lock delay ends; an instance that
\* runs executes its coroutines, and its calls are answered.
Fairness ==
  /\ \A s \in Sessions :
       WF_vars(/\ ~\E i \in Instances : up[i] /\ session_id[i] = s
               /\ Expire(s))
  /\ \A k \in Keys : WF_vars(LockDelayOver(k))
  /\ \A i \in Instances :
       /\ WF_vars(CreateSession(i) \/ JoinCluster(i))
       /\ WF_vars(DestroySession(i) \/ StopRest(i) \/ Exit(i))
       /\ WF_vars(LeadershipLoop(i))
       /\ WF_vars(MembershipLoop(i))

Spec == Init /\ [][Next]_vars

FairSpec == Spec /\ Fairness

-----------------------------------------------------------------------------
(* Properties.                                                             *)

Leaders == {i \in Instances : leader[i] # "None"}

\* The coordinator's flag and its Leader object go together, whatever happens
\* to sessions and keys: no Leader is left behind when leadership is lost,
\* none is missing when it is gained.
FlagMatchesLeader ==
  \A i \in Instances :
    ~shutting_down[i] => (i_am_leader[i] <=> leader[i] # "None")

\* While sessions do not expire under running instances and nobody deletes
\* the leader key, an instance that has a Leader and is not shutting down
\* holds the leader key.  This is the "proof" that reading the record back
\* is to give.
LeaderHoldsKey ==
  \A i \in Leaders :
    ~shutting_down[i] => leader_key = [session |-> session_id[i], value |-> i]

\* Under the same conditions at most one instance leads.
SingleLeader ==
  \A i, j \in Leaders : ~shutting_down[i] /\ ~shutting_down[j] => i = j

\* Instances that stay up end up with their membership record held by their
\* own session, also when a crash left the record of the session before.
Joined ==
  \A i \in Instances :
    <>[](up[i] => \/ shutting_down[i]
                  \/ created = MaxSessions /\ init_pc[i] = "session"
                  \/ member_key[i] = session_id[i])

\* Once crashes are over, one instance leads and every instance that has
\* joined knows it as the leader.
Elected ==
  <>[](LET joined == {i \in Instances : up[i] /\ init_pc[i] = "done"
                                        /\ ~shutting_down[i]}
       IN joined # {} => \E l \in joined : /\ leader[l] = "running"
                                           /\ \A i \in joined : leader_id[i] = l)
=============================================================================
