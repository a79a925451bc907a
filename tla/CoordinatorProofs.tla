-------------------------- MODULE CoordinatorProofs -------------------------
(***************************************************************************)
(* Proofs about Coordinator, for every number of instances, sessions and   *)
(* faults: the type invariant, and, as long as no session expires under a  *)
(* running instance and nobody deletes the leader key, that an instance    *)
(* with a Leader holds the leader key, so that at most one leads.          *)
(***************************************************************************)
EXTENDS Coordinator, TLAPS

LEMMA InitTypes == Init => TypeOK
<1> SUFFICES ASSUME Init PROVE TypeOK
    OBVIOUS
<1>1. created \in 0..MaxSessions /\ sessions \in SUBSET Sessions
  BY CoordinatorAssumption DEF Init, Sessions
<1>2. budget \in [crashes : Nat, wipes : Nat, expiries : Nat, stops : Nat,
                  losses : Nat]
  BY CoordinatorAssumption, Zenon DEF Init
<1> QED
  BY <1>1, <1>2, Zenon DEF Init, TypeOK, NoSession, Keys

\* A session that ends leaves the Consul variables well typed.
LEMMA InvalidateTypes ==
  ASSUME TypeOK, NEW s, Invalidate(s)
  PROVE  /\ created' \in 0..MaxSessions
         /\ sessions' \in SUBSET Sessions
         /\ leader_key' = NoKey \/ leader_key' \in Record
         /\ member_key' \in [Instances -> Sessions \cup {NoSession}]
         /\ lock_delay' \in SUBSET Keys
         /\ seen' \in [Instances -> BOOLEAN]
         /\ mem_seen' \in [Instances -> BOOLEAN]
<1>1. created' \in 0..MaxSessions /\ sessions' \in SUBSET Sessions
  BY Zenon DEF TypeOK, Invalidate
<1>2. leader_key' = NoKey \/ leader_key' \in Record
  BY Zenon DEF TypeOK, Invalidate
<1>3. member_key' \in [Instances -> Sessions \cup {NoSession}]
  BY DEF TypeOK, Invalidate
<1>4. lock_delay' \in SUBSET Keys
  BY Zenon DEF TypeOK, Invalidate, Keys
<1>5. seen' \in [Instances -> BOOLEAN] /\ mem_seen' \in [Instances -> BOOLEAN]
  BY Zenon DEF TypeOK, Invalidate
<1> QED
  BY <1>1, <1>2, <1>3, <1>4, <1>5, Zenon

\* Forgetting the locals of the leadership loop keeps them well typed.
LEMMA ForgetTypes ==
  ASSUME TypeOK, NEW i \in Instances, Forget(i)
  PROVE  /\ put_result' \in [Instances -> BOOLEAN]
         /\ DOMAIN record' = Instances
         /\ \A j \in Instances : record'[j] = NoKey \/ record'[j] \in Record
  BY Zenon DEF TypeOK, Forget

\* Setting a flag of one instance leaves a function to flags.
LEMMA FlagSet ==
  ASSUME NEW f \in [Instances -> BOOLEAN], NEW i \in Instances,
         NEW b \in BOOLEAN
  PROVE  [f EXCEPT ![i] = b] \in [Instances -> BOOLEAN]
  BY Zenon

LEMMA StepTypes == TypeOK /\ [Next]_vars => TypeOK'
<1> SUFFICES ASSUME TypeOK, [Next]_vars PROVE TypeOK'
    OBVIOUS
<1> USE DEF leadVars, memVars, procVars, consulVars
<1>1. ASSUME NEW s \in Sessions, Expire(s) PROVE TypeOK'
  <2>1. Invalidate(s)
    BY <1>1, Zenon DEF Expire
  <2>2. budget' \in [crashes : Nat, wipes : Nat, expiries : Nat, stops : Nat,
                     losses : Nat]
    BY <1>1 DEF Expire, TypeOK
  <2> QED
    BY <1>1, <2>1, <2>2, InvalidateTypes, Zenon DEF Expire, TypeOK
<1>2. ASSUME NEW k \in Keys, LockDelayOver(k) PROVE TypeOK'
  BY <1>2, Zenon DEF LockDelayOver, TypeOK
<1>3. ASSUME NEW k \in Keys, Wipe(k) PROVE TypeOK'
  <2>1. budget' \in [crashes : Nat, wipes : Nat, expiries : Nat, stops : Nat,
                     losses : Nat]
    BY <1>3 DEF Wipe, TypeOK
  <2>2. CASE k = LeaderKey
    <3>1. seen' \in [Instances -> BOOLEAN]
      BY <1>3, <2>2, Zenon DEF Wipe
    <3> QED
      BY <1>3, <2>1, <2>2, <3>1 DEF Wipe, TypeOK
  <2>3. CASE k # LeaderKey
    <3>1. k \in Instances
      BY <2>3, Zenon DEF Keys
    <3>2. mem_seen' \in [Instances -> BOOLEAN]
      <4>1. mem_seen' = [mem_seen EXCEPT ![k] = FALSE]
        BY <1>3, <2>3, Zenon DEF Wipe
      <4>2. mem_seen \in [Instances -> BOOLEAN]
        BY Zenon DEF TypeOK
      <4> QED
        BY <3>1, <4>1, <4>2, FlagSet, Zenon
    <3> QED
      BY <1>3, <2>1, <2>3, <3>1, <3>2 DEF Wipe, TypeOK
  <2> QED
    BY <2>2, <2>3, Zenon
<1>4. ASSUME NEW i \in Instances, Start(i) PROVE TypeOK'
  BY <1>4, Zenon DEF Start, TypeOK
<1>5. ASSUME NEW i \in Instances, CreateSession(i) PROVE TypeOK'
  <2>1. created' \in 0..MaxSessions /\ created' \in Sessions
    BY <1>5, CoordinatorAssumption DEF CreateSession, TypeOK, Sessions
  <2>2. sessions' \in SUBSET Sessions
    BY <1>5, <2>1, Zenon DEF CreateSession, TypeOK
  <2>3. /\ session_id' \in [Instances -> Sessions \cup {NoSession}]
        /\ init_pc' \in [Instances -> {"session", "member", "done"}]
    BY <1>5, <2>1 DEF CreateSession, TypeOK
  <2>4. budget' \in [crashes : Nat, wipes : Nat, expiries : Nat, stops : Nat,
                     losses : Nat]
    BY <1>5 DEF CreateSession, LoseAnswer, TypeOK
  <2> QED
    BY <1>5, <2>1, <2>2, <2>3, <2>4, Zenon DEF CreateSession, TypeOK
<1>6. ASSUME NEW i \in Instances, JoinCluster(i) PROVE TypeOK'
  <2>1. budget' \in [crashes : Nat, wipes : Nat, expiries : Nat, stops : Nat,
                     losses : Nat]
    BY <1>6 DEF JoinCluster, LoseAnswer, TypeOK
  <2>2. member_key' \in [Instances -> Sessions \cup {NoSession}]
    BY <1>6, Zenon DEF JoinCluster, PutMembership, TypeOK
  <2>3. /\ init_pc' \in [Instances -> {"session", "member", "done"}]
        /\ mem_pc' \in [Instances -> {"off", "get", "put"}]
        /\ lead_pc' \in [Instances -> {"off", "put", "get", "got", "start",
                                       "watch"}]
    BY <1>6 DEF JoinCluster, TypeOK
  <2> QED
    BY <1>6, <2>1, <2>2, <2>3, Zenon DEF JoinCluster, PutMembership, TypeOK
<1>7. ASSUME NEW i \in Instances, Stop(i) PROVE TypeOK'
  BY <1>7 DEF Stop, TypeOK
<1>8. ASSUME NEW i \in Instances, DestroySession(i) PROVE TypeOK'
  <2>1. stop_pc' \in [Instances -> {"no", "destroy", "destroyed", "done",
                                    "failed"}]
    BY <1>8 DEF DestroySession, TypeOK
  <2>2. CASE Invalidate(session_id[i])
    BY <1>8, <2>1, <2>2, InvalidateTypes, Zenon DEF DestroySession, TypeOK
  <2>3. CASE UNCHANGED <<consulVars, seen, mem_seen>>
    BY <1>8, <2>1, <2>3, Zenon DEF DestroySession, TypeOK
  <2> QED
    BY <1>8, <2>2, <2>3, Zenon DEF DestroySession
<1>9. ASSUME NEW i \in Instances, StopRest(i) PROVE TypeOK'
  BY <1>9, Zenon DEF StopRest, TypeOK
<1>10. ASSUME NEW i \in Instances, Crash(i) \/ Exit(i) PROVE TypeOK'
  <2>1. budget' \in [crashes : Nat, wipes : Nat, expiries : Nat, stops : Nat,
                     losses : Nat]
    BY <1>10 DEF Crash, Exit, TypeOK
  <2>2. Die(i) /\ Forget(i)
    BY <1>10, Zenon DEF Crash, Exit, Die
  <2>3. /\ up' \in [Instances -> BOOLEAN]
        /\ session_id' \in [Instances -> Sessions \cup {NoSession}]
        /\ init_pc' \in [Instances -> {"session", "member", "done"}]
        /\ shutting_down' \in [Instances -> BOOLEAN]
        /\ stop_pc' \in [Instances -> {"no", "destroy", "destroyed", "done",
                                       "failed"}]
    BY <2>2, Zenon DEF Die, TypeOK
  <2>4. /\ lead_pc' \in [Instances -> {"off", "put", "get", "got", "start",
                                       "watch"}]
        /\ seen' \in [Instances -> BOOLEAN]
        /\ i_am_leader' \in [Instances -> BOOLEAN]
        /\ leader' \in [Instances -> {"None", "starting", "running"}]
    BY <2>2, Zenon DEF Die, TypeOK
  <2>5. /\ DOMAIN leader_id' = Instances
        /\ \A j \in Instances : leader_id'[j] = NoKey \/ leader_id'[j] \in Instances
    BY <2>2, Zenon DEF Die, TypeOK
  <2>6. /\ mem_pc' \in [Instances -> {"off", "get", "put"}]
        /\ mem_seen' \in [Instances -> BOOLEAN]
        /\ UNCHANGED consulVars
    BY <2>2, Zenon DEF Die, TypeOK
  <2> QED
    BY <2>1, <2>2, <2>3, <2>4, <2>5, <2>6, ForgetTypes, Zenon DEF TypeOK
<1>11. ASSUME NEW i \in Instances, MembershipLoop(i) PROVE TypeOK'
  <2>1. CASE MembershipRead(i)
    BY <2>1, Zenon DEF MembershipRead, TypeOK
  <2>2. CASE RemakeMembership(i)
    <3>1. budget' \in [crashes : Nat, wipes : Nat, expiries : Nat,
                       stops : Nat, losses : Nat]
      BY <2>2 DEF RemakeMembership, LoseAnswer, TypeOK
    <3> QED
      BY <2>2, <3>1 DEF RemakeMembership, PutMembership, TypeOK
  <2> QED
    BY <1>11, <2>1, <2>2, Zenon DEF MembershipLoop
<1>12. ASSUME NEW i \in Instances, LeaderPut(i) PROVE TypeOK'
  <2>1. session_id[i] \in Sessions
    BY <1>12, Zenon DEF LeaderPut, TypeOK
  <2>2. budget' \in [crashes : Nat, wipes : Nat, expiries : Nat, stops : Nat,
                     losses : Nat]
    BY <1>12 DEF LeaderPut, LoseAnswer, TypeOK
  <2>3. leader_key' = NoKey \/ leader_key' \in Record
    BY <1>12, <2>1 DEF LeaderPut, TypeOK, Record
  <2>4. seen' \in [Instances -> BOOLEAN]
    <3>1. seen' = [j \in Instances |-> FALSE] \/ seen' = seen
      BY <1>12, Zenon DEF LeaderPut
    <3>2. [j \in Instances |-> FALSE] \in [Instances -> BOOLEAN]
      OBVIOUS
    <3> QED
      BY <3>1, <3>2, Zenon DEF TypeOK
  <2>5. \/ put_result' = [put_result EXCEPT ![i] = TRUE]
        \/ put_result' = [put_result EXCEPT ![i] = FALSE]
        \/ put_result' = put_result
    BY <1>12, Zenon DEF LeaderPut
  <2>6. put_result' \in [Instances -> BOOLEAN]
    <3>1. put_result \in [Instances -> BOOLEAN]
      BY Zenon DEF TypeOK
    <3> QED
      BY <2>5, <3>1, FlagSet, Zenon
  <2>7. lead_pc' \in [Instances -> {"off", "put", "get", "got", "start",
                                    "watch"}]
    BY <1>12 DEF LeaderPut, TypeOK
  <2> QED
    BY <1>12, <2>2, <2>3, <2>4, <2>6, <2>7, Zenon DEF LeaderPut, TypeOK
<1>13. ASSUME NEW i \in Instances, LeaderGet(i) PROVE TypeOK'
  BY <1>13, Zenon DEF LeaderGet, TypeOK
<1>14. ASSUME NEW i \in Instances,
              NoRecord(i) \/ Confusion(i) \/ LeaderWatch(i) PROVE TypeOK'
  <2>1. lead_pc' \in [Instances -> {"off", "put", "get", "got", "start",
                                    "watch"}]
    BY <1>14 DEF NoRecord, Confusion, LeaderWatch, Relatch, TypeOK
  <2>2. CASE NoRecord(i) \/ Confusion(i)
    BY <2>1, <2>2, ForgetTypes DEF NoRecord, Confusion, TypeOK
  <2>3. CASE LeaderWatch(i)
    BY <2>1, <2>3, Zenon DEF LeaderWatch, TypeOK
  <2> QED
    BY <1>14, <2>2, <2>3, Zenon
<1>15. ASSUME NEW i \in Instances, AssertLeadership(i) PROVE TypeOK'
  <2>1. /\ lead_pc' \in [Instances -> {"off", "put", "get", "got", "start",
                                       "watch"}]
        /\ i_am_leader' \in [Instances -> BOOLEAN]
        /\ leader' \in [Instances -> {"None", "starting", "running"}]
    <3>1. lead_pc' \in [Instances -> {"off", "put", "get", "got", "start",
                                      "watch"}]
      BY <1>15 DEF AssertLeadership, TypeOK
    <3>2. \/ i_am_leader' = i_am_leader
          \/ i_am_leader' = [i_am_leader EXCEPT ![i] = TRUE]
      BY <1>15, Zenon DEF AssertLeadership
    <3>3. i_am_leader' \in [Instances -> BOOLEAN]
      <4>1. i_am_leader \in [Instances -> BOOLEAN]
        BY Zenon DEF TypeOK
      <4> QED
        BY <3>2, <4>1, FlagSet, Zenon
    <3>4. leader' \in [Instances -> {"None", "starting", "running"}]
      BY <1>15 DEF AssertLeadership, TypeOK
    <3> QED
      BY <3>1, <3>3, <3>4, Zenon
  <2>2. /\ DOMAIN leader_id' = Instances
        /\ \A j \in Instances : leader_id'[j] = NoKey \/ leader_id'[j] \in Instances
    BY <1>15 DEF AssertLeadership, TypeOK
  <2> QED
    BY <1>15, <2>1, <2>2, ForgetTypes, Zenon DEF AssertLeadership, TypeOK
<1>16. ASSUME NEW i \in Instances, LeaderStarted(i) PROVE TypeOK'
  BY <1>16, Zenon DEF LeaderStarted, TypeOK
<1>17. ASSUME NEW i \in Instances, AssertNonleadership(i) PROVE TypeOK'
  <2>1. record[i].value \in Instances
    BY <1>17, Zenon DEF AssertNonleadership, TypeOK, Record
  <2>2. /\ lead_pc' \in [Instances -> {"off", "put", "get", "got", "start",
                                       "watch"}]
        /\ i_am_leader' \in [Instances -> BOOLEAN]
        /\ leader' \in [Instances -> {"None", "starting", "running"}]
    BY <1>17, Zenon DEF AssertNonleadership, Relatch, TypeOK
  <2>3. /\ DOMAIN leader_id' = Instances
        /\ \A j \in Instances : leader_id'[j] = NoKey \/ leader_id'[j] \in Instances
    BY <1>17, <2>1, Zenon DEF AssertNonleadership, TypeOK
  <2> QED
    BY <1>17, <2>2, <2>3, ForgetTypes, Zenon DEF AssertNonleadership, TypeOK
<1>18. CASE UNCHANGED vars
  BY <1>18, Zenon DEF vars, TypeOK
<1> QED
  BY <1>1, <1>2, <1>3, <1>4, <1>5, <1>6, <1>7, <1>8, <1>9, <1>10, <1>11,
     <1>12, <1>13, <1>14, <1>15, <1>16, <1>17, <1>18, Zenon
     DEF Next, LeadershipLoop

\* TypeOK for every value of the constants.
THEOREM CoordinatorTypes == Spec => []TypeOK
  BY InitTypes, StepTypes, PTL DEF Spec

-----------------------------------------------------------------------------
(* Leadership.  LeaderHoldsKey is not inductive: a Leader is created from  *)
(* an answer received earlier, so the answer must still be true then, and  *)
(* it stays true because the session of an instance that is not stopping   *)
(* is live and is nobody else's.                                           *)

Mine(i) == leader_key = [session |-> session_id[i], value |-> i]

NoFaults == budget.wipes = 0 /\ budget.expiries = 0

\* Sessions: who has one runs, it is new enough, and it is not shared.
OwnSession ==
  /\ \A i \in Instances : init_pc[i] = "session" => session_id[i] = NoSession
  /\ \A i \in Instances : session_id[i] # NoSession => up[i]
  /\ \A i \in Instances : session_id[i] <= created
  /\ \A i, j \in Instances :
       session_id[i] = session_id[j] /\ session_id[i] # NoSession => i = j

\* Only stop() destroys a session.
StopFlag == \A i \in Instances : stop_pc[i] # "no" => shutting_down[i]

\* A granted put, and a Leader, stand for a key that is still held.
Granted ==
  \A i \in Instances : ~shutting_down[i] =>
    /\ lead_pc[i] \in {"get", "got"} /\ put_result[i] => Mine(i)
    /\ leader[i] # "None" => Mine(i)

LeaderInv == TypeOK /\ NoFaults /\ OwnSession /\ StopFlag /\ Granted

\* Who holds the key has a session, which is the one Consul has for the key.
LEMMA MineHolder ==
  ASSUME LeaderInv, NEW i \in Instances, Mine(i)
  PROVE  /\ leader_key # NoKey
         /\ LeaderHolder = session_id[i]
         /\ session_id[i] \in Sessions /\ session_id[i] # NoSession
<1>1. session_id[i] \in 0..MaxSessions
  BY CoordinatorAssumption DEF LeaderInv, TypeOK, Sessions, NoSession
<1>2. leader_key # NoKey /\ leader_key.session = session_id[i]
  BY <1>1, CoordinatorAssumption, Zenon DEF Mine
<1>3. session_id[i] \in Sessions
  BY <1>2, Zenon DEF LeaderInv, TypeOK, Record
<1> QED
  BY <1>2, <1>3, CoordinatorAssumption DEF LeaderHolder, Sessions, NoSession

\* The key of an instance stays when another session ends.
LEMMA KeepsMine ==
  ASSUME LeaderInv, NEW s, Invalidate(s), NEW i \in Instances,
         session_id[i] # s, Mine(i)
  PROVE  leader_key' = leader_key
  BY MineHolder, Zenon DEF Invalidate

LEMMA InitLeader == ASSUME MaxWipes = 0, MaxExpiries = 0 PROVE Init => LeaderInv
<1> SUFFICES ASSUME Init PROVE LeaderInv
    OBVIOUS
<1>1. TypeOK
  BY InitTypes, Zenon
<1>2. NoFaults
  BY Zenon DEF Init, NoFaults
<1>3. OwnSession
  BY DEF Init, OwnSession, NoSession
<1>4. StopFlag /\ Granted
  BY Zenon DEF Init, StopFlag, Granted
<1> QED
  BY <1>1, <1>2, <1>3, <1>4, Zenon DEF LeaderInv

LEMMA StepNoFaults == LeaderInv /\ [Next]_vars => NoFaults'
<1> SUFFICES ASSUME LeaderInv, [Next]_vars PROVE NoFaults'
    OBVIOUS
<1>1. /\ budget \in [crashes : Nat, wipes : Nat, expiries : Nat, stops : Nat,
                     losses : Nat]
      /\ budget.wipes = 0 /\ budget.expiries = 0
  <2>1. budget \in [crashes : Nat, wipes : Nat, expiries : Nat, stops : Nat,
                    losses : Nat]
    BY SMT DEF LeaderInv, TypeOK
  <2> QED
    BY <2>1, Zenon DEF LeaderInv, NoFaults
<1>2. \/ budget' = budget
      \/ budget' = [budget EXCEPT !.crashes = @ - 1]
      \/ budget' = [budget EXCEPT !.stops = @ - 1]
      \/ budget' = [budget EXCEPT !.losses = @ - 1]
  <2>1. ASSUME NEW s \in Sessions, Expire(s) PROVE budget' = budget
    BY <1>1, <2>1 DEF Expire
  <2>2. ASSUME NEW k \in Keys, LockDelayOver(k) \/ Wipe(k) PROVE budget' = budget
    BY <1>1, <2>2 DEF LockDelayOver, Wipe
  <2>3. ASSUME NEW i \in Instances, MembershipLoop(i) \/ LeadershipLoop(i)
        PROVE  budget' = budget \/ budget' = [budget EXCEPT !.losses = @ - 1]
    BY <2>3, Zenon DEF MembershipLoop, MembershipRead, RemakeMembership,
       LeadershipLoop, LeaderPut, LeaderGet, NoRecord, AssertLeadership,
       LeaderStarted, Confusion, AssertNonleadership, LeaderWatch, LoseAnswer
  <2>4. ASSUME NEW i \in Instances,
               \/ Start(i) \/ CreateSession(i) \/ JoinCluster(i)
               \/ DestroySession(i) \/ StopRest(i) \/ Exit(i)
        PROVE  budget' = budget \/ budget' = [budget EXCEPT !.losses = @ - 1]
    BY <2>4, Zenon DEF Start, CreateSession, JoinCluster, DestroySession,
       StopRest, Exit, LoseAnswer
  <2>5. ASSUME NEW i \in Instances, Stop(i) \/ Crash(i)
        PROVE  \/ budget' = [budget EXCEPT !.crashes = @ - 1]
               \/ budget' = [budget EXCEPT !.stops = @ - 1]
    BY <2>5, Zenon DEF Stop, Crash
  <2> QED
    BY <2>1, <2>2, <2>3, <2>4, <2>5, Zenon DEF Next, vars
<1> QED
  BY <1>1, <1>2 DEF NoFaults

LEMMA StepOwnSession == LeaderInv /\ [Next]_vars => OwnSession'
<1> SUFFICES ASSUME LeaderInv, [Next]_vars PROVE OwnSession'
    OBVIOUS
<1> USE DEF leadVars, memVars, procVars, consulVars
<1>1. /\ TypeOK /\ OwnSession
      /\ created \in Nat /\ \A i \in Instances : session_id[i] \in Nat
  BY CoordinatorAssumption DEF LeaderInv, TypeOK, Sessions, NoSession
<1>2. CASE UNCHANGED <<up, session_id, init_pc, created>>
  BY <1>1, <1>2, Zenon DEF OwnSession
<1>3. ASSUME NEW i \in Instances, Start(i) PROVE OwnSession'
  BY <1>1, <1>3, Zenon DEF Start, OwnSession, TypeOK
<1>4. ASSUME NEW i \in Instances, CreateSession(i) PROVE OwnSession'
  <2>1. CASE UNCHANGED <<session_id, init_pc>>
    BY <1>1, <1>4, <2>1 DEF CreateSession, OwnSession
  <2>2. CASE /\ session_id' = [session_id EXCEPT ![i] = created + 1]
             /\ init_pc' = [init_pc EXCEPT ![i] = "member"]
    BY <1>1, <1>4, <2>2 DEF CreateSession, OwnSession, TypeOK
  <2> QED
    BY <1>4, <2>1, <2>2, Zenon DEF CreateSession
<1>5. ASSUME NEW i \in Instances, JoinCluster(i) PROVE OwnSession'
  BY <1>1, <1>5 DEF JoinCluster, PutMembership, OwnSession, TypeOK
<1>6. ASSUME NEW i \in Instances, Crash(i) \/ Exit(i) PROVE OwnSession'
  <2>1. /\ up' = [up EXCEPT ![i] = FALSE]
        /\ session_id' = [session_id EXCEPT ![i] = NoSession]
        /\ init_pc' = [init_pc EXCEPT ![i] = "session"]
        /\ created' = created
    BY <1>6, Zenon DEF Crash, Exit, Die
  <2> QED
    BY <1>1, <2>1 DEF OwnSession, TypeOK, NoSession
<1>7. \/ UNCHANGED <<up, session_id, init_pc, created>>
      \/ \E i \in Instances : \/ Start(i) \/ CreateSession(i) \/ JoinCluster(i)
                              \/ Crash(i) \/ Exit(i)
  <2>1. ASSUME NEW s, Expire(s) PROVE UNCHANGED <<up, session_id, init_pc, created>>
    BY <2>1, Zenon DEF Expire, Invalidate
  <2>2. ASSUME NEW i \in Instances, DestroySession(i)
        PROVE  UNCHANGED <<up, session_id, init_pc, created>>
    BY <2>2, Zenon DEF DestroySession, Invalidate
  <2>3. ASSUME NEW i \in Instances, LeadershipLoop(i) \/ MembershipLoop(i)
        PROVE  UNCHANGED <<up, session_id, init_pc, created>>
    BY <2>3, Zenon DEF MembershipLoop, MembershipRead, RemakeMembership, PutMembership,
       LeadershipLoop, LeaderPut, LeaderGet, NoRecord, AssertLeadership,
       LeaderStarted, Confusion, AssertNonleadership, LeaderWatch
  <2>4. ASSUME NEW i \in Instances, Stop(i) \/ StopRest(i)
        PROVE  UNCHANGED <<up, session_id, init_pc, created>>
    BY <2>4, Zenon DEF Stop, StopRest
  <2>5. ASSUME (\E k \in Keys : LockDelayOver(k) \/ Wipe(k)) \/ UNCHANGED vars
        PROVE  UNCHANGED <<up, session_id, init_pc, created>>
    BY <2>5, Zenon DEF Wipe, LockDelayOver, vars
  <2> QED
    BY <2>1, <2>2, <2>3, <2>4, <2>5, Zenon DEF Next
<1> QED
  BY <1>2, <1>3, <1>4, <1>5, <1>6, <1>7, Zenon

LEMMA StepStopFlag == TypeOK /\ StopFlag /\ [Next]_vars => StopFlag'
<1> SUFFICES ASSUME TypeOK, StopFlag, [Next]_vars PROVE StopFlag'
    OBVIOUS
<1> USE DEF leadVars, memVars, procVars, consulVars
<1>1. shutting_down \in [Instances -> BOOLEAN] /\ DOMAIN stop_pc = Instances
  BY Zenon DEF TypeOK
<1>2. CASE UNCHANGED <<shutting_down, stop_pc>>
  BY <1>2, Zenon DEF StopFlag
<1>3. ASSUME NEW i \in Instances,
             Stop(i) \/ DestroySession(i) \/ StopRest(i) PROVE StopFlag'
  <2>1. CASE Stop(i)
    BY <1>1, <2>1, Zenon DEF Stop, StopFlag
  <2>2. CASE DestroySession(i) \/ StopRest(i)
    <3>1. /\ shutting_down' = shutting_down /\ stop_pc[i] # "no"
          /\ \E pc : stop_pc' = [stop_pc EXCEPT ![i] = pc]
      BY <2>2, Zenon DEF DestroySession, StopRest
    <3>2. shutting_down[i]
      BY <3>1, Zenon DEF StopFlag
    <3>3. PICK pc : stop_pc' = [stop_pc EXCEPT ![i] = pc]
      BY <3>1, Zenon
    <3>4. ASSUME NEW j \in Instances, j # i PROVE stop_pc'[j] = stop_pc[j]
      BY <1>1, <3>3, <3>4, Zenon
    <3> QED
      BY <3>1, <3>2, <3>4, Zenon DEF StopFlag
  <2> QED
    BY <1>3, <2>1, <2>2, Zenon
<1>4. ASSUME NEW i \in Instances, Crash(i) \/ Exit(i) PROVE StopFlag'
  <2>1. /\ shutting_down' = [shutting_down EXCEPT ![i] = FALSE]
        /\ stop_pc' = [stop_pc EXCEPT ![i] = "no"]
    BY <1>4, Zenon DEF Crash, Exit, Die
  <2> QED
    BY <1>1, <2>1, Zenon DEF StopFlag
<1>5. \/ UNCHANGED <<shutting_down, stop_pc>>
      \/ \E i \in Instances : \/ Stop(i) \/ DestroySession(i) \/ StopRest(i)
                              \/ Crash(i) \/ Exit(i)
  <2>1. ASSUME NEW i \in Instances, LeadershipLoop(i) \/ MembershipLoop(i)
        PROVE  UNCHANGED <<shutting_down, stop_pc>>
    BY <2>1, Zenon DEF MembershipLoop, MembershipRead, RemakeMembership,
       LeadershipLoop, LeaderPut, LeaderGet, NoRecord, AssertLeadership,
       LeaderStarted, Confusion, AssertNonleadership, LeaderWatch
  <2>2. ASSUME NEW i \in Instances,
               Start(i) \/ CreateSession(i) \/ JoinCluster(i)
        PROVE  UNCHANGED <<shutting_down, stop_pc>>
    BY <2>2, Zenon DEF Start, CreateSession, JoinCluster
  <2>3. ASSUME \/ \E s \in Sessions : Expire(s)
               \/ (\E k \in Keys : LockDelayOver(k) \/ Wipe(k)) \/ UNCHANGED vars
        PROVE  UNCHANGED <<shutting_down, stop_pc>>
    BY <2>3, Zenon DEF Expire, Wipe, LockDelayOver, vars
  <2> QED
    BY <2>1, <2>2, <2>3, Zenon DEF Next
<1> QED
  BY <1>2, <1>3, <1>4, <1>5, Zenon

LEMMA StepGranted == LeaderInv /\ [Next]_vars => Granted'
<1> SUFFICES ASSUME LeaderInv, [Next]_vars PROVE Granted'
    OBVIOUS
<1> USE DEF leadVars, memVars, procVars, consulVars
<1>1. TypeOK /\ NoFaults /\ OwnSession /\ StopFlag /\ Granted
  BY Zenon DEF LeaderInv
<1>2. CASE UNCHANGED <<leader_key, session_id, shutting_down, lead_pc,
                       put_result, leader>>
  BY <1>1, <1>2, Zenon DEF Granted, Mine
<1>3. ASSUME NEW s \in Sessions, Expire(s) PROVE Granted'
  <2>1. Invalidate(s) /\ \A i \in Instances : up[i] => session_id[i] # s
    BY <1>1, <1>3 DEF Expire, NoFaults
  <2>2. ASSUME NEW i \in Instances, Mine(i) PROVE leader_key' = leader_key
    <3>1. session_id[i] # s
      BY <1>1, <2>1, <2>2, MineHolder, Zenon DEF OwnSession
    <3> QED
      BY <2>1, <2>2, <3>1, KeepsMine, Zenon
  <2> QED
    BY <1>1, <1>3, <2>2, Zenon DEF Expire, Granted, Mine
<1>4. ASSUME NEW k \in Keys, Wipe(k) PROVE Granted'
  BY <1>1, <1>4 DEF Wipe, NoFaults
<1>5. ASSUME NEW i \in Instances, CreateSession(i) PROVE Granted'
  <2>1. session_id[i] = NoSession
    BY <1>1, <1>5, Zenon DEF CreateSession, OwnSession
  <2>2. ~Mine(i)
    BY <2>1, MineHolder, Zenon
  <2>3. /\ UNCHANGED <<leader_key, shutting_down, lead_pc, put_result, leader>>
        /\ \A j \in Instances : j # i => session_id'[j] = session_id[j]
    BY <1>1, <1>5 DEF CreateSession, TypeOK
  <2> QED
    BY <1>1, <2>2, <2>3, Zenon DEF Granted, Mine
<1>6. ASSUME NEW i \in Instances, JoinCluster(i) PROVE Granted'
  BY <1>1, <1>6 DEF JoinCluster, PutMembership, Granted, Mine, TypeOK
<1>7. ASSUME NEW i \in Instances, Stop(i) \/ StopRest(i) PROVE Granted'
  <2>1. UNCHANGED <<leader_key, session_id, lead_pc, put_result>>
    BY <1>7, Zenon DEF Stop, StopRest
  <2>2. CASE Stop(i)
    <3>1. /\ leader' = leader
          /\ \A j \in Instances : ~shutting_down'[j] => ~shutting_down[j]
      BY <1>1, <2>2, Zenon DEF Stop, TypeOK
    <3> QED
      BY <1>1, <2>1, <3>1, Zenon DEF Granted, Mine
  <2>3. CASE StopRest(i)
    <3>1. /\ shutting_down' = shutting_down
          /\ \A j \in Instances : leader'[j] # "None" => leader[j] # "None"
      BY <1>1, <2>3, Zenon DEF StopRest, TypeOK
    <3> QED
      BY <1>1, <2>1, <3>1, Zenon DEF Granted, Mine
  <2> QED
    BY <1>7, <2>2, <2>3, Zenon
<1>8. ASSUME NEW i \in Instances, DestroySession(i) PROVE Granted'
  <2>1. shutting_down[i]
    BY <1>1, <1>8, Zenon DEF DestroySession, StopFlag
  <2>2. ASSUME NEW j \in Instances, Mine(j), ~shutting_down[j]
        PROVE  leader_key' = leader_key
    <3>1. session_id[j] # session_id[i]
      BY <1>1, <2>1, <2>2, MineHolder, Zenon DEF OwnSession
    <3> QED
      BY <1>8, <2>2, <3>1, KeepsMine, Zenon DEF DestroySession
  <2> QED
    BY <1>1, <1>8, <2>2, Zenon DEF DestroySession, Granted, Mine
<1>9. ASSUME NEW i \in Instances, Crash(i) \/ Exit(i) PROVE Granted'
  <2>1. /\ leader_key' = leader_key
        /\ session_id' = [session_id EXCEPT ![i] = NoSession]
        /\ lead_pc' = [lead_pc EXCEPT ![i] = "off"]
        /\ put_result' = [put_result EXCEPT ![i] = FALSE]
        /\ leader' = [leader EXCEPT ![i] = "None"]
        /\ shutting_down' = [shutting_down EXCEPT ![i] = FALSE]
    BY <1>9, Zenon DEF Crash, Exit, Die, Forget
  <2> QED
    BY <1>1, <2>1, Zenon DEF Granted, Mine, TypeOK
<1>10. ASSUME NEW i \in Instances, LeaderPut(i) PROVE Granted'
  <2>1. CASE MayAcquire(session_id[i], LeaderKey, LeaderHolder)
    <3>1. ASSUME NEW j \in Instances, j # i, Mine(j) PROVE FALSE
      <4>1. LeaderHolder = session_id[j] /\ session_id[j] # NoSession
        BY <3>1, MineHolder, Zenon
      <4>2. LeaderHolder = session_id[i]
        BY <2>1, <4>1, Zenon DEF MayAcquire
      <4> QED
        BY <1>1, <3>1, <4>1, <4>2, Zenon DEF OwnSession
    <3>2. /\ leader_key' = [session |-> session_id[i], value |-> i]
          /\ UNCHANGED <<session_id, shutting_down, leader>>
      BY <1>10, <2>1, Zenon DEF LeaderPut
    <3>3. Mine(i)'
      BY <3>2, Zenon DEF Mine
    <3>4. \A j \in Instances : j # i => /\ lead_pc'[j] = lead_pc[j]
                                       /\ put_result'[j] = put_result[j]
      BY <1>1, <1>10, <2>1 DEF LeaderPut, TypeOK
    <3> QED
      BY <1>1, <3>1, <3>2, <3>3, <3>4, Zenon DEF Granted
  <2>2. CASE ~MayAcquire(session_id[i], LeaderKey, LeaderHolder)
    <3>1. /\ UNCHANGED <<leader_key, session_id, shutting_down, leader>>
          /\ put_result' = [put_result EXCEPT ![i] = FALSE]
          /\ lead_pc' = [lead_pc EXCEPT ![i] = "get"]
      BY <1>10, <2>2, Zenon DEF LeaderPut
    <3> QED
      BY <1>1, <3>1, Zenon DEF Granted, Mine, TypeOK
  <2> QED
    BY <2>1, <2>2, Zenon
<1>11. ASSUME NEW i \in Instances, LeaderGet(i) PROVE Granted'
  <2>1. /\ lead_pc[i] = "get" /\ lead_pc' = [lead_pc EXCEPT ![i] = "got"]
        /\ UNCHANGED <<leader_key, session_id, shutting_down, put_result, leader>>
    BY <1>11, SMT DEF LeaderGet
  <2> QED
    BY <1>1, <2>1, Zenon DEF Granted, Mine, TypeOK
<1>12. ASSUME NEW i \in Instances,
              \/ NoRecord(i) \/ Confusion(i) \/ LeaderWatch(i)
              \/ AssertNonleadership(i)
       PROVE  Granted'
  <2>1. /\ UNCHANGED <<leader_key, session_id, shutting_down>>
        /\ put_result' = [put_result EXCEPT ![i] = FALSE] \/ put_result' = put_result
    BY <1>12, Zenon DEF NoRecord, Confusion, LeaderWatch, AssertNonleadership,
       Forget
  <2>2. \/ lead_pc' = [lead_pc EXCEPT ![i] = Relatch(i)]
        \/ lead_pc' = [lead_pc EXCEPT ![i] = "watch"]
    <3>1. CASE NoRecord(i) \/ Confusion(i) \/ LeaderWatch(i)
      BY <3>1, Zenon DEF NoRecord, Confusion, LeaderWatch
    <3>2. CASE AssertNonleadership(i)
      BY <3>2, Zenon DEF AssertNonleadership
    <3> QED
      BY <1>12, <3>1, <3>2, Zenon
  <2>3. lead_pc'[i] \notin {"get", "got"}
    BY <1>1, <2>2 DEF Relatch, TypeOK
  <2>4. \A j \in Instances : leader'[j] = leader[j] \/ leader'[j] = "None"
    <3>1. CASE NoRecord(i) \/ Confusion(i) \/ LeaderWatch(i)
      BY <3>1, Zenon DEF NoRecord, Confusion, LeaderWatch
    <3>2. CASE AssertNonleadership(i)
      BY <1>1, <3>2, Zenon DEF AssertNonleadership, TypeOK
    <3> QED
      BY <1>12, <3>1, <3>2, Zenon
  <2>5. \A j \in Instances : j # i => /\ lead_pc'[j] = lead_pc[j]
                                     /\ put_result'[j] = put_result[j]
    BY <1>1, <2>1, <2>2 DEF TypeOK
  <2> QED
    BY <1>1, <2>1, <2>3, <2>4, <2>5, Zenon DEF Granted, Mine
<1>13. ASSUME NEW i \in Instances, AssertLeadership(i) PROVE Granted'
  <2>1. /\ UNCHANGED <<leader_key, session_id, shutting_down>>
        /\ put_result' = [put_result EXCEPT ![i] = FALSE]
        /\ lead_pc[i] = "got" /\ put_result[i]
    BY <1>13, Zenon DEF AssertLeadership, Forget
  <2>2. ~shutting_down[i] => Mine(i)
    BY <1>1, <2>1, Zenon DEF Granted
  <2>3. \A j \in Instances : j # i => /\ lead_pc'[j] = lead_pc[j]
                                     /\ put_result'[j] = put_result[j]
                                     /\ leader'[j] = leader[j]
    BY <1>1, <1>13, <2>1 DEF AssertLeadership, TypeOK
  <2> QED
    BY <1>1, <2>1, <2>2, <2>3, Zenon DEF Granted, Mine
<1>14. ASSUME NEW i \in Instances, LeaderStarted(i) PROVE Granted'
  <2>1. /\ UNCHANGED <<leader_key, session_id, shutting_down, put_result>>
        /\ lead_pc' = [lead_pc EXCEPT ![i] = "watch"]
    BY <1>14, Zenon DEF LeaderStarted
  <2>2. \A j \in Instances : leader'[j] # "None" => leader[j] # "None"
    BY <1>1, <1>14, Zenon DEF LeaderStarted, TypeOK
  <2> QED
    BY <1>1, <2>1, <2>2, Zenon DEF Granted, Mine, TypeOK
<1>15. ASSUME NEW i \in Instances, Start(i) \/ MembershipLoop(i) PROVE Granted'
  <2>1. UNCHANGED <<leader_key, session_id, shutting_down, lead_pc,
                    put_result, leader>>
    BY <1>15, Zenon DEF Start, MembershipLoop, MembershipRead, RemakeMembership,
                        PutMembership
  <2> QED
    BY <1>2, <2>1, Zenon
<1>16. CASE UNCHANGED vars \/ \E k \in Keys : LockDelayOver(k)
  BY <1>2, <1>16, Zenon DEF LockDelayOver, vars
<1> QED
  BY <1>3, <1>4, <1>5, <1>6, <1>7, <1>8, <1>9, <1>10, <1>11, <1>12, <1>13,
     <1>14, <1>15, <1>16, Zenon DEF Next, LeadershipLoop

\* As long as no session expires under a running instance and nobody deletes
\* the leader key, an instance with a Leader that is not stopping holds the
\* leader key, and so at most one such instance has a Leader.
THEOREM CoordinatorSingleLeader ==
  ASSUME MaxWipes = 0, MaxExpiries = 0
  PROVE  Spec => [](LeaderHoldsKey /\ SingleLeader)
<1>1. Init => LeaderInv
  BY InitLeader, Zenon
<1>2. LeaderInv /\ [Next]_vars => LeaderInv'
  <2> SUFFICES ASSUME LeaderInv, [Next]_vars PROVE LeaderInv'
      OBVIOUS
  <2>1. TypeOK' /\ StopFlag'
    BY StepTypes, StepStopFlag, Zenon DEF LeaderInv
  <2>2. NoFaults' /\ OwnSession' /\ Granted'
    BY StepNoFaults, StepOwnSession, StepGranted, Zenon
  <2> QED
    BY <2>1, <2>2, Zenon DEF LeaderInv
<1>3. LeaderInv => LeaderHoldsKey
  BY Zenon DEF LeaderInv, Granted, Mine, LeaderHoldsKey, Leaders
<1>4. LeaderHoldsKey => SingleLeader
  BY DEF LeaderHoldsKey, SingleLeader
<1> QED
  BY <1>1, <1>2, <1>3, <1>4, PTL DEF Spec

-----------------------------------------------------------------------------
(* The flag and the Leader.  Nothing is assumed of sessions and keys.  The *)
(* invariant has to know that stop() took the Leader only of an instance   *)
(* that is shutting down.                                                  *)

FlagInv == TypeOK /\ StopFlag /\ FlagMatchesLeader

LEMMA StepFlag == FlagInv /\ [Next]_vars => FlagMatchesLeader'
<1> SUFFICES ASSUME TypeOK, StopFlag, FlagMatchesLeader, [Next]_vars
             PROVE  FlagMatchesLeader'
    BY Zenon DEF FlagInv
<1> USE DEF leadVars, memVars, procVars, consulVars
<1>1. /\ shutting_down \in [Instances -> BOOLEAN]
      /\ i_am_leader \in [Instances -> BOOLEAN]
      /\ DOMAIN leader = Instances
  BY Zenon DEF TypeOK
<1>2. CASE UNCHANGED <<shutting_down, i_am_leader, leader>>
  BY <1>2, Zenon DEF FlagMatchesLeader
<1>3. ASSUME NEW i \in Instances, Stop(i) PROVE FlagMatchesLeader'
  <2>1. /\ UNCHANGED <<i_am_leader, leader>>
        /\ \A j \in Instances : ~shutting_down'[j] => ~shutting_down[j]
    BY <1>1, <1>3, Zenon DEF Stop
  <2> QED
    BY <2>1, Zenon DEF FlagMatchesLeader
<1>4. ASSUME NEW i \in Instances, StopRest(i) PROVE FlagMatchesLeader'
  <2>1. /\ UNCHANGED <<i_am_leader, shutting_down>> /\ stop_pc[i] # "no"
        /\ \A j \in Instances : j # i => leader'[j] = leader[j]
    BY <1>1, <1>4, Zenon DEF StopRest
  <2>2. shutting_down[i]
    BY <2>1, Zenon DEF StopFlag
  <2> QED
    BY <2>1, <2>2, Zenon DEF FlagMatchesLeader
<1>5. ASSUME NEW i \in Instances, Crash(i) \/ Exit(i) PROVE FlagMatchesLeader'
  <2>1. /\ i_am_leader' = [i_am_leader EXCEPT ![i] = FALSE]
        /\ leader' = [leader EXCEPT ![i] = "None"]
        /\ shutting_down' = [shutting_down EXCEPT ![i] = FALSE]
    BY <1>5, Zenon DEF Crash, Exit, Die
  <2> QED
    BY <1>1, <2>1, Zenon DEF FlagMatchesLeader
<1>6. ASSUME NEW i \in Instances, AssertLeadership(i) PROVE FlagMatchesLeader'
  <2>1. CASE i_am_leader[i]
    BY <1>2, <1>6, <2>1, Zenon DEF AssertLeadership
  <2>2. CASE ~i_am_leader[i]
    <3>1. /\ i_am_leader' = [i_am_leader EXCEPT ![i] = TRUE]
          /\ leader' = [leader EXCEPT ![i] = "starting"]
          /\ shutting_down' = shutting_down
      BY <1>6, <2>2, Zenon DEF AssertLeadership
    <3> QED
      BY <1>1, <3>1, Zenon DEF FlagMatchesLeader
  <2> QED
    BY <2>1, <2>2, Zenon
<1>7. ASSUME NEW i \in Instances, LeaderStarted(i) PROVE FlagMatchesLeader'
  <2>1. /\ UNCHANGED <<i_am_leader, shutting_down>>
        /\ leader' = [leader EXCEPT ![i] = IF @ = "starting" THEN "running" ELSE @]
    BY <1>7, Zenon DEF LeaderStarted
  <2>2. \A j \in Instances : leader'[j] # "None" <=> leader[j] # "None"
    BY <1>1, <2>1, Zenon
  <2> QED
    BY <2>1, <2>2, Zenon DEF FlagMatchesLeader
<1>8. ASSUME NEW i \in Instances, AssertNonleadership(i) PROVE FlagMatchesLeader'
  <2>1. /\ i_am_leader' = [i_am_leader EXCEPT ![i] = FALSE]
        /\ leader' = [leader EXCEPT ![i] = IF i_am_leader[i] THEN "None" ELSE @]
        /\ shutting_down' = shutting_down
    BY <1>8, Zenon DEF AssertNonleadership
  <2> QED
    BY <1>1, <2>1, Zenon DEF FlagMatchesLeader
<1>9. ASSUME NEW i \in Instances,
             \/ LeaderPut(i) \/ LeaderGet(i) \/ NoRecord(i) \/ Confusion(i)
             \/ LeaderWatch(i) \/ MembershipLoop(i)
      PROVE  FlagMatchesLeader'
  <2>1. UNCHANGED <<shutting_down, i_am_leader, leader>>
    BY <1>9, Zenon DEF LeaderPut, LeaderGet, NoRecord, Confusion, LeaderWatch,
       MembershipLoop, MembershipRead, RemakeMembership
  <2> QED
    BY <1>2, <2>1, Zenon
<1>10. ASSUME NEW i \in Instances,
              \/ Start(i) \/ CreateSession(i) \/ JoinCluster(i)
              \/ DestroySession(i)
       PROVE  FlagMatchesLeader'
  <2>1. UNCHANGED <<shutting_down, i_am_leader, leader>>
    BY <1>10, Zenon DEF Start, CreateSession, JoinCluster, DestroySession
  <2> QED
    BY <1>2, <2>1, Zenon
<1>11. CASE \/ \E s \in Sessions : Expire(s)
            \/ \E k \in Keys : LockDelayOver(k) \/ Wipe(k)
            \/ UNCHANGED vars
  <2>1. UNCHANGED <<shutting_down, i_am_leader, leader>>
    BY <1>11, Zenon DEF Expire, LockDelayOver, Wipe, vars
  <2> QED
    BY <1>2, <2>1, Zenon
<1> QED
  BY <1>3, <1>4, <1>5, <1>6, <1>7, <1>8, <1>9, <1>10, <1>11, Zenon
     DEF Next, LeadershipLoop

\* Whatever happens to sessions and keys, an instance that is not shutting
\* down has a Leader exactly when it takes itself for the leader: losing the
\* key halts the Leader, gaining it makes one, and no path of the tracking
\* loop, of stop() or of a crash separates the two.
THEOREM CoordinatorFlag == Spec => []FlagMatchesLeader
<1>1. Init => FlagInv
  <2>1. Init => StopFlag /\ FlagMatchesLeader
    BY Zenon DEF Init, StopFlag, FlagMatchesLeader
  <2> QED
    BY <2>1, InitTypes, Zenon DEF FlagInv
<1>2. FlagInv /\ [Next]_vars => FlagInv'
  BY StepTypes, StepStopFlag, StepFlag, Zenon DEF FlagInv
<1>3. FlagInv => FlagMatchesLeader
  BY Zenon DEF FlagInv
<1> QED
  BY <1>1, <1>2, <1>3, PTL DEF Spec
=============================================================================
