---------------------------- MODULE LeaderProofs ----------------------------
(***************************************************************************)
(* For every ring, set of members and set of work ids: the leader's fields *)
(* keep their types, and as long as _reassign_work is not re-entered no    *)
(* work id is ever assigned to two members.                                *)
(***************************************************************************)
EXTENDS Leader, TLAPS

LEMMA WantedType ==
  ASSUME NEW ms \in SUBSET Members, NEW ws \in SUBSET Work
  PROVE  Wanted(ms, ws) \in SUBSET Assignment
  BY LeaderAssumption DEF Wanted, Assignment

\* A ring gives each work id one node.
LEMMA WantedFunctional ==
  ASSUME NEW ms \in SUBSET Members, NEW ws \in SUBSET Work
  PROVE  Functional(Wanted(ms, ws))
  BY DEF Wanted, Functional

LEMMA SubsetFunctional ==
  ASSUME NEW A, NEW B \in SUBSET A, Functional(A)
  PROVE  Functional(B)
  BY Zenon DEF Functional

LEMMA IdleType == Idle \in RunState
  BY SMTT(30) DEF Idle, RunState

\* Left keeps the plan, or is idle.
LEMMA LeftType ==
  ASSUME NEW r \in Runs, run \in [Runs -> RunState],
         NEW rev \in SUBSET Assignment, NEW asg \in SUBSET Assignment
  PROVE  Left(r, rev, asg) \in RunState
  BY IdleType, Zenon DEF Left, RunState

-----------------------------------------------------------------------------
(* Type correctness.                                                       *)

LEMMA InitTypeOK == Init => TypeOK
  <1> SUFFICES ASSUME Init PROVE TypeOK
    OBVIOUS
  <1>1. run \in [Runs -> RunState]
    BY IdleType, Zenon DEF Init
  <1>2. track_workload \in Polling(Work) /\ track_members \in Polling(Members)
    BY Zenon DEF Init, Polling
  <1>3. kv_work \in SUBSET Work /\ edits \in 0..MaxEdits
    BY LeaderAssumption DEF Init
  <1> QED
    BY <1>1, <1>2, <1>3, Zenon DEF Init, TypeOK

LEMMA NextTypeOK == TypeOK /\ [Next]_vars => TypeOK'
  <1> SUFFICES ASSUME TypeOK, [Next]_vars PROVE TypeOK'
    OBVIOUS
  <1> USE LeaderAssumption DEF kvVars
  <1>1. ASSUME NEW m \in Members, EditMembers(m) PROVE TypeOK'
    BY <1>1 DEF EditMembers, TypeOK
  <1>2. ASSUME NEW w \in Work, EditWork(w) PROVE TypeOK'
    BY <1>2 DEF EditWork, TypeOK
  <1>3. CASE Start
    BY <1>3, Zenon DEF Start, TypeOK
  <1>4. CASE StartTracking
    BY <1>4, Zenon DEF StartTracking, TypeOK, Polling
  <1>5. CASE Stop
    BY <1>5, Zenon DEF Stop, TypeOK
  <1>6. CASE WorkloadAnswered
    BY <1>6, Zenon DEF WorkloadAnswered, TypeOK, Polling
  <1>7. CASE TrackWorkload
    BY <1>7 DEF TrackWorkload, Flood, Again, RestartSoak, RestartRaises,
                TypeOK, Polling
  <1>8. CASE WorkloadFloodOver
    BY <1>8, Zenon DEF WorkloadFloodOver, Again, TypeOK, Polling
  <1>9. CASE MembersAnswered
    BY <1>9, Zenon DEF MembersAnswered, TypeOK, Polling
  <1>10. CASE TrackMembers
    BY <1>10, Zenon DEF TrackMembers, Again, RestartSoak, RestartRaises, TypeOK,
                 Polling
  <1>11. ASSUME NEW r \in Runs, ReassignWork(r) PROVE TypeOK'
    <2>1. Wanted(members, workload) \in SUBSET Assignment
      BY WantedType, Zenon DEF TypeOK
    <2>2. run' \in [Runs -> RunState]
      BY <1>11, <2>1, Zenon DEF ReassignWork, TypeOK, RunState, Idle
    <2> QED
      BY <1>11, <2>2, Zenon DEF ReassignWork, TypeOK
  <1>12. ASSUME NEW r \in Runs, CurrentAssignments(r) PROVE TypeOK'
    <2>1. run' \in [Runs -> RunState]
      <3>1. run[r].wanted \in SUBSET Assignment
        BY Zenon DEF TypeOK, RunState
      <3> QED
        BY <1>12, <3>1, LeftType, Zenon DEF CurrentAssignments, TypeOK
    <2> QED
      BY <1>12, <2>1, Zenon DEF CurrentAssignments, TypeOK
  <1>13. ASSUME NEW r \in Runs, NEW p \in Assignment, Revoke(r, p)
         PROVE  TypeOK'
    <2>1. run' \in [Runs -> RunState]
      <3>1. run[r].revoke \in SUBSET Assignment
            /\ run[r].assign \in SUBSET Assignment
        BY Zenon DEF TypeOK, RunState
      <3> QED
        BY <1>13, <3>1, LeftType, Zenon DEF Revoke, TypeOK
    <2> QED
      BY <1>13, <2>1, Zenon DEF Revoke, TypeOK
  <1>14. ASSUME NEW r \in Runs, NEW p \in Assignment, Assign(r, p)
         PROVE  TypeOK'
    <2>1. run' \in [Runs -> RunState]
      <3>1. run[r].revoke \in SUBSET Assignment
            /\ run[r].assign \in SUBSET Assignment
        BY DEF TypeOK, RunState
      <3> QED
        BY <1>14, <3>1, LeftType, Zenon DEF Assign, TypeOK
    <2> QED
      BY <1>14, <2>1, Zenon DEF Assign, TypeOK
  <1>15. ASSUME NEW r \in Runs, ReassignFails(r) PROVE TypeOK'
    BY <1>15, IdleType, Zenon DEF ReassignFails, RestartSoak, RestartRaises, TypeOK
  <1>16. CASE UNCHANGED vars
    BY <1>16, Zenon DEF vars, TypeOK
  <1> QED
    BY <1>1, <1>2, <1>3, <1>4, <1>5, <1>6, <1>7, <1>8, <1>9, <1>10, <1>11,
       <1>12, <1>13, <1>14, <1>15, <1>16, Zenon DEF Next, Reassignment

\* The leader's fields and the keys it writes keep their types.
THEOREM LeaderTypes == Spec => []TypeOK
  BY InitTypeOK, NextTypeOK, PTL DEF Spec

-----------------------------------------------------------------------------
(* One owner per work id.  OneOwner is not inductive: that a put adds no   *)
(* second owner follows from what the activation has revoked by then,      *)
(* which is RevokedBeforeAssigned.  A step preserves that if no other      *)
(* activation is in progress.                                              *)

IInv == TypeOK /\ OneOwner /\ RevokedBeforeAssigned

LEMMA InitIInv == Init => IInv
  BY InitTypeOK
     DEF Init, IInv, OneOwner, RevokedBeforeAssigned, Idle, Functional

LEMMA RunFields ==
  ASSUME TypeOK, NEW r \in Runs
  PROVE  run[r] = [pc |-> run[r].pc, wanted |-> run[r].wanted,
                   revoke |-> run[r].revoke, assign |-> run[r].assign,
                   no_member |-> run[r].no_member]
  BY Zenon DEF TypeOK, RunState

\* If r is the activation in progress, only its own plan is to be looked at.
LEMMA OnePlan ==
  ASSUME IInv, NotReentered, NEW r \in Runs, run[r].pc # "idle",
         run' = [run EXCEPT ![r] = run'[r]],
         run'[r] = Idle \/
           /\ Functional(run'[r].wanted)
           /\ run'[r].assign \subseteq run'[r].wanted
           /\ run'[r].pc = "revoke" =>
                kv_assign' \subseteq run'[r].revoke \cup run'[r].wanted
           /\ run'[r].pc = "assign" => kv_assign' \subseteq run'[r].wanted
  PROVE  RevokedBeforeAssigned'
  <1>1. ASSUME NEW s \in Runs, s # r
        PROVE  run'[s] = run[s] /\ run[s].pc = "idle"
    BY <1>1, Zenon DEF IInv, TypeOK, NotReentered
  <1> QED
    BY <1>1 DEF IInv, RevokedBeforeAssigned, Idle, Functional

\* A step that leaves the assignment keys and the activations alone.
LEMMA OtherSteps ==
  ASSUME IInv, TypeOK', UNCHANGED <<kv_assign, run>>
  PROVE  IInv'
  BY Zenon DEF IInv, OneOwner, RevokedBeforeAssigned

LEMMA NextIInv ==
  ASSUME NotReentered, IInv, [Next]_vars
  PROVE  IInv'
  <1>0. TypeOK /\ TypeOK'
    BY NextTypeOK, Zenon DEF IInv
  <1> USE DEF kvVars
  <1>1. ASSUME NEW r \in Runs, ReassignWork(r) PROVE IInv'
    <2>1. Functional(Wanted(members, workload))
      BY <1>0, WantedFunctional, Zenon DEF TypeOK
    <2>2. run' = [run EXCEPT ![r] = run'[r]]
          /\ run'[r].wanted = Wanted(members, workload)
          /\ run'[r].assign = {} /\ run'[r].pc = "get"
      BY <1>0, <1>1, Zenon DEF ReassignWork, TypeOK, Idle
    <2>3. RevokedBeforeAssigned'
      BY <1>0, <1>1, <2>1, <2>2, Zenon
         DEF ReassignWork, IInv, RevokedBeforeAssigned, TypeOK
    <2> QED
      BY <1>0, <1>1, <2>3, Zenon DEF ReassignWork, IInv, OneOwner
  <1>2. ASSUME NEW r \in Runs, CurrentAssignments(r) PROVE IInv'
    <2> DEFINE L == run'[r]
    <2>1. L = Left(r, kv_assign \ run[r].wanted, run[r].wanted \ kv_assign)
      BY <1>0, <1>2, Zenon DEF CurrentAssignments, TypeOK
    <2>2. \/ L = Idle
          \/ /\ L.wanted = run[r].wanted
             /\ L.revoke = kv_assign \ run[r].wanted
             /\ L.assign = run[r].wanted \ kv_assign
             /\ L.pc = IF L.revoke # {} THEN "revoke" ELSE "assign"
      BY <1>0, <2>1, RunFields DEF Left
    <2>3. Functional(run[r].wanted) /\ UNCHANGED kv_assign
      BY <1>2, Zenon DEF CurrentAssignments, IInv, RevokedBeforeAssigned
    <2>4. run' = [run EXCEPT ![r] = L] /\ run[r].pc # "idle"
      BY <1>0, <1>2, Zenon DEF CurrentAssignments, TypeOK
    <2>5. RevokedBeforeAssigned'
      BY <2>2, <2>3, <2>4, OnePlan, Zenon
    <2> QED
      BY <1>0, <1>2, <2>5, Zenon DEF CurrentAssignments, IInv, OneOwner
  <1>3. ASSUME NEW r \in Runs, NEW p \in Assignment, Revoke(r, p)
        PROVE  IInv'
    <2> DEFINE L == run'[r]
    <2>1. RevokedBeforeAssigned'
      <3>1. L = Left(r, run[r].revoke \ {p}, run[r].assign)
        BY <1>0, <1>3, Zenon DEF Revoke, TypeOK
      <3>2. \/ L = Idle
            \/ /\ L.wanted = run[r].wanted
               /\ L.revoke = run[r].revoke \ {p}
               /\ L.assign = run[r].assign
               /\ L.pc = IF L.revoke # {} THEN "revoke" ELSE "assign"
        BY <1>0, <3>1, RunFields DEF Left
      <3>3. /\ Functional(run[r].wanted)
            /\ run[r].assign \subseteq run[r].wanted
            /\ kv_assign' \subseteq (run[r].revoke \ {p}) \cup run[r].wanted
        BY <1>3, Zenon DEF Revoke, IInv, RevokedBeforeAssigned
      <3>4. run' = [run EXCEPT ![r] = L] /\ run[r].pc # "idle"
        BY <1>0, <1>3, Zenon DEF Revoke, TypeOK
      <3> QED
        BY <3>2, <3>3, <3>4, OnePlan, Zenon
    <2>2. OneOwner'
      BY <1>3, SubsetFunctional, Zenon DEF Revoke, IInv, OneOwner
    <2> QED
      BY <1>0, <2>1, <2>2, Zenon DEF IInv
  <1>4. ASSUME NEW r \in Runs, NEW p \in Assignment, Assign(r, p)
        PROVE  IInv'
    <2>1. kv_assign' \subseteq run[r].wanted /\ Functional(run[r].wanted)
      BY <1>4, Zenon DEF Assign, IInv, RevokedBeforeAssigned
    <2>2. OneOwner'
      BY <2>1, SubsetFunctional, Zenon DEF OneOwner
    <2> DEFINE L == run'[r]
    <2>3. RevokedBeforeAssigned'
      <3>1. L = Left(r, run[r].revoke, run[r].assign \ {p})
        BY <1>0, <1>4, Zenon DEF Assign, TypeOK
      <3>2. \/ L = Idle
            \/ /\ L.wanted = run[r].wanted
               /\ L.assign = run[r].assign \ {p}
        BY <1>0, <3>1, RunFields, Zenon DEF Left
      <3>3. run[r].assign \subseteq run[r].wanted
        BY <1>4, Zenon DEF Assign, IInv, RevokedBeforeAssigned
      <3>4. run' = [run EXCEPT ![r] = L] /\ run[r].pc # "idle"
        BY <1>0, <1>4, Zenon DEF Assign, TypeOK
      <3> QED
        BY <2>1, <3>2, <3>3, <3>4, OnePlan, Zenon
    <2> QED
      BY <1>0, <2>2, <2>3, Zenon DEF IInv
  <1>5. ASSUME NEW r \in Runs, ReassignFails(r) PROVE IInv'
    <2>1. RevokedBeforeAssigned'
      BY <1>0, <1>5
         DEF ReassignFails, IInv, RevokedBeforeAssigned, TypeOK, Idle,
             Functional
    <2> QED
      BY <1>0, <1>5, <2>1, Zenon DEF ReassignFails, IInv, OneOwner
  <1>6. CASE UNCHANGED <<kv_assign, run>>
    BY <1>0, <1>6, OtherSteps, Zenon
  <1> QED
    BY <1>1, <1>2, <1>3, <1>4, <1>5, <1>6, Zenon
       DEF Next, Reassignment, EditMembers, EditWork, Start, StartTracking,
           Stop, WorkloadAnswered, TrackWorkload, WorkloadFloodOver,
           MembersAnswered, TrackMembers, vars

\* If _reassign_work is never re-entered, then no work id is ever assigned to
\* two members in Consul, whatever the ring, the members and the work, and
\* however many activations the timer starts.
THEOREM LeaderSingleOwner == Spec => SingleOwner
  <1>1. NotReentered /\ IInv /\ [Next]_vars => IInv'
    BY NextIInv, Zenon
  <1>2. IInv => OneOwner
    BY Zenon DEF IInv
  <1> QED
    BY <1>1, <1>2, InitIInv, PTL DEF Spec, SingleOwner
=============================================================================
