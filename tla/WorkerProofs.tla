---------------------------- MODULE WorkerProofs ----------------------------
(***************************************************************************)
(* For every set of members, work ids and number of edits: the worker      *)
(* never holds two soak timers, so it never applies the None that an       *)
(* applied candidate leaves behind, and stop() in the middle of a soak is  *)
(* final.                                                                  *)
(***************************************************************************)
EXTENDS Worker, TLAPS

\* TypeOK is not inductive by itself: my_workload stays a set only because
\* the timer that fires finds a candidate, which is OneSoakTimer.
IInv == TypeOK /\ OneSoakTimer

LEMMA InitIInv == Init => IInv
  <1> SUFFICES ASSUME Init PROVE IInv
    OBVIOUS
  <1>1. TypeOK
    <2>1. assignments \in [Members -> SUBSET Work]
      BY Zenon DEF Init
    <2>2. changes \in 0..MaxChanges
      BY WorkerAssumption DEF Init
    <2>3. my_candidate_workload \in SUBSET Work
      BY Zenon DEF Init
    <2>4. my_workload # None /\ my_workload \in SUBSET Work
      BY WorkerAssumption, Zenon DEF Init
    <2> QED
      BY <2>1, <2>2, <2>3, <2>4, Zenon DEF Init, TypeOK, TimerStates
  <1>2. OneSoakTimer
    BY Zenon DEF Init, OneSoakTimer
  <1> QED
    BY <1>1, <1>2, Zenon DEF IInv

LEMMA StashIInv ==
  ASSUME TypeOK, OneSoakTimer, NEW c \in SUBSET Work, Stash(c)
  PROVE  /\ my_workload' \in SUBSET Work
         /\ my_candidate_workload' \in SUBSET Work
         /\ assignment_soak_timer' \in TimerStates
         /\ scheduled' \in Nat
         /\ OneSoakTimer'
  BY WorkerAssumption
     DEF TypeOK, OneSoakTimer, Stash, CancelPending, TimerStates

LEMMA NextIInv == IInv /\ [Next]_vars => IInv'
  <1> SUFFICES ASSUME IInv, [Next]_vars PROVE IInv'
    OBVIOUS
  <1> USE WorkerAssumption DEF IInv, envVars, timerVars
  <1>1. ASSUME NEW m \in Members, NEW w \in Work, EditAssignment(m, w)
        PROVE  IInv'
    BY <1>1 DEF EditAssignment, TypeOK, OneSoakTimer
  <1>2. CASE LeaderSeen
    BY <1>2, Zenon DEF LeaderSeen, TypeOK, OneSoakTimer
  <1>3. CASE ConsulAnswers
    <2>1. Polled \in SUBSET Work
      BY Zenon DEF Polled, TypeOK
    <2> QED
      BY <1>3, <2>1, Zenon DEF ConsulAnswers, TypeOK, OneSoakTimer
  <1>4. CASE Start
    BY <1>4, Zenon DEF Start, TypeOK, OneSoakTimer
  <1>5. CASE Settle
    BY <1>5, Zenon DEF Settle, TypeOK, OneSoakTimer
  <1>6. CASE TrackChange
    <2>1. results \in SUBSET Work /\ results' \in SUBSET Work
      BY <1>6, Zenon DEF TrackChange, TypeOK
    <2>2. CASE Stash(results) /\ pc' = "get"
      BY <1>6, <2>1, <2>2, StashIInv, Zenon DEF TrackChange, TypeOK
    <2>3. CASE UNCHANGED timerVars /\ pc' = "flood"
      BY <1>6, <2>1, <2>3, Zenon DEF TrackChange, TypeOK, OneSoakTimer
    <2> QED
      BY <1>6, <2>2, <2>3, Zenon DEF TrackChange
  <1>7. CASE TrackSame
    BY <1>7, Zenon DEF TrackSame, TypeOK, OneSoakTimer
  <1>8. CASE FloodOver
    BY <1>8, Zenon DEF FloodOver, TypeOK, OneSoakTimer
  <1>9. CASE UpdateAssignments
    <2>1. scheduled = 1 /\ my_candidate_workload \in SUBSET Work
      BY <1>9 DEF UpdateAssignments, TypeOK, OneSoakTimer
    <2> QED
      BY <1>9, <2>1 DEF UpdateAssignments, TypeOK, OneSoakTimer, TimerStates
  <1>10. CASE Stop
    BY <1>10 DEF Stop, CancelPending, TypeOK, OneSoakTimer, TimerStates
  <1>11. CASE UNCHANGED vars
    BY <1>11, Zenon DEF vars, TypeOK, OneSoakTimer
  <1> QED
    BY <1>1, <1>2, <1>3, <1>4, <1>5, <1>6, <1>7, <1>8, <1>9, <1>10, <1>11, Zenon
       DEF Next

\* The fields of a worker keep their types: in particular my_workload is
\* never None.
THEOREM WorkerTypes == Spec => []TypeOK
  <1>1. IInv => TypeOK
    BY Zenon DEF IInv
  <1> QED
    BY <1>1, InitIInv, NextIInv, PTL DEF Spec

\* _stash_and_restart_soak_timer never leaves a second soak timer running.
THEOREM WorkerOneSoakTimer == Spec => []OneSoakTimer
  <1>1. IInv => OneSoakTimer
    BY Zenon DEF IInv
  <1> QED
    BY <1>1, InitIInv, NextIInv, PTL DEF Spec

\* stop() in the middle of a soak is final.
THEOREM WorkerStopMidSoakIsFinal == Spec => StopMidSoakIsFinal
  <1>1. ASSUME IInv, [Next]_vars, assignment_soak_timer = "cancelled"
        PROVE  UNCHANGED <<my_workload, assignment_soak_timer>>
    <2> USE <1>1 DEF timerVars
    <2>1. scheduled = 0
      BY Zenon DEF IInv, OneSoakTimer
    <2>2. ~UpdateAssignments
      BY <2>1 DEF UpdateAssignments
    <2>3. \A c : ~Stash(c)
      BY Zenon DEF Stash
    <2> QED
      BY <2>2, <2>3, Zenon
         DEF Next, EditAssignment, LeaderSeen, ConsulAnswers, Start, Settle,
             TrackChange, TrackSame, FloodOver, Stop, vars
  <1>2. IInv /\ [Next]_vars =>
          [assignment_soak_timer = "cancelled" =>
             UNCHANGED <<my_workload, assignment_soak_timer>>]_vars
    BY <1>1, Zenon
  <1> QED
    BY <1>2, InitIInv, NextIInv, PTL DEF Spec, StopMidSoakIsFinal
=============================================================================
