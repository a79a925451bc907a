------------------------------- MODULE Worker -------------------------------
(***************************************************************************)
(* voltha/worker.py: the worker side of the coordinator, one per VOLTHA    *)
(* instance.  It long-polls the assignment keys under its own instance id, *)
(* lets a change soak, and then applies it to my_workload.                 *)
(*                                                                         *)
(* The reactor runs one callback at a time, so a step here is the code     *)
(* between two yields.  Consul's answer to a blocking query is a snapshot  *)
(* taken when the server answers; it is processed later, and the soak      *)
(* timer, stop() and the leader may act in between.                        *)
(*                                                                         *)
(* The leader's edits of the assignment keys and the coordinator's first   *)
(* sighting of a leader are the environment.                               *)
(***************************************************************************)
EXTENDS Naturals

CONSTANTS
  Work,         \* work ids (device groups)
  Members,      \* instance ids that assignments are made to
  Me,           \* the instance id of this worker
  IdPrefixed,   \* the members whose id has Me's id as a prefix
  None,         \* Python's None
  MaxChanges    \* bound: edits of the assignment keys

ASSUME WorkerAssumption ==
  /\ Me \in IdPrefixed
  /\ IdPrefixed \subseteq Members
  /\ \A S \in SUBSET Work : None # S
  /\ MaxChanges \in Nat

VARIABLES
  assignments,           \* Consul: member -> the work ids below its key
  changes,               \* number of edits made so far
  leader_known,          \* coord.leader_id is not None
  fresh,                 \* no key of the query changed since the index held
  pc,                    \* where _track_my_assignments is
  results,               \* the answer that the reactor has yet to process
  my_workload,
  my_candidate_workload,
  assignment_soak_timer, \* state of the DelayedCall the field refers to
  scheduled,             \* DelayedCalls of _update_assignments in the reactor
  stopped                \* stop() was called

vars == <<assignments, changes, leader_known, fresh, pc, results, my_workload,
          my_candidate_workload, assignment_soak_timer, scheduled, stopped>>

timerVars == <<my_workload, my_candidate_workload, assignment_soak_timer,
               scheduled>>

envVars == <<assignments, changes, leader_known>>

TimerStates == {"None", "pending", "called", "cancelled"}

\* What kv_get(assignment_prefix + instance_id, recurse=True) returns, after
\* assignment_match has extracted the work ids.  The query has no trailing
\* slash and the match does not look at member_id.
Polled == UNION {assignments[m] : m \in IdPrefixed}

TypeOK ==
  /\ assignments \in [Members -> SUBSET Work]
  /\ changes \in 0..MaxChanges
  /\ leader_known \in BOOLEAN
  /\ fresh \in BOOLEAN
  /\ pc \in {"init", "wait", "settle", "get", "got", "flood"}
  /\ results \in SUBSET Work
  /\ my_workload # None /\ my_workload \in SUBSET Work
  /\ my_candidate_workload = None \/ my_candidate_workload \in SUBSET Work
  /\ assignment_soak_timer \in TimerStates
  /\ scheduled \in Nat
  /\ stopped \in BOOLEAN

Init ==
  /\ assignments = [m \in Members |-> {}]
  /\ changes = 0
  /\ leader_known = FALSE
  /\ fresh = FALSE
  /\ pc = "init"
  /\ results = {}
  /\ my_workload = {}
  /\ my_candidate_workload = {}
  /\ assignment_soak_timer = "None"
  /\ scheduled = 0
  /\ stopped = FALSE

-----------------------------------------------------------------------------
(* The environment.                                                        *)

\* The leader adds or deletes one assignment key.  Consul moves the index of
\* every query whose prefix covers the key.
EditAssignment(m, w) ==
  /\ changes < MaxChanges
  /\ changes' = changes + 1
  /\ assignments' = [assignments EXCEPT ![m] =
                       IF w \in @ THEN @ \ {w} ELSE @ \cup {w}]
  /\ fresh' = (fresh /\ m \notin IdPrefixed)
  /\ UNCHANGED <<leader_known, pc, results, timerVars, stopped>>

\* coordinator._set_leader_id, for the first time: it also calls back the
\* deferred on which the worker may be waiting.
LeaderSeen ==
  /\ ~leader_known
  /\ leader_known' = TRUE
  /\ pc' = IF pc = "wait" THEN "settle" ELSE pc
  /\ UNCHANGED <<assignments, changes, fresh, results, timerVars, stopped>>

\* Consul answers the blocking query: at once for a new or outdated index,
\* and at the server's wait limit otherwise.
ConsulAnswers ==
  /\ pc = "get"
  /\ results' = Polled
  /\ fresh' = TRUE
  /\ pc' = "got"
  /\ UNCHANGED <<envVars, timerVars, stopped>>

-----------------------------------------------------------------------------
(* The worker.                                                             *)

\* start(), called by coordinator._async_init.
Start ==
  /\ pc = "init"
  /\ pc' = IF leader_known THEN "get" ELSE "wait"
  /\ UNCHANGED <<envVars, fresh, results, timerVars, stopped>>

\* The additional sleep after a leader was first seen.
Settle ==
  /\ pc = "settle"
  /\ pc' = "get"
  /\ UNCHANGED <<envVars, fresh, results, timerVars, stopped>>

\* Mutant: the cancelled call stays in the reactor.
CancelPending_Forgotten == scheduled

\* Cancelling a DelayedCall takes it out of the reactor.
CancelPending ==
  IF assignment_soak_timer = "pending" THEN scheduled - 1 ELSE scheduled

\* Mutant: a cancelled timer is replaced like any other.
Stash_IgnoresCancelled(candidate) ==
  /\ my_candidate_workload' = candidate
  /\ assignment_soak_timer' = "pending"
  /\ scheduled' = CancelPending + 1
  /\ UNCHANGED my_workload

\* _stash_and_restart_soak_timer when it returns.  A timer that stop()
\* cancelled is not "called": cancelling it again raises AlreadyCancelled.
Stash(candidate) ==
  /\ assignment_soak_timer # "cancelled"
  /\ my_candidate_workload' = candidate
  /\ assignment_soak_timer' = "pending"
  /\ scheduled' = CancelPending + 1
  /\ UNCHANGED my_workload

\* Mutant: a change while the timer exists is not stashed.
TrackChange_NoRestart ==
  /\ pc = "got"
  /\ results # my_workload
  /\ results' = {}
  /\ \/ (assignment_soak_timer = "None" /\ Stash(results)) /\ pc' = "get"
     \/ /\ assignment_soak_timer # "None"
        /\ pc' = "get"
        /\ UNCHANGED timerVars
  /\ UNCHANGED <<envVars, fresh, stopped>>

\* The answer differs from what is applied: stash it and poll again, or, when
\* the stash raises, sleep "to prevent flood" and then poll again.
TrackChange ==
  /\ pc = "got"
  /\ results # my_workload
  /\ results' = {}
  /\ \/ Stash(results) /\ pc' = "get"
     \/ /\ assignment_soak_timer = "cancelled"
        /\ pc' = "flood"
        /\ UNCHANGED timerVars
  /\ UNCHANGED <<envVars, fresh, stopped>>

\* The answer is what is applied already: nothing is touched, a soak timer
\* that is running included.
TrackSame ==
  /\ pc = "got"
  /\ results = my_workload
  /\ results' = {}
  /\ pc' = "get"
  /\ UNCHANGED <<envVars, fresh, timerVars, stopped>>

FloodOver ==
  /\ pc = "flood"
  /\ pc' = "get"
  /\ UNCHANGED <<envVars, fresh, results, timerVars, stopped>>

\* _update_assignments, fired by the soak timer.
UpdateAssignments ==
  /\ scheduled > 0
  /\ scheduled' = scheduled - 1
  /\ assignment_soak_timer' = "called"
  /\ my_workload' = my_candidate_workload
  /\ my_candidate_workload' = None
  /\ UNCHANGED <<envVars, fresh, pc, results, stopped>>

\* stop(): cancels a running soak timer; halted is left FALSE, so the polling
\* goes on.
Stop ==
  /\ ~stopped
  /\ stopped' = TRUE
  /\ assignment_soak_timer' = IF assignment_soak_timer = "pending"
                              THEN "cancelled" ELSE assignment_soak_timer
  /\ scheduled' = CancelPending
  /\ UNCHANGED <<envVars, fresh, pc, results, my_workload,
                 my_candidate_workload>>

-----------------------------------------------------------------------------
Next ==
  \/ \E m \in Members, w \in Work : EditAssignment(m, w)
  \/ LeaderSeen
  \/ ConsulAnswers
  \/ Start
  \/ Settle
  \/ TrackChange
  \/ TrackSame
  \/ FloodOver
  \/ UpdateAssignments
  \/ Stop

\* Timers fire, the reactor keeps running its callbacks, and Consul answers a
\* blocking query at the latest when its wait limit is over.
Fairness ==
  /\ WF_vars(Start)
  /\ WF_vars(Settle)
  /\ WF_vars(ConsulAnswers)
  /\ WF_vars(TrackChange \/ TrackSame)
  /\ WF_vars(FloodOver)
  /\ WF_vars(UpdateAssignments)

Spec == Init /\ [][Next]_vars

FairSpec == Spec /\ Fairness

-----------------------------------------------------------------------------
(* Properties.                                                             *)

\* _stash_and_restart_soak_timer replaces the timer it restarts: the reactor
\* never holds two soak timers of a worker, the one it holds is the one the
\* field refers to, and a candidate is stashed while it runs (a second timer
\* would apply the None that the first one left behind).
OneSoakTimer ==
  /\ scheduled = IF assignment_soak_timer = "pending" THEN 1 ELSE 0
  /\ assignment_soak_timer = "pending" => my_candidate_workload # None

\* stop() in the middle of a soak is final although the polling goes on: the
\* workload applied last is never replaced afterwards.
StopMidSoakIsFinal ==
  [][assignment_soak_timer = "cancelled" =>
       UNCHANGED <<my_workload, assignment_soak_timer>>]_vars

\* Once the leader stops editing the assignments, a worker that was not
\* stopped ends up with exactly what its poll returns, and stays there.
Converges ==
  <>[](~leader_known \/ stopped \/ my_workload = Polled)
=============================================================================
