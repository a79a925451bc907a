------------------------------- MODULE Leader -------------------------------
(***************************************************************************)
(* voltha/leader.py: the object that holds the cluster leader's duties.    *)
(* It tracks the member and the work keys in Consul and, once a change has *)
(* soaked, rewrites the assignment keys <member>/<work> to what the hash   *)
(* ring of the members wants: revoke first, then assign.                   *)
(*                                                                         *)
(* A step is the code between two yields together with the Consul call it  *)
(* ends with.  _reassign_work yields at every key it touches, so several   *)
(* activations of it (Runs) may be in progress, also after stop().         *)
(*                                                                         *)
(* Members joining and leaving, and the administrator's edits of the work  *)
(* keys, are the environment.  coordinator._retry repeats a put or delete  *)
(* of one key until it is acknowledged; both are idempotent, so a repeated *)
(* call is one step.                                                       *)
(***************************************************************************)
EXTENDS Naturals, FiniteSets

CONSTANTS
  Members,      \* instance ids
  Work,         \* work ids
  Placeholders, \* the work ids that _validate_workload writes
  Ring(_, _),   \* Ring(ms, w): the node of work w in HashRing(ms)
  Runs,         \* activations of _reassign_work that may be in progress
  MaxEdits      \* bound: edits of the member and the work keys

ASSUME LeaderAssumption ==
  /\ Placeholders \subseteq Work
  /\ \A ms \in SUBSET Members, w \in Work : ms # {} => Ring(ms, w) \in ms
  /\ MaxEdits \in Nat

VARIABLES
  kv_members,     \* Consul: ids below membership_prefix
  kv_work,        \* Consul: ids below workload_prefix
  kv_assign,      \* Consul: <<member, work>> below assignment_prefix
  edits,          \* number of edits made so far
  start_pc,       \* start(): "new", "validate" or "done"
  halted,
  workload,
  members,
  soak,           \* reassignment_soak_timer
  track_workload, \* loop state and unprocessed answer of _track_workload
  track_members,  \* loop state and unprocessed answer of _track_members
  run             \* the activations of _reassign_work

kvVars == <<kv_members, kv_work, kv_assign>>
vars == <<kvVars, edits, start_pc, halted, workload, members, soak,
          track_workload, track_members, run>>

Assignment == Members \X Work

\* The desired assignment, step 1 of _reassign_work.  Without members the
\* ring maps every work id to None.
Wanted(ms, ws) == IF ms = {} THEN {} ELSE {<<Ring(ms, w), w>> : w \in ws}

RunState == [pc : {"idle", "get", "revoke", "assign"},
             wanted : SUBSET Assignment, revoke : SUBSET Assignment,
             assign : SUBSET Assignment, no_member : BOOLEAN]

Idle == [pc |-> "idle", wanted |-> {}, revoke |-> {}, assign |-> {},
         no_member |-> FALSE]

Polling(S) == [pc : {"off", "get", "got", "flood"}, results : SUBSET S]

\* Every work id is assigned to at most one of its members.
Functional(A) == \A p, q \in A : p[2] = q[2] => p = q

TypeOK ==
  /\ kv_members \in SUBSET Members
  /\ kv_work \in SUBSET Work
  /\ kv_assign \in SUBSET Assignment
  /\ edits \in 0..MaxEdits
  /\ start_pc \in {"new", "validate", "done"}
  /\ halted \in BOOLEAN
  /\ workload \in SUBSET Work
  /\ members \in SUBSET Members
  /\ soak \in {"None", "pending", "called", "cancelled"}
  /\ track_workload \in Polling(Work)
  /\ track_members \in Polling(Members)
  /\ run \in [Runs -> RunState]

\* A new Leader finds the keys as an earlier leader left them.
Init ==
  /\ kv_members \in SUBSET Members \ {{}}
  /\ kv_work \in {{}, Placeholders}
  /\ kv_assign \in SUBSET Assignment
  /\ Functional(kv_assign)
  /\ edits = 0
  /\ start_pc = "new"
  /\ halted = FALSE
  /\ workload = {}
  /\ members = {}
  /\ soak = "None"
  /\ track_workload = [pc |-> "off", results |-> {}]
  /\ track_members = [pc |-> "off", results |-> {}]
  /\ run = [r \in Runs |-> Idle]

-----------------------------------------------------------------------------
(* The environment.                                                        *)

\* A membership record appears, or vanishes with the session behind it.
EditMembers(m) ==
  /\ edits < MaxEdits
  /\ edits' = edits + 1
  /\ kv_members' = IF m \in kv_members THEN kv_members \ {m}
                                       ELSE kv_members \cup {m}
  /\ UNCHANGED <<kv_work, kv_assign, start_pc, halted, workload, members,
                 soak, track_workload, track_members, run>>

\* An administrator adds or deletes a work key.
EditWork(w) ==
  /\ edits < MaxEdits
  /\ edits' = edits + 1
  /\ kv_work' = IF w \in kv_work THEN kv_work \ {w} ELSE kv_work \cup {w}
  /\ UNCHANGED <<kv_members, kv_assign, start_pc, halted, workload, members,
                 soak, track_workload, track_members, run>>

-----------------------------------------------------------------------------
(* start() and stop().                                                     *)

\* start() puts the placeholder work keys ...
Start ==
  /\ start_pc = "new"
  /\ start_pc' = "validate"
  /\ kv_work' = kv_work \cup Placeholders
  /\ UNCHANGED <<kv_members, kv_assign, edits, halted, workload, members,
                 soak, track_workload, track_members, run>>

\* ... and, when the last put is acknowledged, begins both tracking loops.
\* It does not look at halted.
StartTracking ==
  /\ start_pc = "validate"
  /\ start_pc' = "done"
  /\ track_workload' = [track_workload EXCEPT !.pc = "get"]
  /\ track_members' = [track_members EXCEPT !.pc = "get"]
  /\ UNCHANGED <<kvVars, edits, halted, workload, members, soak, run>>

\* stop(), called when leadership is lost or the coordinator shuts down.
Stop ==
  /\ start_pc # "new"
  /\ ~halted
  /\ halted' = TRUE
  /\ soak' = IF soak = "pending" THEN "cancelled" ELSE soak
  /\ UNCHANGED <<kvVars, edits, start_pc, workload, members, track_workload,
                 track_members, run>>

-----------------------------------------------------------------------------
(* The tracking loops and the soak timer.                                  *)

\* Mutant: a timer that was called once is never replaced.
RestartSoak_KeepsFirst ==
  /\ soak # "cancelled"
  /\ soak' = IF soak = "None" THEN "pending" ELSE soak

\* _restart_reassignment_soak_timer, when it returns: a timer that stop()
\* cancelled cannot be cancelled again.
RestartSoak ==
  /\ soak # "cancelled"
  /\ soak' = "pending"

\* The same call raises AlreadyCancelled.
RestartRaises ==
  /\ soak = "cancelled"
  /\ UNCHANGED soak

\* The end of an iteration: again, unless halted.
Again == [pc |-> IF halted THEN "off" ELSE "get", results |-> {}]

Flood == [pc |-> "flood", results |-> {}]

WorkloadAnswered ==
  /\ track_workload.pc = "get"
  /\ track_workload' = [pc |-> "got", results |-> kv_work]
  /\ UNCHANGED <<kvVars, edits, start_pc, halted, workload, members, soak,
                 track_members, run>>

\* _track_workload after the answer.  Consul answers None when no key is
\* left: iterating over it raises, before workload is compared.
TrackWorkload ==
  /\ track_workload.pc = "got"
  /\ LET found == track_workload.results
     IN \/ /\ found = {}
           /\ track_workload' = Flood
           /\ UNCHANGED <<workload, soak>>
        \/ /\ found # {} /\ found = workload
           /\ track_workload' = Again
           /\ UNCHANGED <<workload, soak>>
        \/ /\ found # {} /\ found # workload
           /\ workload' = found
           /\ \/ RestartSoak /\ track_workload' = Again
              \/ RestartRaises /\ track_workload' = Flood
  /\ UNCHANGED <<kvVars, edits, start_pc, halted, members, track_members, run>>

\* The sleep "to prevent flood" after an exception.
WorkloadFloodOver ==
  /\ track_workload.pc = "flood"
  /\ track_workload' = Again
  /\ UNCHANGED <<kvVars, edits, start_pc, halted, workload, members, soak,
                 track_members, run>>

MembersAnswered ==
  /\ track_members.pc = "get"
  /\ track_members' = [pc |-> "got", results |-> kv_members]
  /\ UNCHANGED <<kvVars, edits, start_pc, halted, workload, members, soak,
                 track_workload, run>>

\* _track_members after the answer; its error path calls asleep with one
\* argument too many, which raises, so that no sleep precedes the next round.
TrackMembers ==
  /\ track_members.pc = "got"
  /\ members' = track_members.results
  /\ track_members' = Again
  /\ IF track_members.results = members
     THEN UNCHANGED soak
     ELSE RestartSoak \/ RestartRaises
  /\ UNCHANGED <<kvVars, edits, start_pc, halted, workload, track_workload,
                 run>>

-----------------------------------------------------------------------------
(* _reassign_work, one activation r.                                       *)

\* Mutant: the soak timer fires again and again.
ReassignWork_Periodic(r) ==
  /\ soak = "pending"
  /\ run[r].pc = "idle"
  /\ run' = [run EXCEPT ![r] =
               [Idle EXCEPT !.pc = "get",
                            !.wanted = Wanted(members, workload),
                            !.no_member = (members = {} /\ workload # {})]]
  /\ UNCHANGED <<kvVars, edits, start_pc, halted, workload, members, soak,
                 track_workload, track_members>>

\* The soak timer fires: step 1, with the members and the workload of now.
ReassignWork(r) ==
  /\ soak = "pending"
  /\ run[r].pc = "idle"
  /\ soak' = "called"
  /\ run' = [run EXCEPT ![r] =
               [Idle EXCEPT !.pc = "get",
                            !.wanted = Wanted(members, workload),
                            !.no_member = (members = {} /\ workload # {})]]
  /\ UNCHANGED <<kvVars, edits, start_pc, halted, workload, members,
                 track_workload, track_members>>

\* Mutant: assignments are made before the revocations.
Left_AssignFirst(r, rev, asg) ==
  IF rev = {} /\ asg = {} /\ ~run[r].no_member
  THEN Idle
  ELSE [run[r] EXCEPT !.pc = IF asg # {} THEN "assign" ELSE "revoke",
                      !.revoke = rev, !.assign = asg]

\* The activation after a key was dealt with, given the keys that it has left
\* to delete and to put.
Left(r, rev, asg) ==
  IF rev = {} /\ asg = {} /\ ~run[r].no_member
  THEN Idle
  ELSE [run[r] EXCEPT !.pc = IF rev # {} THEN "revoke" ELSE "assign",
                      !.revoke = rev, !.assign = asg]

\* Steps 2 and 3: the current assignment, and what is to be revoked.
CurrentAssignments(r) ==
  /\ run[r].pc = "get"
  /\ run' = [run EXCEPT ![r] = Left(r, kv_assign \ @.wanted,
                                       @.wanted \ kv_assign)]
  /\ UNCHANGED <<kvVars, edits, start_pc, halted, workload, members, soak,
                 track_workload, track_members>>

\* Step 3: kv_delete of one revoked assignment.
Revoke(r, p) ==
  /\ run[r].pc = "revoke"
  /\ p \in run[r].revoke
  /\ kv_assign' = kv_assign \ {p}
  /\ run' = [run EXCEPT ![r] = Left(r, @.revoke \ {p}, @.assign)]
  /\ UNCHANGED <<kv_members, kv_work, edits, start_pc, halted, workload,
                 members, soak, track_workload, track_members>>

\* Step 4: kv_put of one new assignment.
Assign(r, p) ==
  /\ run[r].pc = "assign"
  /\ p \in run[r].assign
  /\ kv_assign' = kv_assign \cup {p}
  /\ run' = [run EXCEPT ![r] = Left(r, @.revoke, @.assign \ {p})]
  /\ UNCHANGED <<kv_members, kv_work, edits, start_pc, halted, workload,
                 members, soak, track_workload, track_members>>

\* Step 4 without members: the key cannot be built from None.  The handler
\* restarts the soak timer, "try again in a while".
ReassignFails(r) ==
  /\ run[r].pc = "assign"
  /\ run[r].no_member
  /\ run' = [run EXCEPT ![r] = Idle]
  /\ RestartSoak \/ RestartRaises
  /\ UNCHANGED <<kvVars, edits, start_pc, halted, workload, members,
                 track_workload, track_members>>

-----------------------------------------------------------------------------
Reassignment(r) ==
  \/ CurrentAssignments(r)
  \/ \E p \in Assignment : Revoke(r, p) \/ Assign(r, p)
  \/ ReassignFails(r)

Next ==
  \/ \E m \in Members : EditMembers(m)
  \/ \E w \in Work : EditWork(w)
  \/ Start
  \/ StartTracking
  \/ Stop
  \/ WorkloadAnswered
  \/ TrackWorkload
  \/ WorkloadFloodOver
  \/ MembersAnswered
  \/ TrackMembers
  \/ \E r \in Runs : ReassignWork(r) \/ Reassignment(r)

\* The reactor runs its callbacks and timers; _retry repeats every call until
\* Consul acknowledges it, and a blocking query returns at its wait limit.
Fairness ==
  /\ WF_vars(Start)
  /\ WF_vars(StartTracking)
  /\ WF_vars(WorkloadAnswered)
  /\ WF_vars(TrackWorkload)
  /\ WF_vars(WorkloadFloodOver)
  /\ WF_vars(MembersAnswered)
  /\ WF_vars(TrackMembers)
  /\ WF_vars(\E r \in Runs : ReassignWork(r))
  /\ \A r \in Runs : WF_vars(Reassignment(r))

Spec == Init /\ [][Next]_vars

FairSpec == Spec /\ Fairness

-----------------------------------------------------------------------------
(* Properties.                                                             *)

\* "We must make sure while we are working on this, we do not re-enter into
\* same method!"
NotReentered ==
  \A r, s \in Runs : run[r].pc # "idle" /\ run[s].pc # "idle" => r = s

OneOwner == Functional(kv_assign)

\* As long as _reassign_work is not re-entered, no work id is ever assigned
\* to two members in Consul, also while assignments move: the old assignment
\* is revoked before the new one is made.
SingleOwner == []NotReentered => []OneOwner

\* What makes it so: an activation that is still revoking knows every key that
\* its plan does not want, and one that assigns finds none of them left.
RevokedBeforeAssigned ==
  \A r \in Runs :
    /\ Functional(run[r].wanted)
    /\ run[r].assign \subseteq run[r].wanted
    /\ run[r].pc = "revoke" => kv_assign \subseteq run[r].revoke
                                                   \cup run[r].wanted
    /\ run[r].pc = "assign" => kv_assign \subseteq run[r].wanted

\* If _reassign_work is never re-entered then, when members and work settle,
\* the assignment keys end up as the hash ring wants them for the members and
\* the work there are (as long as there is work), and stay so.  The soak timer
\* does not see to the condition: a second activation that starts while the
\* first one waits for Consul may have its keys undone by the first one's older
\* plan, and nothing repairs that before the next change.
AssignsWhatIsWanted ==
  []NotReentered =>
    <>[](halted \/ kv_work = {} \/ kv_assign = Wanted(kv_members, kv_work))

\* A halted leader comes to rest, re-entered or not: unless it saw the member
\* list empty, no soak timer and no reassignment is left from some point on.
HaltedComesToRest ==
  <>[](halted => \/ members = {}
                 \/ soak # "pending" /\ \A r \in Runs : run[r].pc = "idle")
=============================================================================
