---------------------------- MODULE MessageQueue ----------------------------
(***************************************************************************)
(* common/utils/message_queue.py: a queue whose readers take the first     *)
(* message that satisfies their predicate, and wait when there is none.    *)
(*                                                                         *)
(* A call of get() is one of the constants Gets; Accepts[g] is the set of  *)
(* messages its predicate is true of (all of them when it is None).  The   *)
(* code of a reader runs inside put() (d.callback) and reset() (d.errback) *)
(* and may call get() again.  In put() this is the last thing that         *)
(* happens, so the nested call is a Get that follows; in reset() it comes  *)
(* in the middle of the loop, which therefore is a step per waiter.        *)
(***************************************************************************)
EXTENDS Naturals, Sequences

CONSTANTS Messages, Gets, Accepts, None

ASSUME QueueAssumption ==
    /\ Accepts \in [Gets -> SUBSET Messages]
    /\ None \notin Messages

VARIABLES
    queue,      \* self.queue
    waiting,    \* self.waiting, the deferreds by their calls of get()
    state,      \* the deferred of each call: unfired while "waiting"
    got,        \* the message it fired with
    purged,     \* messages thrown away by reset()
    resetting,  \* reset() is in its loop ...
    visited,    \* ... and has called errback on that many waiters
    arrived,    \* history: messages in the order of their put()
    asked       \* history: calls of get() in their order

queueVars == <<queue, waiting, state, got, purged, resetting, visited,
               arrived, asked>>

States == {"idle", "waiting", "served", "failed", "orphaned"}

QueueTypeOK ==
    /\ queue \in Seq(Messages) /\ arrived \in Seq(Messages)
    /\ waiting \in Seq(Gets) /\ asked \in Seq(Gets)
    /\ state \in [Gets -> States]
    /\ got \in [Gets -> Messages \cup {None}]
    /\ purged \subseteq Messages
    /\ resetting \in BOOLEAN
    /\ visited \in Nat

QueueInit ==
    /\ queue = <<>> /\ waiting = <<>>
    /\ state = [g \in Gets |-> "idle"]
    /\ got = [g \in Gets |-> None]
    /\ purged = {}
    /\ resetting = FALSE /\ visited = 0
    /\ arrived = <<>> /\ asked = <<>>

Ranks(s) == 1..Len(s)

\* The list s after s.pop(i).
Popped(s, i) == SubSeq(s, 1, i - 1) \o SubSeq(s, i + 1, Len(s))

\* Whom message m satisfies, and what satisfies reader g.
Takers(m) == {i \in Ranks(waiting) : m \in Accepts[waiting[i]]}
Matches(g) == {i \in Ranks(queue) : queue[i] \in Accepts[g]}

\* i is the first of the positions.
First(i, positions) == i \in positions /\ \A j \in positions : i <= j

Serve(g, m) ==
    /\ state' = [state EXCEPT ![g] = "served"]
    /\ got' = [got EXCEPT ![g] = m]

\* The first waiter that wants the message is taken off the list and fired.
HandOver(m) ==
    \E i \in Takers(m) :
        /\ First(i, Takers(m))
        /\ waiting' = Popped(waiting, i)
        /\ Serve(waiting[i], m)
        /\ queue' = queue

\* Mutant: only the waiter at the head of the list is looked at.
Put_HeadOnly(m) ==
    /\ ~resetting
    /\ arrived' = Append(arrived, m)
    /\ IF waiting # <<>> /\ m \in Accepts[waiting[1]]
       THEN HandOver(m)
       ELSE queue' = Append(queue, m) /\ UNCHANGED <<waiting, state, got>>
    /\ UNCHANGED <<purged, resetting, visited, asked>>

\* Mutant: the waiter that came last is served first.
Put_LastWaiter(m) ==
    /\ ~resetting
    /\ arrived' = Append(arrived, m)
    /\ \/ \E i \in Takers(m) :
            /\ \A j \in Takers(m) : j <= i
            /\ waiting' = Popped(waiting, i)
            /\ Serve(waiting[i], m)
            /\ queue' = queue
       \/ /\ Takers(m) = {}
          /\ queue' = Append(queue, m)
          /\ UNCHANGED <<waiting, state, got>>
    /\ UNCHANGED <<purged, resetting, visited, asked>>

Put(m) ==
    /\ ~resetting
    /\ arrived' = Append(arrived, m)
    /\ \/ HandOver(m)
       \/ /\ Takers(m) = {}
          /\ queue' = Append(queue, m)
          /\ UNCHANGED <<waiting, state, got>>
    /\ UNCHANGED <<purged, resetting, visited, asked>>

Get(g) ==
    /\ state[g] = "idle"
    /\ resetting => visited > 0
    /\ asked' = Append(asked, g)
    /\ \/ \E i \in Matches(g) :
            /\ First(i, Matches(g))
            /\ queue' = Popped(queue, i)
            /\ Serve(g, queue[i])
            /\ waiting' = waiting
       \/ /\ Matches(g) = {}
          /\ waiting' = Append(waiting, g)
          /\ state' = [state EXCEPT ![g] = "waiting"]
          /\ UNCHANGED <<queue, got>>
    /\ UNCHANGED <<purged, resetting, visited, arrived>>

\* Deferred.cancel() on the deferred of g calls _cancelGet.  Its loop counts
\* to the old length after the pop: unless g is last, it raises IndexError
\* out of cancel(), before the deferred would be fired with CancelledError.
Cancel(g) ==
    /\ ~resetting
    /\ \E i \in Ranks(waiting) :
        /\ waiting[i] = g
        /\ waiting' = Popped(waiting, i)
        /\ state' = [state EXCEPT ![g] =
                        IF i = Len(waiting) THEN "failed" ELSE "orphaned"]
    /\ UNCHANGED <<queue, got, purged, resetting, visited, arrived, asked>>

\* reset(): the loop is over the live list, so that a waiter appended by the
\* code that errback runs is visited as well.
\* On empty lists it does nothing.
ResetBegin ==
    /\ ~resetting
    /\ queue # <<>> \/ waiting # <<>>
    /\ resetting' = TRUE /\ visited' = 0
    /\ UNCHANGED <<queue, waiting, state, got, purged, arrived, asked>>

ResetErrback ==
    /\ resetting /\ visited < Len(waiting)
    /\ state' = [state EXCEPT ![waiting[visited + 1]] = "failed"]
    /\ visited' = visited + 1
    /\ UNCHANGED <<queue, waiting, got, purged, resetting, arrived, asked>>

\* Mutant: the lists are emptied although waiters were added during the loop.
ResetEnd_Snapshot ==
    /\ resetting
    /\ \/ visited = Len(waiting)
       \/ visited > 0
    /\ purged' = purged \cup {queue[i] : i \in Ranks(queue)}
    /\ queue' = <<>> /\ waiting' = <<>>
    /\ resetting' = FALSE /\ visited' = 0
    /\ UNCHANGED <<state, got, arrived, asked>>

ResetEnd ==
    /\ resetting /\ visited = Len(waiting)
    /\ purged' = purged \cup {queue[i] : i \in Ranks(queue)}
    /\ queue' = <<>> /\ waiting' = <<>>
    /\ resetting' = FALSE /\ visited' = 0
    /\ UNCHANGED <<state, got, arrived, asked>>

\* Each message object is put once.
Fresh(m) == \A i \in Ranks(arrived) : arrived[i] # m

QueueNext ==
    \/ \E m \in Messages : Fresh(m) /\ Put(m)
    \/ \E g \in Gets : Get(g) \/ Cancel(g)
    \/ ResetBegin \/ ResetErrback \/ ResetEnd

QueueSpec == QueueInit /\ [][QueueNext]_queueVars

-----------------------------------------------------------------------------

\* A message and a reader that wants it never wait side by side: put() finds
\* every waiter and get() every message, whatever happened in between.
NoMissedMatch ==
    \A i \in Ranks(queue), g \in Gets :
        state[g] = "waiting" => queue[i] \notin Accepts[g]

\* No message is lost or duplicated: what was put is in the queue, or went to
\* a reader, or was purged by reset(), and only one of these, once.
Conserved ==
    /\ \A i, j \in Ranks(queue) : queue[i] = queue[j] => i = j
    /\ \A i \in Ranks(queue) : queue[i] \notin purged
    /\ \A g \in Gets, i \in Ranks(queue) : got[g] # queue[i]
    /\ \A g \in Gets : got[g] \notin purged
    /\ \A g, h \in Gets : got[g] = got[h] => g = h \/ got[g] = None
    /\ \A k \in Ranks(arrived) :
        \/ arrived[k] \in purged
        \/ \E i \in Ranks(queue) : queue[i] = arrived[k]
        \/ \E g \in Gets : got[g] = arrived[k]

\* The deferreds that have not fired are exactly the entries of the list that
\* the loop of reset() has still to visit: nobody waits for ever because a
\* list was emptied behind its back, not even a reader that waits again from
\* within reset().  The exception is a reader whose cancel() the IndexError
\* of _cancelGet ended: it is out of the list and nothing fires it.
NobodyForgotten ==
    \A g \in Gets : state[g] = "waiting" <=>
        \E i \in (visited + 1)..Len(waiting) : waiting[i] = g

\* Neither a message nor a reader, but for those that cancel() orphans, ever
\* gets lost between the two lists, with put(), get() and a reset() whose
\* callbacks call get() again interleaved.
NothingLost == Conserved /\ NobodyForgotten

Before(s, x, y) == \E i, j \in Ranks(s) : i < j /\ s[i] = x /\ s[j] = y

\* A reader got the oldest message it accepts: what it accepts and is still
\* in the queue was put later than what it got.
OldestMessage ==
    \A g \in Gets : \A i \in Ranks(queue) :
        state[g] = "served" /\ queue[i] \in Accepts[g]
            => Before(arrived, got[g], queue[i])

\* A message went to the reader that had waited longest for it: who accepts
\* it and is still waiting asked later than the one who got it.
LongestWaiter ==
    \A g, h \in Gets :
        state[g] = "served" /\ state[h] = "waiting" /\ got[g] \in Accepts[h]
            => Before(asked, g, h)

\* Messages and readers are matched in the order in which they came.
FirstComeFirstServed == OldestMessage /\ LongestWaiter
=============================================================================
