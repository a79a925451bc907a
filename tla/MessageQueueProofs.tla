------------------------- MODULE MessageQueueProofs -------------------------
(***************************************************************************)
(* The message queue (common/utils/message_queue.py) matches messages and  *)
(* readers, loses neither and serves them in order, for any messages,      *)
(* readers and predicates and any number of calls.                         *)
(*                                                                         *)
(* None of the properties is inductive alone.  That a message finds its    *)
(* longest waiting reader rests on the list of waiters being in the order  *)
(* of their calls; that nobody is forgotten, on a reader being in the list *)
(* once; that nothing is delivered twice, on messages that are put being   *)
(* new.                                                                    *)
(***************************************************************************)
EXTENDS MessageQueue, SequenceTheorems, TLAPS

In(s, x) == \E i \in Ranks(s) : s[i] = x

(* The list of waiters holds no reader twice and none that never asked.    *)
Waiters ==
    /\ visited <= Len(waiting)
    /\ ~resetting => visited = 0
    /\ \A i \in Ranks(waiting) : state[waiting[i]] # "idle"
    /\ \A i, j \in Ranks(waiting) : waiting[i] = waiting[j] => i = j

(* Whatever is anywhere has arrived, and whoever is anywhere has asked.    *)
Known ==
    /\ \A i \in Ranks(queue) : In(arrived, queue[i])
    /\ \A m \in purged : In(arrived, m)
    /\ \A g \in Gets : IF state[g] = "served" THEN In(arrived, got[g])
                                              ELSE got[g] = None
    /\ \A g \in Gets : state[g] # "idle" => In(asked, g)

(* The lists are in the order of the calls.                                *)
Ordered ==
    /\ \A i, j \in Ranks(queue) :
        i < j => Before(arrived, queue[i], queue[j])
    /\ \A i, j \in Ranks(waiting) :
        i < j => Before(asked, waiting[i], waiting[j])

QInv ==
    /\ QueueTypeOK /\ Waiters /\ Known /\ Ordered
    /\ NoMissedMatch /\ NothingLost /\ FirstComeFirstServed

-----------------------------------------------------------------------------

(* Removing an element moves the ones behind it by one.                    *)
LEMMA Removed ==
    ASSUME NEW S, NEW s \in Seq(S), NEW i \in Ranks(s)
    PROVE  /\ Popped(s, i) \in Seq(S)
           /\ Len(Popped(s, i)) = Len(s) - 1
           /\ \A j \in 1..(Len(s) - 1) :
                Popped(s, i)[j] = IF j < i THEN s[j] ELSE s[j + 1]
  <1> DEFINE a == SubSeq(s, 1, i - 1)
             b == SubSeq(s, i + 1, Len(s))
  <1>1. i \in 1..Len(s) /\ Len(s) \in Nat
    BY DEF Ranks
  <1>2. /\ a \in Seq(S) /\ Len(a) = i - 1
        /\ \A j \in 1..(i - 1) : a[j] = s[j]
    BY <1>1
  <1>3. /\ b \in Seq(S) /\ Len(b) = Len(s) - i
        /\ \A j \in 1..(Len(s) - i) : b[j] = s[i + j]
    BY <1>1
  <1> HIDE DEF a, b
  <1>4. /\ a \o b \in Seq(S) /\ Len(a \o b) = Len(a) + Len(b)
        /\ \A j \in 1..(Len(a) + Len(b)) :
                (a \o b)[j] = IF j <= Len(a) THEN a[j] ELSE b[j - Len(a)]
    BY <1>2, <1>3, ConcatProperties, Zenon
  <1>5. Popped(s, i) = a \o b
    BY Zenon DEF Popped, a, b
  <1>6. \A j \in 1..(Len(s) - 1) : j >= i => b[j - (i - 1)] = s[j + 1]
    <2> TAKE j \in 1..(Len(s) - 1)
    <2> HAVE j >= i
    <2>1. j - (i - 1) \in 1..(Len(s) - i) /\ i + (j - (i - 1)) = j + 1
      BY <1>1
    <2> QED BY <2>1, <1>3, Zenon
  <1>7. ASSUME NEW j \in 1..(Len(s) - 1)
        PROVE  (a \o b)[j] = IF j < i THEN s[j] ELSE s[j + 1]
    <2>1. /\ j \in 1..(Len(a) + Len(b))
          /\ j <= Len(a) <=> j < i
          /\ j - Len(a) = j - (i - 1)
      BY <1>1, <1>2, <1>3
    <2>2. (a \o b)[j] = IF j < i THEN a[j] ELSE b[j - (i - 1)]
      BY <1>4, <2>1, Zenon
    <2>3. j < i => a[j] = s[j]
      BY <1>1, <1>2
    <2> QED BY <1>1, <1>6, <2>2, <2>3
  <1>8. Len(a \o b) = Len(s) - 1
    BY <1>1, <1>2, <1>3, <1>4
  <1> QED BY <1>4, <1>5, <1>7, <1>8, Zenon

(* t is s with z behind it: what was in s, and in which order, stays.      *)
Extends(t, s, z) ==
    /\ Len(t) = Len(s) + 1
    /\ \A j \in Ranks(s) : t[j] = s[j]
    /\ t[Len(s) + 1] = z
    /\ \A x : In(s, x) => In(t, x)
    /\ In(t, z)
    /\ \A x : In(s, x) => Before(t, x, z)
    /\ \A x, y : Before(s, x, y) => Before(t, x, y)

LEMMA Appended ==
    ASSUME NEW S, NEW s \in Seq(S), NEW z \in S
    PROVE  Append(s, z) \in Seq(S) /\ Extends(Append(s, z), s, z)
  <1> DEFINE t == Append(s, z)
  <1>1. /\ t \in Seq(S) /\ Len(t) = Len(s) + 1 /\ Len(s) \in Nat
        /\ \A j \in 1..Len(s) : t[j] = s[j]
        /\ t[Len(s) + 1] = z
    OBVIOUS
  <1> HIDE DEF t
  <1>2. Extends(t, s, z)
    BY <1>1 DEF Extends, In, Before, Ranks
  <1> QED BY <1>1, <1>2, Zenon DEF t

(* t is s without its i-th element: the others stay, in their order.       *)
Lacks(t, s, i) ==
    /\ Len(t) = Len(s) - 1
    /\ \A j \in Ranks(t) : \E k \in Ranks(s) : k # i /\ t[j] = s[k]
    /\ \A j1, j2 \in Ranks(t) : j1 < j2 =>
         \E k1, k2 \in Ranks(s) : /\ k1 < k2 /\ k1 # i /\ k2 # i
                                  /\ t[j1] = s[k1] /\ t[j2] = s[k2]
    /\ \A k \in Ranks(s) : k # i => \E j \in Ranks(t) : t[j] = s[k]

LEMMA RemovedElements ==
    ASSUME NEW S, NEW s \in Seq(S), NEW i \in Ranks(s)
    PROVE  Popped(s, i) \in Seq(S) /\ Lacks(Popped(s, i), s, i)
  <1> DEFINE t == Popped(s, i)
             at(j) == IF j < i THEN j ELSE j + 1
             to(k) == IF k < i THEN k ELSE k - 1
  <1>1. i \in 1..Len(s) /\ Len(s) \in Nat
    BY DEF Ranks
  <1>2. /\ t \in Seq(S) /\ Len(t) = Len(s) - 1
        /\ \A j \in 1..(Len(s) - 1) : t[j] = IF j < i THEN s[j] ELSE s[j + 1]
    BY Removed, Zenon
  <1> HIDE DEF t
  <1>3. \A j \in Ranks(t) : at(j) \in Ranks(s) /\ at(j) # i /\ t[j] = s[at(j)]
    BY <1>1, <1>2 DEF Ranks
  <1>4. \A j1, j2 \in Ranks(t) : j1 < j2 => at(j1) < at(j2)
    BY <1>1, <1>2 DEF Ranks
  <1>5. \A k \in Ranks(s) : k # i => to(k) \in Ranks(t) /\ t[to(k)] = s[k]
    BY <1>1, <1>2 DEF Ranks
  <1> HIDE DEF at, to
  <1>6. Lacks(t, s, i)
    BY <1>2, <1>3, <1>4, <1>5, Zenon DEF Lacks
  <1> QED BY <1>2, <1>6, Zenon DEF t

-----------------------------------------------------------------------------

LEMMA InitQInv == QueueInit => QInv
  <1> SUFFICES ASSUME QueueInit PROVE QInv
    OBVIOUS
  <1> USE DEF QueueInit, Ranks
  <1>1. QueueTypeOK
    <2>1. resetting \in BOOLEAN
      BY Zenon
    <2> QED BY <2>1 DEF QueueTypeOK, States
  <1>2. Waiters /\ Known /\ Ordered
    BY QueueAssumption DEF Waiters, Known, Ordered
  <1>3. NoMissedMatch /\ NothingLost /\ FirstComeFirstServed
    BY QueueAssumption
    DEF NoMissedMatch, NothingLost, Conserved, NobodyForgotten,
        FirstComeFirstServed, OldestMessage, LongestWaiter
  <1> QED BY <1>1, <1>2, <1>3, Zenon DEF QInv

(* A message that was not put yet is nowhere.                              *)
LEMMA FreshIsNew ==
    ASSUME QInv, NEW m \in Messages, Fresh(m)
    PROVE  /\ \A i \in Ranks(queue) : queue[i] # m
           /\ m \notin purged
           /\ \A g \in Gets : got[g] # m
  <1>1. ~In(arrived, m)
    BY Zenon DEF Fresh, In
  <1>2. \A g \in Gets : got[g] # m
    BY <1>1, QueueAssumption, Zenon DEF QInv, Known
  <1> QED BY <1>1, <1>2, Zenon DEF QInv, Known

(* A waiter leaves the list, fired or cancelled: the others stay.          *)
LEMMA WaiterLeaves ==
    ASSUME QInv, ~resetting, UNCHANGED <<resetting, visited>>,
           NEW i \in Ranks(waiting), waiting' = Popped(waiting, i),
           NEW v \in States \ {"idle", "waiting"},
           state' = [state EXCEPT ![waiting[i]] = v]
    PROVE  /\ waiting[i] \in Gets
           /\ state[waiting[i]] = "waiting" /\ got[waiting[i]] = None
           /\ waiting' \in Seq(Gets) /\ Lacks(waiting', waiting, i)
           /\ state' \in [Gets -> States] /\ state'[waiting[i]] = v
           /\ \A h \in Gets : h # waiting[i] => state'[h] = state[h]
           /\ Waiters' /\ NobodyForgotten'
  <1> USE DEF QInv
  <1> DEFINE g == waiting[i]
  <1>1. g \in Gets /\ visited = 0
    BY DEF QueueTypeOK, Ranks, Waiters
  <1>2. state[g] = "waiting" /\ got[g] = None
    BY <1>1 DEF NothingLost, NobodyForgotten, Ranks, Known
  <1>3. /\ state' \in [Gets -> States] /\ state'[g] = v
        /\ \A h \in Gets : h # g => state'[h] = state[h]
    BY <1>1, Zenon DEF QueueTypeOK, States
  <1> HIDE DEF g
  <1>4. waiting' \in Seq(Gets) /\ Lacks(waiting', waiting, i)
    BY RemovedElements, Zenon DEF QueueTypeOK
  <1>5. \A k \in Ranks(waiting) : k # i => waiting[k] # g /\ waiting[k] \in Gets
    BY DEF Waiters, g, QueueTypeOK, Ranks
  <1>6. Waiters'
    <2>1. /\ visited' = 0 /\ 0 <= Len(waiting')
          /\ \A j \in Ranks(waiting') : state'[waiting'[j]] # "idle"
      BY <1>1, <1>3, <1>4, <1>5, SMTT(20) DEF Waiters, Lacks, Ranks, QueueTypeOK
    <2>2. \A j, k \in Ranks(waiting') : j < k => waiting'[j] # waiting'[k]
      <3> SUFFICES ASSUME NEW j \in Ranks(waiting'), NEW k \in Ranks(waiting'),
                          j < k
                   PROVE  waiting'[j] # waiting'[k]
        OBVIOUS
      <3>1. PICK k1, k2 \in Ranks(waiting) :
                k1 < k2 /\ waiting'[j] = waiting[k1] /\ waiting'[k] = waiting[k2]
        BY <1>4 DEF Lacks
      <3> QED BY <3>1 DEF Waiters, Ranks
    <2>3. \A j, k \in Ranks(waiting') : waiting'[j] = waiting'[k] => j = k
      BY <1>4, <2>2 DEF Ranks
    <2> QED BY <2>1, <2>3, Zenon DEF Waiters
  <1>7. NobodyForgotten'
    <2>1. \A h \in Gets : state'[h] = "waiting" <=>
                             h # g /\ \E k \in Ranks(waiting) : waiting[k] = h
      BY <1>1, <1>3 DEF NothingLost, NobodyForgotten, Ranks
    <2>2. \A h \in Gets : (\E j \in Ranks(waiting') : waiting'[j] = h) <=>
                             h # g /\ \E k \in Ranks(waiting) : waiting[k] = h
      BY <1>4, <1>5 DEF Lacks, g
    <2> QED BY <1>1, <2>1, <2>2 DEF NobodyForgotten, Ranks
  <1> QED BY <1>1, <1>2, <1>3, <1>4, <1>6, <1>7, Zenon DEF g

(* A message that somebody waits for.                                      *)
LEMMA HandOverKeeps ==
    ASSUME QInv, NEW m \in Messages, Fresh(m), ~resetting,
           arrived' = Append(arrived, m), HandOver(m),
           UNCHANGED <<purged, resetting, visited, asked>>
    PROVE  QInv'
  <1> USE DEF QInv
  <1>1. PICK i \in Takers(m) : /\ First(i, Takers(m))
                               /\ waiting' = Popped(waiting, i)
                               /\ Serve(waiting[i], m)
                               /\ queue' = queue
    BY Zenon DEF HandOver
  <1> DEFINE g == waiting[i]
  <1>2. /\ i \in Ranks(waiting) /\ m \in Accepts[g]
        /\ \A j \in Ranks(waiting) : m \in Accepts[waiting[j]] => i <= j
    BY <1>1, Zenon DEF Takers, First
  <1>3. /\ state' = [state EXCEPT ![g] = "served"]
        /\ got' = [got EXCEPT ![g] = m]
    BY <1>1, Zenon DEF Serve
  <1>4. "served" \in States \ {"idle", "waiting"}
    BY Zenon DEF States
  <1>5. /\ g \in Gets /\ state[g] = "waiting" /\ got[g] = None
        /\ waiting' \in Seq(Gets) /\ Lacks(waiting', waiting, i)
        /\ state' \in [Gets -> States] /\ state'[g] = "served"
        /\ \A h \in Gets : h # g => state'[h] = state[h]
        /\ Waiters' /\ NobodyForgotten'
    BY <1>1, <1>2, <1>3, <1>4, WaiterLeaves, Zenon
  <1> HIDE DEF g
  <1>6. /\ got' \in [Gets -> Messages \cup {None}] /\ got'[g] = m
        /\ \A h \in Gets : h # g => got'[h] = got[h]
    BY <1>3, <1>5, Zenon DEF QueueTypeOK
  <1>7. arrived' \in Seq(Messages) /\ Extends(arrived', arrived, m)
    BY Appended, Zenon DEF QueueTypeOK
  <1>8. /\ \A k \in Ranks(queue) : queue[k] # m
        /\ m \notin purged
        /\ \A h \in Gets : got[h] # m
    BY FreshIsNew, Zenon
  <1>9. QueueTypeOK'
    BY <1>1, <1>5, <1>6, <1>7, Zenon DEF QueueTypeOK
  <1>10. Known'
    <2>1. \A h \in Gets : IF state'[h] = "served" THEN In(arrived', got'[h])
                                                 ELSE got'[h] = None
      BY <1>5, <1>6, <1>7 DEF Known, Extends
    <2>2. \A h \in Gets : state'[h] # "idle" => In(asked', h)
      BY <1>5, Zenon DEF Known, In, Ranks
    <2> QED BY <1>1, <1>7, <2>1, <2>2, Zenon DEF Known, Extends
  <1>11. Ordered'
    BY <1>1, <1>5, <1>7 DEF Ordered, Lacks, Extends
  <1>12. NoMissedMatch'
    BY <1>1, <1>5, Zenon DEF NoMissedMatch
  <1>13. \A k \in Ranks(arrived') :
            \/ arrived'[k] = m
            \/ k \in Ranks(arrived) /\ arrived'[k] = arrived[k]
    BY <1>7 DEF Extends, Ranks, QueueTypeOK
  <1>14. Conserved'
    <2> USE <1>1, <1>5, <1>6, <1>8 DEF NothingLost, Conserved
    <2>1. /\ \A h \in Gets, k \in Ranks(queue) : got'[h] # queue[k]
          /\ \A h \in Gets : got'[h] \notin purged
      BY SMTT(20)
    <2>2. \A h1, h2 \in Gets : got'[h1] = got'[h2] => h1 = h2 \/ got'[h1] = None
      OBVIOUS
    <2>3. \A k \in Ranks(arrived') :
            \/ arrived'[k] \in purged
            \/ \E j \in Ranks(queue) : queue[j] = arrived'[k]
            \/ \E h \in Gets : got'[h] = arrived'[k]
      <3>2. \A k \in Ranks(arrived), h \in Gets :
                got[h] = arrived[k] => got'[h] = arrived[k]
        BY QueueAssumption DEF QueueTypeOK, Ranks
      <3> SUFFICES ASSUME NEW k \in Ranks(arrived')
                   PROVE  \/ arrived'[k] \in purged
                          \/ \E j \in Ranks(queue) : queue[j] = arrived'[k]
                          \/ \E h \in Gets : got'[h] = arrived'[k]
        BY Zenon
      <3>3. CASE arrived'[k] = m
        BY <3>3, Zenon
      <3>4. CASE k \in Ranks(arrived) /\ arrived'[k] = arrived[k]
        BY <3>2, <3>4
      <3> QED BY <1>13, <3>3, <3>4, Zenon
    <2>4. /\ \A j, k \in Ranks(queue) : queue[j] = queue[k] => j = k
          /\ \A k \in Ranks(queue) : queue[k] \notin purged
          /\ queue' = queue /\ purged' = purged
      BY SMTT(20)
    <2> HIDE <1>1, <1>5, <1>6, <1>8 DEF NothingLost, QInv
    <2> QED BY <2>1, <2>2, <2>3, <2>4, Zenon
  <1>15. OldestMessage'
    BY <1>1, <1>5, <1>6, <1>7
    DEF NoMissedMatch, FirstComeFirstServed, OldestMessage, Extends
  <1>16. LongestWaiter'
    <2>1. \A h \in Gets : state[h] = "waiting" /\ h # g /\ m \in Accepts[h]
                              => Before(asked, g, h)
      BY <1>2, <1>5
      DEF NothingLost, NobodyForgotten, Waiters, Ordered, Ranks, g
    <2> QED BY <1>5, <1>6, <2>1
            DEF FirstComeFirstServed, LongestWaiter, Before, Ranks
  <1> QED BY <1>5, <1>9, <1>10, <1>11, <1>12, <1>14, <1>15, <1>16, Zenon
          DEF NothingLost, FirstComeFirstServed

(* A message that nobody waits for.                                        *)
LEMMA QueueUpKeeps ==
    ASSUME QInv, NEW m \in Messages, Fresh(m), Takers(m) = {}, ~resetting,
           arrived' = Append(arrived, m), queue' = Append(queue, m),
           UNCHANGED <<waiting, state, got, purged, resetting, visited, asked>>
    PROVE  QInv'
  <1> USE DEF QInv
  <1>1. arrived' \in Seq(Messages) /\ Extends(arrived', arrived, m)
    BY Appended, Zenon DEF QueueTypeOK
  <1>2. queue' \in Seq(Messages) /\ Extends(queue', queue, m)
    BY Appended, Zenon DEF QueueTypeOK
  <1>3. /\ \A k \in Ranks(queue) : queue[k] # m
        /\ m \notin purged
        /\ \A h \in Gets : got[h] # m
    BY FreshIsNew, Zenon
  <1>4. \A k \in Ranks(queue') : \/ k \in Ranks(queue) /\ queue'[k] = queue[k]
                                 \/ k = Len(queue) + 1 /\ queue'[k] = m
    BY <1>2 DEF Extends, Ranks, QueueTypeOK
  <1>5. QueueTypeOK' /\ Waiters'
    BY <1>1, <1>2, Zenon DEF QueueTypeOK, Waiters
  <1>6. Known'
    BY <1>1, <1>4, Zenon DEF Known, Extends
  <1>7. Ordered'
    <2>1. \A j, k \in Ranks(queue') :
            j < k => Before(arrived', queue'[j], queue'[k])
      <3> SUFFICES ASSUME NEW j \in Ranks(queue'), NEW k \in Ranks(queue'), j < k
                   PROVE  Before(arrived', queue'[j], queue'[k])
        BY Zenon
      <3>1. j \in Ranks(queue) /\ queue'[j] = queue[j]
        BY <1>2, <1>4 DEF Extends, Ranks, QueueTypeOK
      <3>2. In(arrived, queue[j])
        BY <3>1, Zenon DEF Known
      <3>3. CASE k \in Ranks(queue) /\ queue'[k] = queue[k]
        BY <1>1, <3>1, <3>3, Zenon DEF Ordered, Extends
      <3>4. CASE queue'[k] = m
        BY <1>1, <3>1, <3>2, <3>4, Zenon DEF Extends
      <3> QED BY <1>4, <3>3, <3>4, Zenon
    <2> QED BY <2>1, Zenon DEF Ordered
  <1>8. \A h \in Gets : state[h] = "waiting" => m \notin Accepts[h]
    <2> SUFFICES ASSUME NEW h \in Gets, state[h] = "waiting", m \in Accepts[h]
                 PROVE  FALSE
      BY Zenon
    <2>1. PICK k \in (visited + 1)..Len(waiting) : waiting[k] = h
      BY Zenon DEF NothingLost, NobodyForgotten
    <2>2. k \in Ranks(waiting)
      BY DEF QueueTypeOK, Ranks
    <2> QED BY <2>1, <2>2, Zenon DEF Takers
  <1>9. NoMissedMatch'
    BY <1>4, <1>8, Zenon DEF NoMissedMatch
  <1>10. Conserved'
    <2>0. /\ \A j, k \in Ranks(queue) : queue[j] = queue[k] => j = k
          /\ \A k \in Ranks(queue) : queue[k] \notin purged
          /\ \A h \in Gets, k \in Ranks(queue) : got[h] # queue[k]
      BY Zenon DEF NothingLost, Conserved
    <2>1. \A j, k \in Ranks(queue') : queue'[j] = queue'[k] => j = k
      <3> SUFFICES ASSUME NEW j \in Ranks(queue'), NEW k \in Ranks(queue'),
                          queue'[j] = queue'[k]
                   PROVE  j = k
        BY Zenon
      <3>1. CASE j \in Ranks(queue) /\ queue'[j] = queue[j]
        BY <1>3, <1>4, <2>0, <3>1, Zenon
      <3>2. CASE j = Len(queue) + 1 /\ queue'[j] = m
        BY <1>3, <1>4, <2>0, <3>2, Zenon
      <3> QED BY <1>4, <3>1, <3>2, Zenon
    <2>2. /\ \A k \in Ranks(queue') : queue'[k] \notin purged
          /\ \A h \in Gets, k \in Ranks(queue') : got[h] # queue'[k]
      BY <1>3, <1>4, <2>0, Zenon
    <2>3. \A k \in Ranks(arrived') :
            \/ arrived'[k] \in purged
            \/ \E j \in Ranks(queue') : queue'[j] = arrived'[k]
            \/ \E h \in Gets : got[h] = arrived'[k]
      BY <1>1, <1>2, SMTT(20) DEF NothingLost, Conserved, Extends, Ranks, In
    <2>4. /\ \A h \in Gets : got[h] \notin purged
          /\ \A h1, h2 \in Gets : got[h1] = got[h2] => h1 = h2 \/ got[h1] = None
      BY Zenon DEF NothingLost, Conserved
    <2> QED BY <2>1, <2>2, <2>3, <2>4, Zenon DEF Conserved
  <1>11. NobodyForgotten'
    BY Zenon DEF NothingLost, NobodyForgotten
  <1>12. OldestMessage'
    <2> SUFFICES ASSUME NEW h \in Gets, NEW k \in Ranks(queue'),
                        state[h] = "served", queue'[k] \in Accepts[h]
                 PROVE  Before(arrived', got[h], queue'[k])
      BY Zenon DEF OldestMessage
    <2>1. CASE k \in Ranks(queue) /\ queue'[k] = queue[k]
      <3>1. Before(arrived, got[h], queue[k])
        BY <2>1, Zenon DEF FirstComeFirstServed, OldestMessage
      <3> QED BY <1>1, <2>1, <3>1, Zenon DEF Extends
    <2>2. CASE queue'[k] = m
      <3>1. In(arrived, got[h])
        BY Zenon DEF Known
      <3> QED BY <1>1, <2>2, <3>1, Zenon DEF Extends
    <2> QED BY <1>4, <2>1, <2>2, Zenon
  <1>13. LongestWaiter'
    BY DEF FirstComeFirstServed, LongestWaiter, Before, Ranks
  <1> QED BY <1>5, <1>6, <1>7, <1>9, <1>10, <1>11, <1>12, <1>13, Zenon
          DEF NothingLost, FirstComeFirstServed

LEMMA PutKeeps ==
    ASSUME QInv, NEW m \in Messages, Fresh(m), Put(m)
    PROVE  QInv'
  BY HandOverKeeps, QueueUpKeeps, Zenon DEF Put

-----------------------------------------------------------------------------

(* A reader that finds its message in the queue.                           *)
LEMMA TakeKeeps ==
    ASSUME QInv, NEW g \in Gets, state[g] = "idle", NEW i \in Matches(g),
           First(i, Matches(g)), queue' = Popped(queue, i),
           Serve(g, queue[i]), asked' = Append(asked, g),
           UNCHANGED <<waiting, purged, resetting, visited, arrived>>
    PROVE  QInv'
  <1> USE DEF QInv
  <1> DEFINE m == queue[i]
  <1>1. /\ i \in Ranks(queue) /\ m \in Accepts[g] /\ m \in Messages
        /\ \A j \in Ranks(queue) : queue[j] \in Accepts[g] => i <= j
    BY DEF Matches, First, QueueTypeOK, Ranks
  <1>2. queue' \in Seq(Messages) /\ Lacks(queue', queue, i)
    BY <1>1, RemovedElements, Zenon DEF QueueTypeOK
  <1>3. asked' \in Seq(Gets) /\ Extends(asked', asked, g)
    BY Appended, Zenon DEF QueueTypeOK
  <1>4. /\ state' = [state EXCEPT ![g] = "served"]
        /\ got' = [got EXCEPT ![g] = m]
    BY Zenon DEF Serve
  <1> HIDE DEF m
  <1>5. /\ state' \in [Gets -> States] /\ state'[g] = "served"
        /\ got' \in [Gets -> Messages \cup {None}] /\ got'[g] = m
        /\ \A h \in Gets : h # g => state'[h] = state[h] /\ got'[h] = got[h]
    BY <1>1, <1>4, Zenon DEF QueueTypeOK, States
  <1>6. \A k \in Ranks(waiting) : waiting[k] \in Gets /\ waiting[k] # g
    BY DEF Waiters, QueueTypeOK, Ranks
  <1>7. /\ In(arrived, m) /\ m \notin purged
        /\ \A h \in Gets : got[h] # m
        /\ \A k \in Ranks(queue) : k # i => queue[k] # m
    BY <1>1, Zenon DEF Known, NothingLost, Conserved, m
  <1>8. QueueTypeOK'
    BY <1>2, <1>3, <1>5, Zenon DEF QueueTypeOK
  <1>9. Waiters'
    BY <1>5, <1>6, Zenon DEF Waiters
  <1>10. Known'
    <2>1. \A j \in Ranks(queue') : In(arrived, queue'[j])
      BY <1>2 DEF Lacks, Known
    <2>2. \A h \in Gets : IF state'[h] = "served" THEN In(arrived, got'[h])
                                                 ELSE got'[h] = None
      BY <1>5, <1>7 DEF Known
    <2>3. \A h \in Gets : state'[h] # "idle" => In(asked', h)
      BY <1>3, <1>5, Zenon DEF Known, Extends
    <2> QED BY <2>1, <2>2, <2>3, Zenon DEF Known
  <1>11. Ordered'
    BY <1>2, <1>3 DEF Ordered, Lacks, Extends
  <1>12. NoMissedMatch'
    BY <1>2, <1>5 DEF NoMissedMatch, Lacks
  <1>13. Conserved'
    <2>1. \A j, k \in Ranks(queue') : queue'[j] = queue'[k] => j = k
      <3>1. \A j, k \in Ranks(queue') : j < k => queue'[j] # queue'[k]
        <4> SUFFICES ASSUME NEW j \in Ranks(queue'), NEW k \in Ranks(queue'),
                            j < k
                     PROVE  queue'[j] # queue'[k]
          OBVIOUS
        <4>1. PICK k1, k2 \in Ranks(queue) :
                k1 < k2 /\ queue'[j] = queue[k1] /\ queue'[k] = queue[k2]
          BY <1>2 DEF Lacks
        <4> QED BY <4>1 DEF NothingLost, Conserved, Ranks
      <3> QED BY <1>2, <3>1 DEF Ranks
    <2>2. /\ \A k \in Ranks(queue') : queue'[k] \notin purged
          /\ \A h \in Gets, k \in Ranks(queue') : got'[h] # queue'[k]
      BY <1>2, <1>5, <1>7, SMTT(20) DEF NothingLost, Conserved, Lacks
    <2>3. /\ \A h \in Gets : got'[h] \notin purged
          /\ \A h1, h2 \in Gets :
                got'[h1] = got'[h2] => h1 = h2 \/ got'[h1] = None
      BY <1>5, <1>7, SMTT(20) DEF NothingLost, Conserved
    <2>4. \A k \in Ranks(arrived) :
            \/ arrived[k] \in purged
            \/ \E j \in Ranks(queue') : queue'[j] = arrived[k]
            \/ \E h \in Gets : got'[h] = arrived[k]
      <3> SUFFICES ASSUME NEW k \in Ranks(arrived)
                   PROVE  \/ arrived[k] \in purged
                          \/ \E j \in Ranks(queue') : queue'[j] = arrived[k]
                          \/ \E h \in Gets : got'[h] = arrived[k]
        OBVIOUS
      <3>1. CASE \E j \in Ranks(queue) : queue[j] = arrived[k]
        BY <1>2, <1>5, <3>1 DEF Lacks, m
      <3>2. CASE \E h \in Gets : got[h] = arrived[k]
        <4>1. arrived[k] # None /\ got[g] = None
          BY QueueAssumption DEF QueueTypeOK, Ranks, Known
        <4> QED BY <1>5, <3>2, <4>1, Zenon
      <3> QED BY <3>1, <3>2, Zenon DEF NothingLost, Conserved
    <2> QED BY <2>1, <2>2, <2>3, <2>4, Zenon DEF Conserved
  <1>14. NobodyForgotten'
    BY <1>5, <1>6 DEF NothingLost, NobodyForgotten, Waiters, Ranks, QueueTypeOK
  <1>15. OldestMessage'
    <2>1. \A k \in Ranks(queue) : k # i /\ queue[k] \in Accepts[g]
                                    => Before(arrived, m, queue[k])
      BY <1>1 DEF Ordered, Ranks, m
    <2> SUFFICES ASSUME NEW h \in Gets, NEW j \in Ranks(queue'),
                        state'[h] = "served", queue'[j] \in Accepts[h]
                 PROVE  Before(arrived, got'[h], queue'[j])
      BY DEF OldestMessage, Before, Ranks
    <2>2. PICK k \in Ranks(queue) : k # i /\ queue'[j] = queue[k]
      BY <1>2, Zenon DEF Lacks
    <2>3. CASE h = g
      BY <1>5, <2>1, <2>2, <2>3, Zenon
    <2>4. CASE h # g
      BY <1>5, <2>2, <2>4, Zenon DEF FirstComeFirstServed, OldestMessage
    <2> QED BY <2>3, <2>4, Zenon
  <1>16. LongestWaiter'
    BY <1>1, <1>3, <1>5
    DEF NoMissedMatch, FirstComeFirstServed, LongestWaiter, Extends, m
  <1> QED BY <1>8, <1>9, <1>10, <1>11, <1>12, <1>13, <1>14, <1>15, <1>16, Zenon
          DEF NothingLost, FirstComeFirstServed

(* A reader that has to wait.                                              *)
LEMMA WaitKeeps ==
    ASSUME QInv, NEW g \in Gets, state[g] = "idle", Matches(g) = {},
           waiting' = Append(waiting, g), asked' = Append(asked, g),
           state' = [state EXCEPT ![g] = "waiting"],
           UNCHANGED <<queue, got, purged, resetting, visited, arrived>>
    PROVE  QInv'
  <1> USE DEF QInv
  <1>1. waiting' \in Seq(Gets) /\ Extends(waiting', waiting, g)
    BY Appended, Zenon DEF QueueTypeOK
  <1>2. asked' \in Seq(Gets) /\ Extends(asked', asked, g)
    BY Appended, Zenon DEF QueueTypeOK
  <1>3. /\ state' \in [Gets -> States] /\ state'[g] = "waiting"
        /\ \A h \in Gets : h # g => state'[h] = state[h]
    BY Zenon DEF QueueTypeOK, States
  <1>4. \A k \in Ranks(waiting) : waiting[k] \in Gets /\ waiting[k] # g
    BY DEF Waiters, QueueTypeOK, Ranks
  <1>5. \A k \in Ranks(waiting') :
            \/ k \in Ranks(waiting) /\ waiting'[k] = waiting[k]
            \/ k = Len(waiting) + 1 /\ waiting'[k] = g
    BY <1>1 DEF Extends, Ranks, QueueTypeOK
  <1>6. QueueTypeOK'
    BY <1>1, <1>2, <1>3, Zenon DEF QueueTypeOK
  <1>7. Waiters'
    <2>1. visited <= Len(waiting')
      BY <1>1 DEF Waiters, Extends, QueueTypeOK
    <2>2. \A k \in Ranks(waiting') : state'[waiting'[k]] # "idle"
      <3>1. \A k \in Ranks(waiting) : state[waiting[k]] # "idle"
        BY Zenon DEF Waiters
      <3> QED BY <1>3, <1>4, <1>5, <3>1, ZenonT(40)
    <2>3. \A j, k \in Ranks(waiting') : waiting'[j] = waiting'[k] => j = k
      <3> SUFFICES ASSUME NEW j \in Ranks(waiting'), NEW k \in Ranks(waiting'),
                          waiting'[j] = waiting'[k]
                   PROVE  j = k
        BY Zenon
      <3>0. \A k1, k2 \in Ranks(waiting) : waiting[k1] = waiting[k2] => k1 = k2
        BY Zenon DEF Waiters
      <3>1. CASE j \in Ranks(waiting) /\ waiting'[j] = waiting[j]
        BY <1>4, <1>5, <3>0, <3>1, Zenon
      <3>2. CASE j = Len(waiting) + 1 /\ waiting'[j] = g
        BY <1>4, <1>5, <3>0, <3>2, Zenon
      <3> QED BY <1>5, <3>1, <3>2, Zenon
    <2> QED BY <2>1, <2>2, <2>3, Zenon DEF Waiters
  <1>8. Known'
    BY <1>2, <1>3, Zenon DEF Known, Extends
  <1>9. Ordered'
    <2>1. \A j, k \in Ranks(waiting') :
            j < k => Before(asked', waiting'[j], waiting'[k])
      <3> SUFFICES ASSUME NEW j \in Ranks(waiting'), NEW k \in Ranks(waiting'),
                          j < k
                   PROVE  Before(asked', waiting'[j], waiting'[k])
        BY Zenon
      <3>1. j \in Ranks(waiting) /\ waiting'[j] = waiting[j]
        BY <1>1, <1>5 DEF Extends, Ranks, QueueTypeOK
      <3>2. In(asked, waiting[j])
        BY <1>4, <3>1, Zenon DEF Waiters, Known
      <3>3. CASE k \in Ranks(waiting) /\ waiting'[k] = waiting[k]
        BY <1>2, <3>1, <3>3, Zenon DEF Ordered, Extends
      <3>4. CASE waiting'[k] = g
        BY <1>2, <3>1, <3>2, <3>4, Zenon DEF Extends
      <3> QED BY <1>5, <3>3, <3>4, Zenon
    <2> QED BY <2>1, Zenon DEF Ordered
  <1>10. NoMissedMatch'
    BY <1>3, Zenon DEF NoMissedMatch, Matches
  <1>11. Conserved'
    BY Zenon DEF NothingLost, Conserved
  <1>12. NobodyForgotten'
    <2>1. \A k \in (visited + 1)..Len(waiting) :
            k \in (visited + 1)..Len(waiting') /\ waiting'[k] = waiting[k]
      BY <1>1 DEF Extends, QueueTypeOK, Ranks
    <2>2. /\ Len(waiting) + 1 \in (visited + 1)..Len(waiting')
          /\ waiting'[Len(waiting) + 1] = g
      BY <1>1 DEF Extends, QueueTypeOK, Waiters
    <2>3. \A k \in (visited + 1)..Len(waiting') : waiting'[k] # g =>
            k \in (visited + 1)..Len(waiting) /\ waiting'[k] = waiting[k]
      BY <1>1, <1>5 DEF Extends, QueueTypeOK, Ranks
    <2>4. \A h \in Gets : state[h] = "waiting" <=>
            \E k \in (visited + 1)..Len(waiting) : waiting[k] = h
      BY Zenon DEF NothingLost, NobodyForgotten
    <2>5. \A h \in Gets : state'[h] = "waiting" <=>
            \E k \in (visited + 1)..Len(waiting') : waiting'[k] = h
      <3> SUFFICES ASSUME NEW h \in Gets
                   PROVE  state'[h] = "waiting" <=>
                            \E k \in (visited + 1)..Len(waiting') : waiting'[k] = h
        BY Zenon
      <3>1. CASE h = g
        BY <1>3, <2>2, <3>1, Zenon
      <3>2. CASE h # g
        <4>1. (\E k \in (visited + 1)..Len(waiting') : waiting'[k] = h) <=>
              (\E k \in (visited + 1)..Len(waiting) : waiting[k] = h)
          <5> DEFINE Old == (visited + 1)..Len(waiting)
                     New == (visited + 1)..Len(waiting')
          <5>1. /\ \A k \in Old : k \in New /\ waiting'[k] = waiting[k]
                /\ \A k \in New : waiting'[k] # g =>
                                    k \in Old /\ waiting'[k] = waiting[k]
            BY <2>1, <2>3, Zenon
          <5> HIDE DEF Old, New
          <5>2. (\E k \in New : waiting'[k] = h) <=> (\E k \in Old : waiting[k] = h)
            BY <3>2, <5>1, Zenon
          <5> QED BY <5>2, Zenon DEF Old, New
        <4> QED BY <1>3, <2>4, <3>2, <4>1, Zenon
      <3> QED BY <3>1, <3>2, Zenon
    <2> QED BY <2>5, Zenon DEF NobodyForgotten
  <1>13. OldestMessage'
    BY <1>3 DEF FirstComeFirstServed, OldestMessage, Before, Ranks
  <1>14. LongestWaiter'
    BY <1>2, <1>3, ZenonT(40) DEF FirstComeFirstServed, LongestWaiter, Known, Extends
  <1> QED BY <1>6, <1>7, <1>8, <1>9, <1>10, <1>11, <1>12, <1>13, <1>14, Zenon
          DEF NothingLost, FirstComeFirstServed

LEMMA GetKeeps ==
    ASSUME QInv, NEW g \in Gets, Get(g)
    PROVE  QInv'
  BY TakeKeeps, WaitKeeps, Zenon DEF Get

-----------------------------------------------------------------------------

(* A reader that gives up; its deferred may stay unfired.                  *)
LEMMA CancelKeeps ==
    ASSUME QInv, NEW g \in Gets, Cancel(g)
    PROVE  QInv'
  <1> USE DEF QInv
  <1>1. PICK i \in Ranks(waiting) :
          /\ waiting[i] = g /\ waiting' = Popped(waiting, i)
          /\ state' = [state EXCEPT ![g] =
                          IF i = Len(waiting) THEN "failed" ELSE "orphaned"]
    BY Zenon DEF Cancel
  <1> DEFINE v == IF i = Len(waiting) THEN "failed" ELSE "orphaned"
  <1>2. /\ v \in States \ {"idle", "waiting", "served"}
        /\ state' = [state EXCEPT ![waiting[i]] = v]
    BY <1>1, Zenon DEF States
  <1> HIDE DEF v
  <1>3. /\ queue' = queue /\ got' = got /\ purged' = purged
        /\ resetting' = resetting /\ visited' = visited
        /\ arrived' = arrived /\ asked' = asked /\ ~resetting
    BY Zenon DEF Cancel
  <1>4. /\ state[g] = "waiting" /\ got[g] = None
        /\ waiting' \in Seq(Gets) /\ Lacks(waiting', waiting, i)
        /\ state' \in [Gets -> States] /\ state'[g] = v
        /\ \A h \in Gets : h # g => state'[h] = state[h]
        /\ Waiters' /\ NobodyForgotten'
    <2>1. v \in States \ {"idle", "waiting"}
      BY <1>2, Zenon
    <2> QED BY <1>1, <1>2, <1>3, <2>1, WaiterLeaves, ZenonT(40)
  <1>5. QueueTypeOK'
    BY <1>3, <1>4, Zenon DEF QueueTypeOK
  <1>6. Known'
    BY <1>2, <1>3, <1>4, Zenon DEF Known
  <1>7. Ordered'
    BY <1>3, <1>4, SMTT(20) DEF Ordered, Lacks
  <1>8. NoMissedMatch'
    BY <1>3, <1>4, SMTT(20) DEF NoMissedMatch
  <1>9. Conserved'
    BY <1>3, Zenon DEF NothingLost, Conserved
  <1>10. OldestMessage' /\ LongestWaiter'
    BY <1>2, <1>3, <1>4, Zenon DEF FirstComeFirstServed, OldestMessage, LongestWaiter
  <1> QED BY <1>4, <1>5, <1>6, <1>7, <1>8, <1>9, <1>10, Zenon
          DEF NothingLost, FirstComeFirstServed

(* The loop of reset() fails one more waiter.                              *)
LEMMA ResetErrbackKeeps == QInv /\ ResetErrback => QInv'
  <1> SUFFICES ASSUME QInv, ResetErrback PROVE QInv'
    OBVIOUS
  <1> USE DEF QInv
  <1> DEFINE g == waiting[visited + 1]
  <1>1. /\ queue' = queue /\ waiting' = waiting /\ got' = got
        /\ purged' = purged /\ resetting' = resetting
        /\ arrived' = arrived /\ asked' = asked /\ resetting
        /\ visited' = visited + 1 /\ visited < Len(waiting)
        /\ state' = [state EXCEPT ![g] = "failed"]
    BY Zenon DEF ResetErrback
  <1>2. /\ g \in Gets /\ visited + 1 \in Ranks(waiting)
        /\ \A k \in Ranks(waiting) : waiting[k] = g => k = visited + 1
    BY <1>1 DEF QueueTypeOK, Ranks, Waiters
  <1>3. state[g] = "waiting" /\ got[g] = None
    BY <1>1, <1>2 DEF NothingLost, NobodyForgotten, Known, QueueTypeOK
  <1> HIDE DEF g
  <1>4. /\ state' \in [Gets -> States] /\ state'[g] = "failed"
        /\ \A h \in Gets : h # g => state'[h] = state[h]
    BY <1>1, <1>2, Zenon DEF QueueTypeOK, States
  <1>5. QueueTypeOK'
    BY <1>1, <1>4 DEF QueueTypeOK
  <1>6. Waiters'
    <2>1. visited' <= Len(waiting)
      BY <1>1 DEF QueueTypeOK
    <2>2. \A k \in Ranks(waiting) : waiting[k] \in Gets
      BY DEF QueueTypeOK, Ranks
    <2>3. \A k \in Ranks(waiting) : state'[waiting[k]] # "idle"
      BY <1>4, <2>2, Zenon DEF Waiters
    <2> QED BY <1>1, <2>1, <2>3, Zenon DEF Waiters
  <1>7. Known'
    BY <1>1, <1>3, <1>4, SMTT(20) DEF Known
  <1>8. Ordered' /\ Conserved'
    BY <1>1, SMTT(20) DEF Ordered, NothingLost, Conserved
  <1>9. NoMissedMatch'
    BY <1>1, <1>4, SMTT(20) DEF NoMissedMatch
  <1>10. NobodyForgotten'
    <2> SUFFICES ASSUME NEW h \in Gets
                 PROVE  state'[h] = "waiting" <=>
                          \E k \in (visited + 2)..Len(waiting) : waiting[k] = h
      BY <1>1 DEF NobodyForgotten, QueueTypeOK
    <2>1. state[h] = "waiting" <=>
            \E k \in (visited + 1)..Len(waiting) : waiting[k] = h
      BY Zenon DEF NothingLost, NobodyForgotten
    <2>2. CASE h = g
      BY <1>2, <1>4, <2>2 DEF Ranks, QueueTypeOK
    <2>3. CASE h # g
      BY <1>4, <2>1, <2>3 DEF g, QueueTypeOK
    <2> QED BY <2>2, <2>3, Zenon
  <1>11. OldestMessage' /\ LongestWaiter'
    BY <1>1, <1>4, Zenon DEF FirstComeFirstServed, OldestMessage, LongestWaiter
  <1> QED BY <1>5, <1>6, <1>7, <1>8, <1>9, <1>10, <1>11, Zenon
          DEF NothingLost, FirstComeFirstServed

(* The end of reset(): nobody is left in the list, the messages are gone.  *)
LEMMA ResetEndKeeps == QInv /\ ResetEnd => QInv'
  <1> SUFFICES ASSUME QInv, ResetEnd PROVE QInv'
    OBVIOUS
  <1> USE DEF QInv
  <1>1. /\ queue' = <<>> /\ waiting' = <<>> /\ visited' = 0
        /\ purged' = purged \cup {queue[i] : i \in Ranks(queue)}
        /\ state' = state /\ got' = got /\ arrived' = arrived /\ asked' = asked
        /\ visited = Len(waiting)
    BY Zenon DEF ResetEnd
  <1>2. ~resetting' /\ resetting' \in BOOLEAN
    BY Zenon DEF ResetEnd
  <1>3. \A i \in Ranks(queue) : queue[i] \in Messages
    BY DEF QueueTypeOK, Ranks
  <1>4. Ranks(queue') = {} /\ Ranks(waiting') = {} /\ Len(waiting') = 0
    BY <1>1 DEF Ranks
  <1>5. QueueTypeOK'
    <2>1. purged' \subseteq Messages
      BY <1>1, <1>3, Zenon DEF QueueTypeOK
    <2>2. queue' \in Seq(Messages) /\ waiting' \in Seq(Gets) /\ visited' \in Nat
      BY <1>1
    <2> QED BY <1>1, <1>2, <2>1, <2>2, Zenon DEF QueueTypeOK
  <1>6. Waiters'
    BY <1>1, <1>4 DEF Waiters
  <1>7. Known'
    BY <1>1, <1>4, Zenon DEF Known
  <1>8. Ordered' /\ NoMissedMatch'
    BY <1>4, Zenon DEF Ordered, NoMissedMatch
  <1>9. Conserved'
    <2>1. \A g \in Gets : got'[g] \notin purged'
      BY <1>1, Zenon DEF NothingLost, Conserved
    <2>2. \A k \in Ranks(arrived) : \/ arrived[k] \in purged'
                                    \/ \E g \in Gets : got[g] = arrived[k]
      BY <1>1, Zenon DEF NothingLost, Conserved
    <2> QED BY <1>1, <1>4, <2>1, <2>2, Zenon DEF NothingLost, Conserved
  <1>10. \A g \in Gets : state[g] # "waiting"
    BY <1>1 DEF NothingLost, NobodyForgotten, QueueTypeOK
  <1>11. NobodyForgotten'
    BY <1>1, <1>4, <1>10 DEF NobodyForgotten
  <1>12. OldestMessage' /\ LongestWaiter'
    BY <1>1, <1>4, <1>10, Zenon DEF OldestMessage, LongestWaiter
  <1> QED BY <1>5, <1>6, <1>7, <1>8, <1>9, <1>11, <1>12, Zenon
          DEF NothingLost, FirstComeFirstServed

LEMMA ResetBeginKeeps == QInv /\ ResetBegin => QInv'
  <1> SUFFICES ASSUME QInv, ResetBegin PROVE QInv'
    OBVIOUS
  <1> USE DEF QInv
  <1>1. /\ queue' = queue /\ waiting' = waiting /\ state' = state
        /\ got' = got /\ purged' = purged /\ arrived' = arrived
        /\ asked' = asked /\ visited' = 0
    BY Zenon DEF ResetBegin
  <1>2. resetting' /\ resetting' \in BOOLEAN
    BY Zenon DEF ResetBegin
  <1>3. visited = 0
    BY Zenon DEF ResetBegin, Waiters
  <1>4. QueueTypeOK' /\ Waiters'
    BY <1>1, <1>2, <1>3, SMTT(20) DEF QueueTypeOK, Waiters
  <1>5. Known' /\ Ordered' /\ NoMissedMatch'
    BY <1>1, SMTT(20) DEF Known, Ordered, NoMissedMatch
  <1>6. Conserved' /\ NobodyForgotten'
    BY <1>1, <1>3 DEF NothingLost, Conserved, NobodyForgotten
  <1>7. OldestMessage' /\ LongestWaiter'
    BY <1>1, Zenon DEF FirstComeFirstServed, OldestMessage, LongestWaiter
  <1> QED BY <1>4, <1>5, <1>6, <1>7, Zenon DEF NothingLost, FirstComeFirstServed

LEMMA StutterKeeps == QInv /\ UNCHANGED queueVars => QInv'
  <1> SUFFICES ASSUME QInv, UNCHANGED queueVars PROVE QInv'
    BY SMTT(20)
  <1> USE DEF QInv, queueVars
  <1>1. QueueTypeOK' /\ Waiters' /\ Known' /\ Ordered' /\ NoMissedMatch'
    BY Zenon DEF QueueTypeOK, Waiters, Known, Ordered, NoMissedMatch
  <1>2. NothingLost' /\ FirstComeFirstServed'
    <2>1. Conserved'
      BY Zenon DEF NothingLost, Conserved
    <2>2. NobodyForgotten'
      BY Zenon DEF NothingLost, NobodyForgotten
    <2>3. OldestMessage' /\ LongestWaiter'
      BY Zenon DEF FirstComeFirstServed, OldestMessage, LongestWaiter
    <2> QED BY <2>1, <2>2, <2>3, Zenon DEF NothingLost, FirstComeFirstServed
  <1> QED BY <1>1, <1>2, Zenon

LEMMA QInvHolds == QueueSpec => []QInv
  <1>1. QInv /\ [QueueNext]_queueVars => QInv'
    <2> SUFFICES ASSUME QInv, [QueueNext]_queueVars PROVE QInv'
      OBVIOUS
    <2>1. ASSUME NEW m \in Messages, Fresh(m), Put(m) PROVE QInv'
      BY <2>1, PutKeeps, Zenon
    <2>2. ASSUME NEW g \in Gets, Get(g) \/ Cancel(g) PROVE QInv'
      BY <2>2, GetKeeps, CancelKeeps, Zenon
    <2>3. CASE ResetBegin \/ ResetErrback \/ ResetEnd
      BY <2>3, ResetBeginKeeps, ResetErrbackKeeps, ResetEndKeeps, Zenon
    <2>4. CASE UNCHANGED queueVars
      BY <2>4, StutterKeeps, Zenon
    <2> QED BY <2>1, <2>2, <2>3, <2>4, Zenon DEF QueueNext
  <1> QED BY InitQInv, <1>1, PTL DEF QueueSpec

(* put() finds every waiter and get() every message: a message in          *)
(* self.queue and an unfired deferred in self.waiting that accepts it      *)
(* never exist together.                                                   *)
THEOREM QueueMatches == QueueSpec => []NoMissedMatch
  <1>1. QInv => NoMissedMatch
    BY Zenon DEF QInv
  <1> QED BY QInvHolds, <1>1, PTL

(* Every message of put() is in self.queue, with one reader or purged, and *)
(* every unfired deferred, but those orphaned by the IndexError of         *)
(* _cancelGet, is where put() and reset() will find it, however put(),     *)
(* get(), cancel() and the loop of reset() with get() called from its      *)
(* errbacks follow each other.                                             *)
THEOREM QueueLosesNothing == QueueSpec => []NothingLost
  <1>1. QInv => NothingLost
    BY Zenon DEF QInv
  <1> QED BY QInvHolds, <1>1, PTL

(* get() returned the oldest message its predicate accepts, and put() went *)
(* to the reader that had waited longest for the message.                  *)
THEOREM QueueIsFair == QueueSpec => []FirstComeFirstServed
  <1>1. QInv => FirstComeFirstServed
    BY Zenon DEF QInv
  <1> QED BY QInvHolds, <1>1, PTL
=============================================================================
