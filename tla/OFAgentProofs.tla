--------------------------- MODULE OFAgentProofs ----------------------------
(***************************************************************************)
(* Proofs about OFAgent, for any devices, datapath ids, agents, requests    *)
(* and bounds: the manager's two maps agree, an agent has one connection    *)
(* at a time, events reach the controller as events of their own device,    *)
(* and a request is answered at most once, on its own connection.           *)
(***************************************************************************)
EXTENDS OFAgent, TLAPS

-----------------------------------------------------------------------------
(***************************************************************************)
(* Sequences                                                               *)
(***************************************************************************)

Has(s, x) == \E i \in 1..Len(s) : s[i] = x

Once(s, x) == \A i, j \in 1..Len(s) : s[i] = x /\ s[j] = x => i = j

\* t is s with one more e.
Grows(t, s, e) ==
    /\ \A x : Has(t, x) <=> Has(s, x) \/ x = e
    /\ \A x : Once(s, x) /\ (x = e => ~Has(s, x)) => Once(t, x)

\* t is s with one e less.
Shrinks(t, s, e) ==
    /\ Has(s, e)
    /\ \A x : Has(t, x) => Has(s, x)
    /\ \A x : Once(s, x) => Once(t, x)
    /\ Once(s, e) => ~Has(t, e)

\* What append() does to a list.
LEMMA AppendGrows ==
    ASSUME NEW S, NEW s \in Seq(S), NEW e \in S
    PROVE  Append(s, e) \in Seq(S) /\ Grows(Append(s, e), s, e)
  BY DEF Grows, Has, Once

\* What taking the oldest message does to a list.
LEMMA TailShrinks ==
    ASSUME NEW S, NEW s \in Seq(S), s # <<>>
    PROVE  /\ Tail(s) \in Seq(S) /\ Head(s) \in S
           /\ Shrinks(Tail(s), s, Head(s))
  BY DEF Shrinks, Has, Once

\* What pop(i) does to a list.
LEMMA PoppedShrinks ==
    ASSUME NEW S, NEW s \in Seq(S), NEW i \in 1..Len(s)
    PROVE  Popped(s, i) \in Seq(S) /\ Shrinks(Popped(s, i), s, s[i])
<1> DEFINE t == Popped(s, i)
<1>1. /\ t \in Seq(S) /\ Len(t) = Len(s) - 1 /\ Len(s) \in Nat
      /\ i \in Nat /\ 1 <= i /\ i <= Len(s)
  BY DEF Popped
<1>2. \A k \in 1..Len(t) : t[k] = IF k < i THEN s[k] ELSE s[k + 1]
  BY <1>1, Zenon DEF Popped
<1> HIDE DEF t
<1>3. Has(s, s[i])
  BY Zenon DEF Has
<1> DEFINE M(k) == IF k < i THEN k ELSE k + 1
<1>4. \A k \in 1..Len(t) : M(k) \in 1..Len(s) /\ M(k) # i /\ t[k] = s[M(k)]
  BY <1>1, <1>2
<1>m. \A k, l \in 1..Len(t) : M(k) = M(l) => k = l
  BY <1>1
<1> HIDE DEF M
<1>5. \A x : Has(t, x) => Has(s, x)
  BY <1>4, Zenon DEF Has
<1>6. ASSUME NEW x, Once(s, x) PROVE Once(t, x)
  BY <1>m, <1>4, <1>6, Zenon DEF Once
<1>7. ASSUME Once(s, s[i]) PROVE ~Has(t, s[i])
  BY <1>4, <1>7, Zenon DEF Once, Has
<1> QED
  BY <1>1, <1>3, <1>5, <1>6, <1>7, Zenon DEF Shrinks, t

\* Messages of different kinds are different.
LEMMA MessagesDiffer ==
    /\ \A r, d : [reply |-> r] # [event |-> d]
    /\ \A r, c : [reply |-> r] # [hello |-> c]
    /\ \A d, c : [event |-> d] # [hello |-> c]
    /\ \A r, q : [reply |-> r] = [reply |-> q] => r = q
    /\ \A d, e : [event |-> d] = [event |-> e] => d = e
  OBVIOUS

-----------------------------------------------------------------------------
(***************************************************************************)
(* Connections and the agents' loops                                       *)
(***************************************************************************)

LoopStates == {"unborn", "scheduled", "waiting", "asleep", "ended"}

\* A connection that was established has a handler.
Established == {"up", "closing", "down"}

\* keep_connected() waits while its agent's connection or attempt lasts, and
\* opens the next one only when it does not; a protocol handler is made for
\* the connection of its own agent, whose number is never used again.
Links ==
    /\ loop \in [Agents -> LoopStates]
    /\ proto_handler \in [Agents -> Conns \cup {0}]
    /\ owner \in [Conns -> Agents \cup {None}]
    /\ link \in [Conns -> {"none", "connecting"} \cup Established]
    /\ \A c \in Conns : link[c] # "none" =>
        owner[c] \in Agents /\ loop[owner[c]] # "unborn"
    /\ \A c \in Conns : link[c] \in Live => loop[owner[c]] = "waiting"
    /\ OneConnection
    /\ \A a \in Agents : proto_handler[a] # 0 =>
        /\ owner[proto_handler[a]] = a
        /\ link[proto_handler[a]] \in Established

\* The steps that concern agents and connections.
LineStep ==
    \/ Refresh \/ Stop
    \/ \E a \in Agents : KeepConnected(a)
    \/ \E c \in Conns : ConnectFails(c) \/ Connects(c) \/ ConnectionLost(c)

line == <<device_id, loop, proto_handler, owner, link>>

LEMMA LineSteps ==
    ASSUME [Next]_vars
    PROVE  LineStep \/ UNCHANGED line
<1> USE DEF line, agent, wires
<1>1. CASE \E ds \in Lists : VolthaChanges(ds)
  BY <1>1, Zenon DEF VolthaChanges
<1>2. CASE \E d \in Ids : Forward(d)
  BY <1>2, Zenon DEF Forward
<1>3. CASE \E c \in Conns : ConnStep(c)
  <2>1. PICK c \in Conns : ConnStep(c)
    BY <1>3, Zenon
  <2>2. CASE ConnectFails(c) \/ Connects(c) \/ ConnectionLost(c)
    BY <2>2, Zenon DEF LineStep
  <2>3. CASE HandlerStarts(c)
    BY <2>3, Zenon DEF HandlerStarts
  <2>4. CASE ReceiveHello(c)
    BY <2>4, Zenon DEF ReceiveHello
  <2>5. CASE TakeHello(c)
    BY <2>5, Zenon DEF TakeHello
  <2>6. CASE HandleNext(c)
    BY <2>6, Zenon DEF HandleNext
  <2>7. CASE \E r \in Requests, k \in Kinds : Receive(c, r, k)
    BY <2>7, Zenon DEF Receive
  <2> QED
    BY <2>1, <2>2, <2>3, <2>4, <2>5, <2>6, <2>7, Zenon DEF ConnStep
<1>4. CASE \E k \in calls : Execute(k) \/ CallFails(k) \/ Complete(k)
  BY <1>4, Zenon DEF Execute, CallFails, Complete
<1>5. CASE StreamPacketOut
  BY <1>5, Zenon DEF StreamPacketOut
<1>6. CASE UNCHANGED vars
  BY <1>6, Zenon DEF vars
<1> QED
  BY <1>1, <1>2, <1>3, <1>4, <1>5, <1>6, Zenon DEF Next, LineStep

\* stop() of some agents: nothing is opened.
LEMMA StopLinks ==
    ASSUME Links, NEW as, StopAgents(as)
    PROVE  /\ link' \in [Conns -> {"none", "connecting"} \cup Established]
           /\ \A c \in Conns : link'[c] # "none" => link[c] # "none"
           /\ \A c \in Conns : link'[c] \in Live => link[c] \in Live
           /\ \A c \in Conns :
                link[c] \in Established => link'[c] \in Established
           /\ \A c \in Conns : link'[c] \in {"none", "connecting"} =>
                link[c] \in {"none", "connecting"}
<1>1. \A c \in Conns : link[c] \in {"none", "connecting", "up", "closing", "down"}
  BY DEF Links, Established
<1>2. \A c \in Conns : link'[c] = link[c] \/ link'[c] = Disconnected(link[c])
  BY Zenon DEF StopAgents
<1>3. link' \in [Conns -> {link'[c] : c \in Conns}]
  BY Zenon DEF StopAgents
<1>4. \A c \in Conns : \/ link'[c] = link[c]
                       \/ link[c] = "connecting" /\ link'[c] = "none"
                       \/ link[c] = "up" /\ link'[c] = "closing"
  BY <1>1, <1>2, Zenon DEF Disconnected
<1> QED
  BY <1>1, <1>3, <1>4, Zenon DEF Live, Established

\* create_agent() takes Agent objects that were not used before, one for each
\* datapath id; the agents that exist are left alone.
LEMMA RefreshCreates ==
    ASSUME Refresh
    PROVE  /\ Created \in [ToAdd -> Unborn]
           /\ \A p, q \in ToAdd : Created[p] = Created[q] => p = q
           /\ \A p \in ToAdd : Listed(p) \in devices /\ Dp[Listed(p)] = p
           /\ \A p \in ToAdd : /\ device_id'[Created[p]] = Listed(p)
                               /\ loop'[Created[p]] = "scheduled"
           /\ \A a \in Agents : (\A p \in ToAdd : Created[p] # a) =>
                device_id'[a] = device_id[a] /\ loop'[a] = loop[a]
<1>1. \E f \in [ToAdd -> Unborn] : IsInjective(f)
  BY Zenon DEF Refresh
<1>2. Created \in [ToAdd -> Unborn] /\ IsInjective(Created)
  BY <1>1, Zenon DEF Created
<1>3. \A p, q \in ToAdd : Created[p] = Created[q] => p = q
  BY <1>2, Zenon DEF IsInjective
<1>4. ASSUME NEW p \in ToAdd PROVE Listed(p) \in devices /\ Dp[Listed(p)] = p
  <2>1. \E d \in devices : Dp[d] = p
    BY Zenon DEF ToAdd, Desired
  <2> QED
    BY <2>1, Zenon DEF Listed
<1>5. ASSUME NEW p \in ToAdd
      PROVE  /\ device_id'[Created[p]] = Listed(p)
             /\ loop'[Created[p]] = "scheduled"
  <2>1. Created[p] \in Agents
    BY <1>2, Zenon DEF Unborn
  <2>2. CreatedFor(Created[p]) # {}
    BY Zenon DEF CreatedFor
  <2>3. (CHOOSE q \in ToAdd : Created[q] = Created[p]) = p
    BY <1>3, Zenon
  <2> QED
    BY <2>1, <2>2, <2>3, Zenon DEF Refresh
<1>6. ASSUME NEW a \in Agents, \A p \in ToAdd : Created[p] # a
      PROVE  device_id'[a] = device_id[a] /\ loop'[a] = loop[a]
  <2>1. CreatedFor(a) = {}
    BY <1>6, Zenon DEF CreatedFor
  <2> QED
    BY <2>1, Zenon DEF Refresh
<1> QED
  BY <1>2, <1>3, <1>4, <1>5, <1>6, Zenon

\* Refresh leaves every agent that exists where it is.
LEMMA RefreshKeeps ==
    ASSUME Refresh, Links
    PROVE  /\ loop' \in [Agents -> LoopStates]
           /\ \A a \in Agents : loop[a] # "unborn" =>
                loop'[a] = loop[a] /\ device_id'[a] = device_id[a]
<1>1. /\ Created \in [ToAdd -> Unborn]
      /\ \A p \in ToAdd : loop'[Created[p]] = "scheduled"
      /\ \A a \in Agents : (\A p \in ToAdd : Created[p] # a) =>
            device_id'[a] = device_id[a] /\ loop'[a] = loop[a]
  BY RefreshCreates, Zenon
<1>2. \A a \in Agents : loop[a] \in LoopStates
  BY Zenon DEF Links
<1>3. \A a \in Agents : loop'[a] \in LoopStates
  <2>1. "scheduled" \in LoopStates
    BY Zenon DEF LoopStates
  <2> QED
    BY <1>1, <1>2, <2>1, Zenon
<1>4. loop' \in [Agents -> {loop'[a] : a \in Agents}]
  BY Zenon DEF Refresh
<1>5. loop' \in [Agents -> LoopStates]
  BY <1>3, <1>4, Zenon
<1>6. ASSUME NEW a \in Agents, loop[a] # "unborn"
      PROVE  \A p \in ToAdd : Created[p] # a
  BY <1>1, <1>6, Zenon DEF Unborn
<1> QED
  BY <1>1, <1>5, <1>6, Zenon

\* Agents are stopped or created: what is open stays with its agent.
LEMMA StopKeepsLinks ==
    ASSUME Links, NEW as, StopAgents(as), UNCHANGED <<owner, proto_handler>>,
           loop' \in [Agents -> LoopStates],
           \A a \in Agents : loop[a] # "unborn" => loop'[a] = loop[a]
    PROVE  Links'
<1>1. /\ link' \in [Conns -> {"none", "connecting"} \cup Established]
      /\ \A c \in Conns : link'[c] # "none" => link[c] # "none"
      /\ \A c \in Conns : link'[c] \in Live => link[c] \in Live
      /\ \A c \in Conns : link[c] \in Established => link'[c] \in Established
  BY StopLinks, Zenon
<1>2. /\ owner' = owner /\ proto_handler' = proto_handler
      /\ proto_handler \in [Agents -> Conns \cup {0}]
      /\ owner \in [Conns -> Agents \cup {None}]
      /\ \A c \in Conns : link[c] # "none" =>
            owner[c] \in Agents /\ loop[owner[c]] # "unborn"
      /\ \A c \in Conns : link[c] \in Live => loop[owner[c]] = "waiting"
      /\ OneConnection
      /\ \A a \in Agents : proto_handler[a] # 0 =>
            /\ owner[proto_handler[a]] = a
            /\ link[proto_handler[a]] \in Established
  BY Zenon DEF Links
<1>3. \A c \in Conns : link'[c] # "none" =>
        owner[c] \in Agents /\ loop'[owner[c]] # "unborn"
  BY <1>1, <1>2, Zenon
<1>4. \A c \in Conns : link'[c] \in Live => link'[c] # "none"
  BY Zenon DEF Live
<1>5. \A c \in Conns : link'[c] \in Live => loop'[owner[c]] = "waiting"
  BY <1>1, <1>2, <1>4, Zenon
<1>6. OneConnection'
  BY <1>1, <1>2, Zenon DEF OneConnection
<1>7. \A a \in Agents : proto_handler[a] # 0 => proto_handler[a] \in Conns
  BY <1>2
<1>8. \A a \in Agents : proto_handler[a] # 0 =>
            /\ owner[proto_handler[a]] = a
            /\ link'[proto_handler[a]] \in Established
  BY <1>1, <1>2, <1>7, Zenon
<1> QED
  BY <1>1, <1>2, <1>3, <1>5, <1>6, <1>8, Zenon DEF Links

\* A connection c of agent a changes its state, and a's loop with it, so that
\* c is open afterwards only if the loop waits for it.
HandlerAfter(c, a, l) ==
    \/ proto_handler' = proto_handler
    \/ proto_handler' = [proto_handler EXCEPT ![a] = c] /\ l \in Established

Moves(c, a, l, m) ==
    /\ l \in {"none", "connecting"} \cup Established
    /\ m \in LoopStates \ {"unborn"} /\ loop[a] # "unborn"
    /\ link' = [link EXCEPT ![c] = l] /\ loop' = [loop EXCEPT ![a] = m]
    /\ owner' = [owner EXCEPT ![c] = a]
    /\ l \in Live => m = "waiting"
    /\ \A e \in Conns : e # c /\ owner[e] = a /\ link[e] \in Live =>
            l \notin Live /\ m = "waiting"
    /\ link[c] \in Established => l \in Established /\ owner[c] = a
    /\ HandlerAfter(c, a, l)

LEMMA MoveKeepsLinks ==
    ASSUME Links, NEW c \in Conns, NEW a \in Agents, NEW l, NEW m,
           Moves(c, a, l, m)
    PROVE  Links'
<1> USE DEF Moves, HandlerAfter
<1>1. /\ proto_handler \in [Agents -> Conns \cup {0}]
      /\ owner \in [Conns -> Agents \cup {None}]
      /\ link \in [Conns -> {"none", "connecting"} \cup Established]
      /\ loop \in [Agents -> LoopStates]
      /\ \A e \in Conns : link[e] # "none" =>
            owner[e] \in Agents /\ loop[owner[e]] # "unborn"
      /\ \A e \in Conns : link[e] \in Live => loop[owner[e]] = "waiting"
      /\ \A e, f \in Conns :
            link[e] \in Live /\ link[f] \in Live /\ owner[e] = owner[f] => e = f
      /\ \A b \in Agents : proto_handler[b] # 0 =>
            /\ owner[proto_handler[b]] = b
            /\ link[proto_handler[b]] \in Established
  BY Zenon DEF Links, OneConnection
<1>2. /\ link'[c] = l /\ owner'[c] = a /\ loop'[a] = m
      /\ \A e \in Conns : e # c => link'[e] = link[e] /\ owner'[e] = owner[e]
      /\ \A b \in Agents : b # a => loop'[b] = loop[b]
  BY <1>1, Zenon
<1>3. /\ proto_handler' \in [Agents -> Conns \cup {0}]
      /\ owner' \in [Conns -> Agents \cup {None}]
      /\ link' \in [Conns -> {"none", "connecting"} \cup Established]
      /\ loop' \in [Agents -> LoopStates]
  BY <1>1
<1>4. m # "unborn"
  OBVIOUS
<1>5. \A e \in Conns : link'[e] # "none" =>
            owner'[e] \in Agents /\ loop'[owner'[e]] # "unborn"
  BY <1>1, <1>2, <1>4, Zenon
<1>6. \A e \in Conns : link[e] \in Live => link[e] # "none"
  BY Zenon DEF Live
<1>7. \A e \in Conns : link'[e] \in Live => loop'[owner'[e]] = "waiting"
  BY <1>1, <1>2, <1>6, Zenon
<1>8. ASSUME NEW e \in Conns, NEW f \in Conns,
             link'[e] \in Live, link'[f] \in Live, owner'[e] = owner'[f]
      PROVE  e = f
  <2>1. CASE e # c /\ f # c
    BY <1>1, <1>2, <1>8, <2>1, Zenon
  <2>2. CASE e = c /\ f # c
    <3>1. link[f] \in Live /\ owner[f] = a /\ l \in Live
      BY <1>2, <1>8, <2>2, Zenon
    <3> QED
      BY <2>2, <3>1, Zenon
  <2>3. CASE e # c /\ f = c
    <3>1. link[e] \in Live /\ owner[e] = a /\ l \in Live
      BY <1>2, <1>8, <2>3, Zenon
    <3> QED
      BY <2>3, <3>1, Zenon
  <2> QED
    BY <2>1, <2>2, <2>3, Zenon
<1>9. ASSUME NEW b \in Agents, proto_handler'[b] # 0
       PROVE  /\ owner'[proto_handler'[b]] = b
              /\ link'[proto_handler'[b]] \in Established
  <2>1. \/ proto_handler'[b] = proto_handler[b]
        \/ b = a /\ proto_handler'[b] = c /\ l \in Established
    BY <1>1, Zenon
  <2>2. proto_handler'[b] \in Conns
    BY <1>3, <1>9, Zenon
  <2>3. CASE proto_handler'[b] = proto_handler[b]
    <3> DEFINE e == proto_handler[b]
    <3>1. e \in Conns /\ owner[e] = b /\ link[e] \in Established
      BY <1>1, <1>9, <2>2, <2>3, Zenon
    <3>2. CASE e = c
      BY <1>2, <2>3, <3>1, <3>2, Zenon
    <3>3. CASE e # c
      BY <1>2, <2>3, <3>1, <3>3, Zenon
    <3> QED
      BY <3>2, <3>3, Zenon
  <2>4. CASE b = a /\ proto_handler'[b] = c /\ l \in Established
    BY <1>2, <2>4, Zenon
  <2> QED
    BY <2>1, <2>3, <2>4, Zenon
<1> QED
  BY <1>3, <1>5, <1>7, <1>8, <1>9, Zenon DEF Links, OneConnection

\* A callback of connection c, after which its state is l.
LEMMA CallbackKeepsLinks ==
    ASSUME Links, NEW c \in Conns, NEW l,
           link[c] \in Live, l \in {"none"} \cup Established,
           link[c] \in Established => l \in Established,
           link' = [link EXCEPT ![c] = l], owner' = owner,
           \/ loop' = loop
           \/ loop' = [loop EXCEPT ![owner[c]] = "asleep"] /\ l \notin Live,
           HandlerAfter(c, owner[c], l)
    PROVE  Links'
<1> DEFINE a == owner[c]
<1>1. a \in Agents /\ loop[a] = "waiting"
  <2>1. link[c] # "none"
    BY Zenon DEF Live
  <2> QED
    BY <2>1, Zenon DEF Links
<1>2. loop \in [Agents -> LoopStates] /\ owner \in [Conns -> Agents \cup {None}]
  BY Zenon DEF Links
<1>3. owner' = [owner EXCEPT ![c] = a]
  BY <1>2, Zenon
<1>4. \A e \in Conns : ~(e # c /\ owner[e] = a /\ link[e] \in Live)
  BY Zenon DEF Links, OneConnection
<1>5. l \in {"none", "connecting"} \cup Established
  OBVIOUS
<1>6. /\ "asleep" \in LoopStates \ {"unborn"} /\ "waiting" \in LoopStates \ {"unborn"}
      /\ "waiting" # "unborn"
  BY Zenon DEF LoopStates
<1>7. loop = [loop EXCEPT ![a] = "waiting"]
  BY <1>1, <1>2, Zenon
<1>8. loop[a] # "unborn"
  BY <1>1, <1>6, Zenon
<1>9. /\ link[c] \in Established => l \in Established /\ owner[c] = a
      /\ HandlerAfter(c, a, l)
  BY Zenon
<1> HIDE DEF a
<1>10. CASE loop' = loop
  <2>1. loop' = [loop EXCEPT ![a] = "waiting"]
    BY <1>7, <1>10, Zenon
  <2>2. Moves(c, a, l, "waiting")
    BY <1>3, <1>4, <1>5, <1>6, <1>8, <1>9, <2>1, Zenon DEF Moves
  <2> QED
    BY <1>1, <2>2, MoveKeepsLinks, Zenon
<1>11. CASE loop' = [loop EXCEPT ![a] = "asleep"] /\ l \notin Live
  <2>1. Moves(c, a, l, "asleep")
    BY <1>3, <1>4, <1>5, <1>6, <1>8, <1>9, <1>11, Zenon DEF Moves
  <2> QED
    BY <1>1, <2>1, MoveKeepsLinks, Zenon
<1> QED
  BY <1>10, <1>11, Zenon DEF a

\* Every step keeps Links.
LEMMA StepLinks ==
    ASSUME Links, [Next]_vars
    PROVE  Links'
<1> USE DEF line
<1>1. CASE UNCHANGED line
  BY <1>1, Zenon DEF Links, OneConnection
<1>2. CASE Refresh
  <2>1. /\ loop' \in [Agents -> LoopStates]
        /\ \A a \in Agents : loop[a] # "unborn" => loop'[a] = loop[a]
    BY <1>2, RefreshKeeps, Zenon
  <2>2. /\ StopAgents({agent_map[p] : p \in ToDel})
        /\ UNCHANGED <<owner, proto_handler>>
    BY <1>2, Zenon DEF Refresh
  <2> QED
    BY <2>1, <2>2, StopKeepsLinks, Zenon
<1>3. CASE Stop
  <2>1. loop' = loop /\ loop \in [Agents -> LoopStates]
    BY <1>3, Zenon DEF Stop, Links
  <2>2. PICK as : StopAgents(as)
    BY <1>3, Zenon DEF Stop
  <2>3. UNCHANGED <<owner, proto_handler>>
    BY <1>3, Zenon DEF Stop
  <2> QED
    BY <2>1, <2>2, <2>3, StopKeepsLinks, Zenon
<1>4. ASSUME NEW a \in Agents, KeepConnected(a) PROVE Links'
  <2>1. /\ loop \in [Agents -> LoopStates]
        /\ loop[a] \in {"scheduled", "asleep"}
        /\ proto_handler' = proto_handler
        /\ \A e \in Conns : link[e] \in Live => loop[owner[e]] = "waiting"
    BY <1>4, Zenon DEF KeepConnected, Links
  <2>2. loop[a] # "unborn" /\ loop[a] # "waiting"
    BY <2>1, Zenon
  <2>3. \A e \in Conns : ~(owner[e] = a /\ link[e] \in Live)
    BY <2>1, <2>2, Zenon
  <2>4. CASE loop' = [loop EXCEPT ![a] = "ended"] /\ UNCHANGED <<owner, link>>
    <3>1. /\ loop' \in [Agents -> LoopStates] /\ loop'[a] # "unborn"
          /\ \A b \in Agents : b # a => loop'[b] = loop[b]
      BY <2>1, <2>4, Zenon DEF LoopStates
    <3>2. \A e \in Conns : link[e] # "none" => loop'[owner[e]] # "unborn"
      BY <3>1, Zenon DEF Links
    <3>3. \A e \in Conns : link[e] \in Live => link[e] # "none"
      BY Zenon DEF Live
    <3>4. \A e \in Conns : link[e] \in Live => loop'[owner[e]] = "waiting"
      BY <2>3, <3>1, <3>3, Zenon DEF Links
    <3> QED
      BY <2>1, <2>4, <3>1, <3>2, <3>4, Zenon DEF Links, OneConnection
  <2>5. CASE \E c \in Conns : /\ NextConn(c)
                              /\ owner' = [owner EXCEPT ![c] = a]
                              /\ link' = [link EXCEPT ![c] = "connecting"]
                              /\ loop' = [loop EXCEPT ![a] = "waiting"]
    <3>1. PICK c \in Conns : /\ NextConn(c)
                             /\ owner' = [owner EXCEPT ![c] = a]
                             /\ link' = [link EXCEPT ![c] = "connecting"]
                             /\ loop' = [loop EXCEPT ![a] = "waiting"]
      BY <2>5, Zenon
    <3>2. /\ link[c] \notin Established
          /\ "connecting" \in {"none", "connecting"} \cup Established
          /\ "waiting" \in LoopStates \ {"unborn"}
      BY <3>1, Zenon DEF NextConn, Free, Established, LoopStates
    <3>3. Moves(c, a, "connecting", "waiting")
      BY <2>1, <2>2, <2>3, <3>1, <3>2, Zenon DEF Moves, HandlerAfter
    <3> QED
      BY <2>1, <3>3, MoveKeepsLinks, Zenon
  <2> QED
    BY <1>4, <2>4, <2>5, Zenon DEF KeepConnected
<1>5. ASSUME NEW c \in Conns, ConnectFails(c) PROVE Links'
  <2>1. /\ link[c] \in Live /\ "none" \in {"none"} \cup Established
        /\ link[c] \notin Established /\ "none" \notin Live
    BY <1>5, Zenon DEF ConnectFails, Live, Established
  <2>2. /\ link' = [link EXCEPT ![c] = "none"]
        /\ owner' = owner /\ proto_handler' = proto_handler
        /\ loop' = loop \/ loop' = [loop EXCEPT ![owner[c]] = "asleep"]
    BY <1>5, Zenon DEF ConnectFails, EnterDisconnected
  <2>3. HandlerAfter(c, owner[c], "none")
    BY <2>2, Zenon DEF HandlerAfter
  <2> QED
    BY <2>1, <2>2, <2>3, CallbackKeepsLinks, Zenon
<1>6. ASSUME NEW c \in Conns, Connects(c) PROVE Links'
  <2>1. /\ link[c] \in Live /\ "up" \in {"none"} \cup Established
        /\ "up" \in Established
    BY <1>6, Zenon DEF Connects, Live, Established
  <2>2. /\ link' = [link EXCEPT ![c] = "up"]
        /\ owner' = owner /\ loop' = loop
        /\ proto_handler' = [proto_handler EXCEPT ![owner[c]] = c]
    BY <1>6, Zenon DEF Connects
  <2>3. HandlerAfter(c, owner[c], "up")
    BY <2>1, <2>2, Zenon DEF HandlerAfter
  <2> QED
    BY <2>1, <2>2, <2>3, CallbackKeepsLinks, Zenon
<1>7. ASSUME NEW c \in Conns, ConnectionLost(c) PROVE Links'
  <2>1. /\ link[c] \in Live /\ "down" \in {"none"} \cup Established
        /\ "down" \in Established /\ "down" \notin Live
    BY <1>7, Zenon DEF ConnectionLost, Live, Established
  <2>2. /\ link' = [link EXCEPT ![c] = "down"]
        /\ owner' = owner /\ proto_handler' = proto_handler
        /\ loop' = loop \/ loop' = [loop EXCEPT ![owner[c]] = "asleep"]
    BY <1>7, Zenon DEF ConnectionLost, EnterDisconnected
  <2>3. HandlerAfter(c, owner[c], "down")
    BY <2>2, Zenon DEF HandlerAfter
  <2> QED
    BY <2>1, <2>2, <2>3, CallbackKeepsLinks, Zenon
<1> QED
  BY <1>1, <1>2, <1>3, <1>4, <1>5, <1>6, <1>7, LineSteps, Zenon DEF LineStep

\* An agent never changes its device, a connection in use never changes its
\* agent, and one that was established is never used again.
LEMMA LinesStay ==
    ASSUME Links, [Next]_vars
    PROVE  /\ \A a \in Agents : loop[a] # "unborn" =>
                loop'[a] # "unborn" /\ device_id'[a] = device_id[a]
           /\ \A c \in Conns : link[c] # "none" => owner'[c] = owner[c]
           /\ \A c \in Conns : link'[c] \in {"none", "connecting"} =>
                link[c] \in {"none", "connecting"}
<1> USE DEF line
<1>1. CASE UNCHANGED line
  BY <1>1, Zenon
<1>2. CASE Refresh
  <2>1. /\ StopAgents({agent_map[p] : p \in ToDel}) /\ owner' = owner
    BY <1>2, Zenon DEF Refresh
  <2> QED
    BY <1>2, <2>1, RefreshKeeps, StopLinks, Zenon
<1>3. CASE Stop
  <2>1. PICK as : StopAgents(as)
    BY <1>3, Zenon DEF Stop
  <2>2. owner' = owner /\ loop' = loop /\ device_id' = device_id
    BY <1>3, Zenon DEF Stop
  <2> QED
    BY <2>1, <2>2, StopLinks, Zenon
<1> DEFINE Bear(m) == m \in {"ended", "waiting", "asleep"}
<1>4. ASSUME NEW a \in Agents, NEW m, Bear(m), loop' = [loop EXCEPT ![a] = m]
      PROVE  \A b \in Agents : loop[b] # "unborn" => loop'[b] # "unborn"
  BY <1>4, Zenon DEF Links
<1> HIDE DEF Bear
<1>5. Bear("ended") /\ Bear("waiting") /\ Bear("asleep")
  BY Zenon DEF Bear
<1>6. ASSUME NEW a \in Agents, KeepConnected(a)
      PROVE  /\ \A b \in Agents : loop[b] # "unborn" => loop'[b] # "unborn"
             /\ device_id' = device_id
             /\ \A c \in Conns : link[c] # "none" => owner'[c] = owner[c]
             /\ \A c \in Conns : link'[c] \in {"none", "connecting"} =>
                    link[c] \in {"none", "connecting"}
  <2>1. device_id' = device_id /\ \E m : Bear(m) /\ loop' = [loop EXCEPT ![a] = m]
    BY <1>5, <1>6, Zenon DEF KeepConnected
  <2>2. \A b \in Agents : loop[b] # "unborn" => loop'[b] # "unborn"
    BY <1>4, <2>1, Zenon
  <2>3. CASE UNCHANGED <<owner, link>>
    BY <2>1, <2>2, <2>3, Zenon
  <2>4. ASSUME NEW c \in Conns, NextConn(c),
               owner' = [owner EXCEPT ![c] = a],
               link' = [link EXCEPT ![c] = "connecting"]
        PROVE  /\ \A e \in Conns : link[e] # "none" => owner'[e] = owner[e]
               /\ \A e \in Conns : link'[e] \in {"none", "connecting"} =>
                    link[e] \in {"none", "connecting"}
    BY <2>4, Zenon DEF Links, NextConn, Free
  <2> QED
    BY <1>6, <2>1, <2>2, <2>3, <2>4, Zenon DEF KeepConnected
<1>7. ASSUME NEW c \in Conns, ConnectFails(c) \/ Connects(c) \/ ConnectionLost(c)
      PROVE  /\ \A b \in Agents : loop[b] # "unborn" => loop'[b] # "unborn"
             /\ device_id' = device_id /\ owner' = owner
             /\ \A e \in Conns : link'[e] \in {"none", "connecting"} =>
                    link[e] \in {"none", "connecting"}
  <2>1. device_id' = device_id /\ owner' = owner
    BY <1>7, Zenon DEF ConnectFails, Connects, ConnectionLost
  <2>2. loop' = loop \/ loop' = [loop EXCEPT ![owner[c]] = "asleep"]
    BY <1>7, Zenon DEF ConnectFails, Connects, ConnectionLost, EnterDisconnected
  <2>3. link[c] \in {"connecting", "up", "closing"}
    BY <1>7, Zenon DEF ConnectFails, Connects, ConnectionLost
  <2>4. owner[c] \in Agents
    BY <2>3, Zenon DEF Links
  <2>5. \A b \in Agents : loop[b] # "unborn" => loop'[b] # "unborn"
    BY <1>4, <1>5, <2>2, <2>4, Zenon
  <2>6. \/ link[c] = "connecting" /\ link' = [link EXCEPT ![c] = "none"]
        \/ link[c] = "connecting" /\ link' = [link EXCEPT ![c] = "up"]
        \/ link' = [link EXCEPT ![c] = "down"]
    BY <1>7, Zenon DEF ConnectFails, Connects, ConnectionLost
  <2>7. \A e \in Conns : link'[e] \in {"none", "connecting"} =>
                    link[e] \in {"none", "connecting"}
    BY <2>6 DEF Links
  <2> QED
    BY <2>1, <2>5, <2>7, Zenon
<1> QED
  BY <1>1, <1>2, <1>3, <1>6, <1>7, LineSteps, Zenon DEF LineStep

-----------------------------------------------------------------------------
(***************************************************************************)
(* The manager's maps                                                      *)
(***************************************************************************)

\* Both maps hold agents that were created, and datapath ids VOLTHA gave.
Maps ==
    /\ devices \in Lists
    /\ \A p \in DOMAIN agent_map :
        agent_map[p] \in Agents /\ loop[agent_map[p]] # "unborn"
    /\ \A d \in DOMAIN device_map : d \in Ids /\ device_map[d] = Dp[d]
    /\ MapsAgree

LEMMA MapSteps ==
    ASSUME [Next]_vars
    PROVE  /\ devices' = devices \/ devices' \in Lists
           /\ \/ Refresh /\ devices' = devices
              \/ UNCHANGED <<agent_map, device_map>>
<1> USE DEF manager, voltha
<1>1. ASSUME NEW ds \in Lists, VolthaChanges(ds)
      PROVE  devices' \in Lists /\ UNCHANGED <<agent_map, device_map>>
  BY <1>1, Zenon DEF VolthaChanges
<1>2. CASE Refresh \/ Stop \/ StreamPacketOut \/ UNCHANGED vars
  BY <1>2, Zenon DEF Refresh, Stop, StreamPacketOut, vars
<1>3. CASE \E d \in Ids : Forward(d)
  BY <1>3, Zenon DEF Forward
<1>4. CASE \E a \in Agents : KeepConnected(a)
  BY <1>4, Zenon DEF KeepConnected
<1>5. CASE \E c \in Conns : ConnStep(c)
  <2>1. PICK c \in Conns : ConnStep(c)
    BY <1>5
  <2>2. CASE ConnectFails(c) \/ Connects(c) \/ ConnectionLost(c)
    BY <2>2, Zenon DEF ConnectFails, Connects, ConnectionLost
  <2>3. CASE HandlerStarts(c) \/ ReceiveHello(c) \/ TakeHello(c)
    BY <2>3, Zenon DEF HandlerStarts, ReceiveHello, TakeHello
  <2>4. CASE HandleNext(c) \/ \E r \in Requests, k \in Kinds : Receive(c, r, k)
    BY <2>4, Zenon DEF HandleNext, Receive
  <2> QED
    BY <2>1, <2>2, <2>3, <2>4, Zenon DEF ConnStep
<1>6. CASE \E k \in calls : Execute(k) \/ CallFails(k) \/ Complete(k)
  BY <1>6, Zenon DEF Execute, CallFails, Complete
<1> QED
  BY <1>1, <1>2, <1>3, <1>4, <1>5, <1>6, Zenon DEF Next

\* refresh_agent_connections() changes both maps together.
LEMMA RefreshMaps ==
    ASSUME Links, Maps, Refresh
    PROVE  /\ \A p \in DOMAIN agent_map' :
                agent_map'[p] \in Agents /\ loop'[agent_map'[p]] # "unborn"
           /\ \A d \in DOMAIN device_map' : d \in Ids /\ device_map'[d] = Dp[d]
           /\ MapsAgree'
<1>1. /\ Created \in [ToAdd -> Unborn]
      /\ \A p \in ToAdd : Listed(p) \in devices /\ Dp[Listed(p)] = p
      /\ \A p \in ToAdd : /\ device_id'[Created[p]] = Listed(p)
                          /\ loop'[Created[p]] = "scheduled"
  BY RefreshCreates, Zenon
<1>2. \A a \in Agents : loop[a] # "unborn" =>
        loop'[a] = loop[a] /\ device_id'[a] = device_id[a]
  BY RefreshKeeps, Zenon
<1>3. /\ devices \subseteq Ids
      /\ \A p \in DOMAIN agent_map :
            agent_map[p] \in Agents /\ loop[agent_map[p]] # "unborn"
      /\ \A d \in DOMAIN device_map : d \in Ids /\ device_map[d] = Dp[d]
      /\ \A p \in DOMAIN agent_map : /\ device_id[agent_map[p]] \in DOMAIN device_map
                                     /\ device_map[device_id[agent_map[p]]] = p
      /\ \A d \in DOMAIN device_map :
            /\ device_map[d] \in DOMAIN agent_map
            /\ device_id[agent_map[device_map[d]]] = d
  <2>1. devices \subseteq Ids
    BY Zenon DEF Maps, Lists
  <2> QED
    BY <2>1, Zenon DEF Maps, MapsAgree
<1> DEFINE Known == (DOMAIN device_map \ Gone) \cup {Listed(p) : p \in ToAdd}
<1>4. /\ DOMAIN agent_map' = Desired
      /\ \A p \in Desired :
            agent_map'[p] = IF p \in ToAdd THEN Created[p] ELSE agent_map[p]
      /\ DOMAIN device_map' = Known
      /\ \A d \in Known : device_map'[d] = Dp[d]
  BY Zenon DEF Refresh
<1>5. /\ \A p \in ToAdd : p \in Desired /\ p \notin DOMAIN agent_map
      /\ \A p \in Desired : p \in ToAdd \/ p \in DOMAIN agent_map
      /\ \A p \in DOMAIN agent_map : p \in Desired \/ p \in ToDel
      /\ \A p \in ToDel : p \in DOMAIN agent_map /\ p \notin Desired
  BY Zenon DEF ToAdd, ToDel
<1>6. \A d : d \in Known <=> \/ d \in DOMAIN device_map /\ d \notin Gone
                             \/ \E p \in ToAdd : d = Listed(p)
  OBVIOUS
<1>7. \A d : d \in Gone <=> \E p \in ToDel : d = device_id[agent_map[p]]
  BY Zenon DEF Gone
<1> HIDE DEF Known
<1>8. \A p \in ToAdd : Created[p] \in Agents
  BY <1>1, Zenon DEF Unborn
<1>9. ASSUME NEW p \in Desired
      PROVE  /\ agent_map'[p] \in Agents /\ loop'[agent_map'[p]] # "unborn"
             /\ device_id'[agent_map'[p]] \in Known
             /\ Dp[device_id'[agent_map'[p]]] = p
  <2>1. CASE p \in ToAdd
    <3>1. agent_map'[p] = Created[p]
      BY <1>4, <2>1, Zenon
    <3>2. "scheduled" # "unborn"
      OBVIOUS
    <3>3. loop'[Created[p]] = "scheduled" /\ device_id'[Created[p]] = Listed(p)
      BY <1>1, <2>1, Zenon
    <3>4. Listed(p) \in Known /\ Dp[Listed(p)] = p /\ Created[p] \in Agents
      BY <1>1, <1>6, <1>8, <2>1, Zenon
    <3> QED
      BY <3>1, <3>2, <3>3, <3>4, Zenon
  <2>2. CASE p \notin ToAdd
    <3> DEFINE d == device_id[agent_map[p]]
    <3>1. p \in DOMAIN agent_map /\ agent_map'[p] = agent_map[p]
      BY <1>4, <1>5, <2>2, Zenon
    <3>2. /\ agent_map[p] \in Agents /\ loop'[agent_map[p]] # "unborn"
          /\ device_id'[agent_map[p]] = d
      BY <1>2, <1>3, <3>1, Zenon
    <3>3. d \in DOMAIN device_map /\ device_map[d] = p /\ Dp[d] = p
      BY <1>3, <3>1, Zenon
    <3>4. ASSUME NEW q \in ToDel, d = device_id[agent_map[q]]
          PROVE  FALSE
      <4>1. device_map[d] = q /\ q \notin Desired
        BY <1>3, <1>5, <3>4, Zenon
      <4> QED
        BY <3>3, <4>1, Zenon
    <3>5. d \in Known
      BY <1>6, <1>7, <3>3, <3>4, Zenon
    <3> QED
      BY <3>1, <3>2, <3>3, <3>5, Zenon
  <2> QED
    BY <2>1, <2>2, Zenon
<1>10. ASSUME NEW d \in Known
       PROVE  /\ d \in Ids /\ Dp[d] \in Desired
              /\ device_id'[agent_map'[Dp[d]]] = d
  <2>1. CASE d \in DOMAIN device_map /\ d \notin Gone
    <3> DEFINE q == Dp[d]
    <3>1. d \in Ids /\ q \in DOMAIN agent_map /\ device_id[agent_map[q]] = d
      BY <1>3, <2>1, Zenon
    <3>2. q \in Desired /\ q \notin ToAdd
      BY <1>5, <1>7, <2>1, <3>1, Zenon
    <3>3. agent_map'[q] = agent_map[q] /\ device_id'[agent_map[q]] = d
      BY <1>2, <1>3, <1>4, <3>1, <3>2, Zenon
    <3> QED
      BY <3>1, <3>2, <3>3, Zenon
  <2>2. ASSUME NEW p \in ToAdd, d = Listed(p)
        PROVE  /\ d \in Ids /\ Dp[d] \in Desired
               /\ device_id'[agent_map'[Dp[d]]] = d
    <3>1. Dp[d] = p /\ p \in Desired /\ agent_map'[p] = Created[p] /\ d \in devices
      BY <1>1, <1>4, <1>5, <2>2, Zenon
    <3>2. d \in Ids
      BY <1>3, <3>1, Zenon
    <3> QED
      BY <1>1, <2>2, <3>1, <3>2, Zenon
  <2> QED
    BY <1>6, <2>1, <2>2, Zenon
<1> QED
  BY <1>4, <1>9, <1>10, Zenon DEF MapsAgree

\* Every step keeps Maps.
LEMMA StepMaps ==
    ASSUME Links, Maps, [Next]_vars
    PROVE  Maps'
<1>1. devices' \in Lists
  BY MapSteps, Zenon DEF Maps
<1>2. CASE Refresh
  BY <1>1, <1>2, RefreshMaps, Zenon DEF Maps
<1>3. CASE UNCHANGED <<agent_map, device_map>>
  <2>1. \A a \in Agents : loop[a] # "unborn" =>
            loop'[a] # "unborn" /\ device_id'[a] = device_id[a]
    BY LinesStay, Zenon
  <2>2. \A p \in DOMAIN agent_map :
            agent_map[p] \in Agents /\ loop[agent_map[p]] # "unborn"
    BY Zenon DEF Maps
  <2>3. agent_map' = agent_map /\ device_map' = device_map
    BY <1>3, Zenon
  <2>4. MapsAgree'
    BY <2>1, <2>2, <2>3, Zenon DEF Maps, MapsAgree
  <2> QED
    BY <1>1, <2>1, <2>2, <2>3, <2>4, Zenon DEF Maps
<1> QED
  BY <1>2, <1>3, MapSteps, Zenon

-----------------------------------------------------------------------------
(***************************************************************************)
(* Requests                                                                *)
(***************************************************************************)

Messages == [reply : Requests] \cup [event : Ids] \cup [hello : Conns]

WorkTypes ==
    /\ applied \in Seq(Requests)
    /\ packet_out_queue \in Seq(Requests)
    /\ rx \in [Conns -> Seq(Requests \cup {Hello})]
    /\ out \in [Conns -> Seq(Messages)]
    /\ handler \in [Conns -> {"none", "scheduled", "hello", "loop", "dead"}]
    /\ calls \subseteq [req : Requests, done : BOOLEAN]
    /\ asked \in [Requests -> [on : Conns, kind : Kinds] \cup {None}]

\* The loop of a handler never meets the hello.
HelloTaken ==
    \A c \in Conns :
        /\ Once(rx[c], Hello)
        /\ handler[c] \in {"loop", "dead"} => ~Has(rx[c], Hello)

\* The places a request can be at.
Waits(r) == \E c \in Conns : Has(rx[c], r)
Called(r) == \E k \in calls : k.req = r
Queued(r) == Has(packet_out_queue, r)
Executed(r) == Has(applied, r)
Replied(r) == \E c \in Conns : Has(out[c], [reply |-> r])

\* It is at one place at a time, once it was sent.
OnePlace(r) ==
    /\ Waits(r) \/ Called(r) \/ Queued(r) \/ Executed(r) \/ Replied(r) =>
        asked[r] # None
    /\ Waits(r) => ~Called(r) /\ ~Queued(r) /\ ~Executed(r) /\ ~Replied(r)
    /\ Called(r) => ~Queued(r) /\ ~Executed(r) /\ ~Replied(r)
    /\ Queued(r) => ~Executed(r) /\ ~Replied(r)
    /\ Executed(r) => ~Replied(r)

\* And there it is once, on its own connection.
Single(r) ==
    /\ \A c \in Conns :
        /\ Once(rx[c], r) /\ Once(out[c], [reply |-> r])
        /\ Has(rx[c], r) \/ Has(out[c], [reply |-> r]) => asked[r].on = c
    /\ \A k, l \in calls : k.req = r /\ l.req = r => k = l
    /\ Once(packet_out_queue, r) /\ Once(applied, r)

Tracked(r) == OnePlace(r) /\ Single(r)

\* What a step does to request r at one of the places: nothing is added.
LessRx(r) ==
    \A c \in Conns : /\ Has(rx'[c], r) => Has(rx[c], r)
                     /\ Once(rx[c], r) => Once(rx'[c], r)
LessOut(r) ==
    \A c \in Conns :
        /\ Has(out'[c], [reply |-> r]) => Has(out[c], [reply |-> r])
        /\ Once(out[c], [reply |-> r]) => Once(out'[c], [reply |-> r])
LessCalls(r) == \A k \in calls' : k.req = r => k \in calls
LessQueue(r) == /\ Has(packet_out_queue', r) => Has(packet_out_queue, r)
                /\ Once(packet_out_queue, r) => Once(packet_out_queue', r)
LessApplied(r) == /\ Has(applied', r) => Has(applied, r)
                  /\ Once(applied, r) => Once(applied', r)

\* A step that adds nothing about r keeps r tracked.
LEMMA LessKeeps ==
    ASSUME NEW r \in Requests, Tracked(r), asked'[r] = asked[r],
           LessRx(r), LessOut(r), LessCalls(r), LessQueue(r), LessApplied(r)
    PROVE  Tracked(r)'
<1>1. /\ Waits(r)' => Waits(r)
      /\ Called(r)' => Called(r)
      /\ Queued(r)' => Queued(r)
      /\ Executed(r)' => Executed(r)
      /\ Replied(r)' => Replied(r)
  BY Zenon DEF LessRx, LessOut, LessCalls, LessQueue, LessApplied,
        Waits, Called, Queued, Executed, Replied
<1>2. OnePlace(r)'
  BY <1>1, Zenon DEF Tracked, OnePlace
<1>3. /\ \A c \in Conns :
            /\ Once(rx'[c], r) /\ Once(out'[c], [reply |-> r])
            /\ Has(rx'[c], r) \/ Has(out'[c], [reply |-> r]) => asked[r].on = c
  BY Zenon DEF Tracked, Single, LessRx, LessOut
<1>4. \A k, l \in calls' : k.req = r /\ l.req = r => k = l
  BY Zenon DEF Tracked, Single, LessCalls
<1>5. Once(packet_out_queue', r) /\ Once(applied', r)
  BY Zenon DEF Tracked, Single, LessQueue, LessApplied
<1>6. Single(r)'
  BY <1>3, <1>4, <1>5, Zenon DEF Single
<1> QED
  BY <1>2, <1>6, Zenon DEF Tracked

\* A place that a step leaves alone.
LEMMA SameIsLess ==
    ASSUME NEW r
    PROVE  /\ rx' = rx => LessRx(r)
           /\ out' = out => LessOut(r)
           /\ calls' = calls => LessCalls(r)
           /\ packet_out_queue' = packet_out_queue => LessQueue(r)
           /\ applied' = applied => LessApplied(r)
  BY Zenon DEF LessRx, LessOut, LessCalls, LessQueue, LessApplied

\* Of a function of lists, the one at c grows by q.
GrowsAt(g, f, c, q) ==
    /\ \A e \in Conns : \A x : Has(g[e], x) <=> Has(f[e], x) \/ (e = c /\ x = q)
    /\ \A e \in Conns : \A x :
        Once(f[e], x) /\ (e = c /\ x = q => ~Has(f[e], x)) => Once(g[e], x)
    /\ \A e \in Conns : e # c => g[e] = f[e]

LEMMA OneGrows ==
    ASSUME NEW S, NEW f \in [Conns -> Seq(S)], NEW c \in Conns, NEW q,
           NEW t \in Seq(S), Grows(t, f[c], q), NEW g, g = [f EXCEPT ![c] = t]
    PROVE  g \in [Conns -> Seq(S)] /\ GrowsAt(g, f, c, q)
<1>1. /\ g \in [Conns -> Seq(S)] /\ g[c] = t
      /\ \A e \in Conns : e # c => g[e] = f[e]
  OBVIOUS
<1> QED
  BY <1>1, Zenon DEF Grows, GrowsAt

\* Of a function of lists, the one at c loses a q.
ShrinksAt(g, f, c, q) ==
    /\ \A e \in Conns : \A x : Has(g[e], x) => Has(f[e], x)
    /\ \A e \in Conns : \A x : Once(f[e], x) => Once(g[e], x)
    /\ Has(f[c], q)
    /\ Once(f[c], q) => ~Has(g[c], q)

LEMMA OneShrinks ==
    ASSUME NEW S, NEW f \in [Conns -> Seq(S)], NEW c \in Conns, NEW q,
           NEW t \in Seq(S), Shrinks(t, f[c], q), NEW g, g = [f EXCEPT ![c] = t]
    PROVE  g \in [Conns -> Seq(S)] /\ ShrinksAt(g, f, c, q)
<1>1. /\ g \in [Conns -> Seq(S)] /\ g[c] = t
      /\ \A e \in Conns : e # c => g[e] = f[e]
  OBVIOUS
<1> QED
  BY <1>1, Zenon DEF Shrinks, ShrinksAt

\* What send() does.
LEMMA SentGrows ==
    ASSUME WorkTypes, NEW c \in Conns, NEW m \in Messages, Sent(c, m)
    PROVE  /\ out' \in [Conns -> Seq(Messages)]
           /\ out' = out \/ (link[c] = "up" /\ GrowsAt(out', out, c, m))
<1>1. out \in [Conns -> Seq(Messages)]
  BY Zenon DEF WorkTypes
<1>2. CASE out' = out
  BY <1>1, <1>2, Zenon
<1>3. CASE link[c] = "up" /\ out' = [out EXCEPT ![c] = Append(out[c], m)]
  <2>1. out[c] \in Seq(Messages)
    BY <1>1, Zenon
  <2>2. Append(out[c], m) \in Seq(Messages) /\ Grows(Append(out[c], m), out[c], m)
    BY <2>1, AppendGrows, Zenon
  <2> QED
    BY <1>1, <1>3, <2>2, OneGrows, Zenon
<1> QED
  BY <1>2, <1>3, Zenon DEF Sent

\* A message that is no reply to r.
LEMMA OtherSent ==
    ASSUME WorkTypes, NEW c \in Conns, NEW m \in Messages, Sent(c, m),
           NEW r, m # [reply |-> r]
    PROVE  LessOut(r)
<1>1. CASE out' = out
  BY <1>1, SameIsLess, Zenon
<1>2. CASE GrowsAt(out', out, c, m)
  BY <1>2, Zenon DEF LessOut, GrowsAt
<1> QED
  BY <1>1, <1>2, SentGrows, Zenon

\* dataReceived() puts a message on its connection's list.
LEMMA RxGrows ==
    ASSUME WorkTypes, NEW c \in Conns, NEW q \in Requests \cup {Hello},
           rx' = [rx EXCEPT ![c] = Append(rx[c], q)]
    PROVE  /\ rx' \in [Conns -> Seq(Requests \cup {Hello})]
           /\ GrowsAt(rx', rx, c, q)
           /\ \A r : r # q => LessRx(r)
<1>1. rx \in [Conns -> Seq(Requests \cup {Hello})]
  BY Zenon DEF WorkTypes
<1>2. rx' \in [Conns -> Seq(Requests \cup {Hello})] /\ GrowsAt(rx', rx, c, q)
  <2>1. rx[c] \in Seq(Requests \cup {Hello})
    BY <1>1, Zenon
  <2>2. /\ Append(rx[c], q) \in Seq(Requests \cup {Hello})
        /\ Grows(Append(rx[c], q), rx[c], q)
    BY <2>1, AppendGrows, Zenon
  <2> QED
    BY <1>1, <2>2, OneGrows, Zenon
<1> QED
  BY <1>2, Zenon DEF LessRx, GrowsAt

\* A handler takes one from it.
LEMMA RxShrinks ==
    ASSUME WorkTypes, NEW c \in Conns, NEW q,
           NEW t \in Seq(Requests \cup {Hello}), Shrinks(t, rx[c], q),
           rx' = [rx EXCEPT ![c] = t]
    PROVE  /\ rx' \in [Conns -> Seq(Requests \cup {Hello})]
           /\ ShrinksAt(rx', rx, c, q)
           /\ \A r : LessRx(r)
<1>1. rx \in [Conns -> Seq(Requests \cup {Hello})]
  BY Zenon DEF WorkTypes
<1>2. rx' \in [Conns -> Seq(Requests \cup {Hello})] /\ ShrinksAt(rx', rx, c, q)
  BY <1>1, OneShrinks, Zenon
<1> QED
  BY <1>2, Zenon DEF LessRx, ShrinksAt

\* The request is at one kind of place only, and there once.
OnlyWaits(r) ==
    /\ ~Called(r) /\ ~Queued(r) /\ ~Executed(r) /\ ~Replied(r)
    /\ \A c \in Conns : Once(rx[c], r) /\ (Has(rx[c], r) => asked[r].on = c)
OnlyCalled(r) ==
    /\ ~Waits(r) /\ ~Queued(r) /\ ~Executed(r) /\ ~Replied(r)
    /\ \A k, l \in calls : k.req = r /\ l.req = r => k = l
OnlyQueued(r) ==
    /\ ~Waits(r) /\ ~Called(r) /\ ~Executed(r) /\ ~Replied(r)
    /\ Once(packet_out_queue, r)
OnlyExecuted(r) ==
    /\ ~Waits(r) /\ ~Called(r) /\ ~Queued(r) /\ ~Replied(r)
    /\ Once(applied, r)
OnlyReplied(r) ==
    /\ ~Waits(r) /\ ~Called(r) /\ ~Queued(r) /\ ~Executed(r)
    /\ \A c \in Conns : /\ Once(out[c], [reply |-> r])
                        /\ Has(out[c], [reply |-> r]) => asked[r].on = c

\* Such a request is tracked.
LEMMA Settled ==
    ASSUME NEW r, asked[r]' # None,
           \/ OnlyWaits(r)' \/ OnlyCalled(r)' \/ OnlyQueued(r)'
           \/ OnlyExecuted(r)' \/ OnlyReplied(r)'
    PROVE  Tracked(r)'
<1>1. \A s, x : ~Has(s, x) => Once(s, x)
  BY Zenon DEF Has, Once
<1>2. ~Waits(r)' => \A c \in Conns : ~Has(rx'[c], r) /\ Once(rx'[c], r)
  BY <1>1, Zenon DEF Waits
<1>3. ~Called(r)' => \A k \in calls' : k.req # r
  BY Zenon DEF Called
<1>4. ~Queued(r)' => Once(packet_out_queue', r)
  BY <1>1, Zenon DEF Queued
<1>5. ~Executed(r)' => Once(applied', r)
  BY <1>1, Zenon DEF Executed
<1>6. ~Replied(r)' => \A c \in Conns : /\ ~Has(out'[c], [reply |-> r])
                                       /\ Once(out'[c], [reply |-> r])
  BY <1>1, Zenon DEF Replied
<1>7. OnePlace(r)'
  BY Zenon DEF OnlyWaits, OnlyCalled, OnlyQueued, OnlyExecuted, OnlyReplied, OnePlace
<1>8. CASE OnlyWaits(r)'
  BY <1>3, <1>4, <1>5, <1>6, <1>7, <1>8, Zenon DEF OnlyWaits, Tracked, Single
<1>9. CASE OnlyCalled(r)'
  BY <1>2, <1>4, <1>5, <1>6, <1>7, <1>9, Zenon DEF OnlyCalled, Tracked, Single
<1>10. CASE OnlyQueued(r)'
  BY <1>2, <1>3, <1>5, <1>6, <1>7, <1>10, Zenon DEF OnlyQueued, Tracked, Single
<1>11. CASE OnlyExecuted(r)'
  BY <1>2, <1>3, <1>4, <1>6, <1>7, <1>11, Zenon DEF OnlyExecuted, Tracked, Single
<1>12. CASE OnlyReplied(r)'
  BY <1>2, <1>3, <1>4, <1>5, <1>7, <1>12, Zenon DEF OnlyReplied, Tracked, Single
<1> QED
  BY <1>8, <1>9, <1>10, <1>11, <1>12, Zenon

\* What the controller sends is new.
LEMMA ReceiveTracks ==
    ASSUME WorkTypes, NEW r \in Requests, Tracked(r),
           NEW c \in Conns, NEW q \in Requests, NEW k \in Kinds, Receive(c, q, k)
    PROVE  Tracked(r)'
<1>1. /\ rx' = [rx EXCEPT ![c] = Append(rx[c], q)]
      /\ out' = out /\ calls' = calls /\ packet_out_queue' = packet_out_queue
      /\ applied' = applied /\ asked[q] = None
      /\ asked' = [asked EXCEPT ![q] = [on |-> c, kind |-> k]]
  BY Zenon DEF Receive, client, voltha
<1>2. /\ rx' \in [Conns -> Seq(Requests \cup {Hello})]
      /\ GrowsAt(rx', rx, c, q)
      /\ \A s : s # q => LessRx(s)
  <2>1. q \in Requests \cup {Hello}
    OBVIOUS
  <2> QED
    BY <1>1, <2>1, RxGrows, Zenon
<1>3. /\ asked'[q] = [on |-> c, kind |-> k] /\ asked'[q].on = c
      /\ r # q => asked'[r] = asked[r]
  BY <1>1, Zenon DEF WorkTypes
<1>4. CASE r # q
  BY <1>1, <1>2, <1>3, <1>4, LessKeeps, SameIsLess, Zenon
<1>5. CASE r = q
  <2>1. asked'[q] # None
    BY <1>3, OFAgentAssumption DEF OFAgentAssumption
  <2>2. ~Waits(q) /\ ~Called(q) /\ ~Queued(q) /\ ~Executed(q) /\ ~Replied(q)
    BY <1>1, <1>5, Zenon DEF Tracked, OnePlace
  <2>3. ~Called(q)' /\ ~Queued(q)' /\ ~Executed(q)' /\ ~Replied(q)'
    BY <1>1, <2>2, Zenon DEF Called, Queued, Executed, Replied
  <2>4. ASSUME NEW e \in Conns
        PROVE  Once(rx'[e], q) /\ (Has(rx'[e], q) => asked'[q].on = e)
    <3>1. Once(rx[e], q) /\ ~Has(rx[e], q)
      BY <1>5, <2>2, Zenon DEF Tracked, Single, Waits
    <3> QED
      BY <1>2, <1>3, <3>1, Zenon DEF GrowsAt
  <2>5. OnlyWaits(q)'
    BY <2>3, <2>4, Zenon DEF OnlyWaits
  <2> QED
    BY <1>5, <2>1, <2>5, Settled, Zenon
<1> QED
  BY <1>4, <1>5, Zenon

\* The handler's loop takes a request of its connection, which was nowhere
\* else and is not waiting any more.
LEMMA HandleNextTakes ==
    ASSUME WorkTypes, HelloTaken, \A r \in Requests : Tracked(r),
           NEW c \in Conns, HandleNext(c)
    PROVE  \E q \in Requests :
                /\ q = Head(rx[c])
                /\ rx' \in [Conns -> Seq(Requests \cup {Hello})]
                /\ ShrinksAt(rx', rx, c, q)
                /\ \A r : LessRx(r)
                /\ asked[q] # None /\ asked[q].on = c /\ ~Waits(q)'
                /\ ~Called(q) /\ ~Queued(q) /\ ~Executed(q) /\ ~Replied(q)
<1>0. PICK q : q = Head(rx[c])
  OBVIOUS
<1>1. /\ rx[c] # <<>> /\ handler[c] = "loop"
      /\ rx' = [rx EXCEPT ![c] = Tail(rx[c])]
  BY Zenon DEF HandleNext
<1>2. rx[c] \in Seq(Requests \cup {Hello})
  BY Zenon DEF WorkTypes
<1>3. /\ Tail(rx[c]) \in Seq(Requests \cup {Hello}) /\ q \in Requests \cup {Hello}
      /\ Shrinks(Tail(rx[c]), rx[c], q)
  BY <1>0, <1>1, <1>2, TailShrinks, Zenon
<1>4. /\ rx' \in [Conns -> Seq(Requests \cup {Hello})]
      /\ ShrinksAt(rx', rx, c, q) /\ \A r : LessRx(r)
  BY <1>1, <1>3, RxShrinks, Zenon
<1>5. Has(rx[c], q) /\ (Once(rx[c], q) => ~Has(rx'[c], q))
  BY <1>4, Zenon DEF ShrinksAt
<1>6. handler[c] \in {"loop", "dead"}
  BY <1>1, Zenon
<1>7. q # Hello
  BY <1>5, <1>6, Zenon DEF HelloTaken
<1>8. q \in Requests
  BY <1>3, <1>7, Zenon
<1>9. Tracked(q)
  BY <1>8, Zenon
<1>10. /\ asked[q] # None
       /\ ~Called(q) /\ ~Queued(q) /\ ~Executed(q) /\ ~Replied(q)
  BY <1>5, <1>9, Zenon DEF Tracked, OnePlace, Waits
<1>11. /\ asked[q].on = c /\ Once(rx[c], q)
       /\ \A e \in Conns : Has(rx[e], q) => asked[q].on = e
  BY <1>5, <1>9, Zenon DEF Tracked, Single
<1>12. ASSUME NEW e \in Conns, Has(rx'[e], q) PROVE FALSE
  <2>1. Has(rx[e], q)
    BY <1>4, <1>12, Zenon DEF ShrinksAt
  <2>2. e = c
    BY <1>11, <2>1, Zenon
  <2> QED
    BY <1>5, <1>11, <1>12, <2>2, Zenon
<1>13. ~Waits(q)'
  BY <1>12, Zenon DEF Waits
<1> QED
  BY <1>0, <1>4, <1>8, <1>10, <1>11, <1>13, Zenon

\* A reply to a request that was answered nowhere before goes out once.
LEMMA SentTracks ==
    ASSUME WorkTypes, NEW q \in Requests, NEW c \in Conns, Sent(c, [reply |-> q]),
           asked' = asked, asked[q].on = c, ~Replied(q)
    PROVE  /\ out' \in [Conns -> Seq(Messages)]
           /\ \A e \in Conns : /\ Once(out'[e], [reply |-> q])
                               /\ Has(out'[e], [reply |-> q]) => asked'[q].on = e
           /\ \A r : r # q => LessOut(r)
<1> DEFINE m == [reply |-> q]
<1>1. m \in Messages
  BY Zenon DEF Messages
<1>2. \A r : r # q => m # [reply |-> r]
  BY MessagesDiffer, Zenon
<1>3. \A r : r # q => LessOut(r)
  BY <1>1, <1>2, OtherSent, Zenon
<1> HIDE DEF m
<1>4. \A s, x : ~Has(s, x) => Once(s, x)
  BY Zenon DEF Has, Once
<1>5. \A e \in Conns : ~Has(out[e], m) /\ Once(out[e], m)
  BY <1>4, Zenon DEF Replied, m
<1>6. /\ out' \in [Conns -> Seq(Messages)]
      /\ out' = out \/ GrowsAt(out', out, c, m)
  BY <1>1, SentGrows, Zenon DEF m
<1>7. CASE out' = out
  BY <1>3, <1>5, <1>6, <1>7, Zenon DEF m
<1>8. CASE GrowsAt(out', out, c, m)
  <2>1. \A e \in Conns : Once(out'[e], m) /\ (Has(out'[e], m) => e = c)
    BY <1>5, <1>8, Zenon DEF GrowsAt
  <2> QED
    BY <1>3, <1>6, <2>1, Zenon DEF m
<1> QED
  BY <1>6, <1>7, <1>8, Zenon

\* handle_*(): the request goes to one place.
LEMMA HandleNextTracks ==
    ASSUME WorkTypes, HelloTaken, \A s \in Requests : Tracked(s),
           NEW r \in Requests, NEW c \in Conns, HandleNext(c)
    PROVE  Tracked(r)'
<1>1. PICK q \in Requests :
                /\ q = Head(rx[c])
                /\ rx' \in [Conns -> Seq(Requests \cup {Hello})]
                /\ ShrinksAt(rx', rx, c, q)
                /\ \A s : LessRx(s)
                /\ asked[q] # None /\ asked[q].on = c /\ ~Waits(q)'
                /\ ~Called(q) /\ ~Queued(q) /\ ~Executed(q) /\ ~Replied(q)
  BY HandleNextTakes, Zenon
<1>2. /\ asked' = asked /\ applied' = applied /\ Handled(c, q) /\ Tracked(r)
  BY <1>1, Zenon DEF HandleNext, voltha
<1>3. ~Executed(q)' /\ asked[q]' # None
  BY <1>1, <1>2, Zenon DEF Executed
<1>4. /\ calls' = calls => ~Called(q)'
      /\ packet_out_queue' = packet_out_queue => ~Queued(q)'
      /\ out' = out => ~Replied(q)'
  BY <1>1, Zenon DEF Called, Queued, Replied
<1>5. /\ LessRx(r) /\ LessApplied(r) /\ asked'[r] = asked[r]
      /\ out' = out => LessOut(r)
      /\ calls' = calls => LessCalls(r)
      /\ packet_out_queue' = packet_out_queue => LessQueue(r)
  BY <1>1, <1>2, SameIsLess, Zenon
<1>6. CASE Sent(c, [reply |-> q]) /\ UNCHANGED <<calls, packet_out_queue>>
  <2>1. /\ \A e \in Conns : /\ Once(out'[e], [reply |-> q])
                            /\ Has(out'[e], [reply |-> q]) => asked'[q].on = e
        /\ \A s : s # q => LessOut(s)
    BY <1>1, <1>2, <1>6, SentTracks, Zenon
  <2>2. CASE r = q
    BY <1>1, <1>3, <1>4, <1>6, <2>1, <2>2, Settled, Zenon DEF OnlyReplied
  <2>3. CASE r # q
    BY <1>1, <1>2, <1>5, <1>6, <2>1, <2>3, LessKeeps, Zenon
  <2> QED
    BY <2>2, <2>3, Zenon
<1>7. CASE /\ calls' = calls \cup {[req |-> q, done |-> FALSE]}
           /\ UNCHANGED <<out, packet_out_queue>>
  <2>1. \A k \in calls' : k.req # q => k \in calls
    BY <1>7
  <2>2. \A k \in calls' : k.req = q => k = [req |-> q, done |-> FALSE]
    BY <1>1, <1>7, Zenon DEF Called
  <2>3. CASE r = q
    BY <1>1, <1>3, <1>4, <1>7, <2>2, <2>3, Settled, Zenon DEF OnlyCalled
  <2>4. CASE r # q
    BY <1>1, <1>2, <1>5, <1>7, <2>1, <2>4, LessKeeps, Zenon DEF LessCalls
  <2> QED
    BY <2>3, <2>4, Zenon
<1>8. CASE /\ packet_out_queue' = Append(packet_out_queue, q)
           /\ UNCHANGED <<out, calls>>
  <2>1. packet_out_queue \in Seq(Requests)
    BY Zenon DEF WorkTypes
  <2>2. Grows(packet_out_queue', packet_out_queue, q)
    BY <1>8, <2>1, AppendGrows, Zenon
  <2>3. CASE r = q
    <3>1. Once(packet_out_queue, q)
      BY <1>2, <2>3, Zenon DEF Tracked, Single
    <3>2. Once(packet_out_queue', q)
      BY <1>1, <2>2, <3>1, Zenon DEF Grows, Queued
    <3> QED
      BY <1>1, <1>3, <1>4, <1>8, <2>3, <3>2, Settled, Zenon DEF OnlyQueued
  <2>4. CASE r # q
    <3>1. LessQueue(r)
      BY <2>2, <2>4, Zenon DEF Grows, LessQueue
    <3> QED
      BY <1>1, <1>2, <1>5, <1>8, <3>1, LessKeeps, Zenon
  <2> QED
    BY <2>3, <2>4, Zenon
<1>9. CASE UNCHANGED <<out, calls, packet_out_queue>>
  BY <1>1, <1>2, <1>5, <1>9, LessKeeps, Zenon
<1> QED
  BY <1>2, <1>6, <1>7, <1>8, <1>9, Zenon DEF Handled

\* A call is the only trace of its request.
LEMMA CallIsAlone ==
    ASSUME WorkTypes, \A s \in Requests : Tracked(s), NEW k \in calls
    PROVE  /\ k.req \in Requests /\ asked[k.req] # None /\ asked[k.req].on \in Conns
           /\ \A l \in calls : l.req = k.req => l = k
           /\ ~Waits(k.req) /\ ~Queued(k.req) /\ ~Executed(k.req) /\ ~Replied(k.req)
<1>1. k.req \in Requests
  BY Zenon DEF WorkTypes
<1>2. Tracked(k.req)
  BY <1>1, Zenon
<1>3. /\ asked[k.req] # None
      /\ ~Waits(k.req) /\ ~Queued(k.req) /\ ~Executed(k.req) /\ ~Replied(k.req)
  BY <1>2, Zenon DEF Tracked, OnePlace, Called
<1>4. \A l \in calls : l.req = k.req => l = k
  BY <1>2, Zenon DEF Tracked, Single
<1>5. asked[k.req].on \in Conns
  BY <1>1, <1>3, Zenon DEF WorkTypes
<1> QED
  BY <1>1, <1>3, <1>4, <1>5, Zenon

\* A call is executed by VOLTHA, fails, or is completed by its handler.
LEMMA CallTracks ==
    ASSUME WorkTypes, \A s \in Requests : Tracked(s), NEW r \in Requests,
           NEW k \in calls, Execute(k) \/ CallFails(k) \/ Complete(k)
    PROVE  Tracked(r)'
<1>0. PICK q : q = k.req
  OBVIOUS
<1>1. /\ q \in Requests /\ asked[q] # None /\ asked[q].on \in Conns
      /\ \A l \in calls : l.req = q => l = k
      /\ ~Waits(q) /\ ~Queued(q) /\ ~Executed(q) /\ ~Replied(q)
  BY <1>0, CallIsAlone, Zenon
<1>2. /\ rx' = rx /\ packet_out_queue' = packet_out_queue /\ asked' = asked
      /\ Tracked(r)
  BY Zenon DEF Execute, CallFails, Complete, wires
<1>3. ~Waits(q)' /\ ~Queued(q)' /\ asked[q]' # None
  BY <1>1, <1>2, Zenon DEF Waits, Queued
<1>4. /\ LessRx(r) /\ LessQueue(r) /\ asked'[r] = asked[r]
      /\ out' = out => LessOut(r)
      /\ applied' = applied => LessApplied(r)
  BY <1>2, SameIsLess, Zenon
<1>5. /\ out' = out => ~Replied(q)'
      /\ applied' = applied => ~Executed(q)'
  BY <1>1, Zenon DEF Replied, Executed
<1>6. ASSUME calls' = calls \ {k} PROVE ~Called(q)' /\ LessCalls(r)
  <2>1. \A l \in calls' : l \in calls /\ l # k
    BY <1>6, Zenon
  <2> QED
    BY <1>1, <2>1, Zenon DEF Called, LessCalls
<1>7. CASE /\ applied' = Append(applied, k.req) /\ calls' = calls \ {k}
           /\ out' = out
  <2>1. applied \in Seq(Requests)
    BY Zenon DEF WorkTypes
  <2>2. Grows(applied', applied, q)
    BY <1>0, <1>1, <1>7, <2>1, AppendGrows, Zenon
  <2>3. CASE r = q
    <3>1. Once(applied, q)
      BY <1>2, <2>3, Zenon DEF Tracked, Single
    <3>2. Once(applied', q)
      BY <1>1, <2>2, <3>1, Zenon DEF Grows, Executed
    <3> QED
      BY <1>3, <1>5, <1>6, <1>7, <2>3, <3>2, Settled, Zenon DEF OnlyExecuted
  <2>4. CASE r # q
    <3>1. LessApplied(r)
      BY <2>2, <2>4, Zenon DEF Grows, LessApplied
    <3> QED
      BY <1>2, <1>4, <1>6, <1>7, <3>1, LessKeeps, Zenon
  <2> QED
    BY <2>3, <2>4, Zenon
<1>8. CASE /\ calls' = (calls \ {k}) \cup {[k EXCEPT !.done = TRUE]}
           /\ applied' = applied /\ out' = out
  <2>1. [k EXCEPT !.done = TRUE].req = q
    BY <1>0, Zenon DEF WorkTypes
  <2>2. \A l \in calls' : (l \in calls /\ l # k) \/ l = [k EXCEPT !.done = TRUE]
    BY <1>8, Zenon
  <2>3. CASE r = q
    <3>1. \A l \in calls' : l.req = q => l = [k EXCEPT !.done = TRUE]
      BY <1>1, <2>2, Zenon
    <3> QED
      BY <1>3, <1>5, <1>8, <2>3, <3>1, Settled, Zenon DEF OnlyCalled
  <2>4. CASE r # q
    <3>1. LessCalls(r)
      BY <2>1, <2>2, <2>4, Zenon DEF LessCalls
    <3> QED
      BY <1>2, <1>4, <1>8, <3>1, LessKeeps, Zenon
  <2> QED
    BY <2>3, <2>4, Zenon
<1>9. CASE calls' = calls \ {k} /\ applied' = applied /\ out' = out
  BY <1>2, <1>4, <1>6, <1>9, LessKeeps, Zenon
<1>10. CASE /\ calls' = calls \ {k} /\ applied' = applied
            /\ Sent(asked[k.req].on, [reply |-> k.req])
  <2>1. /\ \A e \in Conns : /\ Once(out'[e], [reply |-> q])
                            /\ Has(out'[e], [reply |-> q]) => asked'[q].on = e
        /\ \A s : s # q => LessOut(s)
    BY <1>0, <1>1, <1>2, <1>10, SentTracks, Zenon
  <2>2. CASE r = q
    BY <1>3, <1>5, <1>6, <1>10, <2>1, <2>2, Settled, Zenon DEF OnlyReplied
  <2>3. CASE r # q
    BY <1>2, <1>4, <1>6, <1>10, <2>1, <2>3, LessKeeps, Zenon
  <2> QED
    BY <2>2, <2>3, Zenon
<1> QED
  BY <1>7, <1>8, <1>9, <1>10, Zenon
  DEF Execute, CallFails, Complete, wires, voltha

\* The stream of packets out sends the oldest one.
LEMMA StreamTracks ==
    ASSUME WorkTypes, \A s \in Requests : Tracked(s), NEW r \in Requests,
           StreamPacketOut
    PROVE  Tracked(r)'
<1>0. PICK q : q = Head(packet_out_queue)
  OBVIOUS
<1>1. /\ packet_out_queue # <<>> /\ packet_out_queue' = Tail(packet_out_queue)
      /\ applied' = Append(applied, q) /\ asked' = asked
      /\ rx' = rx /\ out' = out /\ calls' = calls /\ Tracked(r)
  BY <1>0, Zenon DEF StreamPacketOut, wires
<1>2. packet_out_queue \in Seq(Requests) /\ applied \in Seq(Requests)
  BY Zenon DEF WorkTypes
<1>3. q \in Requests /\ Shrinks(packet_out_queue', packet_out_queue, q)
  BY <1>0, <1>1, <1>2, TailShrinks, Zenon
<1>4. Grows(applied', applied, q)
  BY <1>1, <1>2, <1>3, AppendGrows, Zenon
<1>5. Tracked(q) /\ Queued(q)
  BY <1>3, Zenon DEF Shrinks, Queued
<1>6. /\ asked[q] # None
      /\ ~Waits(q) /\ ~Called(q) /\ ~Executed(q) /\ ~Replied(q)
      /\ Once(packet_out_queue, q) /\ Once(applied, q)
  BY <1>5, Zenon DEF Tracked, OnePlace, Single
<1>7. CASE r = q
  <2>1. ~Queued(q)' /\ Once(applied', q)
    BY <1>3, <1>4, <1>6, Zenon DEF Shrinks, Grows, Queued, Executed
  <2>2. ~Waits(q)' /\ ~Called(q)' /\ ~Replied(q)' /\ asked[q]' # None
    BY <1>1, <1>6, Zenon DEF Waits, Called, Replied
  <2> QED
    BY <1>7, <2>1, <2>2, Settled, Zenon DEF OnlyExecuted
<1>8. CASE r # q
  <2>1. LessQueue(r) /\ LessApplied(r)
    BY <1>3, <1>4, <1>8, Zenon DEF Shrinks, Grows, LessQueue, LessApplied
  <2> QED
    BY <1>1, <2>1, LessKeeps, SameIsLess, Zenon
<1> QED
  BY <1>7, <1>8, Zenon

\* Every request is at one place, once.
Work == WorkTypes /\ HelloTaken /\ \A r \in Requests : Tracked(r)

work == <<applied, packet_out_queue, rx, out, handler, calls, asked>>

\* What an event of the device is sent on: the present connection of its agent.
LEMMA ForwardSends ==
    ASSUME Links, Maps, NEW d \in Ids, Forward(d)
    PROVE  \/ out' = out
           \/ \E c \in Conns : /\ Sent(c, [event |-> d]) /\ device_id[owner[c]] = d
                               /\ owner[c] \in Agents
<1>1. CASE out' = out
  BY <1>1, Zenon
<1>2. CASE /\ d \in DOMAIN device_map
           /\ proto_handler[agent_map[device_map[d]]] # 0
           /\ Sent(proto_handler[agent_map[device_map[d]]], [event |-> d])
  <2> DEFINE a == agent_map[device_map[d]]
             c == proto_handler[a]
  <2>1. a \in Agents /\ device_id[a] = d
    BY <1>2, Zenon DEF Maps, MapsAgree
  <2>2. c \in Conns
    BY <1>2, <2>1 DEF Links
  <2>3. owner[c] = a
    BY <1>2, <2>1, Zenon DEF Links
  <2> QED
    BY <1>2, <2>1, <2>2, <2>3, Zenon
<1> QED
  BY <1>1, <1>2, Zenon DEF Forward

\* Messages and requests are left alone, or something other than a reply is
\* sent.
LEMMA SendKeepsWork ==
    ASSUME Work, NEW c \in Conns, NEW m \in Messages, Sent(c, m),
           \A r : m # [reply |-> r],
           UNCHANGED <<applied, packet_out_queue, rx, calls, asked>>,
           \/ handler' = handler
           \/ handler' = [handler EXCEPT ![c] = "hello"]
    PROVE  Work'
<1>1. WorkTypes /\ HelloTaken /\ \A r \in Requests : Tracked(r)
  BY Zenon DEF Work
<1>2. out' \in [Conns -> Seq(Messages)]
  BY <1>1, SentGrows, Zenon
<1>3. /\ handler' \in [Conns -> {"none", "scheduled", "hello", "loop", "dead"}]
      /\ \A e \in Conns : handler'[e] \in {"loop", "dead"} => handler'[e] = handler[e]
  BY <1>1, Zenon DEF WorkTypes
<1>4. WorkTypes'
  BY <1>1, <1>2, <1>3, Zenon DEF WorkTypes
<1>5. HelloTaken'
  BY <1>1, <1>3, Zenon DEF HelloTaken
<1>6. ASSUME NEW r \in Requests PROVE Tracked(r)'
  <2>1. LessOut(r)
    BY <1>1, OtherSent, Zenon
  <2> QED
    BY <1>1, <2>1, LessKeeps, SameIsLess, Zenon
<1> QED
  BY <1>4, <1>5, <1>6, Zenon DEF Work

\* The controller's hello comes in or is taken.
LEMMA HelloKeepsWork ==
    ASSUME Work, NEW c \in Conns, ReceiveHello(c) \/ TakeHello(c)
    PROVE  Work'
<1>1. /\ WorkTypes /\ HelloTaken /\ \A r \in Requests : Tracked(r)
      /\ \A r \in Requests : r # Hello
  BY OFAgentAssumption, Zenon DEF Work, OFAgentAssumption
<1>2. UNCHANGED <<applied, packet_out_queue, out, calls, asked>>
  BY Zenon DEF ReceiveHello, TakeHello, voltha, client
<1>3. ASSUME \A r \in Requests : LessRx(r) PROVE \A r \in Requests : Tracked(r)'
  BY <1>1, <1>2, <1>3, LessKeeps, SameIsLess, Zenon
<1>4. CASE ReceiveHello(c)
  <2>1. /\ handler[c] \in {"scheduled", "hello"} /\ handler' = handler
        /\ \A i \in 1..Len(rx[c]) : rx[c][i] # Hello
        /\ rx' = [rx EXCEPT ![c] = Append(rx[c], Hello)]
    BY <1>4, Zenon DEF ReceiveHello
  <2>2. /\ rx' \in [Conns -> Seq(Requests \cup {Hello})]
        /\ GrowsAt(rx', rx, c, Hello) /\ \A r : r # Hello => LessRx(r)
    <3>1. Hello \in Requests \cup {Hello}
      OBVIOUS
    <3> QED
      BY <1>1, <2>1, <3>1, RxGrows, Zenon
  <2>3. WorkTypes'
    BY <1>1, <1>2, <2>1, <2>2, Zenon DEF WorkTypes
  <2>4. ~Has(rx[c], Hello) /\ handler[c] \notin {"loop", "dead"}
    <3>1. ~Has(rx[c], Hello)
      BY <2>1, Zenon DEF Has
    <3> QED
      BY <2>1, <3>1, Zenon
  <2>5. HelloTaken'
    BY <1>1, <2>1, <2>2, <2>4, Zenon DEF HelloTaken, GrowsAt
  <2> QED
    BY <1>1, <1>3, <2>2, <2>3, <2>5, Zenon DEF Work
<1>5. CASE TakeHello(c)
  <2>1. PICK i \in 1..Len(rx[c]) :
            rx[c][i] = Hello /\ rx' = [rx EXCEPT ![c] = Popped(rx[c], i)]
    BY <1>5, Zenon DEF TakeHello
  <2>2. rx[c] \in Seq(Requests \cup {Hello})
    BY <1>1, Zenon DEF WorkTypes
  <2>3. /\ Popped(rx[c], i) \in Seq(Requests \cup {Hello})
        /\ Shrinks(Popped(rx[c], i), rx[c], Hello)
    BY <2>1, <2>2, PoppedShrinks, Zenon
  <2>4. /\ rx' \in [Conns -> Seq(Requests \cup {Hello})]
        /\ ShrinksAt(rx', rx, c, Hello) /\ \A r : LessRx(r)
    BY <1>1, <2>1, <2>3, RxShrinks, Zenon
  <2>5. handler' = [handler EXCEPT ![c] = "loop"]
    BY <1>5, Zenon DEF TakeHello
  <2>6. /\ handler' \in [Conns -> {"none", "scheduled", "hello", "loop", "dead"}]
        /\ \A e \in Conns : e # c => handler'[e] = handler[e]
    BY <1>1, <2>5, Zenon DEF WorkTypes
  <2>7. WorkTypes'
    BY <1>1, <1>2, <2>4, <2>6, Zenon DEF WorkTypes
  <2>8. ~Has(rx'[c], Hello)
    BY <1>1, <2>4, Zenon DEF HelloTaken, ShrinksAt
  <2>9. HelloTaken'
    BY <1>1, <2>4, <2>6, <2>8, Zenon DEF HelloTaken, ShrinksAt
  <2> QED
    BY <1>1, <1>3, <2>4, <2>7, <2>9, Zenon DEF Work
<1> QED
  BY <1>4, <1>5, Zenon

\* A request comes in.
LEMMA ReceiveKeepsWork ==
    ASSUME Work, NEW c \in Conns, NEW q \in Requests, NEW k \in Kinds,
           Receive(c, q, k)
    PROVE  Work'
<1>1. WorkTypes /\ HelloTaken /\ \A r \in Requests : Tracked(r)
  BY Zenon DEF Work
<1>2. /\ rx' = [rx EXCEPT ![c] = Append(rx[c], q)]
      /\ asked' = [asked EXCEPT ![q] = [on |-> c, kind |-> k]]
      /\ UNCHANGED <<applied, packet_out_queue, out, calls, handler>>
  BY Zenon DEF Receive, client, voltha
<1>3. q \in Requests \cup {Hello} /\ q # Hello
  BY OFAgentAssumption, Zenon DEF OFAgentAssumption
<1>4. rx' \in [Conns -> Seq(Requests \cup {Hello})] /\ GrowsAt(rx', rx, c, q)
  BY <1>1, <1>2, <1>3, RxGrows, Zenon
<1>5. asked' \in [Requests -> [on : Conns, kind : Kinds] \cup {None}]
  BY <1>1, <1>2, Zenon DEF WorkTypes
<1>6. WorkTypes'
  BY <1>1, <1>2, <1>4, <1>5, Zenon DEF WorkTypes
<1>7. HelloTaken'
  BY <1>1, <1>2, <1>3, <1>4, Zenon DEF HelloTaken, GrowsAt
<1>8. \A r \in Requests : Tracked(r)'
  BY <1>1, ReceiveTracks, Zenon
<1> QED
  BY <1>6, <1>7, <1>8, Zenon DEF Work

\* A request is handled.
LEMMA HandleNextKeepsWork ==
    ASSUME Work, NEW c \in Conns, HandleNext(c)
    PROVE  Work'
<1>1. WorkTypes /\ HelloTaken /\ \A r \in Requests : Tracked(r)
  BY Zenon DEF Work
<1>2. PICK q \in Requests :
            /\ q = Head(rx[c])
            /\ rx' \in [Conns -> Seq(Requests \cup {Hello})]
            /\ ShrinksAt(rx', rx, c, q)
            /\ asked[q].on = c /\ ~Replied(q)
  BY <1>1, HandleNextTakes, Zenon
<1>3. asked' = asked /\ applied' = applied /\ Handled(c, q)
  BY <1>2, Zenon DEF HandleNext, voltha
<1>4. /\ handler[c] = "loop"
      /\ handler' = handler \/ handler' = [handler EXCEPT ![c] = "dead"]
  BY <1>3, Zenon DEF HandleNext, Handled
<1>5. /\ handler' \in [Conns -> {"none", "scheduled", "hello", "loop", "dead"}]
      /\ \A e \in Conns : handler'[e] \in {"loop", "dead"} =>
            handler[e] \in {"loop", "dead"}
  BY <1>1, <1>4, Zenon DEF WorkTypes
<1>6. out' \in [Conns -> Seq(Messages)]
  <2>1. CASE out' = out
    BY <1>1, <2>1, Zenon DEF WorkTypes
  <2>2. CASE Sent(c, [reply |-> q])
    BY <1>1, <1>2, <1>3, <2>2, SentTracks, Zenon
  <2> QED
    BY <1>3, <2>1, <2>2, Zenon DEF Handled
<1>7. calls' \subseteq [req : Requests, done : BOOLEAN]
  <2>1. calls' = calls \/ calls' = calls \cup {[req |-> q, done |-> FALSE]}
    BY <1>3, Zenon DEF Handled
  <2>2. calls \subseteq [req : Requests, done : BOOLEAN]
    BY <1>1, Zenon DEF WorkTypes
  <2>3. [req |-> q, done |-> FALSE] \in [req : Requests, done : BOOLEAN]
    OBVIOUS
  <2> QED
    BY <2>1, <2>2, <2>3, Zenon
<1>8. packet_out_queue' \in Seq(Requests)
  <2>1. \/ packet_out_queue' = packet_out_queue
        \/ packet_out_queue' = Append(packet_out_queue, q)
    BY <1>3, Zenon DEF Handled
  <2>2. packet_out_queue \in Seq(Requests)
    BY <1>1, Zenon DEF WorkTypes
  <2> QED
    BY <2>1, <2>2, AppendGrows, Zenon
<1>9. WorkTypes'
  BY <1>1, <1>2, <1>3, <1>5, <1>6, <1>7, <1>8, Zenon DEF WorkTypes
<1>10. HelloTaken'
  BY <1>1, <1>2, <1>5, Zenon DEF HelloTaken, ShrinksAt
<1>11. \A r \in Requests : Tracked(r)'
  BY <1>1, HandleNextTracks, Zenon
<1> QED
  BY <1>9, <1>10, <1>11, Zenon DEF Work

\* A call ends, or a packet is sent out.
LEMMA CallKeepsWork ==
    ASSUME Work,
           \/ \E k \in calls : Execute(k) \/ CallFails(k) \/ Complete(k)
           \/ StreamPacketOut
    PROVE  Work'
<1>1. WorkTypes /\ HelloTaken /\ \A r \in Requests : Tracked(r)
  BY Zenon DEF Work
<1>2. UNCHANGED <<rx, handler, asked>>
  BY Zenon DEF Execute, CallFails, Complete, StreamPacketOut, wires
<1>3. HelloTaken'
  BY <1>1, <1>2, Zenon DEF HelloTaken
<1>4. CASE \E k \in calls : Execute(k) \/ CallFails(k) \/ Complete(k)
  <2>1. PICK k \in calls : Execute(k) \/ CallFails(k) \/ Complete(k)
    BY <1>4, Zenon
  <2>2. /\ k.req \in Requests /\ asked[k.req].on \in Conns /\ ~Replied(k.req)
    BY <1>1, CallIsAlone, Zenon
  <2>3. \/ out' = out
        \/ Sent(asked[k.req].on, [reply |-> k.req])
    BY <2>1, Zenon DEF Execute, CallFails, Complete, wires
  <2>4. out' \in [Conns -> Seq(Messages)]
    BY <1>1, <1>2, <2>2, <2>3, SentTracks, Zenon DEF WorkTypes
  <2>5. applied' \in Seq(Requests)
    <3>1. applied' = applied \/ applied' = Append(applied, k.req)
      BY <2>1, Zenon DEF Execute, CallFails, Complete, voltha
    <3>2. applied \in Seq(Requests)
      BY <1>1, Zenon DEF WorkTypes
    <3> QED
      BY <2>2, <3>1, <3>2, AppendGrows, Zenon
  <2>6. calls' \subseteq [req : Requests, done : BOOLEAN]
    <3>1. \/ calls' = calls \ {k}
          \/ calls' = (calls \ {k}) \cup {[k EXCEPT !.done = TRUE]}
      BY <2>1, Zenon DEF Execute, CallFails, Complete
    <3>2. calls \subseteq [req : Requests, done : BOOLEAN]
      BY <1>1, Zenon DEF WorkTypes
    <3>3. [k EXCEPT !.done = TRUE] \in [req : Requests, done : BOOLEAN]
      BY <3>2, Zenon
    <3> QED
      BY <3>1, <3>2, <3>3, Zenon
  <2>7. packet_out_queue' = packet_out_queue
    BY <2>1, Zenon DEF Execute, CallFails, Complete
  <2>8. WorkTypes'
    BY <1>1, <1>2, <2>4, <2>5, <2>6, <2>7, Zenon DEF WorkTypes
  <2>9. \A r \in Requests : Tracked(r)'
    BY <1>1, <2>1, CallTracks, Zenon
  <2> QED
    BY <1>3, <2>8, <2>9, Zenon DEF Work
<1>5. CASE StreamPacketOut
  <2>1. packet_out_queue \in Seq(Requests) /\ applied \in Seq(Requests)
    BY <1>1, Zenon DEF WorkTypes
  <2>2. packet_out_queue' \in Seq(Requests) /\ applied' \in Seq(Requests)
    BY <1>5, <2>1, TailShrinks, AppendGrows, Zenon DEF StreamPacketOut
  <2>3. UNCHANGED <<out, calls>>
    BY <1>5, Zenon DEF StreamPacketOut, wires
  <2>4. WorkTypes'
    BY <1>1, <1>2, <2>2, <2>3, Zenon DEF WorkTypes
  <2>5. \A r \in Requests : Tracked(r)'
    BY <1>1, <1>5, StreamTracks, Zenon
  <2> QED
    BY <1>3, <2>4, <2>5, Zenon DEF Work
<1> QED
  BY <1>4, <1>5, Zenon

\* Every step keeps Work.
LEMMA StepWork ==
    ASSUME Links, Maps, Work, [Next]_vars
    PROVE  Work'
<1> USE DEF work, voltha, wires, client
<1>1. CASE UNCHANGED work
  BY <1>1, Zenon DEF Work, WorkTypes, HelloTaken, Tracked, OnePlace, Single,
        Waits, Called, Queued, Executed, Replied
<1>2. CASE \E ds \in Lists : VolthaChanges(ds)
  BY <1>1, <1>2, Zenon DEF VolthaChanges
<1>3. CASE Refresh \/ Stop \/ UNCHANGED vars
  BY <1>1, <1>3, Zenon DEF Refresh, Stop, vars
<1>4. ASSUME NEW d \in Ids, Forward(d) PROVE Work'
  <2>1. UNCHANGED <<applied, packet_out_queue, rx, calls, asked, handler>>
    BY <1>4, Zenon DEF Forward
  <2>2. CASE out' = out
    BY <1>1, <2>1, <2>2, Zenon
  <2>3. CASE \E c \in Conns : Sent(c, [event |-> d])
    <3>1. [event |-> d] \in Messages
      BY Zenon DEF Messages
    <3>2. \A r : [event |-> d] # [reply |-> r]
      BY MessagesDiffer, Zenon
    <3> QED
      BY <2>1, <2>3, <3>1, <3>2, SendKeepsWork, Zenon
  <2> QED
    BY <1>4, <2>2, <2>3, ForwardSends, Zenon
<1>5. CASE \E a \in Agents : KeepConnected(a)
  BY <1>1, <1>5, Zenon DEF KeepConnected
<1>6. ASSUME NEW c \in Conns, ConnectFails(c) \/ ConnectionLost(c) PROVE Work'
  BY <1>1, <1>6, Zenon DEF ConnectFails, ConnectionLost
<1>7. ASSUME NEW c \in Conns, Connects(c) PROVE Work'
  <2>1. /\ UNCHANGED <<applied, packet_out_queue, rx, out, calls, asked>>
        /\ handler' = [handler EXCEPT ![c] = "scheduled"]
    BY <1>7, Zenon DEF Connects
  <2>2. /\ handler' \in [Conns -> {"none", "scheduled", "hello", "loop", "dead"}]
        /\ \A e \in Conns : handler'[e] \in {"loop", "dead"} =>
                handler[e] \in {"loop", "dead"}
    BY <2>1, Zenon DEF Work, WorkTypes
  <2>3. WorkTypes' /\ HelloTaken'
    BY <2>1, <2>2, Zenon DEF Work, WorkTypes, HelloTaken
  <2>4. \A r \in Requests : Tracked(r)'
    BY <2>1, LessKeeps, SameIsLess, Zenon DEF Work
  <2> QED
    BY <2>3, <2>4, Zenon DEF Work
<1>8. ASSUME NEW c \in Conns, HandlerStarts(c) PROVE Work'
  <2>1. [hello |-> c] \in Messages
    BY Zenon DEF Messages
  <2>2. \A r : [hello |-> c] # [reply |-> r]
    BY MessagesDiffer, Zenon
  <2>3. /\ UNCHANGED <<applied, packet_out_queue, rx, calls, asked>>
        /\ Sent(c, [hello |-> c]) /\ handler' = [handler EXCEPT ![c] = "hello"]
    BY <1>8, Zenon DEF HandlerStarts
  <2> QED
    BY <2>1, <2>2, <2>3, SendKeepsWork, Zenon
<1>9. ASSUME NEW c \in Conns, ConnStep(c) PROVE Work'
  BY <1>6, <1>7, <1>8, <1>9, HelloKeepsWork, HandleNextKeepsWork,
     ReceiveKeepsWork, Zenon DEF ConnStep
<1> QED
  BY <1>2, <1>3, <1>4, <1>5, <1>9, CallKeepsWork, Zenon DEF Next

-----------------------------------------------------------------------------
(***************************************************************************)
(* Events                                                                  *)
(***************************************************************************)

\* A connection that is not established has sent nothing, and what it has
\* sent of events is of its agent's device.
Events ==
    /\ \A c \in Conns : link[c] \in {"none", "connecting"} => out[c] = <<>>
    /\ \A c \in Conns, d \in Ids :
        Has(out[c], [event |-> d]) => device_id[owner[c]] = d

\* The messages a step sends: an event of the connection's own device, or no
\* event.
LEMMA OutSteps ==
    ASSUME Links, Maps, Work, [Next]_vars
    PROVE  \/ out' = out
           \/ \E c \in Conns :
                /\ link[c] = "up"
                /\ \E m : /\ GrowsAt(out', out, c, m)
                          /\ \A d \in Ids : m = [event |-> d] =>
                                device_id[owner[c]] = d
<1> USE DEF wires
<1> DEFINE Own(c, m) == \A d \in Ids : m = [event |-> d] => device_id[owner[c]] = d
           Goal == \/ out' = out
                   \/ \E c \in Conns : /\ link[c] = "up"
                                       /\ \E m : GrowsAt(out', out, c, m) /\ Own(c, m)
<1> SUFFICES Goal
  BY Zenon
<1>1. WorkTypes /\ HelloTaken /\ \A r \in Requests : Tracked(r)
  BY Zenon DEF Work
<1>2. ASSUME NEW c \in Conns, NEW m \in Messages, Sent(c, m), Own(c, m)
      PROVE  \/ out' = out
             \/ link[c] = "up" /\ \E n : GrowsAt(out', out, c, n) /\ Own(c, n)
  BY <1>1, <1>2, SentGrows, Zenon
<1>3. ASSUME NEW c \in Conns, NEW r \in Requests
      PROVE  [reply |-> r] \in Messages /\ Own(c, [reply |-> r])
  <2>1. [reply |-> r] \in Messages
    BY Zenon DEF Messages
  <2> QED
    BY <2>1, MessagesDiffer, Zenon
<1>4. ASSUME NEW c \in Conns
      PROVE  [hello |-> c] \in Messages /\ Own(c, [hello |-> c])
  <2>1. [hello |-> c] \in Messages
    BY DEF Messages
  <2> QED
    BY <2>1, MessagesDiffer, Zenon
<1>5. ASSUME NEW d \in Ids, NEW c \in Conns, device_id[owner[c]] = d
      PROVE  [event |-> d] \in Messages /\ Own(c, [event |-> d])
  <2>1. [event |-> d] \in Messages
    BY Zenon DEF Messages
  <2> QED
    BY <1>5, <2>1, MessagesDiffer, Zenon
<1> HIDE DEF Own
<1>6. ASSUME NEW d \in Ids, Forward(d) PROVE Goal
  BY <1>2, <1>5, <1>6, ForwardSends, Zenon
<1>7. ASSUME NEW c \in Conns, HandlerStarts(c) PROVE Goal
  BY <1>2, <1>4, <1>7, Zenon DEF HandlerStarts
<1>8. ASSUME NEW c \in Conns, HandleNext(c) PROVE Goal
  <2>1. PICK q \in Requests : q = Head(rx[c])
    BY <1>1, <1>8, HandleNextTakes, Zenon
  <2>2. out' = out \/ Sent(c, [reply |-> q])
    BY <1>8, <2>1, Zenon DEF HandleNext, Handled
  <2> QED
    BY <1>2, <1>3, <2>2, Zenon
<1>9. ASSUME NEW k \in calls, Complete(k) PROVE Goal
  <2>1. k.req \in Requests /\ asked[k.req].on \in Conns
    BY <1>1, CallIsAlone, Zenon
  <2>2. Sent(asked[k.req].on, [reply |-> k.req])
    BY <1>9, Zenon DEF Complete
  <2> QED
    BY <1>2, <1>3, <2>1, <2>2, Zenon
<1>10. CASE \/ Refresh \/ Stop \/ StreamPacketOut \/ UNCHANGED vars
            \/ \E ds \in Lists : VolthaChanges(ds)
            \/ \E a \in Agents : KeepConnected(a)
            \/ \E k \in calls : Execute(k) \/ CallFails(k)
  BY <1>10, Zenon DEF Refresh, Stop, StreamPacketOut, vars, VolthaChanges,
        KeepConnected, Execute, CallFails
<1> HIDE DEF Goal
<1>11. ASSUME NEW c \in Conns,
              \/ ConnectFails(c) \/ Connects(c) \/ ConnectionLost(c)
              \/ ReceiveHello(c) \/ TakeHello(c)
              \/ \E r \in Requests, k \in Kinds : Receive(c, r, k)
       PROVE  Goal
  BY <1>11, Zenon DEF Goal, ConnectFails, Connects, ConnectionLost, ReceiveHello,
        TakeHello, Receive
<1>12. ASSUME NEW c \in Conns, ConnStep(c) PROVE Goal
  BY <1>7, <1>8, <1>11, <1>12, Zenon DEF ConnStep
<1> QED
  BY <1>6, <1>9, <1>10, <1>12, Zenon DEF Next

\* Every step keeps Events.
LEMMA StepEvents ==
    ASSUME Links, Maps, Work, Events, [Next]_vars
    PROVE  Events'
<1>1. /\ \A a \in Agents : loop[a] # "unborn" => device_id'[a] = device_id[a]
      /\ \A c \in Conns : link[c] # "none" => owner'[c] = owner[c]
      /\ \A c \in Conns : link'[c] \in {"none", "connecting"} =>
            link[c] \in {"none", "connecting"}
  BY LinesStay, Zenon
<1>2. \A c \in Conns : link[c] # "none" =>
            owner[c] \in Agents /\ loop[owner[c]] # "unborn"
  BY Zenon DEF Links
<1>3. \A c \in Conns : link[c] # "none" => device_id'[owner'[c]] = device_id[owner[c]]
  BY <1>1, <1>2, Zenon
<1>4. ASSUME NEW c \in Conns, NEW x, Has(out[c], x)
      PROVE  link[c] # "none"
  <2>1. out[c] # <<>>
    BY <1>4 DEF Has
  <2>2. link[c] \notin {"none", "connecting"}
    BY <2>1, Zenon DEF Events
  <2> QED
    BY <2>2, Zenon
<1>5. CASE out' = out
  BY <1>1, <1>3, <1>4, <1>5, Zenon DEF Events
<1>6. ASSUME NEW e \in Conns, link[e] = "up", NEW m, GrowsAt(out', out, e, m),
             \A d \in Ids : m = [event |-> d] => device_id[owner[e]] = d
      PROVE  Events'
  <2>1. link[e] # "none" /\ link[e] \notin {"none", "connecting"}
    BY <1>6, Zenon
  <2>2. \A c \in Conns : link'[c] \in {"none", "connecting"} => out'[c] = <<>>
    BY <1>1, <1>6, <2>1, Zenon DEF Events, GrowsAt
  <2>3. ASSUME NEW c \in Conns, NEW d \in Ids, Has(out'[c], [event |-> d])
        PROVE  device_id'[owner'[c]] = d
    <3>1. CASE Has(out[c], [event |-> d])
      BY <1>3, <1>4, <3>1, Zenon DEF Events
    <3>2. CASE c = e /\ m = [event |-> d]
      BY <1>3, <1>6, <2>1, <3>2, Zenon
    <3> QED
      BY <1>6, <2>3, <3>1, <3>2, Zenon DEF GrowsAt
  <2> QED
    BY <2>2, <2>3, Zenon DEF Events
<1> QED
  BY <1>5, <1>6, OutSteps, Zenon

-----------------------------------------------------------------------------
(***************************************************************************)
(* The theorems                                                            *)
(***************************************************************************)

\* The inductive invariant.
AgentInv == Links /\ Maps /\ Work /\ Events

\* It holds when the process starts.
LEMMA InitAgentInv ==
    ASSUME Init
    PROVE  AgentInv
<1> USE DEF Init
<1>1. Links
  BY Zenon DEF Links, LoopStates, Established, Live, OneConnection
<1>2. Maps
  <2>1. DOMAIN agent_map = {} /\ DOMAIN device_map = {}
    OBVIOUS
  <2> QED
    BY <2>1, Zenon DEF Maps, MapsAgree
<1>3. \A x : ~Has(<<>>, x) /\ Once(<<>>, x)
  BY DEF Has, Once
<1>4. WorkTypes
  BY DEF WorkTypes
<1>5. \A c \in Conns : rx[c] = <<>> /\ out[c] = <<>>
  OBVIOUS
<1>6. applied = <<>> /\ packet_out_queue = <<>> /\ calls = {}
  OBVIOUS
<1>7. HelloTaken
  BY <1>3, <1>5, Zenon DEF HelloTaken
<1>8. ASSUME NEW r \in Requests PROVE Tracked(r)
  <2>1. ~Waits(r) /\ ~Queued(r) /\ ~Executed(r) /\ ~Replied(r)
    BY <1>3, <1>5, <1>6, Zenon DEF Waits, Queued, Executed, Replied
  <2>2. ~Called(r) /\ \A k, l \in calls : k = l
    BY <1>6, Zenon DEF Called
  <2>3. OnePlace(r)
    BY <2>1, <2>2, Zenon DEF OnePlace
  <2>4. Single(r)
    BY <1>3, <1>5, <1>6, <2>2, Zenon DEF Single
  <2> QED
    BY <2>3, <2>4, Zenon DEF Tracked
<1>9. Events
  BY <1>3, <1>5, Zenon DEF Events
<1> QED
  BY <1>1, <1>2, <1>4, <1>7, <1>8, <1>9, Zenon DEF AgentInv, Work

\* It is inductive.
LEMMA AgentInvariance == Spec => []AgentInv
<1>1. Init => AgentInv
  BY InitAgentInv, Zenon
<1>2. AgentInv /\ [Next]_vars => AgentInv'
  BY StepLinks, StepMaps, StepWork, StepEvents, Zenon DEF AgentInv
<1> QED
  BY <1>1, <1>2, PTL DEF Spec

\* For any logical devices, datapath ids and agents, the manager's two maps
\* agree after every refresh_agent_connections(), so that forward_packet_in()
\* and forward_change_event() always find the agent of the event's device.
THEOREM AgentMaps == Spec => []MapsAgree
<1>1. AgentInv => MapsAgree
  BY Zenon DEF AgentInv, Maps
<1> QED
  BY <1>1, AgentInvariance, PTL

\* For any agents and connections, keep_connected() never has two connections
\* or attempts of an agent open at a time.
THEOREM AgentConnection == Spec => []OneConnection
<1>1. AgentInv => OneConnection
  BY Zenon DEF AgentInv, Links
<1> QED
  BY <1>1, AgentInvariance, PTL

\* For any requests and connections, in whatever order threads, reconnections
\* and replies happen: a request is answered at most once and on its own
\* connection, and VOLTHA executes it at most once.
THEOREM AgentAnswers == Spec => []AnsweredOnce
<1>1. AgentInv => AnsweredOnce
  <2> SUFFICES ASSUME AgentInv PROVE AnsweredOnce
    OBVIOUS
  <2>1. WorkTypes /\ \A r \in Requests : Single(r)
    BY Zenon DEF AgentInv, Work, Tracked
  <2>2. ASSUME NEW c \in Conns, NEW r \in Requests
        PROVE  /\ Replies(c, r) # {} => asked[r].on = c
               /\ \A i, j \in Replies(c, r) : i = j
    <3>1. /\ Once(out[c], [reply |-> r])
          /\ Has(out[c], [reply |-> r]) => asked[r].on = c
      BY <2>1, Zenon DEF Single
    <3>2. \A i : i \in Replies(c, r) <=>
                    i \in 1..Len(out[c]) /\ out[c][i] = [reply |-> r]
      BY Zenon DEF Replies
    <3>3. Replies(c, r) # {} => \E i : i \in Replies(c, r)
      OBVIOUS
    <3> QED
      BY <3>1, <3>2, <3>3, Zenon DEF Has, Once
  <2>3. ASSUME NEW i \in 1..Len(applied), NEW j \in 1..Len(applied),
               applied[i] = applied[j]
        PROVE  i = j
    <3>1. applied[i] \in Requests
      BY <2>1 DEF WorkTypes
    <3>2. Once(applied, applied[i])
      BY <2>1, <3>1, Zenon DEF Single
    <3> QED
      BY <2>3, <3>2, Zenon DEF Once
  <2> QED
    BY <2>2, <2>3, Zenon DEF AnsweredOnce
<1> QED
  BY <1>1, AgentInvariance, PTL

\* For any devices and agents, an event is sent on a connection of the agent of
\* that very device, however out of date the manager's maps are.
THEOREM AgentEvents == Spec => []EventsOfOwnDevice
<1>1. AgentInv => EventsOfOwnDevice
  BY Zenon DEF AgentInv, Events, EventsOfOwnDevice, Has
<1> QED
  BY <1>1, AgentInvariance, PTL

=============================================================================
