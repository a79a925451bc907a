-------------------------- MODULE FlowTablesProofs --------------------------
(***************************************************************************)
(* The device tables follow the logical tables, for any set of ONUs,       *)
(* groups and flows.  What decompose_flow computes plays no part in the    *)
(* argument: only that the callback computes it from the tables it was     *)
(* called with and from routes that are up to date, which is the invariant *)
(* RoutesFresh of the cache.                                               *)
(***************************************************************************)
EXTENDS FlowTables, WellFoundedInduction, TLAPS

(* The part of the type invariant that the argument needs.                 *)
Shape ==
    /\ stage \in [Onus -> {"absent", "wired", "up"}]
    /\ cache = None \/ cache \in [up : SUBSET Onus, graph : SUBSET Onus]
    /\ DOMAIN devs = Devices

(* The inductive invariant.  No ONU leaves the graph or loses its logical  *)
(* port, so an ONU in the cached graph has ports.                          *)
IInv ==
    /\ Shape
    /\ RoutesFresh
    /\ cache # None => cache.graph \subseteq InGraph
    /\ pushedAt = {None} \/ pushedAt \subseteq Up
    /\ DevicesFollow
    /\ AbsentUntouched

-----------------------------------------------------------------------------
(* A filled cache holds the routes to the ONUs that have a logical port    *)
(* now, and a graph that has these ONUs and no ONU without ports.          *)
LEMMA FilledFresh ==
    ASSUME IInv
    PROVE  /\ Filled \in [up : SUBSET Onus, graph : SUBSET Onus]
           /\ Filled.up = Up
           /\ Up \subseteq Filled.graph
           /\ Filled.graph \subseteq InGraph
  BY Zenon DEF IInv, Shape, RoutesFresh, Filled, Up, InGraph

(* A table callback leaves the ONUs without ports alone, and unless the    *)
(* decomposition raises it gives every device that has a logical port the  *)
(* rules of the tables it was called with.                                 *)
LEMMA CallbackSound ==
    ASSUME IInv, NEW fl, NEW gr, NEW ds,
           DOMAIN ds = Devices,
           \A o \in Onus : stage[o] = "absent" => ds[o] = {}
    PROVE  /\ DOMAIN TableUpdated(fl, gr, ds) = Devices
           /\ \A o \in Onus : stage[o] = "absent" => TableUpdated(fl, gr, ds)[o] = {}
           /\ Decomposable(fl, gr, Up) =>
                \A d \in Up \cup {OLT} : TableUpdated(fl, gr, ds)[d] = rules_of(d, fl, gr)
  <1>1. /\ Filled.up = Up
        /\ Up \subseteq Filled.graph
        /\ Filled.graph \subseteq InGraph
    BY FilledFresh, Zenon
  <1>2. CASE Decomposable(fl, gr, Up)
    <2>1. TableUpdated(fl, gr, ds)
            = [d \in Devices |-> IF d \in Filled.graph \cup {OLT}
                                   THEN rules_of(d, fl, gr) ELSE ds[d]]
      BY <1>1, <1>2, Zenon DEF TableUpdated
    <2>2. Up \subseteq Devices /\ OLT \in Devices /\ Onus \subseteq Devices
      BY Zenon DEF Up, Devices
    <2>3. ASSUME NEW o \in Onus, stage[o] = "absent"
          PROVE  o \notin Filled.graph \cup {OLT}
      BY <1>1, <2>3, DistinctNames, Zenon DEF InGraph
    <2> QED  BY <1>1, <2>1, <2>2, <2>3, Zenon
  <1>3. CASE ~Decomposable(fl, gr, Up)
    BY <1>1, <1>3, Zenon DEF TableUpdated
  <1> QED  BY <1>2, <1>3, Zenon

(* A write whose device tables are those the callback of a changed table   *)
(* leaves preserves the invariant.                                         *)
LEMMA WriteSound ==
    ASSUME IInv, NEW fl, NEW gr, NEW ds,
           Write(fl, gr, ds),
           fl = flows /\ gr = groups => ds = devs,
           fl # flows \/ gr # groups =>
             /\ DOMAIN ds = Devices
             /\ \A o \in Onus : stage[o] = "absent" => ds[o] = {}
             /\ Decomposable(fl, gr, Up) =>
                  \A d \in Up \cup {OLT} : ds[d] = rules_of(d, fl, gr)
    PROVE  IInv'
  <1>1. Up' = Up /\ InGraph' = InGraph
    BY Zenon DEF Write, Up, InGraph
  <1>2. CASE fl = flows /\ gr = groups
    BY <1>1, <1>2, Zenon DEF Write, IInv, Shape, RoutesFresh, DevicesFollow, AbsentUntouched
  <1>3. CASE fl # flows \/ gr # groups
    <2>1. cache' = Filled /\ pushedAt' = Up /\ flows' = fl /\ groups' = gr
          /\ devs' = ds /\ stage' = stage
      BY <1>3, Zenon DEF Write
    <2>2. Shape'
      BY <1>3, <2>1, FilledFresh, Zenon DEF Shape, IInv
    <2>3. RoutesFresh' /\ (cache # None => cache.graph \subseteq InGraph)'
      BY <1>1, <2>1, FilledFresh, Zenon DEF RoutesFresh
    <2>4. (pushedAt = {None} \/ pushedAt \subseteq Up)'
      BY <1>1, <2>1, Zenon
    <2>5. DevicesFollow'
      BY <1>1, <1>3, <2>1, Zenon DEF DevicesFollow
    <2>6. AbsentUntouched'
      BY <1>3, <2>1, Zenon DEF AbsentUntouched
    <2> QED  BY <2>2, <2>3, <2>4, <2>5, <2>6, Zenon DEF IInv
  <1> QED  BY <1>2, <1>3, Zenon
(* flows_proxy.update with any flows, and groups_proxy.update with any     *)
(* groups.                                                                 *)
LEMMA WriteFlowsSound ==
    ASSUME IInv, NEW fl, WriteFlows(fl)
    PROVE  IInv'
  <1>1. DOMAIN devs = Devices /\ \A o \in Onus : stage[o] = "absent" => devs[o] = {}
    BY Zenon DEF IInv, Shape, AbsentUntouched
  <1>2. CASE fl = flows
    BY <1>2, WriteSound, Zenon DEF WriteFlows
  <1>3. CASE fl # flows
    <2>1. Write(fl, groups, TableUpdated(fl, groups, devs))
      BY <1>3, Zenon DEF WriteFlows
    <2> QED  BY <1>1, <1>3, <2>1, WriteSound, CallbackSound, Zenon
  <1> QED  BY <1>2, <1>3, Zenon

LEMMA WriteGroupsSound ==
    ASSUME IInv, NEW gr, WriteGroups(gr)
    PROVE  IInv'
  <1>1. DOMAIN devs = Devices /\ \A o \in Onus : stage[o] = "absent" => devs[o] = {}
    BY DEF IInv, Shape, AbsentUntouched
  <1>2. CASE gr = groups
    BY <1>2, WriteSound, Zenon DEF WriteGroups
  <1>3. CASE gr # groups
    <2>1. Write(flows, gr, TableUpdated(flows, gr, devs))
      BY <1>3, Zenon DEF WriteGroups
    <2> QED  BY <1>1, <1>3, <2>1, WriteSound, CallbackSound, Zenon
  <1> QED  BY <1>2, <1>3

(* group_delete decomposes twice: first with the old flows and the new     *)
(* groups, then, if flows went with the group, with both tables new.       *)
LEMMA GroupDeleteSound ==
    ASSUME IInv, groups \in [Groups -> {None} \cup SUBSET Onus],
           NEW g \in Groups, group_delete(g)
    PROVE  IInv'
  <1> DEFINE drop == {i \in DOMAIN flows : flow_has_out_group(flows[i], g)}
             fl == Without(flows, drop)
             gr == [groups EXCEPT ![g] = None]
             ds == TableUpdated(flows, gr, devs)
  <1>1. DOMAIN devs = Devices /\ \A o \in Onus : stage[o] = "absent" => devs[o] = {}
    BY Zenon DEF IInv, Shape, AbsentUntouched
  <1>2. groups[g] # None /\ Write(fl, gr, IF fl = flows THEN ds ELSE TableUpdated(fl, gr, ds))
    BY Zenon DEF group_delete
  <1>3. gr # groups
    BY <1>2, Zenon
  <1> HIDE DEF fl, gr, ds
  <1>4. /\ DOMAIN ds = Devices
        /\ \A o \in Onus : stage[o] = "absent" => ds[o] = {}
        /\ Decomposable(flows, gr, Up) =>
             \A d \in Up \cup {OLT} : ds[d] = rules_of(d, flows, gr)
    BY <1>1, CallbackSound, Zenon DEF ds
  <1>5. CASE fl = flows
    BY <1>2, <1>3, <1>4, <1>5, WriteSound, Zenon
  <1>6. CASE fl # flows
    <2>1. Write(fl, gr, TableUpdated(fl, gr, ds))
      BY <1>2, <1>6, Zenon
    <2> QED  BY <1>4, <1>3, <2>1, WriteSound, CallbackSound
  <1> QED  BY <1>5, <1>6, Zenon

-----------------------------------------------------------------------------
(* The groups keep their type.                                             *)
GroupsOK == groups \in [Groups -> {None} \cup SUBSET Onus]

LEMMA InitSound ==
    ASSUME Init
    PROVE  IInv /\ GroupsOK
  <1>1. Up = {} /\ pushedAt = {None} /\ cache = None
    BY Zenon DEF Init, Up
  <1>2. Shape /\ GroupsOK
    BY Zenon DEF Init, Shape, GroupsOK
  <1>3. AbsentUntouched
    BY Zenon DEF Init, AbsentUntouched, Devices
  <1> QED  BY <1>1, <1>2, <1>3, Zenon DEF IInv, RoutesFresh, DevicesFollow

(* The activation of an ONU: new ports do not touch the cache, and a new   *)
(* logical port empties it.                                                *)
LEMMA PortsSound ==
    ASSUME IInv, NEW o \in Onus, add_port(o) \/ port_added(o)
    PROVE  IInv'
  <1>1. CASE add_port(o)
    <2>1. Up' = Up /\ InGraph \subseteq InGraph'
      BY <1>1, Zenon DEF add_port, Up, InGraph, IInv, Shape
    <2>2. Shape' /\ AbsentUntouched'
      BY <1>1, Zenon DEF add_port, IInv, Shape, AbsentUntouched
    <2> QED
      BY <1>1, <2>1, <2>2, Zenon DEF add_port, IInv, RoutesFresh, DevicesFollow
  <1>2. CASE port_added(o)
    <2>1. Up \subseteq Up' /\ o \in Up' /\ o \notin Up
      BY <1>2, Zenon DEF port_added, Up, IInv, Shape
    <2>2. Shape' /\ AbsentUntouched'
      BY <1>2, Zenon DEF port_added, IInv, Shape, AbsentUntouched
    <2>3. pushedAt' # Up'
      BY <1>2, <2>1, DistinctNames, Zenon DEF port_added, IInv, Up
    <2> QED
      BY <1>2, <2>1, <2>2, <2>3, Zenon DEF port_added, IInv, RoutesFresh, DevicesFollow
  <1> QED  BY <1>1, <1>2, Zenon
LEMMA StutterSound ==
    ASSUME IInv, GroupsOK, UNCHANGED vars
    PROVE  IInv' /\ GroupsOK'
  BY Zenon DEF IInv, GroupsOK, Shape, RoutesFresh, DevicesFollow, AbsentUntouched,
         Up, InGraph, vars

(* Every request either writes one table or is a group_delete, and every   *)
(* write of the groups is of the right type.                               *)
LEMMA NextSound ==
    ASSUME IInv, GroupsOK, Next
    PROVE  IInv' /\ GroupsOK'
  <1>1. ASSUME NEW f \in FlowMods, flow_add(f) \/ flow_delete_strict(f)
        PROVE  IInv' /\ GroupsOK'
    <2>1. PICK fl : WriteFlows(fl)
      BY <1>1, Zenon DEF flow_add, flow_delete_strict
    <2> QED  BY <2>1, WriteFlowsSound, Zenon DEF WriteFlows, Write, GroupsOK
  <1>2. ASSUME NEW spec \in Specs, flow_delete(spec)
        PROVE  IInv' /\ GroupsOK'
    <2>1. PICK fl : WriteFlows(fl)
      BY <1>2, Zenon DEF flow_delete
    <2> QED  BY <2>1, WriteFlowsSound, Zenon DEF WriteFlows, Write, GroupsOK
  <1>3. ASSUME NEW g \in Groups, NEW b \in SUBSET Onus,
               group_add(g, b) \/ group_modify(g, b)
        PROVE  IInv' /\ GroupsOK'
    <2>1. WriteGroups([groups EXCEPT ![g] = b])
      BY <1>3, Zenon DEF group_add, group_modify
    <2> QED  BY <2>1, WriteGroupsSound, Zenon DEF WriteGroups, Write, GroupsOK
  <1>4. ASSUME NEW g \in Groups, group_delete(g)
        PROVE  IInv' /\ GroupsOK'
    <2>1. groups' = [groups EXCEPT ![g] = None]
      BY <1>4, Zenon DEF group_delete, Write
    <2> QED  BY <1>4, <2>1, GroupDeleteSound, Zenon DEF GroupsOK
  <1>5. ASSUME group_delete_all
        PROVE  IInv' /\ GroupsOK'
    <2>1. WriteGroups([g \in Groups |-> None])
      BY <1>5, Zenon DEF group_delete_all
    <2> QED  BY <2>1, WriteGroupsSound, Zenon DEF WriteGroups, Write, GroupsOK
  <1>6. ASSUME NEW o \in Onus, add_port(o) \/ port_added(o)
        PROVE  IInv' /\ GroupsOK'
    BY <1>6, PortsSound, Zenon DEF add_port, port_added, GroupsOK
  <1> QED  BY <1>1, <1>2, <1>3, <1>4, <1>5, <1>6, Zenon DEF Next

(* The invariant holds in every reachable state.                           *)
LEMMA IInvHolds == Spec => [](IInv /\ GroupsOK)
  <1>1. Init => IInv /\ GroupsOK
    BY InitSound, Zenon
  <1>2. IInv /\ GroupsOK /\ [Next]_vars => (IInv /\ GroupsOK)'
    BY NextSound, StutterSound, Zenon
  <1> QED  BY <1>1, <1>2, PTL DEF Spec

(* For any ONUs, groups and flows: the cached routes are those of the      *)
(* logical ports that exist (_assure_cached_tables_up_to_date), whatever   *)
(* table changes and activations of ONUs came between.                     *)
THEOREM CacheNeverStale == Spec => []RoutesFresh
  <1>1. IInv => RoutesFresh
    BY Zenon DEF IInv
  <1> QED  BY <1>1, IInvHolds, PTL

(* For any ONUs, groups and flows: unless a logical port came after the    *)
(* last table change or a flow cannot be decomposed, the OLT and every ONU *)
(* with a logical port hold exactly what the tables decompose into.        *)
THEOREM TablesFollowed == Spec => []DevicesFollow
  <1>1. IInv => DevicesFollow
    BY Zenon DEF IInv
  <1> QED  BY <1>1, IInvHolds, PTL

(* For any ONUs, groups and flows: an ONU without ports gets no rules.     *)
THEOREM NoRulesWithoutPorts == Spec => []AbsentUntouched
  <1>1. IInv => AbsentUntouched
    BY Zenon DEF IInv
  <1> QED  BY <1>1, IInvHolds, PTL

-----------------------------------------------------------------------------
(* Every non-empty set of natural numbers has a least element: from this,  *)
(* facts about all lengths follow without an induction scheme.             *)
LEMMA Least ==
    ASSUME NEW T, T \subseteq Nat, T # {}
    PROVE  \E m \in T : \A k \in T : m <= k
  <1>1. \E m \in T : \A k \in T : ~(<<k, m>> \in OpToRel(<, Nat))
    BY WFMin, NatLessThanWellFounded, Zenon
  <1>2. PICK m \in T : \A k \in T : <<k, m>> \notin OpToRel(<, Nat)
    BY <1>1, Zenon
  <1>3. ASSUME NEW k \in T PROVE m <= k
    <2>1. k \in Nat /\ m \in Nat
      BY Zenon
    <2>2. ~(k < m)
      BY <1>2, <2>1, Zenon DEF OpToRel
    <2> QED BY <2>1, <2>2
  <1> QED BY <1>3, Zenon

LEMMA LenIsNat ==
    ASSUME NEW fl \in Seq(FlowMods)
    PROVE  Len(fl) \in Nat
  OBVIOUS

(* The loop of flow_delete: what it has kept after n flows.                *)
KeepStep(fl, drop, r) ==
    [n \in 0..Len(fl) |->
        IF n = 0 THEN <<>>
        ELSE IF n \in drop THEN r[n - 1] ELSE Append(r[n - 1], fl[n])]

(* Up to n the loop has a result.                                          *)
Runs(fl, drop, n) ==
    \E r \in [0..n -> Seq(FlowMods)] :
        \A k \in 0..n : r[k] = IF k = 0 THEN <<>>
                               ELSE IF k \in drop THEN r[k - 1]
                               ELSE Append(r[k - 1], fl[k])

LEMMA LoopRuns ==
    ASSUME NEW fl \in Seq(FlowMods), NEW drop
    PROVE  Runs(fl, drop, Len(fl))
  <1>1. PICK N \in Nat : N = Len(fl)
    OBVIOUS
  <1>2. \A k \in 1..N : fl[k] \in FlowMods
    BY <1>1
  <1>3. ASSUME NEW n \in 1..N, Runs(fl, drop, n - 1) PROVE Runs(fl, drop, n)
    <2>1. PICK m \in Nat : m = n - 1 /\ n = m + 1
      OBVIOUS
    <2>2. PICK r \in [0..m -> Seq(FlowMods)] :
            \A k \in 0..m : r[k] = IF k = 0 THEN <<>>
                                   ELSE IF k \in drop THEN r[k - 1]
                                   ELSE Append(r[k - 1], fl[k])
      BY <1>3, <2>1, Zenon DEF Runs
    <2>3. PICK x : x = IF n \in drop THEN r[m] ELSE Append(r[m], fl[n])
      BY Zenon
    <2>4. x \in Seq(FlowMods)
      <3>1. r[m] \in Seq(FlowMods) /\ fl[n] \in FlowMods
        BY <1>2, <2>1
      <3> QED BY <2>3, <3>1
    <2>5. PICK q : q = [k \in 0..n |-> IF k = n THEN x ELSE r[k]]
      BY Zenon
    <2>6. q \in [0..n -> Seq(FlowMods)] /\ q[n] = x /\ \A k \in 0..m : q[k] = r[k]
      BY <2>1, <2>4, <2>5
    <2>7. \A k \in 0..n : k = n \/ (k \in 0..m /\ (k = 0 \/ k - 1 \in 0..m))
      BY <2>1
    <2>8. n - 1 = m /\ m \in 0..m /\ n # 0
      BY <2>1
    <2>9. \A k \in 0..n : q[k] = IF k = 0 THEN <<>>
                                 ELSE IF k \in drop THEN q[k - 1]
                                 ELSE Append(q[k - 1], fl[k])
      BY <2>2, <2>3, <2>6, <2>7, <2>8, Zenon
    <2> QED BY <2>6, <2>9, Zenon DEF Runs
  <1>4. Runs(fl, drop, 0)
    <2>1. PICK r : r = [k \in 0..0 |-> <<>>]
      BY Zenon
    <2>2. r \in [0..0 -> Seq(FlowMods)] /\ \A k \in 0..0 : k = 0 /\ r[k] = <<>>
      BY <2>1
    <2> QED BY <2>2, Zenon DEF Runs
  <1>5. SUFFICES ASSUME {k \in 0..N : ~Runs(fl, drop, k)} # {} PROVE FALSE
    <2>1. N \in 0..N
      OBVIOUS
    <2> QED BY <1>1, <1>5, <2>1, Zenon
  <1>6. PICK m \in 0..N : /\ ~Runs(fl, drop, m)
                          /\ \A k \in 0..N : ~Runs(fl, drop, k) => m <= k
    <2>1. {k \in 0..N : ~Runs(fl, drop, k)} \subseteq Nat
      OBVIOUS
    <2> QED BY <1>5, <2>1, Least, Zenon
  <1>7. m # 0
    BY <1>4, <1>6, Zenon
  <1>8. m \in 1..N /\ m - 1 \in 0..N /\ ~(m <= m - 1)
    BY <1>7
  <1> QED BY <1>3, <1>6, <1>8, Zenon
(* Without is what is left when the loop ends.                             *)
LEMMA LoopEnds ==
    ASSUME NEW fl \in Seq(FlowMods), NEW drop
    PROVE  \E r : r = KeepStep(fl, drop, r) /\ Without(fl, drop) = r[Len(fl)]
  <1>1. PICK N \in Nat : N = Len(fl)
    OBVIOUS
  <1>2. PICK r \in [0..N -> Seq(FlowMods)] :
          \A k \in 0..N : r[k] = IF k = 0 THEN <<>>
                                 ELSE IF k \in drop THEN r[k - 1]
                                 ELSE Append(r[k - 1], fl[k])
    <2>1. Runs(fl, drop, N)
      BY <1>1, LoopRuns, Zenon
    <2> QED BY <2>1, Zenon DEF Runs
  <1>3. r = KeepStep(fl, drop, r)
    BY <1>1, <1>2, Zenon DEF KeepStep
  <1>4. PICK q : q = CHOOSE t : t = KeepStep(fl, drop, t)
    BY Zenon
  <1>5. q = KeepStep(fl, drop, q)
    BY <1>3, <1>4, Zenon
  <1>6. Without(fl, drop) = q[Len(fl)]
    BY <1>4, Zenon DEF Without, KeepStep
  <1> QED BY <1>5, <1>6, Zenon

(* s consists of entries of fl at different indices up to n.               *)
Picks(s, fl, n) ==
    /\ s \in Seq(FlowMods)
    /\ \E h \in [1..Len(s) -> 1..n] :
         /\ \A i, j \in 1..Len(s) : h[i] = h[j] => i = j
         /\ \A i \in 1..Len(s) : s[i] = fl[h[i]]

LEMMA PicksBy ==
    ASSUME NEW s \in Seq(FlowMods), NEW fl, NEW n, NEW L, Len(s) = L,
           NEW h \in [1..L -> 1..n],
           \A i, j \in 1..L : h[i] = h[j] => i = j,
           \A i \in 1..L : s[i] = fl[h[i]]
    PROVE  Picks(s, fl, n)
  BY Zenon DEF Picks

LEMMA PicksMore ==
    ASSUME NEW fl \in Seq(FlowMods), NEW n \in 1..Len(fl), NEW s,
           Picks(s, fl, n - 1)
    PROVE  Picks(s, fl, n) /\ Picks(Append(s, fl[n]), fl, n)
  <1>1. PICK L \in Nat : L = Len(s) /\ s \in Seq(FlowMods)
    BY DEF Picks
  <1>2. PICK h \in [1..L -> 1..(n - 1)] :
          /\ \A i, j \in 1..L : h[i] = h[j] => i = j
          /\ \A i \in 1..L : s[i] = fl[h[i]]
    BY <1>1, Zenon DEF Picks
  <1>3. \A x \in 1..(n - 1) : x \in 1..n /\ x # n
    OBVIOUS
  <1>4. Picks(s, fl, n)
    <2>1. h \in [1..L -> 1..n]
      BY <1>2, <1>3, Zenon
    <2> QED BY <1>1, <1>2, <2>1, PicksBy, ZenonT(60)
  <1>5. PICK t : t = Append(s, fl[n])
    BY Zenon
  <1>6. /\ t \in Seq(FlowMods) /\ Len(t) = L + 1 /\ t[L + 1] = fl[n]
        /\ \A i \in 1..L : t[i] = s[i]
    BY <1>1, <1>5
  <1>7. PICK g : g = [i \in 1..(L + 1) |-> IF i = L + 1 THEN n ELSE h[i]]
    BY Zenon
  <1>8. /\ \A i \in 1..(L + 1) : i = L + 1 \/ (i \in 1..L /\ i # L + 1)
        /\ L + 1 \in 1..(L + 1) /\ \A i \in 1..L : i \in 1..(L + 1)
    OBVIOUS
  <1>9. g[L + 1] = n /\ \A i \in 1..L : g[i] = h[i] /\ g[i] \in 1..n /\ g[i] # n
    BY <1>2, <1>3, <1>7, <1>8
  <1>10. g \in [1..(L + 1) -> 1..n]
    <2>1. n \in 1..n
      BY LenIsNat
    <2> QED BY <2>1, <1>7, <1>8, <1>9, Zenon
  <1>11. \A i, j \in 1..(L + 1) : g[i] = g[j] => i = j
    BY <1>2, <1>8, <1>9, Zenon
  <1>12. \A i \in 1..(L + 1) : t[i] = fl[g[i]]
    BY <1>2, <1>6, <1>8, <1>9, Zenon
  <1>13. Picks(t, fl, n)
    BY <1>6, <1>10, <1>11, <1>12, PicksBy, Zenon
  <1> QED BY <1>4, <1>5, <1>13, Zenon

(* What flow_delete keeps are entries of the table, each once.             *)
LEMMA WithoutPicks ==
    ASSUME NEW fl \in Seq(FlowMods), NEW drop
    PROVE  Picks(Without(fl, drop), fl, Len(fl))
  <1>1. PICK r : r = KeepStep(fl, drop, r) /\ Without(fl, drop) = r[Len(fl)]
    BY LoopEnds, Zenon
  <1>2. PICK N \in Nat : N = Len(fl)
    OBVIOUS
  <1>3. \A k \in 0..N : r[k] = IF k = 0 THEN <<>>
                               ELSE IF k \in drop THEN r[k - 1]
                               ELSE Append(r[k - 1], fl[k])
    BY <1>1, <1>2, Zenon DEF KeepStep
  <1>4. SUFFICES ASSUME {k \in 0..N : ~Picks(r[k], fl, k)} # {} PROVE FALSE
    <2>1. N \in 0..N
      OBVIOUS
    <2> QED BY <1>1, <1>2, <1>4, <2>1, Zenon
  <1>5. PICK m \in 0..N : /\ ~Picks(r[m], fl, m)
                          /\ \A k \in 0..N : ~Picks(r[k], fl, k) => m <= k
    <2>1. {k \in 0..N : ~Picks(r[k], fl, k)} \subseteq Nat
      OBVIOUS
    <2> QED BY <1>4, <2>1, Least, Zenon
  <1>6. m # 0
    <2>1. r[0] = <<>>
      BY <1>3
    <2>2. PICK h : h = [i \in 1..0 |-> 0]
      BY Zenon
    <2>3. h \in [1..0 -> 1..0] /\ 1..0 = {} /\ Len(<<>>) = 0 /\ <<>> \in Seq(FlowMods)
      BY <2>2
    <2>4. Picks(<<>>, fl, 0)
      BY <2>3, PicksBy, Zenon
    <2> QED BY <1>5, <2>1, <2>4, Zenon
  <1>7. m \in 1..N /\ m - 1 \in 0..N /\ ~(m <= m - 1)
    BY <1>6
  <1>8. Picks(r[m - 1], fl, m - 1)
    BY <1>5, <1>7, Zenon
  <1>9. Picks(r[m - 1], fl, m) /\ Picks(Append(r[m - 1], fl[m]), fl, m)
    BY <1>2, <1>7, <1>8, PicksMore, Zenon
  <1> QED BY <1>3, <1>5, <1>6, <1>9, Zenon

-----------------------------------------------------------------------------
(* Entries of one table that match each other have the overlap flag.       *)
Unique(fl) ==
    /\ fl \in Seq(FlowMods)
    /\ \A i, j \in 1..Len(fl) :
         i # j /\ flow_match(fl[i], fl[j]) => "overlap" \in fl[i].flags

LEMMA MatchLaws ==
    /\ \A f, g : flow_match(f, g) => flow_match(g, f) /\ f.flags = g.flags
    /\ \A f, g, h : flow_match(f, g) /\ flow_match(g, h) => flow_match(f, h)
  BY ZenonT(40) DEF flow_match

(* find_flow returns the first match, and -1 only if there is none.        *)
LEMMA FindsAny ==
    ASSUME NEW fl \in Seq(FlowMods), NEW f, find_flow(fl, f) = {}
    PROVE  \A i \in 1..Len(fl) : ~flow_match(fl[i], f)
  <1>1. PICK N \in Nat : N = Len(fl) /\ DOMAIN fl = 1..N
    OBVIOUS
  <1>2. PICK T : T = {i \in 1..N : flow_match(fl[i], f)}
    BY Zenon
  <1>3. CASE T # {}
    <2>1. T \subseteq Nat
      BY <1>2
    <2>2. PICK m \in T : \A k \in T : m <= k
      BY <1>3, <2>1, Least, Zenon
    <2>3. m \in 1..N /\ flow_match(fl[m], f)
      BY <1>2, Zenon
    <2>4. \A j \in 1..(m - 1) : j \in 1..N /\ ~(m <= j)
      BY <2>3
    <2>5. \A j \in 1..(m - 1) : ~flow_match(fl[j], f)
      BY <1>2, <2>2, <2>4, Zenon
    <2>6. m \in find_flow(fl, f)
      BY <1>1, <2>3, <2>5, Zenon DEF find_flow
    <2> QED BY <2>6, Zenon
  <1> QED BY <1>1, <1>2, <1>3, Zenon

LEMMA AppendUnique ==
    ASSUME NEW fl, Unique(fl), NEW f \in FlowMods,
           "overlap" \in f.flags \/ find_flow(fl, f) = {}
    PROVE  Unique(Append(fl, f))
  <1>1. PICK N \in Nat : N = Len(fl) /\ fl \in Seq(FlowMods)
    BY DEF Unique
  <1>2. PICK t : t = Append(fl, f)
    BY Zenon
  <1>3. /\ t \in Seq(FlowMods) /\ Len(t) = N + 1 /\ t[N + 1] = f
        /\ \A i \in 1..N : t[i] = fl[i]
    BY <1>1, <1>2
  <1>4. \A i \in 1..(N + 1) : i = N + 1 \/ i \in 1..N
    OBVIOUS
  <1>5. \A i \in 1..N : flow_match(fl[i], f) => "overlap" \in f.flags
    BY <1>1, FindsAny, Zenon
  <1>6. ASSUME NEW i \in 1..(N + 1), NEW j \in 1..(N + 1), i # j,
               flow_match(t[i], t[j])
        PROVE  "overlap" \in t[i].flags
    <2>1. CASE i \in 1..N /\ j \in 1..N
      BY <1>1, <1>3, <1>6, <2>1, Zenon DEF Unique
    <2>2. CASE i \in 1..N /\ j = N + 1
      BY <1>3, <1>5, <1>6, <2>2, MatchLaws, Zenon
    <2>3. CASE i = N + 1 /\ j \in 1..N
      BY <1>3, <1>5, <1>6, <2>3, MatchLaws, Zenon
    <2> QED BY <1>4, <1>6, <2>1, <2>2, <2>3, Zenon
  <1>7. Unique(t)
    BY <1>3, <1>6, Zenon DEF Unique
  <1> QED BY <1>2, <1>7, Zenon

LEMMA ReplaceUnique ==
    ASSUME NEW fl, Unique(fl), NEW f \in FlowMods, NEW i \in find_flow(fl, f),
           NEW t, t = [fl EXCEPT ![i] = f]
    PROVE  Unique(t)
  <1>1. PICK N \in Nat : N = Len(fl) /\ fl \in Seq(FlowMods) /\ DOMAIN fl = 1..N
    BY DEF Unique
  <1>2. i \in 1..N /\ flow_match(fl[i], f)
    BY <1>1, Zenon DEF find_flow
  <1>3. /\ t \in Seq(FlowMods) /\ Len(t) = N /\ t[i] = f
        /\ \A k \in 1..N : k # i => t[k] = fl[k]
    BY <1>1, <1>2
  <1>4. ASSUME NEW k \in 1..N, NEW j \in 1..N, k # j, flow_match(t[k], t[j])
        PROVE  "overlap" \in t[k].flags
    <2>1. flow_match(fl[k], t[k]) /\ flow_match(t[j], fl[j])
      BY <1>2, <1>3, MatchLaws, Zenon DEF flow_match
    <2>2. flow_match(fl[k], fl[j])
      BY <1>4, <2>1, MatchLaws, Zenon
    <2>3. "overlap" \in fl[k].flags
      BY <1>1, <1>4, <2>2, Zenon DEF Unique
    <2> QED BY <2>1, <2>3, MatchLaws, Zenon
  <1> QED BY <1>3, <1>4, Zenon DEF Unique

LEMMA WithoutUnique ==
    ASSUME NEW fl, Unique(fl), NEW drop
    PROVE  Unique(Without(fl, drop))
  <1>1. PICK N \in Nat : N = Len(fl) /\ fl \in Seq(FlowMods)
    BY DEF Unique
  <1>2. PICK t : t = Without(fl, drop)
    BY Zenon
  <1>3. Picks(t, fl, N)
    BY <1>1, <1>2, WithoutPicks, Zenon
  <1>4. PICK h \in [1..Len(t) -> 1..N] :
          /\ \A i, j \in 1..Len(t) : h[i] = h[j] => i = j
          /\ \A i \in 1..Len(t) : t[i] = fl[h[i]]
    BY <1>3, Zenon DEF Picks
  <1>5. ASSUME NEW i \in 1..Len(t), NEW j \in 1..Len(t), i # j,
               flow_match(t[i], t[j])
        PROVE  "overlap" \in t[i].flags
    <2>1. PICK k \in 1..N, l \in 1..N : k = h[i] /\ l = h[j]
      BY <1>4, Zenon
    <2>2. k # l /\ flow_match(fl[k], fl[l]) /\ t[i] = fl[k]
      BY <1>4, <1>5, <2>1, Zenon
    <2>3. "overlap" \in fl[k].flags
      BY <1>1, <2>2, Zenon DEF Unique
    <2> QED BY <2>2, <2>3, Zenon
  <1>6. Unique(t)
    BY <1>3, <1>5, Zenon DEF Unique, Picks
  <1> QED BY <1>2, <1>6, Zenon

LEMMA UniqueStep == Unique(flows) /\ [Next]_vars => Unique(flows)'
  <1> SUFFICES ASSUME Unique(flows), [Next]_vars PROVE Unique(flows')
    BY Zenon
  <1>1. \A fl : WriteFlows(fl) => flows' = fl
    BY Zenon DEF WriteFlows, Write
  <1>2. ASSUME NEW f \in FlowMods, flow_add(f) PROVE Unique(flows')
    <2>1. CASE /\ "overlap" \in f.flags \/ find_flow(flows, f) = {}
               /\ WriteFlows(Append(flows, f))
      BY <1>1, <2>1, AppendUnique, Zenon
    <2>2. ASSUME NEW i \in find_flow(flows, f), WriteFlows([flows EXCEPT ![i] = f])
          PROVE  Unique(flows')
      BY <1>1, <2>2, ReplaceUnique, Zenon
    <2> QED BY <1>2, <2>1, <2>2, Zenon DEF flow_add
  <1>3. ASSUME NEW f \in FlowMods, flow_delete_strict(f) PROVE Unique(flows')
    BY <1>1, <1>3, WithoutUnique, Zenon DEF flow_delete_strict
  <1>4. ASSUME NEW spec \in Specs, flow_delete(spec) PROVE Unique(flows')
    BY <1>1, <1>4, WithoutUnique, Zenon DEF flow_delete
  <1>5. ASSUME NEW g \in Groups, group_delete(g) PROVE Unique(flows')
    <2>1. flows' = Without(flows, {i \in DOMAIN flows :
                                      flow_has_out_group(flows[i], g)})
      BY <1>5, Zenon DEF group_delete, Write
    <2> QED BY <2>1, WithoutUnique, Zenon
  <1>6. ASSUME NEW gr, WriteGroups(gr) PROVE Unique(flows')
    BY <1>6, Zenon DEF WriteGroups, Write
  <1>7. CASE \/ \E o \in Onus : add_port(o) \/ port_added(o)
             \/ UNCHANGED vars
    BY <1>7, Zenon DEF add_port, port_added, vars
  <1>8. CASE \/ \E g \in Groups, b \in SUBSET Onus : group_add(g, b) \/ group_modify(g, b)
             \/ group_delete_all
    BY <1>6, <1>8, Zenon DEF group_add, group_modify, group_delete_all
  <1> QED BY <1>2, <1>3, <1>4, <1>5, <1>7, <1>8, Zenon DEF Next

(* For any flows and any length of the table: two entries that flow_match  *)
(* takes for the same exist only if the flag for the overlap check, which  *)
(* find_overlapping_flows does not implement, was set; replacements and    *)
(* deletions, also those that come with a group, keep it so.               *)
THEOREM EntriesUnique == Spec => []FlowsUnique
  <1>1. Init => Unique(flows)
    <2>1. <<>> \in Seq(FlowMods) /\ 1..Len(<<>>) = {}
      OBVIOUS
    <2> QED BY <2>1, Zenon DEF Init, Unique
  <1>2. ASSUME Unique(flows) PROVE FlowsUnique
    <2>1. DOMAIN flows = 1..Len(flows)
      BY <1>2 DEF Unique
    <2> QED BY <1>2, <2>1, Zenon DEF Unique, FlowsUnique
  <1> QED BY <1>1, <1>2, UniqueStep, PTL DEF Spec

=============================================================================
