----------------------------- MODULE FlowTables -----------------------------
(***************************************************************************)
(* The flow and group tables of one logical device and of the devices it   *)
(* is made of: one OLT and the ONUs behind its PON port.                    *)
(*                                                                         *)
(* voltha/core/logical_device_agent.py keeps the tables that the OpenFlow  *)
(* controller edits.  Every change of a table is announced by the config   *)
(* tree; the callback decomposes the logical tables                        *)
(* (voltha/core/flow_decomposer.py) along the routes of the device graph   *)
(* (voltha/core/device_graph.py) and overwrites the devices' tables.  The  *)
(* routes and the default rules are cached until a logical port is added.  *)
(* An exception in the callback is logged and swallowed by the config      *)
(* tree (voltha/core/config/config_proxy.py), so the controller never      *)
(* learns of it and no device is touched.                                  *)
(*                                                                         *)
(* All the handlers run to completion on the reactor, so each is one step. *)
(***************************************************************************)
EXTENDS Naturals, Sequences

CONSTANTS
    Onus,      \* the ONUs; the logical port of an ONU's UNI has its name
    OLT,       \* the root device
    NNI,       \* the logical port of the OLT's network side
    Controller,\* OFPP_CONTROLLER
    None,      \* Python's None: an absent field or an empty cache
    Any,       \* OFPTT_ALL, OFPP_ANY, OFPG_ANY
    Groups,    \* group ids
    FlowMods,  \* the flows the controller may ask for
    MaxFlows   \* bound: the length of the logical flow table

ASSUME DistinctNames ==
    /\ OLT \notin Onus
    /\ NNI \notin Onus
    /\ None \notin Onus
    /\ None # NNI

VARIABLES
    flows,     \* /logical_devices/<id>/flows: a sequence of flows
    groups,    \* /logical_devices/<id>/flow_groups: buckets of a group, or None
    stage,     \* how far the activation of each ONU has come
    cache,     \* _routes and _default_rules, or None
    devs,      \* /devices/<id>/flows of each device
    pushedAt   \* history: the ONUs with a logical port at the last table
               \* change, {None} before the first

vars == <<flows, groups, stage, cache, devs, pushedAt>>

Devices == Onus \cup {OLT}

(* The ONUs that have a logical port, and the ONUs that the walk over the  *)
(* peer links of the device graph meets.                                   *)
Up == {o \in Onus : stage[o] = "up"}
InGraph == {o \in Onus : stage[o] # "absent"}

-----------------------------------------------------------------------------
(* Flows.  A flow has a table, a priority-and-cookie, flags, a match (the  *)
(* logical in-port, a VLAN and a destination, each possibly absent) and    *)
(* instructions: actions other than output and group, or None when there   *)
(* is no apply-actions instruction; an output port; a group; a goto.       *)

flow_match(f, g) ==
    /\ f.table = g.table
    /\ f.prio = g.prio
    /\ f.flags = g.flags
    /\ <<f.in, f.vlan, f.dst>> = <<g.in, g.vlan, g.dst>>

find_flow(fl, f) ==
    {i \in DOMAIN fl : flow_match(fl[i], f)
                       /\ \A j \in 1..(i - 1) : ~flow_match(fl[j], f)}

(* The flows to keep, when those at the indices in drop are deleted.       *)
Without(fl, drop) ==
    LET to_keep[n \in 0..Len(fl)] ==
          IF n = 0 THEN <<>>
          ELSE IF n \in drop THEN to_keep[n - 1]
          ELSE Append(to_keep[n - 1], fl[n])
    IN  to_keep[Len(fl)]

flow_has_out_port(f, p) == f.acts # None /\ f.out = p
flow_has_out_group(f, g) == f.acts # None /\ f.group = g

(* flow_matches_spec for a specification with an empty match.  With any    *)
(* other match the code raises NotImplementedError before it writes.       *)
flow_matches_spec(f, spec) ==
    /\ spec.table \in {Any, f.table}
    /\ spec.out = Any \/ flow_has_out_port(f, spec.out)
    /\ spec.group = Any \/ flow_has_out_group(f, spec.group)

-----------------------------------------------------------------------------
(* Routes.  Every route leads from an ONU's UNI to the NNI or back; UNI to *)
(* UNI paths have seven nodes and are skipped.  up is the set of ONUs that *)
(* had a logical port when the routes were computed.                       *)

compute_routes(up) == {<<o, NNI>> : o \in up} \cup {<<NNI, o>> : o \in up}

(* get_route raises for a pair without a route.  A half route needs any    *)
(* route with the given end.                                               *)
has_route(in, out, up) ==
    LET egress == IF out = Controller THEN NNI ELSE out
    IN  CASE in = None /\ egress = NNI -> up # {}
          [] egress = None -> \E r \in compute_routes(up) : r[1] = in
          [] OTHER -> <<in, egress>> \in compute_routes(up)

(* A rule of a device: its match, and what it does, the port last.  The    *)
(* generated rules have table 0 and no flags, so the priority, the cookie  *)
(* and the match are the rule's id.                                        *)
Rule(prio, in, vlan, dst, acts) ==
    [prio |-> prio, in |-> in, vlan |-> vlan, dst |-> dst, acts |-> acts]

SameId(r, q) ==
    <<r.prio, r.in, r.vlan, r.dst>> = <<q.prio, q.in, q.vlan, q.dst>>

default_rules(d) ==
    IF d = OLT
      THEN {Rule("2000", "nni", "4000", None, <<"pop", "pon">>)}
      ELSE {Rule("500", "uni", "0", None, <<"set", d, "pon">>),
            Rule("500", "uni", "untagged", None, <<"push", "set", d, "pon">>),
            Rule("500", "pon", d, None, <<"set", "0", "uni">>)}

-----------------------------------------------------------------------------
(* Decomposition of one flow.                                              *)

is_controller_bound(f) == f.out = Controller
is_downstream(f) == f.in = NNI

(* The exceptions and assertions on the way: no apply-actions, no route,   *)
(* no ingress hop on a half route, upstream or downstream rules with the   *)
(* wrong instructions, a bucket whose port has no route.                   *)
raises(f, gr, up) ==
    \/ f.acts = None
    \/ ~has_route(f.in, f.out, up)
    \/ /\ ~is_controller_bound(f)
       /\ \/ f.in = None
          \/ f.goto /\ f.out # None
          \/ ~f.goto /\ f.out = None
             /\ \/ ~is_downstream(f)
                \/ f.group = None
                \/ gr[f.group] # None
                   /\ \E b \in gr[f.group] : ~has_route(f.in, b, up)

decompose_flow(f, gr) ==
    IF is_controller_bound(f)
      THEN {<<OLT, Rule(f.prio, "pon", None, f.dst, <<"push", "4000", "nni">>)>>}
    ELSE IF ~is_downstream(f)
      THEN IF f.goto
             THEN {<<f.in, Rule(f.prio, "uni", f.vlan, f.dst,
                                Append(f.acts, "pon"))>>}
             ELSE {<<OLT, Rule(f.prio, "pon", f.vlan, f.dst,
                               Append(f.acts, "nni"))>>}
    ELSE IF f.goto
      THEN {<<OLT, Rule(f.prio, "nni", f.vlan, f.dst, Append(f.acts, "pon"))>>}
    ELSE IF f.out # None
      THEN {<<f.out, Rule(f.prio, "pon", f.vlan, f.dst, Append(f.acts, "uni"))>>}
    ELSE {<<OLT, Rule(f.prio, "nni", f.vlan, None, f.acts \o <<"pop", "pon">>)>>}
         \cup {<<b, Rule(f.prio, "pon", None, f.dst, <<"uni">>)>> :
                 b \in IF gr[f.group] = None THEN {} ELSE gr[f.group]}

(* The rules of device d: the default ones, then those of the flows in the *)
(* order of the table; a rule whose id is already there is dropped.        *)
rules_of(d, fl, gr) ==
    LET emitted(i) == {x[2] : x \in {y \in decompose_flow(fl[i], gr) : y[1] = d}}
        before(i) == default_rules(d) \cup UNION {emitted(j) : j \in 1..(i - 1)}
    IN  default_rules(d)
          \cup UNION {{r \in emitted(i) : \A q \in before(i) : ~SameId(q, r)} :
                        i \in DOMAIN fl}

Decomposable(fl, gr, up) == \A i \in DOMAIN fl : ~raises(fl[i], gr, up)

-----------------------------------------------------------------------------
(* The cache.  It is filled by the first decomposition after a logical     *)
(* port was added; ONUs wired since are not in the cached graph.           *)

Filled == IF cache = None THEN [up |-> Up, graph |-> InGraph] ELSE cache

\* Mutant: devices that no flow mentions keep their rules.
TableUpdated_KeepsRest(fl, gr, ds) ==
    IF Decomposable(fl, gr, Filled.up)
      THEN [d \in Devices |->
              IF \E i \in DOMAIN fl : \E x \in decompose_flow(fl[i], gr) : x[1] = d
                THEN rules_of(d, fl, gr) ELSE ds[d]]
      ELSE ds

(* The device tables after a table callback ran on tables fl and gr.       *)
TableUpdated(fl, gr, ds) ==
    IF Decomposable(fl, gr, Filled.up)
      THEN [d \in Devices |-> IF d \in Filled.graph \cup {OLT}
                                THEN rules_of(d, fl, gr) ELSE ds[d]]
      ELSE ds

(* flows_proxy.update and groups_proxy.update: an update with the data     *)
(* that is already there is not announced.                                 *)
Write(fl, gr, ds) ==
    /\ flows' = fl
    /\ groups' = gr
    /\ devs' = ds
    /\ IF fl = flows /\ gr = groups
         THEN UNCHANGED <<cache, pushedAt>>
         ELSE cache' = Filled /\ pushedAt' = Up
    /\ UNCHANGED stage

WriteFlows(fl) ==
    Write(fl, groups, IF fl = flows THEN devs ELSE TableUpdated(fl, groups, devs))

WriteGroups(gr) ==
    Write(flows, gr, IF gr = groups THEN devs ELSE TableUpdated(flows, gr, devs))

-----------------------------------------------------------------------------
Init ==
    /\ flows = <<>>
    /\ groups = [g \in Groups |-> None]
    /\ stage = [o \in Onus |-> "absent"]
    /\ cache = None
    /\ devs = [d \in Devices |-> {}]
    /\ pushedAt = {None}

\* Mutant: no entry is ever replaced.
flow_add_Appends(f) ==
    /\ Len(flows) < MaxFlows
    /\ WriteFlows(Append(flows, f))

(* flow_add.  find_overlapping_flows finds nothing, so a flow with the     *)
(* check-overlap flag is always appended.                                  *)
flow_add(f) ==
    \/ /\ "overlap" \in f.flags \/ find_flow(flows, f) = {}
       /\ Len(flows) < MaxFlows
       /\ WriteFlows(Append(flows, f))
    \/ /\ "overlap" \notin f.flags
       /\ \E i \in find_flow(flows, f) : WriteFlows([flows EXCEPT ![i] = f])

(* flow_delete.  The announcement of a removed flow that asks for one      *)
(* raises after the write.                                                 *)
flow_delete(spec) ==
    WriteFlows(Without(flows, {i \in DOMAIN flows : flow_matches_spec(flows[i], spec)}))

flow_delete_strict(f) ==
    \E i \in find_flow(flows, f) : WriteFlows(Without(flows, {i}))

group_add(g, buckets) ==
    /\ groups[g] = None
    /\ WriteGroups([groups EXCEPT ![g] = buckets])

group_modify(g, buckets) ==
    /\ groups[g] # None
    /\ WriteGroups([groups EXCEPT ![g] = buckets])

(* group_delete of one group.  The flows that refer to it go with it, but  *)
(* the announcement of a flow that asks for one raises before anything is  *)
(* written.  The groups are written, and decomposed, first.                *)
group_delete(g) ==
    LET drop == {i \in DOMAIN flows : flow_has_out_group(flows[i], g)}
        fl == Without(flows, drop)
        gr == [groups EXCEPT ![g] = None]
        ds == TableUpdated(flows, gr, devs)
    IN  /\ groups[g] # None
        /\ \A i \in drop : "rem" \notin flows[i].flags
        /\ Write(fl, gr, IF fl = flows THEN ds ELSE TableUpdated(fl, gr, ds))

(* group_delete with OFPG_ALL leaves the flows alone.                      *)
group_delete_all == WriteGroups([g \in Groups |-> None])

-----------------------------------------------------------------------------
(* The activation of an ONU: its handler adds the UNI and the PON port,    *)
(* the latter linked to the OLT's, and after a pause the logical port,     *)
(* which empties the cache.  Neither pushes any rules.                     *)

add_port(o) ==
    /\ stage[o] = "absent"
    /\ stage' = [stage EXCEPT ![o] = "wired"]
    /\ UNCHANGED <<flows, groups, cache, devs, pushedAt>>

\* Mutant: the cache is not emptied.
port_added_KeepsCache(o) ==
    /\ stage[o] = "wired"
    /\ stage' = [stage EXCEPT ![o] = "up"]
    /\ UNCHANGED <<flows, groups, cache, devs, pushedAt>>

port_added(o) ==
    /\ stage[o] = "wired"
    /\ stage' = [stage EXCEPT ![o] = "up"]
    /\ cache' = None
    /\ UNCHANGED <<flows, groups, devs, pushedAt>>

(* Every request names a flow, a specification or a group.                 *)
Specs == [table : {Any} \cup {f.table : f \in FlowMods},
          out : {Any} \cup ({f.out : f \in FlowMods} \ {None}),
          group : {Any} \cup Groups]

Next ==
    \/ \E f \in FlowMods : flow_add(f) \/ flow_delete_strict(f)
    \/ \E spec \in Specs : flow_delete(spec)
    \/ \E g \in Groups, b \in SUBSET Onus : group_add(g, b) \/ group_modify(g, b)
    \/ \E g \in Groups : group_delete(g)
    \/ group_delete_all
    \/ \E o \in Onus : add_port(o) \/ port_added(o)

Spec == Init /\ [][Next]_vars

-----------------------------------------------------------------------------
(* The state is well formed: a group that exists has a set of buckets, and *)
(* the cache is empty or holds the ONUs it was computed from.              *)
TypeOK ==
    /\ flows \in Seq(FlowMods)
    /\ groups \in [Groups -> {None} \cup SUBSET Onus]
    /\ stage \in [Onus -> {"absent", "wired", "up"}]
    /\ cache \in {None} \cup [up : SUBSET Onus, graph : SUBSET Onus]
    /\ pushedAt \in SUBSET Onus \cup {{None}}

(* Whatever the order of activations and table changes, the cached routes  *)
(* (_assure_cached_tables_up_to_date) are those of the logical ports that  *)
(* exist now, and every ONU they lead to is in the cached graph, so that   *)
(* its default rules are known.                                            *)
RoutesFresh ==
    cache # None => cache.up = Up /\ Up \subseteq cache.graph

(* The device tables follow the logical tables.  Unless a logical port was *)
(* added since the last change of a table, or some flow cannot be          *)
(* decomposed, the OLT and every ONU with a logical port hold exactly the  *)
(* default rules and the decomposition of the tables as they are now:      *)
(* nothing is missing and nothing is left over, also after a group delete  *)
(* that writes both tables, after failed decompositions and with routes    *)
(* cached while other ONUs were being activated.                           *)
DevicesFollow ==
    pushedAt = Up /\ Decomposable(flows, groups, Up) =>
        \A d \in Up \cup {OLT} : devs[d] = rules_of(d, flows, groups)

(* An ONU that has no ports yet is never given rules: no route, cached or  *)
(* not, leads to it.                                                       *)
AbsentUntouched ==
    \A o \in Onus : stage[o] = "absent" => devs[o] = {}

(* flow_add finds the entry it replaces: two entries with the same table,  *)
(* priority, cookie, flags and match exist only if the flag for the        *)
(* overlap check, which is not implemented, was set.                       *)
FlowsUnique ==
    \A i, j \in DOMAIN flows :
        i # j /\ flow_match(flows[i], flows[j]) => "overlap" \in flows[i].flags
=============================================================================
