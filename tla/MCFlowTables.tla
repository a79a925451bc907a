---------------------------- MODULE MCFlowTables ----------------------------
(* An instance of FlowTables with two ONUs, one group and one flow of each *)
(* kind that decompose_flow tells apart.                                   *)
EXTENDS FlowTables

CONSTANTS o1, o2, g1

Flow(table, flags, in, vlan, dst, acts, out, group, goto) ==
    [table |-> table, prio |-> "1000", flags |-> flags, in |-> in,
     vlan |-> vlan, dst |-> dst, acts |-> acts, out |-> out,
     group |-> group, goto |-> goto]

MCOnus == {o1, o2}

MCFlowMods == {
    \* packets of any subscriber to the controller
    Flow(0, {}, None, None, "eapol", <<>>, Controller, None, FALSE),
    \* the two halves of an upstream path, the second also with other actions
    Flow(0, {}, o1, "0", None, <<"c101">>, None, None, TRUE),
    Flow(1, {}, o1, "c101", None, <<"s1">>, NNI, None, FALSE),
    Flow(1, {}, o1, "c101", None, <<"s2">>, NNI, None, FALSE),
    \* the two halves of a downstream path
    Flow(0, {}, NNI, "s1", None, <<"pop">>, None, None, TRUE),
    Flow(1, {"overlap"}, NNI, "c102", None, <<"c0">>, o2, None, FALSE),
    \* multicast, once with a request for a flow-removed message
    Flow(0, {}, NNI, "140", "224.1", <<>>, None, g1, FALSE),
    Flow(0, {"rem"}, NNI, "140", "224.1", <<>>, None, g1, FALSE),
    \* no apply-actions instruction
    Flow(0, {}, o2, None, None, None, None, None, TRUE)}
=============================================================================
