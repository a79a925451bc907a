----------------------------- MODULE OF10Common -----------------------------
\* The classes of ofagent/loxi/of10/: action.py, common.py.  See Layout.
EXTENDS Layout

-----------------------------------------------------------------------------
\* action.py

action_to_bsn_checksum ==
    { Root("action.action", Peek(2, 0),
       <<Num("type", 2), Length(4), Zeros(4)>>),
      Node("action.experimenter", "action.action", H(65535), Peek(4, 4),
       <<Const(H(65535)), Length(4), Num("experimenter", 4), Rest("data")>>),
      Node("action.bsn", "action.experimenter", L(6035143), Peek(4, 8),
       <<Const(H(65535)), Length(4), Const(L(6035143)), Num("subtype", 4),
         Zeros(4)>>),
      Leaf("action.bsn_checksum", "action.bsn", L(4),
       <<Const(H(65535)), Length(4), Const(L(6035143)), Const(L(4)),
         Num("checksum", 16)>>) }

bsn_mirror_to_nicira ==
    { Leaf("action.bsn_mirror", "action.bsn", L(1),
       <<Const(H(65535)), Length(4), Const(L(6035143)), Const(L(1)),
         Num("dest_port", 4), Num("vlan_tag", 4), Num("copy_stage", 1),
         Zeros(3)>>),
      Leaf("action.bsn_set_tunnel_dst", "action.bsn", L(2),
       <<Const(H(65535)), Length(4), Const(L(6035143)), Const(L(2)),
         Num("dst", 4)>>),
      Leaf("action.enqueue", "action.action", H(11),
       <<Const(H(11)), Length(4), Num("port", 2), Zeros(6),
         Num("queue_id", 4)>>),
      Node("action.nicira", "action.experimenter", L(8992), Peek(2, 8),
       <<Const(H(65535)), Length(4), Const(L(8992)), Num("subtype", 2),
         Zeros(2), Zeros(4)>>) }

nicira_dec_ttl_to_set_nw_dst ==
    { Leaf("action.nicira_dec_ttl", "action.nicira", H(18),
       <<Const(H(65535)), Length(4), Const(L(8992)), Const(H(18)), Zeros(2),
         Zeros(4)>>),
      Leaf("action.output", "action.action", H(0),
       <<Const(H(0)), Length(4), Num("port", 2), Num("max_len", 2)>>),
      Leaf("action.set_dl_dst", "action.action", H(5),
       <<Const(H(5)), Length(4), Mac("dl_addr"), Zeros(6)>>),
      Leaf("action.set_dl_src", "action.action", H(4),
       <<Const(H(4)), Length(4), Mac("dl_addr"), Zeros(6)>>),
      Leaf("action.set_nw_dst", "action.action", H(7),
       <<Const(H(7)), Length(4), Num("nw_addr", 4)>>) }

set_nw_src_to_set_vlan_pcp ==
    { Leaf("action.set_nw_src", "action.action", H(6),
       <<Const(H(6)), Length(4), Num("nw_addr", 4)>>),
      Leaf("action.set_nw_tos", "action.action", H(8),
       <<Const(H(8)), Length(4), Num("nw_tos", 1), Zeros(3)>>),
      Leaf("action.set_tp_dst", "action.action", H(10),
       <<Const(H(10)), Length(4), Num("tp_port", 2), Zeros(2)>>),
      Leaf("action.set_tp_src", "action.action", H(9),
       <<Const(H(9)), Length(4), Num("tp_port", 2), Zeros(2)>>),
      Leaf("action.set_vlan_pcp", "action.action", H(2),
       <<Const(H(2)), Length(4), Num("vlan_pcp", 1), Zeros(3)>>) }

set_vlan_vid_to_strip_vlan ==
    { Leaf("action.set_vlan_vid", "action.action", H(1),
       <<Const(H(1)), Length(4), Num("vlan_vid", 2), Zeros(2)>>),
      Leaf("action.strip_vlan", "action.action", H(3),
       <<Const(H(3)), Length(4), Zeros(4)>>) }

-----------------------------------------------------------------------------
\* common.py

bsn_interface_to_bsn_vport_l2gre ==
    { Plain("common.bsn_interface",
       <<Mac("hw_addr"), Zeros(2), Text("name", 16), Num("ipv4_addr", 4),
         Num("ipv4_netmask", 4)>>),
      Root("common.bsn_vport", Peek(2, 0),
       <<Num("type", 2), Length(4)>>),
      Leaf("common.bsn_vport_l2gre", "common.bsn_vport", H(1),
       <<Const(H(1)), Length(4), Num("flags", 4), Num("port_no", 2),
         Num("loopback_port_no", 2), Mac("local_mac"), Mac("nh_mac"),
         Num("src_ip", 4), Num("dst_ip", 4), Num("dscp", 1), Num("ttl", 1),
         Zeros(2), Num("vpn", 4), Num("rate_limit", 4), Text("if_name", 16)>>) }

bsn_vport_q_in_q_to_flow_stats_entry ==
    { Leaf("common.bsn_vport_q_in_q", "common.bsn_vport", H(0),
       <<Const(H(0)), Length(4), Num("port_no", 4), Num("ingress_tpid", 2),
         Num("ingress_vlan_id", 2), Num("egress_tpid", 2),
         Num("egress_vlan_id", 2), Text("if_name", 16)>>),
      Plain("common.flow_stats_entry",
       <<Length(2), Num("table_id", 1), Zeros(1),
         Object("match", "common.match_v1"), Num("duration_sec", 4),
         Num("duration_nsec", 4), Num("priority", 2), Num("idle_timeout", 2),
         Num("hard_timeout", 2), Zeros(6), Num("cookie", 8),
         Num("packet_count", 8), Num("byte_count", 8),
         List("actions", "action.action")>>) }

match_v1_to_packet_queue ==
    { Plain("common.match_v1",
       <<Num("wildcards", 4), Num("in_port", 2), Mac("eth_src"),
         Mac("eth_dst"), Num("vlan_vid", 2), Num("vlan_pcp", 1), Zeros(1),
         Num("eth_type", 2), Num("ip_dscp", 1), Num("ip_proto", 1), Zeros(2),
         Num("ipv4_src", 4), Num("ipv4_dst", 4), Num("tcp_src", 2),
         Num("tcp_dst", 2)>>),
      Plain("common.packet_queue",
       <<Num("queue_id", 4), Length(6), Zeros(2),
         List("properties", "common.queue_prop")>>) }

port_desc_to_port_stats_entry ==
    { Plain("common.port_desc",
       <<Num("port_no", 2), Mac("hw_addr"), Text("name", 16),
         Num("config", 4), Num("state", 4), Num("curr", 4),
         Num("advertised", 4), Num("supported", 4), Num("peer", 4)>>),
      Plain("common.port_stats_entry",
       <<Num("port_no", 2), Zeros(6), Num("rx_packets", 8),
         Num("tx_packets", 8), Num("rx_bytes", 8), Num("tx_bytes", 8),
         Num("rx_dropped", 8), Num("tx_dropped", 8), Num("rx_errors", 8),
         Num("tx_errors", 8), Num("rx_frame_err", 8), Num("rx_over_err", 8),
         Num("rx_crc_err", 8), Num("collisions", 8)>>) }

queue_prop_to_table_stats_entry ==
    { Root("common.queue_prop", Peek(2, 0),
       <<Num("type", 2), Length(4), Zeros(4)>>),
      Leaf("common.queue_prop_min_rate", "common.queue_prop", H(1),
       <<Const(H(1)), Length(4), Zeros(4), Num("rate", 2), Zeros(6)>>),
      Plain("common.queue_stats_entry",
       <<Num("port_no", 2), Zeros(2), Num("queue_id", 4), Num("tx_bytes", 8),
         Num("tx_packets", 8), Num("tx_errors", 8)>>),
      Plain("common.table_stats_entry",
       <<Num("table_id", 1), Zeros(3), Text("name", 32), Num("wildcards", 4),
         Num("max_entries", 4), Num("active_count", 4),
         Num("lookup_count", 8), Num("matched_count", 8)>>) }

-----------------------------------------------------------------------------

Classes ==
    UNION {action_to_bsn_checksum, bsn_mirror_to_nicira,
      nicira_dec_ttl_to_set_nw_dst, set_nw_src_to_set_vlan_pcp,
      set_vlan_vid_to_strip_vlan, bsn_interface_to_bsn_vport_l2gre,
      bsn_vport_q_in_q_to_flow_stats_entry, match_v1_to_packet_queue,
      port_desc_to_port_stats_entry, queue_prop_to_table_stats_entry}
=============================================================================
