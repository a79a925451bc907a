----------------------------- MODULE OF12Common -----------------------------
\* The classes of ofagent/loxi/of12/: action.py, common.py, instruction.py.
\* See Layout.
EXTENDS Layout

-----------------------------------------------------------------------------
\* action.py

action_to_bsn_checksum ==
    { Root("action.action", Peek(2, 0),
       <<Num("type", 2), Length(4), Zeros(4)>>),
      Node("action.experimenter", "action.action", H(65535), Peek(4, 4),
       <<Const(H(65535)), Length(4), Num("experimenter", 4), Rest("data"),
         Fill>>),
      Node("action.bsn", "action.experimenter", L(6035143), Peek(4, 8),
       <<Const(H(65535)), Length(4), Const(L(6035143)), Num("subtype", 4),
         Zeros(4)>>),
      Leaf("action.bsn_checksum", "action.bsn", L(4),
       <<Const(H(65535)), Length(4), Const(L(6035143)), Const(L(4)),
         Num("checksum", 16)>>) }

bsn_mirror_to_dec_mpls_ttl ==
    { Leaf("action.bsn_mirror", "action.bsn", L(1),
       <<Const(H(65535)), Length(4), Const(L(6035143)), Const(L(1)),
         Num("dest_port", 4), Num("vlan_tag", 4), Num("copy_stage", 1),
         Zeros(3)>>),
      Leaf("action.bsn_set_tunnel_dst", "action.bsn", L(2),
       <<Const(H(65535)), Length(4), Const(L(6035143)), Const(L(2)),
         Num("dst", 4)>>),
      Leaf("action.copy_ttl_in", "action.action", H(12),
       <<Const(H(12)), Length(4), Zeros(4)>>),
      Leaf("action.copy_ttl_out", "action.action", H(11),
       <<Const(H(11)), Length(4), Zeros(4)>>),
      Leaf("action.dec_mpls_ttl", "action.action", H(16),
       <<Const(H(16)), Length(4), Zeros(4)>>) }

dec_nw_ttl_to_output ==
    { Leaf("action.dec_nw_ttl", "action.action", H(24),
       <<Const(H(24)), Length(4), Zeros(4)>>),
      Leaf("action.group", "action.action", H(22),
       <<Const(H(22)), Length(4), Num("group_id", 4)>>),
      Node("action.nicira", "action.experimenter", L(8992), Peek(2, 8),
       <<Const(H(65535)), Length(4), Const(L(8992)), Num("subtype", 2),
         Zeros(2), Zeros(4)>>),
      Leaf("action.nicira_dec_ttl", "action.nicira", H(18),
       <<Const(H(65535)), Length(4), Const(L(8992)), Const(H(18)), Zeros(2),
         Zeros(4)>>),
      Leaf("action.output", "action.action", H(0),
       <<Const(H(0)), Length(4), Num("port", 4), Num("max_len", 2),
         Zeros(6)>>) }

pop_mpls_to_set_field ==
    { Leaf("action.pop_mpls", "action.action", H(20),
       <<Const(H(20)), Length(4), Num("ethertype", 2), Zeros(2)>>),
      Leaf("action.pop_vlan", "action.action", H(18),
       <<Const(H(18)), Length(4), Zeros(4)>>),
      Leaf("action.push_mpls", "action.action", H(19),
       <<Const(H(19)), Length(4), Num("ethertype", 2), Zeros(2)>>),
      Leaf("action.push_vlan", "action.action", H(17),
       <<Const(H(17)), Length(4), Num("ethertype", 2), Zeros(2)>>),
      Leaf("action.set_field", "action.action", H(25),
       <<Const(H(25)), Length(4), Object("field", "oxm.oxm"), Fill>>) }

set_mpls_ttl_to_set_queue ==
    { Leaf("action.set_mpls_ttl", "action.action", H(15),
       <<Const(H(15)), Length(4), Num("mpls_ttl", 1), Zeros(3)>>),
      Leaf("action.set_nw_ttl", "action.action", H(23),
       <<Const(H(23)), Length(4), Num("nw_ttl", 1), Zeros(3)>>),
      Leaf("action.set_queue", "action.action", H(21),
       <<Const(H(21)), Length(4), Num("queue_id", 4)>>) }

-----------------------------------------------------------------------------
\* common.py

bsn_interface_to_bsn_vport_l2gre ==
    { Plain("common.bsn_interface",
       <<Mac("hw_addr"), Zeros(2), Text("name", 16), Num("ipv4_addr", 4),
         Num("ipv4_netmask", 4)>>),
      Root("common.bsn_vport", Peek(2, 0),
       <<Num("type", 2), Length(4)>>),
      Leaf("common.bsn_vport_l2gre", "common.bsn_vport", H(1),
       <<Const(H(1)), Length(4), Num("flags", 4), Num("port_no", 4),
         Num("loopback_port_no", 4), Mac("local_mac"), Mac("nh_mac"),
         Num("src_ip", 4), Num("dst_ip", 4), Num("dscp", 1), Num("ttl", 1),
         Zeros(2), Num("vpn", 4), Num("rate_limit", 4), Text("if_name", 16)>>) }

bsn_vport_q_in_q_to_bucket_counter ==
    { Leaf("common.bsn_vport_q_in_q", "common.bsn_vport", H(0),
       <<Const(H(0)), Length(4), Num("port_no", 4), Num("ingress_tpid", 2),
         Num("ingress_vlan_id", 2), Num("egress_tpid", 2),
         Num("egress_vlan_id", 2), Text("if_name", 16)>>),
      Plain("common.bucket",
       <<Length(2), Num("weight", 2), Num("watch_port", 4),
         Num("watch_group", 4), Zeros(4), List("actions", "action.action")>>),
      Plain("common.bucket_counter",
       <<Num("packet_count", 8), Num("byte_count", 8)>>) }

flow_stats_entry_to_group_desc_stats_entry ==
    { Plain("common.flow_stats_entry",
       <<Length(2), Num("table_id", 1), Zeros(1), Num("duration_sec", 4),
         Num("duration_nsec", 4), Num("priority", 2), Num("idle_timeout", 2),
         Num("hard_timeout", 2), Zeros(6), Num("cookie", 8),
         Num("packet_count", 8), Num("byte_count", 8),
         Object("match", "common.match_v3"),
         List("instructions", "instruction.instruction")>>),
      Plain("common.group_desc_stats_entry",
       <<Length(2), Num("group_type", 1), Zeros(1), Num("group_id", 4),
         List("buckets", "common.bucket")>>) }

group_stats_entry_to_packet_queue ==
    { Plain("common.group_stats_entry",
       <<Length(2), Zeros(2), Num("group_id", 4), Num("ref_count", 4),
         Zeros(4), Num("packet_count", 8), Num("byte_count", 8),
         List("bucket_stats", "common.bucket_counter")>>),
      Plain("common.match_v3",
       <<Const(H(1)), Length(4), List("oxm_list", "oxm.oxm"), Align>>),
      Plain("common.packet_queue",
       <<Num("queue_id", 4), Num("port", 4), Length(10), Zeros(6),
         List("properties", "common.queue_prop")>>) }

port_desc_to_port_stats_entry ==
    { Plain("common.port_desc",
       <<Num("port_no", 4), Zeros(4), Mac("hw_addr"), Zeros(2),
         Text("name", 16), Num("config", 4), Num("state", 4), Num("curr", 4),
         Num("advertised", 4), Num("supported", 4), Num("peer", 4),
         Num("curr_speed", 4), Num("max_speed", 4)>>),
      Plain("common.port_stats_entry",
       <<Num("port_no", 4), Zeros(4), Num("rx_packets", 8),
         Num("tx_packets", 8), Num("rx_bytes", 8), Num("tx_bytes", 8),
         Num("rx_dropped", 8), Num("tx_dropped", 8), Num("rx_errors", 8),
         Num("tx_errors", 8), Num("rx_frame_err", 8), Num("rx_over_err", 8),
         Num("rx_crc_err", 8), Num("collisions", 8)>>) }

queue_prop_to_queue_prop_min_rate ==
    { Root("common.queue_prop", Peek(2, 0),
       <<Num("type", 2), Length(4), Zeros(4)>>),
      Node("common.queue_prop_experimenter", "common.queue_prop", H(65535), Peek(4, 8),
       <<Const(H(65535)), Length(4), Zeros(4), Num("experimenter", 4),
         Zeros(4), Rest("data")>>),
      Leaf("common.queue_prop_max_rate", "common.queue_prop", H(2),
       <<Const(H(2)), Length(4), Zeros(4), Num("rate", 2), Zeros(6)>>),
      Leaf("common.queue_prop_min_rate", "common.queue_prop", H(1),
       <<Const(H(1)), Length(4), Zeros(4), Num("rate", 2), Zeros(6)>>) }

queue_stats_entry_to_table_stats_entry ==
    { Plain("common.queue_stats_entry",
       <<Num("port_no", 4), Num("queue_id", 4), Num("tx_bytes", 8),
         Num("tx_packets", 8), Num("tx_errors", 8)>>),
      Plain("common.table_stats_entry",
       <<Num("table_id", 1), Zeros(7), Text("name", 32), Num("match", 8),
         Num("wildcards", 8), Num("write_actions", 4),
         Num("apply_actions", 4), Num("write_setfields", 8),
         Num("apply_setfields", 8), Num("metadata_match", 8),
         Num("metadata_write", 8), Num("instructions", 4), Num("config", 4),
         Num("max_entries", 4), Num("active_count", 4),
         Num("lookup_count", 8), Num("matched_count", 8)>>) }

-----------------------------------------------------------------------------
\* instruction.py

instruction_to_goto_table ==
    { Root("instruction.instruction", Peek(2, 0),
       <<Num("type", 2), Length(4), Zeros(4)>>),
      Leaf("instruction.apply_actions", "instruction.instruction", H(4),
       <<Const(H(4)), Length(4), Zeros(4), List("actions", "action.action")>>),
      Leaf("instruction.clear_actions", "instruction.instruction", H(5),
       <<Const(H(5)), Length(4), Zeros(4)>>),
      Node("instruction.experimenter", "instruction.instruction", H(65535), Peek(4, 4),
       <<Const(H(65535)), Length(4), Num("experimenter", 4), Rest("data")>>),
      Leaf("instruction.goto_table", "instruction.instruction", H(1),
       <<Const(H(1)), Length(4), Num("table_id", 1), Zeros(3)>>) }

write_actions_to_write_metadata ==
    { Leaf("instruction.write_actions", "instruction.instruction", H(3),
       <<Const(H(3)), Length(4), Zeros(4), List("actions", "action.action")>>),
      Leaf("instruction.write_metadata", "instruction.instruction", H(2),
       <<Const(H(2)), Length(4), Zeros(4), Num("metadata", 8),
         Num("metadata_mask", 8)>>) }

-----------------------------------------------------------------------------

Classes ==
    UNION {action_to_bsn_checksum, bsn_mirror_to_dec_mpls_ttl,
      dec_nw_ttl_to_output, pop_mpls_to_set_field, set_mpls_ttl_to_set_queue,
      bsn_interface_to_bsn_vport_l2gre, bsn_vport_q_in_q_to_bucket_counter,
      flow_stats_entry_to_group_desc_stats_entry,
      group_stats_entry_to_packet_queue, port_desc_to_port_stats_entry,
      queue_prop_to_queue_prop_min_rate,
      queue_stats_entry_to_table_stats_entry, instruction_to_goto_table,
      write_actions_to_write_metadata}
=============================================================================
