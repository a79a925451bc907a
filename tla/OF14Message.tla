---------------------------- MODULE OF14Message -----------------------------
\* The classes of ofagent/loxi/of14/message.py, see Layout.
EXTENDS Layout

message_to_aggregate_stats_reply ==
    { Root("message.message", Peek(1, 1),
       <<Const(B(5)), Num("type", 1), Length(4), Num("xid", 4)>>),
      Node("message.stats_reply", "message.message", B(19), Peek(2, 8),
       <<Const(B(5)), Const(B(19)), Length(4), Num("xid", 4),
         Num("stats_type", 2), Num("flags", 2), Zeros(4)>>),
      Leaf("message.aggregate_stats_reply", "message.stats_reply", H(2),
       <<Const(B(5)), Const(B(19)), Length(4), Num("xid", 4), Const(H(2)),
         Num("flags", 2), Zeros(4), Num("packet_count", 8),
         Num("byte_count", 8), Num("flow_count", 4), Zeros(4)>>) }

stats_request_to_aggregate_stats_request ==
    { Node("message.stats_request", "message.message", B(18), Peek(2, 8),
       <<Const(B(5)), Const(B(18)), Length(4), Num("xid", 4),
         Num("stats_type", 2), Num("flags", 2), Zeros(4)>>),
      Leaf("message.aggregate_stats_request", "message.stats_request", H(2),
       <<Const(B(5)), Const(B(18)), Length(4), Num("xid", 4), Const(H(2)),
         Num("flags", 2), Zeros(4), Num("table_id", 1), Zeros(3),
         Num("out_port", 4), Num("out_group", 4), Zeros(4), Num("cookie", 8),
         Num("cookie_mask", 8), Object("match", "common.match_v3")>>) }

error_msg_to_async_get_request ==
    { Node("message.error_msg", "message.message", B(1), Peek(2, 8),
       <<Const(B(5)), Const(B(1)), Length(4), Num("xid", 4),
         Num("err_type", 2)>>),
      Leaf("message.async_config_failed_error_msg", "message.error_msg", H(15),
       <<Const(B(5)), Const(B(1)), Length(4), Num("xid", 4), Const(H(15)),
         Num("code", 2), Rest("data")>>),
      Leaf("message.async_get_reply", "message.message", B(27),
       <<Const(B(5)), Const(B(27)), Length(4), Num("xid", 4),
         List("properties", "async_config_prop.async_config_prop")>>),
      Leaf("message.async_get_request", "message.message", B(26),
       <<Const(B(5)), Const(B(26)), Length(4), Num("xid", 4)>>) }

async_set_to_bad_instruction_error_msg ==
    { Leaf("message.async_set", "message.message", B(28),
       <<Const(B(5)), Const(B(28)), Length(4), Num("xid", 4),
         List("properties", "async_config_prop.async_config_prop")>>),
      Leaf("message.bad_action_error_msg", "message.error_msg", H(2),
       <<Const(B(5)), Const(B(1)), Length(4), Num("xid", 4), Const(H(2)),
         Num("code", 2), Rest("data")>>),
      Leaf("message.bad_instruction_error_msg", "message.error_msg", H(3),
       <<Const(B(5)), Const(B(1)), Length(4), Num("xid", 4), Const(H(3)),
         Num("code", 2), Rest("data")>>) }

bad_match_error_msg_to_bad_request_error_msg ==
    { Leaf("message.bad_match_error_msg", "message.error_msg", H(4),
       <<Const(B(5)), Const(B(1)), Length(4), Num("xid", 4), Const(H(4)),
         Num("code", 2), Rest("data")>>),
      Leaf("message.bad_property_error_msg", "message.error_msg", H(14),
       <<Const(B(5)), Const(B(1)), Length(4), Num("xid", 4), Const(H(14)),
         Num("code", 2), Rest("data")>>),
      Leaf("message.bad_request_error_msg", "message.error_msg", H(1),
       <<Const(B(5)), Const(B(1)), Length(4), Num("xid", 4), Const(H(1)),
         Num("code", 2), Rest("data")>>) }

barrier_reply_to_bsn_header ==
    { Leaf("message.barrier_reply", "message.message", B(21),
       <<Const(B(5)), Const(B(21)), Length(4), Num("xid", 4)>>),
      Leaf("message.barrier_request", "message.message", B(20),
       <<Const(B(5)), Const(B(20)), Length(4), Num("xid", 4)>>),
      Node("message.experimenter", "message.message", B(4), Peek(4, 8),
       <<Const(B(5)), Const(B(4)), Length(4), Num("xid", 4),
         Num("experimenter", 4), Num("subtype", 4), Rest("data")>>),
      Node("message.bsn_header", "message.experimenter", L(6035143), Peek(4, 12),
       <<Const(B(5)), Const(B(4)), Length(4), Num("xid", 4),
         Const(L(6035143)), Num("subtype", 4)>>) }

bsn_arp_idle_to_bsn_base_error ==
    { Leaf("message.bsn_arp_idle", "message.bsn_header", L(60),
       <<Const(B(5)), Const(B(4)), Length(4), Num("xid", 4),
         Const(L(6035143)), Const(L(60)), Num("vlan_vid", 2), Zeros(2),
         Num("ipv4_addr", 4)>>),
      Node("message.experimenter_error_msg", "message.error_msg", H(65535), Peek(4, 12),
       <<Const(B(5)), Const(B(1)), Length(4), Num("xid", 4), Const(H(65535)),
         Num("subtype", 2), Num("experimenter", 4), Rest("data")>>),
      Node("message.bsn_base_error", "message.experimenter_error_msg", L(6035143), Peek(2, 10),
       <<Const(B(5)), Const(B(1)), Length(4), Num("xid", 4), Const(H(65535)),
         Num("subtype", 2), Const(L(6035143)), Text("err_msg", 256),
         Rest("data")>>) }

bsn_bw_clear_data_reply_to_bsn_bw_enable_get_request ==
    { Leaf("message.bsn_bw_clear_data_reply", "message.bsn_header", L(22),
       <<Const(B(5)), Const(B(4)), Length(4), Num("xid", 4),
         Const(L(6035143)), Const(L(22)), Num("status", 4)>>),
      Leaf("message.bsn_bw_clear_data_request", "message.bsn_header", L(21),
       <<Const(B(5)), Const(B(4)), Length(4), Num("xid", 4),
         Const(L(6035143)), Const(L(21))>>),
      Leaf("message.bsn_bw_enable_get_reply", "message.bsn_header", L(20),
       <<Const(B(5)), Const(B(4)), Length(4), Num("xid", 4),
         Const(L(6035143)), Const(L(20)), Num("enabled", 4)>>),
      Leaf("message.bsn_bw_enable_get_request", "message.bsn_header", L(19),
       <<Const(B(5)), Const(B(4)), Length(4), Num("xid", 4),
         Const(L(6035143)), Const(L(19))>>) }

bsn_bw_enable_set_reply_to_bsn_controller_connections_reply ==
    { Leaf("message.bsn_bw_enable_set_reply", "message.bsn_header", L(23),
       <<Const(B(5)), Const(B(4)), Length(4), Num("xid", 4),
         Const(L(6035143)), Const(L(23)), Num("enable", 4),
         Num("status", 4)>>),
      Leaf("message.bsn_bw_enable_set_request", "message.bsn_header", L(18),
       <<Const(B(5)), Const(B(4)), Length(4), Num("xid", 4),
         Const(L(6035143)), Const(L(18)), Num("enable", 4)>>),
      Leaf("message.bsn_controller_connections_reply", "message.bsn_header", L(57),
       <<Const(B(5)), Const(B(4)), Length(4), Num("xid", 4),
         Const(L(6035143)), Const(L(57)),
         List("connections", "common.bsn_controller_connection")>>) }

bsn_controller_connections_request_to_bsn_stats_reply ==
    { Leaf("message.bsn_controller_connections_request", "message.bsn_header", L(56),
       <<Const(B(5)), Const(B(4)), Length(4), Num("xid", 4),
         Const(L(6035143)), Const(L(56))>>),
      Node("message.experimenter_stats_reply", "message.stats_reply", H(65535), Peek(4, 16),
       <<Const(B(5)), Const(B(19)), Length(4), Num("xid", 4), Const(H(65535)),
         Num("flags", 2), Zeros(4), Num("experimenter", 4),
         Num("subtype", 4)>>),
      Node("message.bsn_stats_reply", "message.experimenter_stats_reply", L(6035143), Peek(4, 20),
       <<Const(B(5)), Const(B(19)), Length(4), Num("xid", 4), Const(H(65535)),
         Num("flags", 2), Zeros(4), Const(L(6035143)), Num("subtype", 4)>>) }

bsn_debug_counter_desc_stats_reply_to_bsn_stats_request ==
    { Leaf("message.bsn_debug_counter_desc_stats_reply", "message.bsn_stats_reply", L(13),
       <<Const(B(5)), Const(B(19)), Length(4), Num("xid", 4), Const(H(65535)),
         Num("flags", 2), Zeros(4), Const(L(6035143)), Const(L(13)),
         List("entries", "common.bsn_debug_counter_desc_stats_entry")>>),
      Node("message.experimenter_stats_request", "message.stats_request", H(65535), Peek(4, 16),
       <<Const(B(5)), Const(B(18)), Length(4), Num("xid", 4), Const(H(65535)),
         Num("flags", 2), Zeros(4), Num("experimenter", 4),
         Num("subtype", 4)>>),
      Node("message.bsn_stats_request", "message.experimenter_stats_request", L(6035143), Peek(4, 20),
       <<Const(B(5)), Const(B(18)), Length(4), Num("xid", 4), Const(H(65535)),
         Num("flags", 2), Zeros(4), Const(L(6035143)), Num("subtype", 4)>>) }

bsn_debug_counter_desc_stats_request_to_bsn_debug_counter_stats_request ==
    { Leaf("message.bsn_debug_counter_desc_stats_request", "message.bsn_stats_request", L(13),
       <<Const(B(5)), Const(B(18)), Length(4), Num("xid", 4), Const(H(65535)),
         Num("flags", 2), Zeros(4), Const(L(6035143)), Const(L(13))>>),
      Leaf("message.bsn_debug_counter_stats_reply", "message.bsn_stats_reply", L(12),
       <<Const(B(5)), Const(B(19)), Length(4), Num("xid", 4), Const(H(65535)),
         Num("flags", 2), Zeros(4), Const(L(6035143)), Const(L(12)),
         List("entries", "common.bsn_debug_counter_stats_entry")>>),
      Leaf("message.bsn_debug_counter_stats_request", "message.bsn_stats_request", L(12),
       <<Const(B(5)), Const(B(18)), Length(4), Num("xid", 4), Const(H(65535)),
         Num("flags", 2), Zeros(4), Const(L(6035143)), Const(L(12))>>) }

bsn_error_to_bsn_flow_checksum_bucket_stats_request ==
    { Leaf("message.bsn_error", "message.bsn_base_error", H(1),
       <<Const(B(5)), Const(B(1)), Length(4), Num("xid", 4), Const(H(65535)),
         Const(H(1)), Const(L(6035143)), Text("err_msg", 256), Rest("data")>>),
      Leaf("message.bsn_flow_checksum_bucket_stats_reply", "message.bsn_stats_reply", L(10),
       <<Const(B(5)), Const(B(19)), Length(4), Num("xid", 4), Const(H(65535)),
         Num("flags", 2), Zeros(4), Const(L(6035143)), Const(L(10)),
         List("entries", "common.bsn_flow_checksum_bucket_stats_entry")>>),
      Leaf("message.bsn_flow_checksum_bucket_stats_request", "message.bsn_stats_request", L(10),
       <<Const(B(5)), Const(B(18)), Length(4), Num("xid", 4), Const(H(65535)),
         Num("flags", 2), Zeros(4), Const(L(6035143)), Const(L(10)),
         Num("table_id", 1)>>) }

bsn_flow_idle_to_bsn_flow_idle_enable_get_request ==
    { Leaf("message.bsn_flow_idle", "message.bsn_header", L(40),
       <<Const(B(5)), Const(B(4)), Length(4), Num("xid", 4),
         Const(L(6035143)), Const(L(40)), Num("cookie", 8),
         Num("priority", 2), Num("table_id", 1), Zeros(5),
         Object("match", "common.match_v3")>>),
      Leaf("message.bsn_flow_idle_enable_get_reply", "message.bsn_header", L(39),
       <<Const(B(5)), Const(B(4)), Length(4), Num("xid", 4),
         Const(L(6035143)), Const(L(39)), Num("enabled", 4)>>),
      Leaf("message.bsn_flow_idle_enable_get_request", "message.bsn_header", L(38),
       <<Const(B(5)), Const(B(4)), Length(4), Num("xid", 4),
         Const(L(6035143)), Const(L(38))>>) }

bsn_flow_idle_enable_set_reply_to_bsn_generic_async ==
    { Leaf("message.bsn_flow_idle_enable_set_reply", "message.bsn_header", L(37),
       <<Const(B(5)), Const(B(4)), Length(4), Num("xid", 4),
         Const(L(6035143)), Const(L(37)), Num("enable", 4),
         Num("status", 4)>>),
      Leaf("message.bsn_flow_idle_enable_set_request", "message.bsn_header", L(36),
       <<Const(B(5)), Const(B(4)), Length(4), Num("xid", 4),
         Const(L(6035143)), Const(L(36)), Num("enable", 4)>>),
      Leaf("message.bsn_generic_async", "message.bsn_header", L(68),
       <<Const(B(5)), Const(B(4)), Length(4), Num("xid", 4),
         Const(L(6035143)), Const(L(68)), Text("name", 64),
         List("tlvs", "bsn_tlv.bsn_tlv")>>) }

bsn_generic_command_to_bsn_generic_stats_request ==
    { Leaf("message.bsn_generic_command", "message.bsn_header", L(71),
       <<Const(B(5)), Const(B(4)), Length(4), Num("xid", 4),
         Const(L(6035143)), Const(L(71)), Text("name", 64),
         List("tlvs", "bsn_tlv.bsn_tlv")>>),
      Leaf("message.bsn_generic_stats_reply", "message.bsn_stats_reply", L(16),
       <<Const(B(5)), Const(B(19)), Length(4), Num("xid", 4), Const(H(65535)),
         Num("flags", 2), Zeros(4), Const(L(6035143)), Const(L(16)),
         List("entries", "common.bsn_generic_stats_entry")>>),
      Leaf("message.bsn_generic_stats_request", "message.bsn_stats_request", L(16),
       <<Const(B(5)), Const(B(18)), Length(4), Num("xid", 4), Const(H(65535)),
         Num("flags", 2), Zeros(4), Const(L(6035143)), Const(L(16)),
         Text("name", 64), List("tlvs", "bsn_tlv.bsn_tlv")>>) }

bsn_gentable_bucket_stats_reply_to_bsn_gentable_clear_reply ==
    { Leaf("message.bsn_gentable_bucket_stats_reply", "message.bsn_stats_reply", L(5),
       <<Const(B(5)), Const(B(19)), Length(4), Num("xid", 4), Const(H(65535)),
         Num("flags", 2), Zeros(4), Const(L(6035143)), Const(L(5)),
         List("entries", "common.bsn_gentable_bucket_stats_entry")>>),
      Leaf("message.bsn_gentable_bucket_stats_request", "message.bsn_stats_request", L(5),
       <<Const(B(5)), Const(B(18)), Length(4), Num("xid", 4), Const(H(65535)),
         Num("flags", 2), Zeros(4), Const(L(6035143)), Const(L(5)),
         Num("table_id", 2)>>),
      Leaf("message.bsn_gentable_clear_reply", "message.bsn_header", L(49),
       <<Const(B(5)), Const(B(4)), Length(4), Num("xid", 4),
         Const(L(6035143)), Const(L(49)), Num("table_id", 2), Zeros(2),
         Num("deleted_count", 4), Num("error_count", 4)>>) }

bsn_gentable_clear_request_to_bsn_gentable_desc_stats_request ==
    { Leaf("message.bsn_gentable_clear_request", "message.bsn_header", L(48),
       <<Const(B(5)), Const(B(4)), Length(4), Num("xid", 4),
         Const(L(6035143)), Const(L(48)), Num("table_id", 2), Zeros(2),
         Num("checksum", 16), Num("checksum_mask", 16)>>),
      Leaf("message.bsn_gentable_desc_stats_reply", "message.bsn_stats_reply", L(4),
       <<Const(B(5)), Const(B(19)), Length(4), Num("xid", 4), Const(H(65535)),
         Num("flags", 2), Zeros(4), Const(L(6035143)), Const(L(4)),
         List("entries", "common.bsn_gentable_desc_stats_entry")>>),
      Leaf("message.bsn_gentable_desc_stats_request", "message.bsn_stats_request", L(4),
       <<Const(B(5)), Const(B(18)), Length(4), Num("xid", 4), Const(H(65535)),
         Num("flags", 2), Zeros(4), Const(L(6035143)), Const(L(4))>>) }

bsn_gentable_entry_add_to_bsn_gentable_entry_desc_stats_reply ==
    { Leaf("message.bsn_gentable_entry_add", "message.bsn_header", L(46),
       <<Const(B(5)), Const(B(4)), Length(4), Num("xid", 4),
         Const(L(6035143)), Const(L(46)), Num("table_id", 2), LengthOf("key"),
         Num("checksum", 16), ListIn("key", "bsn_tlv.bsn_tlv"),
         List("value", "bsn_tlv.bsn_tlv")>>),
      Leaf("message.bsn_gentable_entry_delete", "message.bsn_header", L(47),
       <<Const(B(5)), Const(B(4)), Length(4), Num("xid", 4),
         Const(L(6035143)), Const(L(47)), Num("table_id", 2),
         List("key", "bsn_tlv.bsn_tlv")>>),
      Leaf("message.bsn_gentable_entry_desc_stats_reply", "message.bsn_stats_reply", L(2),
       <<Const(B(5)), Const(B(19)), Length(4), Num("xid", 4), Const(H(65535)),
         Num("flags", 2), Zeros(4), Const(L(6035143)), Const(L(2)),
         List("entries", "common.bsn_gentable_entry_desc_stats_entry")>>) }

bsn_gentable_entry_desc_stats_request_to_bsn_gentable_entry_stats_reply ==
    { Leaf("message.bsn_gentable_entry_desc_stats_request", "message.bsn_stats_request", L(2),
       <<Const(B(5)), Const(B(18)), Length(4), Num("xid", 4), Const(H(65535)),
         Num("flags", 2), Zeros(4), Const(L(6035143)), Const(L(2)),
         Num("table_id", 2), Zeros(2), Num("checksum", 16),
         Num("checksum_mask", 16)>>),
      Leaf("message.bsn_gentable_entry_stats_reply", "message.bsn_stats_reply", L(3),
       <<Const(B(5)), Const(B(19)), Length(4), Num("xid", 4), Const(H(65535)),
         Num("flags", 2), Zeros(4), Const(L(6035143)), Const(L(3)),
         List("entries", "common.bsn_gentable_entry_stats_entry")>>) }

bsn_gentable_entry_stats_request_to_bsn_gentable_set_buckets_size ==
    { Leaf("message.bsn_gentable_entry_stats_request", "message.bsn_stats_request", L(3),
       <<Const(B(5)), Const(B(18)), Length(4), Num("xid", 4), Const(H(65535)),
         Num("flags", 2), Zeros(4), Const(L(6035143)), Const(L(3)),
         Num("table_id", 2), Zeros(2), Num("checksum", 16),
         Num("checksum_mask", 16)>>),
      Leaf("message.bsn_gentable_set_buckets_size", "message.bsn_header", L(50),
       <<Const(B(5)), Const(B(4)), Length(4), Num("xid", 4),
         Const(L(6035143)), Const(L(50)), Num("table_id", 2), Zeros(2),
         Num("buckets_size", 4)>>) }

bsn_gentable_stats_reply_to_bsn_get_interfaces_reply ==
    { Leaf("message.bsn_gentable_stats_reply", "message.bsn_stats_reply", L(7),
       <<Const(B(5)), Const(B(19)), Length(4), Num("xid", 4), Const(H(65535)),
         Num("flags", 2), Zeros(4), Const(L(6035143)), Const(L(7)),
         List("entries", "common.bsn_gentable_stats_entry")>>),
      Leaf("message.bsn_gentable_stats_request", "message.bsn_stats_request", L(7),
       <<Const(B(5)), Const(B(18)), Length(4), Num("xid", 4), Const(H(65535)),
         Num("flags", 2), Zeros(4), Const(L(6035143)), Const(L(7))>>),
      Leaf("message.bsn_get_interfaces_reply", "message.bsn_header", L(10),
       <<Const(B(5)), Const(B(4)), Length(4), Num("xid", 4),
         Const(L(6035143)), Const(L(10)),
         List("interfaces", "common.bsn_interface")>>) }

bsn_get_interfaces_request_to_bsn_get_mirroring_request ==
    { Leaf("message.bsn_get_interfaces_request", "message.bsn_header", L(9),
       <<Const(B(5)), Const(B(4)), Length(4), Num("xid", 4),
         Const(L(6035143)), Const(L(9))>>),
      Leaf("message.bsn_get_mirroring_reply", "message.bsn_header", L(5),
       <<Const(B(5)), Const(B(4)), Length(4), Num("xid", 4),
         Const(L(6035143)), Const(L(5)), Num("report_mirror_ports", 1),
         Zeros(3)>>),
      Leaf("message.bsn_get_mirroring_request", "message.bsn_header", L(4),
       <<Const(B(5)), Const(B(4)), Length(4), Num("xid", 4),
         Const(L(6035143)), Const(L(4)), Num("report_mirror_ports", 1),
         Zeros(3)>>) }

bsn_get_switch_pipeline_reply_to_bsn_image_desc_stats_reply ==
    { Leaf("message.bsn_get_switch_pipeline_reply", "message.bsn_header", L(52),
       <<Const(B(5)), Const(B(4)), Length(4), Num("xid", 4),
         Const(L(6035143)), Const(L(52)), Text("pipeline", 256)>>),
      Leaf("message.bsn_get_switch_pipeline_request", "message.bsn_header", L(51),
       <<Const(B(5)), Const(B(4)), Length(4), Num("xid", 4),
         Const(L(6035143)), Const(L(51))>>),
      Leaf("message.bsn_image_desc_stats_reply", "message.bsn_stats_reply", L(14),
       <<Const(B(5)), Const(B(19)), Length(4), Num("xid", 4), Const(H(65535)),
         Num("flags", 2), Zeros(4), Const(L(6035143)), Const(L(14)),
         Text("image_checksum", 256), Text("startup_config_checksum", 256)>>) }

bsn_image_desc_stats_request_to_bsn_lacp_convergence_notif ==
    { Leaf("message.bsn_image_desc_stats_request", "message.bsn_stats_request", L(14),
       <<Const(B(5)), Const(B(18)), Length(4), Num("xid", 4), Const(H(65535)),
         Num("flags", 2), Zeros(4), Const(L(6035143)), Const(L(14))>>),
      Leaf("message.bsn_lacp_convergence_notif", "message.bsn_header", L(43),
       <<Const(B(5)), Const(B(4)), Length(4), Num("xid", 4),
         Const(L(6035143)), Const(L(43)), Num("convergence_status", 1),
         Zeros(3), Num("port_no", 4), Num("actor_sys_priority", 2),
         Mac("actor_sys_mac"), Num("actor_port_priority", 2),
         Num("actor_port_num", 2), Num("actor_key", 2),
         Num("partner_sys_priority", 2), Mac("partner_sys_mac"),
         Num("partner_port_priority", 2), Num("partner_port_num", 2),
         Num("partner_key", 2)>>) }

bsn_lacp_stats_reply_to_bsn_log ==
    { Leaf("message.bsn_lacp_stats_reply", "message.bsn_stats_reply", L(1),
       <<Const(B(5)), Const(B(19)), Length(4), Num("xid", 4), Const(H(65535)),
         Num("flags", 2), Zeros(4), Const(L(6035143)), Const(L(1)),
         List("entries", "common.bsn_lacp_stats_entry")>>),
      Leaf("message.bsn_lacp_stats_request", "message.bsn_stats_request", L(1),
       <<Const(B(5)), Const(B(18)), Length(4), Num("xid", 4), Const(H(65535)),
         Num("flags", 2), Zeros(4), Const(L(6035143)), Const(L(1))>>),
      Leaf("message.bsn_log", "message.bsn_header", L(63),
       <<Const(B(5)), Const(B(4)), Length(4), Num("xid", 4),
         Const(L(6035143)), Const(L(63)), Num("loglevel", 1), Rest("data")>>) }

bsn_lua_command_reply_to_bsn_lua_notification ==
    { Leaf("message.bsn_lua_command_reply", "message.bsn_header", L(66),
       <<Const(B(5)), Const(B(4)), Length(4), Num("xid", 4),
         Const(L(6035143)), Const(L(66)), Rest("data")>>),
      Leaf("message.bsn_lua_command_request", "message.bsn_header", L(65),
       <<Const(B(5)), Const(B(4)), Length(4), Num("xid", 4),
         Const(L(6035143)), Const(L(65)), Rest("data")>>),
      Leaf("message.bsn_lua_notification", "message.bsn_header", L(67),
       <<Const(B(5)), Const(B(4)), Length(4), Num("xid", 4),
         Const(L(6035143)), Const(L(67)), Rest("data")>>) }

bsn_lua_upload_to_bsn_pdu_rx_reply ==
    { Leaf("message.bsn_lua_upload", "message.bsn_header", L(64),
       <<Const(B(5)), Const(B(4)), Length(4), Num("xid", 4),
         Const(L(6035143)), Const(L(64)), Num("flags", 2),
         Text("filename", 64), Rest("data")>>),
      Leaf("message.bsn_pdu_rx_reply", "message.bsn_header", L(34),
       <<Const(B(5)), Const(B(4)), Length(4), Num("xid", 4),
         Const(L(6035143)), Const(L(34)), Num("status", 4), Num("port_no", 4),
         Num("slot_num", 1)>>) }

bsn_pdu_rx_request_to_bsn_pdu_tx_reply ==
    { Leaf("message.bsn_pdu_rx_request", "message.bsn_header", L(33),
       <<Const(B(5)), Const(B(4)), Length(4), Num("xid", 4),
         Const(L(6035143)), Const(L(33)), Num("timeout_ms", 4),
         Num("port_no", 4), Num("slot_num", 1), Zeros(3), Rest("data")>>),
      Leaf("message.bsn_pdu_rx_timeout", "message.bsn_header", L(35),
       <<Const(B(5)), Const(B(4)), Length(4), Num("xid", 4),
         Const(L(6035143)), Const(L(35)), Num("port_no", 4),
         Num("slot_num", 1)>>),
      Leaf("message.bsn_pdu_tx_reply", "message.bsn_header", L(32),
       <<Const(B(5)), Const(B(4)), Length(4), Num("xid", 4),
         Const(L(6035143)), Const(L(32)), Num("status", 4), Num("port_no", 4),
         Num("slot_num", 1)>>) }

bsn_pdu_tx_request_to_bsn_port_counter_stats_request ==
    { Leaf("message.bsn_pdu_tx_request", "message.bsn_header", L(31),
       <<Const(B(5)), Const(B(4)), Length(4), Num("xid", 4),
         Const(L(6035143)), Const(L(31)), Num("tx_interval_ms", 4),
         Num("port_no", 4), Num("slot_num", 1), Zeros(3), Rest("data")>>),
      Leaf("message.bsn_port_counter_stats_reply", "message.bsn_stats_reply", L(8),
       <<Const(B(5)), Const(B(19)), Length(4), Num("xid", 4), Const(H(65535)),
         Num("flags", 2), Zeros(4), Const(L(6035143)), Const(L(8)),
         List("entries", "common.bsn_port_counter_stats_entry")>>),
      Leaf("message.bsn_port_counter_stats_request", "message.bsn_stats_request", L(8),
       <<Const(B(5)), Const(B(18)), Length(4), Num("xid", 4), Const(H(65535)),
         Num("flags", 2), Zeros(4), Const(L(6035143)), Const(L(8)),
         Num("port_no", 4)>>) }

bsn_set_aux_cxns_reply_to_bsn_set_lacp_reply ==
    { Leaf("message.bsn_set_aux_cxns_reply", "message.bsn_header", L(59),
       <<Const(B(5)), Const(B(4)), Length(4), Num("xid", 4),
         Const(L(6035143)), Const(L(59)), Num("num_aux", 4),
         Num("status", 4)>>),
      Leaf("message.bsn_set_aux_cxns_request", "message.bsn_header", L(58),
       <<Const(B(5)), Const(B(4)), Length(4), Num("xid", 4),
         Const(L(6035143)), Const(L(58)), Num("num_aux", 4)>>),
      Leaf("message.bsn_set_lacp_reply", "message.bsn_header", L(42),
       <<Const(B(5)), Const(B(4)), Length(4), Num("xid", 4),
         Const(L(6035143)), Const(L(42)), Num("status", 4),
         Num("port_no", 4)>>) }

bsn_set_lacp_request_to_bsn_set_mirroring ==
    { Leaf("message.bsn_set_lacp_request", "message.bsn_header", L(41),
       <<Const(B(5)), Const(B(4)), Length(4), Num("xid", 4),
         Const(L(6035143)), Const(L(41)), Num("enabled", 1), Zeros(3),
         Num("port_no", 4), Num("actor_sys_priority", 2),
         Mac("actor_sys_mac"), Num("actor_port_priority", 2),
         Num("actor_port_num", 2), Num("actor_key", 2)>>),
      Leaf("message.bsn_set_mirroring", "message.bsn_header", L(3),
       <<Const(B(5)), Const(B(4)), Length(4), Num("xid", 4),
         Const(L(6035143)), Const(L(3)), Num("report_mirror_ports", 1),
         Zeros(3)>>) }

bsn_set_pktin_suppression_reply_to_bsn_set_switch_pipeline_reply ==
    { Leaf("message.bsn_set_pktin_suppression_reply", "message.bsn_header", L(25),
       <<Const(B(5)), Const(B(4)), Length(4), Num("xid", 4),
         Const(L(6035143)), Const(L(25)), Num("status", 4)>>),
      Leaf("message.bsn_set_pktin_suppression_request", "message.bsn_header", L(11),
       <<Const(B(5)), Const(B(4)), Length(4), Num("xid", 4),
         Const(L(6035143)), Const(L(11)), Num("enabled", 1), Zeros(1),
         Num("idle_timeout", 2), Num("hard_timeout", 2), Num("priority", 2),
         Num("cookie", 8)>>),
      Leaf("message.bsn_set_switch_pipeline_reply", "message.bsn_header", L(54),
       <<Const(B(5)), Const(B(4)), Length(4), Num("xid", 4),
         Const(L(6035143)), Const(L(54)), Num("status", 4)>>) }

bsn_set_switch_pipeline_request_to_bsn_switch_pipeline_stats_request ==
    { Leaf("message.bsn_set_switch_pipeline_request", "message.bsn_header", L(53),
       <<Const(B(5)), Const(B(4)), Length(4), Num("xid", 4),
         Const(L(6035143)), Const(L(53)), Text("pipeline", 256)>>),
      Leaf("message.bsn_switch_pipeline_stats_reply", "message.bsn_stats_reply", L(6),
       <<Const(B(5)), Const(B(19)), Length(4), Num("xid", 4), Const(H(65535)),
         Num("flags", 2), Zeros(4), Const(L(6035143)), Const(L(6)),
         List("entries", "common.bsn_switch_pipeline_stats_entry")>>),
      Leaf("message.bsn_switch_pipeline_stats_request", "message.bsn_stats_request", L(6),
       <<Const(B(5)), Const(B(18)), Length(4), Num("xid", 4), Const(H(65535)),
         Num("flags", 2), Zeros(4), Const(L(6035143)), Const(L(6))>>) }

bsn_table_checksum_stats_reply_to_bsn_table_set_buckets_size ==
    { Leaf("message.bsn_table_checksum_stats_reply", "message.bsn_stats_reply", L(11),
       <<Const(B(5)), Const(B(19)), Length(4), Num("xid", 4), Const(H(65535)),
         Num("flags", 2), Zeros(4), Const(L(6035143)), Const(L(11)),
         List("entries", "common.bsn_table_checksum_stats_entry")>>),
      Leaf("message.bsn_table_checksum_stats_request", "message.bsn_stats_request", L(11),
       <<Const(B(5)), Const(B(18)), Length(4), Num("xid", 4), Const(H(65535)),
         Num("flags", 2), Zeros(4), Const(L(6035143)), Const(L(11))>>),
      Leaf("message.bsn_table_set_buckets_size", "message.bsn_header", L(61),
       <<Const(B(5)), Const(B(4)), Length(4), Num("xid", 4),
         Const(L(6035143)), Const(L(61)), Zeros(1), Num("table_id", 1),
         Zeros(2), Num("buckets_size", 4)>>) }

bsn_takeover_to_bsn_virtual_port_create_reply ==
    { Leaf("message.bsn_takeover", "message.bsn_header", L(69),
       <<Const(B(5)), Const(B(4)), Length(4), Num("xid", 4),
         Const(L(6035143)), Const(L(69))>>),
      Leaf("message.bsn_time_reply", "message.bsn_header", L(45),
       <<Const(B(5)), Const(B(4)), Length(4), Num("xid", 4),
         Const(L(6035143)), Const(L(45)), Num("time_ms", 8)>>),
      Leaf("message.bsn_time_request", "message.bsn_header", L(44),
       <<Const(B(5)), Const(B(4)), Length(4), Num("xid", 4),
         Const(L(6035143)), Const(L(44))>>),
      Leaf("message.bsn_virtual_port_create_reply", "message.bsn_header", L(16),
       <<Const(B(5)), Const(B(4)), Length(4), Num("xid", 4),
         Const(L(6035143)), Const(L(16)), Num("status", 4),
         Num("vport_no", 4)>>) }

bsn_virtual_port_create_request_to_bsn_virtual_port_remove_request ==
    { Leaf("message.bsn_virtual_port_create_request", "message.bsn_header", L(15),
       <<Const(B(5)), Const(B(4)), Length(4), Num("xid", 4),
         Const(L(6035143)), Const(L(15)),
         Object("vport", "common.bsn_vport")>>),
      Leaf("message.bsn_virtual_port_remove_reply", "message.bsn_header", L(26),
       <<Const(B(5)), Const(B(4)), Length(4), Num("xid", 4),
         Const(L(6035143)), Const(L(26)), Num("status", 4)>>),
      Leaf("message.bsn_virtual_port_remove_request", "message.bsn_header", L(17),
       <<Const(B(5)), Const(B(4)), Length(4), Num("xid", 4),
         Const(L(6035143)), Const(L(17)), Num("vport_no", 4)>>) }

bsn_vlan_counter_clear_to_bsn_vlan_counter_stats_request ==
    { Leaf("message.bsn_vlan_counter_clear", "message.bsn_header", L(70),
       <<Const(B(5)), Const(B(4)), Length(4), Num("xid", 4),
         Const(L(6035143)), Const(L(70)), Num("vlan_vid", 2)>>),
      Leaf("message.bsn_vlan_counter_stats_reply", "message.bsn_stats_reply", L(9),
       <<Const(B(5)), Const(B(19)), Length(4), Num("xid", 4), Const(H(65535)),
         Num("flags", 2), Zeros(4), Const(L(6035143)), Const(L(9)),
         List("entries", "common.bsn_vlan_counter_stats_entry")>>),
      Leaf("message.bsn_vlan_counter_stats_request", "message.bsn_stats_request", L(9),
       <<Const(B(5)), Const(B(18)), Length(4), Num("xid", 4), Const(H(65535)),
         Num("flags", 2), Zeros(4), Const(L(6035143)), Const(L(9)),
         Num("vlan_vid", 2)>>) }

bsn_vrf_counter_stats_reply_to_bundle_add_msg ==
    { Leaf("message.bsn_vrf_counter_stats_reply", "message.bsn_stats_reply", L(15),
       <<Const(B(5)), Const(B(19)), Length(4), Num("xid", 4), Const(H(65535)),
         Num("flags", 2), Zeros(4), Const(L(6035143)), Const(L(15)),
         List("entries", "common.bsn_vrf_counter_stats_entry")>>),
      Leaf("message.bsn_vrf_counter_stats_request", "message.bsn_stats_request", L(15),
       <<Const(B(5)), Const(B(18)), Length(4), Num("xid", 4), Const(H(65535)),
         Num("flags", 2), Zeros(4), Const(L(6035143)), Const(L(15)),
         Num("vrf", 4)>>),
      Leaf("message.bundle_add_msg", "message.message", B(34),
       <<Const(B(5)), Const(B(34)), Length(4), Num("xid", 4),
         Num("bundle_id", 4), Zeros(2), Num("flags", 2), Rest("data")>>) }

bundle_ctrl_msg_to_desc_stats_reply ==
    { Leaf("message.bundle_ctrl_msg", "message.message", B(33),
       <<Const(B(5)), Const(B(33)), Length(4), Num("xid", 4),
         Num("bundle_id", 4), Num("bundle_ctrl_type", 2), Num("flags", 2),
         List("properties", "bundle_prop.bundle_prop")>>),
      Leaf("message.bundle_failed_error_msg", "message.error_msg", H(17),
       <<Const(B(5)), Const(B(1)), Length(4), Num("xid", 4), Const(H(17)),
         Num("code", 2), Rest("data")>>),
      Leaf("message.desc_stats_reply", "message.stats_reply", H(0),
       <<Const(B(5)), Const(B(19)), Length(4), Num("xid", 4), Const(H(0)),
         Num("flags", 2), Zeros(4), Text("mfr_desc", 256),
         Text("hw_desc", 256), Text("sw_desc", 256), Text("serial_num", 32),
         Text("dp_desc", 256)>>) }

desc_stats_request_to_echo_request ==
    { Leaf("message.desc_stats_request", "message.stats_request", H(0),
       <<Const(B(5)), Const(B(18)), Length(4), Num("xid", 4), Const(H(0)),
         Num("flags", 2), Zeros(4)>>),
      Leaf("message.echo_reply", "message.message", B(3),
       <<Const(B(5)), Const(B(3)), Length(4), Num("xid", 4), Rest("data")>>),
      Leaf("message.echo_request", "message.message", B(2),
       <<Const(B(5)), Const(B(2)), Length(4), Num("xid", 4), Rest("data")>>) }

features_reply_to_features_request ==
    { Leaf("message.features_reply", "message.message", B(6),
       <<Const(B(5)), Const(B(6)), Length(4), Num("xid", 4),
         Num("datapath_id", 8), Num("n_buffers", 4), Num("n_tables", 1),
         Num("auxiliary_id", 1), Zeros(2), Num("capabilities", 4),
         Num("reserved", 4)>>),
      Leaf("message.features_request", "message.message", B(5),
       <<Const(B(5)), Const(B(5)), Length(4), Num("xid", 4)>>) }

flow_mod ==
    { Node("message.flow_mod", "message.message", B(14), Peek(1, 25),
       <<Const(B(5)), Const(B(14)), Length(4), Num("xid", 4),
         Num("cookie", 8), Num("cookie_mask", 8), Num("table_id", 1),
         Num("_command", 1), Num("idle_timeout", 2), Num("hard_timeout", 2),
         Num("priority", 2), Num("buffer_id", 4), Num("out_port", 4),
         Num("out_group", 4), Num("flags", 2), Zeros(2),
         Object("match", "common.match_v3"),
         List("instructions", "instruction.instruction")>>) }

flow_add ==
    { Leaf("message.flow_add", "message.flow_mod", B(0),
       <<Const(B(5)), Const(B(14)), Length(4), Num("xid", 4),
         Num("cookie", 8), Num("cookie_mask", 8), Num("table_id", 1),
         Const(B(0)), Num("idle_timeout", 2), Num("hard_timeout", 2),
         Num("priority", 2), Num("buffer_id", 4), Num("out_port", 4),
         Num("out_group", 4), Num("flags", 2), Num("importance", 2),
         Object("match", "common.match_v3"),
         List("instructions", "instruction.instruction")>>) }

flow_delete ==
    { Leaf("message.flow_delete", "message.flow_mod", B(3),
       <<Const(B(5)), Const(B(14)), Length(4), Num("xid", 4),
         Num("cookie", 8), Num("cookie_mask", 8), Num("table_id", 1),
         Const(B(3)), Num("idle_timeout", 2), Num("hard_timeout", 2),
         Num("priority", 2), Num("buffer_id", 4), Num("out_port", 4),
         Num("out_group", 4), Num("flags", 2), Num("importance", 2),
         Object("match", "common.match_v3"),
         List("instructions", "instruction.instruction")>>) }

flow_delete_strict_to_flow_mod_failed_error_msg ==
    { Leaf("message.flow_delete_strict", "message.flow_mod", B(4),
       <<Const(B(5)), Const(B(14)), Length(4), Num("xid", 4),
         Num("cookie", 8), Num("cookie_mask", 8), Num("table_id", 1),
         Const(B(4)), Num("idle_timeout", 2), Num("hard_timeout", 2),
         Num("priority", 2), Num("buffer_id", 4), Num("out_port", 4),
         Num("out_group", 4), Num("flags", 2), Num("importance", 2),
         Object("match", "common.match_v3"),
         List("instructions", "instruction.instruction")>>),
      Leaf("message.flow_mod_failed_error_msg", "message.error_msg", H(5),
       <<Const(B(5)), Const(B(1)), Length(4), Num("xid", 4), Const(H(5)),
         Num("code", 2), Rest("data")>>) }

flow_modify ==
    { Leaf("message.flow_modify", "message.flow_mod", B(1),
       <<Const(B(5)), Const(B(14)), Length(4), Num("xid", 4),
         Num("cookie", 8), Num("cookie_mask", 8), Num("table_id", 1),
         Const(B(1)), Num("idle_timeout", 2), Num("hard_timeout", 2),
         Num("priority", 2), Num("buffer_id", 4), Num("out_port", 4),
         Num("out_group", 4), Num("flags", 2), Num("importance", 2),
         Object("match", "common.match_v3"),
         List("instructions", "instruction.instruction")>>) }

flow_modify_strict_to_flow_monitor_failed_error_msg ==
    { Leaf("message.flow_modify_strict", "message.flow_mod", B(2),
       <<Const(B(5)), Const(B(14)), Length(4), Num("xid", 4),
         Num("cookie", 8), Num("cookie_mask", 8), Num("table_id", 1),
         Const(B(2)), Num("idle_timeout", 2), Num("hard_timeout", 2),
         Num("priority", 2), Num("buffer_id", 4), Num("out_port", 4),
         Num("out_group", 4), Num("flags", 2), Num("importance", 2),
         Object("match", "common.match_v3"),
         List("instructions", "instruction.instruction")>>),
      Leaf("message.flow_monitor_failed_error_msg", "message.error_msg", H(16),
       <<Const(B(5)), Const(B(1)), Length(4), Num("xid", 4), Const(H(16)),
         Num("code", 2), Rest("data")>>) }

flow_removed_to_flow_stats_reply ==
    { Leaf("message.flow_removed", "message.message", B(11),
       <<Const(B(5)), Const(B(11)), Length(4), Num("xid", 4),
         Num("cookie", 8), Num("priority", 2), Num("reason", 1),
         Num("table_id", 1), Num("duration_sec", 4), Num("duration_nsec", 4),
         Num("idle_timeout", 2), Num("hard_timeout", 2),
         Num("packet_count", 8), Num("byte_count", 8),
         Object("match", "common.match_v3")>>),
      Leaf("message.flow_stats_reply", "message.stats_reply", H(1),
       <<Const(B(5)), Const(B(19)), Length(4), Num("xid", 4), Const(H(1)),
         Num("flags", 2), Zeros(4),
         List("entries", "common.flow_stats_entry")>>) }

flow_stats_request_to_get_config_request ==
    { Leaf("message.flow_stats_request", "message.stats_request", H(1),
       <<Const(B(5)), Const(B(18)), Length(4), Num("xid", 4), Const(H(1)),
         Num("flags", 2), Zeros(4), Num("table_id", 1), Zeros(3),
         Num("out_port", 4), Num("out_group", 4), Zeros(4), Num("cookie", 8),
         Num("cookie_mask", 8), Object("match", "common.match_v3")>>),
      Leaf("message.get_config_reply", "message.message", B(8),
       <<Const(B(5)), Const(B(8)), Length(4), Num("xid", 4), Num("flags", 2),
         Num("miss_send_len", 2)>>),
      Leaf("message.get_config_request", "message.message", B(7),
       <<Const(B(5)), Const(B(7)), Length(4), Num("xid", 4)>>) }

group_mod_to_group_delete ==
    { Node("message.group_mod", "message.message", B(15), Peek(2, 8),
       <<Const(B(5)), Const(B(15)), Length(4), Num("xid", 4),
         Num("command", 2), Num("group_type", 1), Zeros(1),
         Num("group_id", 4), List("buckets", "common.bucket")>>),
      Leaf("message.group_add", "message.group_mod", H(0),
       <<Const(B(5)), Const(B(15)), Length(4), Num("xid", 4), Const(H(0)),
         Num("group_type", 1), Zeros(1), Num("group_id", 4),
         List("buckets", "common.bucket")>>),
      Leaf("message.group_delete", "message.group_mod", H(2),
       <<Const(B(5)), Const(B(15)), Length(4), Num("xid", 4), Const(H(2)),
         Num("group_type", 1), Zeros(1), Num("group_id", 4),
         List("buckets", "common.bucket")>>) }

group_desc_stats_reply_to_group_desc_stats_request ==
    { Leaf("message.group_desc_stats_reply", "message.stats_reply", H(7),
       <<Const(B(5)), Const(B(19)), Length(4), Num("xid", 4), Const(H(7)),
         Num("flags", 2), Zeros(4),
         List("entries", "common.group_desc_stats_entry")>>),
      Leaf("message.group_desc_stats_request", "message.stats_request", H(7),
       <<Const(B(5)), Const(B(18)), Length(4), Num("xid", 4), Const(H(7)),
         Num("flags", 2), Zeros(4)>>) }

group_features_stats_reply_to_group_features_stats_request ==
    { Leaf("message.group_features_stats_reply", "message.stats_reply", H(8),
       <<Const(B(5)), Const(B(19)), Length(4), Num("xid", 4), Const(H(8)),
         Num("flags", 2), Zeros(4), Num("types", 4), Num("capabilities", 4),
         Num("max_groups_all", 4), Num("max_groups_select", 4),
         Num("max_groups_indirect", 4), Num("max_groups_ff", 4),
         Num("actions_all", 4), Num("actions_select", 4),
         Num("actions_indirect", 4), Num("actions_ff", 4)>>),
      Leaf("message.group_features_stats_request", "message.stats_request", H(8),
       <<Const(B(5)), Const(B(18)), Length(4), Num("xid", 4), Const(H(8)),
         Num("flags", 2), Zeros(4)>>) }

group_mod_failed_error_msg_to_group_stats_reply ==
    { Leaf("message.group_mod_failed_error_msg", "message.error_msg", H(6),
       <<Const(B(5)), Const(B(1)), Length(4), Num("xid", 4), Const(H(6)),
         Num("code", 2), Rest("data")>>),
      Leaf("message.group_modify", "message.group_mod", H(1),
       <<Const(B(5)), Const(B(15)), Length(4), Num("xid", 4), Const(H(1)),
         Num("group_type", 1), Zeros(1), Num("group_id", 4),
         List("buckets", "common.bucket")>>),
      Leaf("message.group_stats_reply", "message.stats_reply", H(6),
       <<Const(B(5)), Const(B(19)), Length(4), Num("xid", 4), Const(H(6)),
         Num("flags", 2), Zeros(4),
         List("entries", "common.group_stats_entry")>>) }

group_stats_request_to_hello_failed_error_msg ==
    { Leaf("message.group_stats_request", "message.stats_request", H(6),
       <<Const(B(5)), Const(B(18)), Length(4), Num("xid", 4), Const(H(6)),
         Num("flags", 2), Zeros(4), Num("group_id", 4), Zeros(4)>>),
      Leaf("message.hello", "message.message", B(0),
       <<Const(B(5)), Const(B(0)), Length(4), Num("xid", 4),
         List("elements", "common.hello_elem")>>),
      Leaf("message.hello_failed_error_msg", "message.error_msg", H(0),
       <<Const(B(5)), Const(B(1)), Length(4), Num("xid", 4), Const(H(0)),
         Num("code", 2), Rest("data")>>) }

meter_config_stats_reply_to_meter_features_stats_reply ==
    { Leaf("message.meter_config_stats_reply", "message.stats_reply", H(10),
       <<Const(B(5)), Const(B(19)), Length(4), Num("xid", 4), Const(H(10)),
         Num("flags", 2), Zeros(4), List("entries", "common.meter_config")>>),
      Leaf("message.meter_config_stats_request", "message.stats_request", H(10),
       <<Const(B(5)), Const(B(18)), Length(4), Num("xid", 4), Const(H(10)),
         Num("flags", 2), Zeros(4), Num("meter_id", 4), Zeros(4)>>),
      Leaf("message.meter_features_stats_reply", "message.stats_reply", H(11),
       <<Const(B(5)), Const(B(19)), Length(4), Num("xid", 4), Const(H(11)),
         Num("flags", 2), Zeros(4),
         Object("features", "common.meter_features")>>) }

meter_features_stats_request_to_meter_mod_failed_error_msg ==
    { Leaf("message.meter_features_stats_request", "message.stats_request", H(11),
       <<Const(B(5)), Const(B(18)), Length(4), Num("xid", 4), Const(H(11)),
         Num("flags", 2), Zeros(4)>>),
      Leaf("message.meter_mod", "message.message", B(29),
       <<Const(B(5)), Const(B(29)), Length(4), Num("xid", 4),
         Num("command", 2), Num("flags", 2), Num("meter_id", 4),
         List("bands", "meter_band.meter_band")>>),
      Leaf("message.meter_mod_failed_error_msg", "message.error_msg", H(12),
       <<Const(B(5)), Const(B(1)), Length(4), Num("xid", 4), Const(H(12)),
         Num("code", 2), Rest("data")>>) }

meter_stats_reply_to_nicira_header ==
    { Leaf("message.meter_stats_reply", "message.stats_reply", H(9),
       <<Const(B(5)), Const(B(19)), Length(4), Num("xid", 4), Const(H(9)),
         Num("flags", 2), Zeros(4), List("entries", "common.meter_stats")>>),
      Leaf("message.meter_stats_request", "message.stats_request", H(9),
       <<Const(B(5)), Const(B(18)), Length(4), Num("xid", 4), Const(H(9)),
         Num("flags", 2), Zeros(4), Num("meter_id", 4), Zeros(4)>>),
      Node("message.nicira_header", "message.experimenter", L(8992), Peek(4, 12),
       <<Const(B(5)), Const(B(4)), Length(4), Num("xid", 4), Const(L(8992)),
         Num("subtype", 4)>>) }

packet_in_to_packet_out ==
    { Leaf("message.packet_in", "message.message", B(10),
       <<Const(B(5)), Const(B(10)), Length(4), Num("xid", 4),
         Num("buffer_id", 4), Num("total_len", 2), Num("reason", 1),
         Num("table_id", 1), Num("cookie", 8),
         Object("match", "common.match_v3"), Zeros(2), Rest("data")>>),
      Leaf("message.packet_out", "message.message", B(13),
       <<Const(B(5)), Const(B(13)), Length(4), Num("xid", 4),
         Num("buffer_id", 4), Num("in_port", 4), LengthOf("actions"),
         Zeros(6), ListIn("actions", "action.action"), Rest("data")>>) }

port_desc_stats_reply_to_port_mod ==
    { Leaf("message.port_desc_stats_reply", "message.stats_reply", H(13),
       <<Const(B(5)), Const(B(19)), Length(4), Num("xid", 4), Const(H(13)),
         Num("flags", 2), Zeros(4), List("entries", "common.port_desc")>>),
      Leaf("message.port_desc_stats_request", "message.stats_request", H(13),
       <<Const(B(5)), Const(B(18)), Length(4), Num("xid", 4), Const(H(13)),
         Num("flags", 2), Zeros(4)>>),
      Leaf("message.port_mod", "message.message", B(16),
       <<Const(B(5)), Const(B(16)), Length(4), Num("xid", 4),
         Num("port_no", 4), Zeros(4), Mac("hw_addr"), Zeros(2),
         Num("config", 4), Num("mask", 4),
         List("properties", "port_mod_prop.port_mod_prop")>>) }

port_mod_failed_error_msg_to_port_stats_request ==
    { Leaf("message.port_mod_failed_error_msg", "message.error_msg", H(7),
       <<Const(B(5)), Const(B(1)), Length(4), Num("xid", 4), Const(H(7)),
         Num("code", 2), Rest("data")>>),
      Leaf("message.port_stats_reply", "message.stats_reply", H(4),
       <<Const(B(5)), Const(B(19)), Length(4), Num("xid", 4), Const(H(4)),
         Num("flags", 2), Zeros(4),
         List("entries", "common.port_stats_entry")>>),
      Leaf("message.port_stats_request", "message.stats_request", H(4),
       <<Const(B(5)), Const(B(18)), Length(4), Num("xid", 4), Const(H(4)),
         Num("flags", 2), Zeros(4), Num("port_no", 4), Zeros(4)>>) }

port_status_to_queue_desc_stats_request ==
    { Leaf("message.port_status", "message.message", B(12),
       <<Const(B(5)), Const(B(12)), Length(4), Num("xid", 4),
         Num("reason", 1), Zeros(7), Object("desc", "common.port_desc")>>),
      Leaf("message.queue_desc_stats_reply", "message.stats_reply", H(15),
       <<Const(B(5)), Const(B(19)), Length(4), Num("xid", 4), Const(H(15)),
         Num("flags", 2), Zeros(4), List("entries", "common.queue_desc")>>),
      Leaf("message.queue_desc_stats_request", "message.stats_request", H(15),
       <<Const(B(5)), Const(B(18)), Length(4), Num("xid", 4), Const(H(15)),
         Num("flags", 2), Zeros(4)>>) }

queue_op_failed_error_msg_to_queue_stats_request ==
    { Leaf("message.queue_op_failed_error_msg", "message.error_msg", H(9),
       <<Const(B(5)), Const(B(1)), Length(4), Num("xid", 4), Const(H(9)),
         Num("code", 2), Rest("data")>>),
      Leaf("message.queue_stats_reply", "message.stats_reply", H(5),
       <<Const(B(5)), Const(B(19)), Length(4), Num("xid", 4), Const(H(5)),
         Num("flags", 2), Zeros(4),
         List("entries", "common.queue_stats_entry")>>),
      Leaf("message.queue_stats_request", "message.stats_request", H(5),
       <<Const(B(5)), Const(B(18)), Length(4), Num("xid", 4), Const(H(5)),
         Num("flags", 2), Zeros(4), Num("port_no", 4), Num("queue_id", 4)>>) }

requestforward_to_role_request ==
    { Leaf("message.requestforward", "message.message", B(32),
       <<Const(B(5)), Const(B(32)), Length(4), Num("xid", 4), Num("role", 4),
         Rest("data")>>),
      Leaf("message.role_reply", "message.message", B(25),
       <<Const(B(5)), Const(B(25)), Length(4), Num("xid", 4), Num("role", 4),
         Zeros(4), Num("generation_id", 8)>>),
      Leaf("message.role_request", "message.message", B(24),
       <<Const(B(5)), Const(B(24)), Length(4), Num("xid", 4), Num("role", 4),
         Zeros(4), Num("generation_id", 8)>>) }

role_request_failed_error_msg_to_set_config ==
    { Leaf("message.role_request_failed_error_msg", "message.error_msg", H(11),
       <<Const(B(5)), Const(B(1)), Length(4), Num("xid", 4), Const(H(11)),
         Num("code", 2), Rest("data")>>),
      Leaf("message.role_status", "message.message", B(30),
       <<Const(B(5)), Const(B(30)), Length(4), Num("xid", 4), Num("role", 4),
         Num("reason", 1), Zeros(3), Num("generation_id", 8),
         List("properties", "role_prop.role_prop")>>),
      Leaf("message.set_config", "message.message", B(9),
       <<Const(B(5)), Const(B(9)), Length(4), Num("xid", 4), Num("flags", 2),
         Num("miss_send_len", 2)>>) }

switch_config_failed_error_msg_to_table_desc_stats_request ==
    { Leaf("message.switch_config_failed_error_msg", "message.error_msg", H(10),
       <<Const(B(5)), Const(B(1)), Length(4), Num("xid", 4), Const(H(10)),
         Num("code", 2), Rest("data")>>),
      Leaf("message.table_desc_stats_reply", "message.stats_reply", H(14),
       <<Const(B(5)), Const(B(19)), Length(4), Num("xid", 4), Const(H(14)),
         Num("flags", 2), Zeros(4), List("entries", "common.table_desc")>>),
      Leaf("message.table_desc_stats_request", "message.stats_request", H(14),
       <<Const(B(5)), Const(B(18)), Length(4), Num("xid", 4), Const(H(14)),
         Num("flags", 2), Zeros(4)>>) }

table_features_failed_error_msg_to_table_features_stats_request ==
    { Leaf("message.table_features_failed_error_msg", "message.error_msg", H(13),
       <<Const(B(5)), Const(B(1)), Length(4), Num("xid", 4), Const(H(13)),
         Num("code", 2), Rest("data")>>),
      Leaf("message.table_features_stats_reply", "message.stats_reply", H(12),
       <<Const(B(5)), Const(B(19)), Length(4), Num("xid", 4), Const(H(12)),
         Num("flags", 2), Zeros(4),
         List("entries", "common.table_features")>>),
      Leaf("message.table_features_stats_request", "message.stats_request", H(12),
       <<Const(B(5)), Const(B(18)), Length(4), Num("xid", 4), Const(H(12)),
         Num("flags", 2), Zeros(4),
         List("entries", "common.table_features")>>) }

table_mod_to_table_stats_reply ==
    { Leaf("message.table_mod", "message.message", B(17),
       <<Const(B(5)), Const(B(17)), Length(4), Num("xid", 4),
         Num("table_id", 1), Zeros(3), Num("config", 4),
         List("properties", "table_mod_prop.table_mod_prop")>>),
      Leaf("message.table_mod_failed_error_msg", "message.error_msg", H(8),
       <<Const(B(5)), Const(B(1)), Length(4), Num("xid", 4), Const(H(8)),
         Num("code", 2), Rest("data")>>),
      Leaf("message.table_stats_reply", "message.stats_reply", H(3),
       <<Const(B(5)), Const(B(19)), Length(4), Num("xid", 4), Const(H(3)),
         Num("flags", 2), Zeros(4),
         List("entries", "common.table_stats_entry")>>) }

table_stats_request_to_table_status ==
    { Leaf("message.table_stats_request", "message.stats_request", H(3),
       <<Const(B(5)), Const(B(18)), Length(4), Num("xid", 4), Const(H(3)),
         Num("flags", 2), Zeros(4)>>),
      Leaf("message.table_status", "message.message", B(31),
       <<Const(B(5)), Const(B(31)), Length(4), Num("xid", 4), Num("role", 4),
         Num("reason", 1), Zeros(7), Object("table", "common.table_desc")>>) }

Classes ==
    UNION {message_to_aggregate_stats_reply,
      stats_request_to_aggregate_stats_request,
      error_msg_to_async_get_request, async_set_to_bad_instruction_error_msg,
      bad_match_error_msg_to_bad_request_error_msg,
      barrier_reply_to_bsn_header, bsn_arp_idle_to_bsn_base_error,
      bsn_bw_clear_data_reply_to_bsn_bw_enable_get_request,
      bsn_bw_enable_set_reply_to_bsn_controller_connections_reply,
      bsn_controller_connections_request_to_bsn_stats_reply,
      bsn_debug_counter_desc_stats_reply_to_bsn_stats_request,
      bsn_debug_counter_desc_stats_request_to_bsn_debug_counter_stats_request,
      bsn_error_to_bsn_flow_checksum_bucket_stats_request,
      bsn_flow_idle_to_bsn_flow_idle_enable_get_request,
      bsn_flow_idle_enable_set_reply_to_bsn_generic_async,
      bsn_generic_command_to_bsn_generic_stats_request,
      bsn_gentable_bucket_stats_reply_to_bsn_gentable_clear_reply,
      bsn_gentable_clear_request_to_bsn_gentable_desc_stats_request,
      bsn_gentable_entry_add_to_bsn_gentable_entry_desc_stats_reply,
      bsn_gentable_entry_desc_stats_request_to_bsn_gentable_entry_stats_reply,
      bsn_gentable_entry_stats_request_to_bsn_gentable_set_buckets_size,
      bsn_gentable_stats_reply_to_bsn_get_interfaces_reply,
      bsn_get_interfaces_request_to_bsn_get_mirroring_request,
      bsn_get_switch_pipeline_reply_to_bsn_image_desc_stats_reply,
      bsn_image_desc_stats_request_to_bsn_lacp_convergence_notif,
      bsn_lacp_stats_reply_to_bsn_log,
      bsn_lua_command_reply_to_bsn_lua_notification,
      bsn_lua_upload_to_bsn_pdu_rx_reply,
      bsn_pdu_rx_request_to_bsn_pdu_tx_reply,
      bsn_pdu_tx_request_to_bsn_port_counter_stats_request,
      bsn_set_aux_cxns_reply_to_bsn_set_lacp_reply,
      bsn_set_lacp_request_to_bsn_set_mirroring,
      bsn_set_pktin_suppression_reply_to_bsn_set_switch_pipeline_reply,
      bsn_set_switch_pipeline_request_to_bsn_switch_pipeline_stats_request,
      bsn_table_checksum_stats_reply_to_bsn_table_set_buckets_size,
      bsn_takeover_to_bsn_virtual_port_create_reply,
      bsn_virtual_port_create_request_to_bsn_virtual_port_remove_request,
      bsn_vlan_counter_clear_to_bsn_vlan_counter_stats_request,
      bsn_vrf_counter_stats_reply_to_bundle_add_msg,
      bundle_ctrl_msg_to_desc_stats_reply, desc_stats_request_to_echo_request,
      features_reply_to_features_request, flow_mod, flow_add, flow_delete,
      flow_delete_strict_to_flow_mod_failed_error_msg, flow_modify,
      flow_modify_strict_to_flow_monitor_failed_error_msg,
      flow_removed_to_flow_stats_reply,
      flow_stats_request_to_get_config_request, group_mod_to_group_delete,
      group_desc_stats_reply_to_group_desc_stats_request,
      group_features_stats_reply_to_group_features_stats_request,
      group_mod_failed_error_msg_to_group_stats_reply,
      group_stats_request_to_hello_failed_error_msg,
      meter_config_stats_reply_to_meter_features_stats_reply,
      meter_features_stats_request_to_meter_mod_failed_error_msg,
      meter_stats_reply_to_nicira_header, packet_in_to_packet_out,
      port_desc_stats_reply_to_port_mod,
      port_mod_failed_error_msg_to_port_stats_request,
      port_status_to_queue_desc_stats_request,
      queue_op_failed_error_msg_to_queue_stats_request,
      requestforward_to_role_request,
      role_request_failed_error_msg_to_set_config,
      switch_config_failed_error_msg_to_table_desc_stats_request,
      table_features_failed_error_msg_to_table_features_stats_request,
      table_mod_to_table_stats_reply, table_stats_request_to_table_status}
=============================================================================
