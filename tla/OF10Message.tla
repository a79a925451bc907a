---------------------------- MODULE OF10Message -----------------------------
\* The classes of ofagent/loxi/of10/message.py, see Layout.
EXTENDS Layout

message_to_aggregate_stats_reply ==
    { Root("message.message", Peek(1, 1),
       <<Const(B(1)), Num("type", 1), Length(4), Num("xid", 4)>>),
      Node("message.stats_reply", "message.message", B(17), Peek(2, 8),
       <<Const(B(1)), Const(B(17)), Length(4), Num("xid", 4),
         Num("stats_type", 2), Num("flags", 2)>>),
      Leaf("message.aggregate_stats_reply", "message.stats_reply", H(2),
       <<Const(B(1)), Const(B(17)), Length(4), Num("xid", 4), Const(H(2)),
         Num("flags", 2), Num("packet_count", 8), Num("byte_count", 8),
         Num("flow_count", 4), Zeros(4)>>) }

stats_request_to_error_msg ==
    { Node("message.stats_request", "message.message", B(16), Peek(2, 8),
       <<Const(B(1)), Const(B(16)), Length(4), Num("xid", 4),
         Num("stats_type", 2), Num("flags", 2)>>),
      Leaf("message.aggregate_stats_request", "message.stats_request", H(2),
       <<Const(B(1)), Const(B(16)), Length(4), Num("xid", 4), Const(H(2)),
         Num("flags", 2), Object("match", "common.match_v1"),
         Num("table_id", 1), Zeros(1), Num("out_port", 2)>>),
      Node("message.error_msg", "message.message", B(1), Peek(2, 8),
       <<Const(B(1)), Const(B(1)), Length(4), Num("xid", 4),
         Num("err_type", 2)>>) }

bad_action_error_msg_to_barrier_request ==
    { Leaf("message.bad_action_error_msg", "message.error_msg", H(2),
       <<Const(B(1)), Const(B(1)), Length(4), Num("xid", 4), Const(H(2)),
         Num("code", 2), Rest("data")>>),
      Leaf("message.bad_request_error_msg", "message.error_msg", H(1),
       <<Const(B(1)), Const(B(1)), Length(4), Num("xid", 4), Const(H(1)),
         Num("code", 2), Rest("data")>>),
      Leaf("message.barrier_reply", "message.message", B(19),
       <<Const(B(1)), Const(B(19)), Length(4), Num("xid", 4)>>),
      Leaf("message.barrier_request", "message.message", B(18),
       <<Const(B(1)), Const(B(18)), Length(4), Num("xid", 4)>>) }

experimenter_to_bsn_bw_clear_data_reply ==
    { Node("message.experimenter", "message.message", B(4), Peek(4, 8),
       <<Const(B(1)), Const(B(4)), Length(4), Num("xid", 4),
         Num("experimenter", 4), Rest("data")>>),
      Node("message.bsn_header", "message.experimenter", L(6035143), Peek(4, 12),
       <<Const(B(1)), Const(B(4)), Length(4), Num("xid", 4),
         Const(L(6035143)), Num("subtype", 4)>>),
      Leaf("message.bsn_bw_clear_data_reply", "message.bsn_header", L(22),
       <<Const(B(1)), Const(B(4)), Length(4), Num("xid", 4),
         Const(L(6035143)), Const(L(22)), Num("status", 4)>>) }

bsn_bw_clear_data_request_to_bsn_bw_enable_set_reply ==
    { Leaf("message.bsn_bw_clear_data_request", "message.bsn_header", L(21),
       <<Const(B(1)), Const(B(4)), Length(4), Num("xid", 4),
         Const(L(6035143)), Const(L(21))>>),
      Leaf("message.bsn_bw_enable_get_reply", "message.bsn_header", L(20),
       <<Const(B(1)), Const(B(4)), Length(4), Num("xid", 4),
         Const(L(6035143)), Const(L(20)), Num("enabled", 4)>>),
      Leaf("message.bsn_bw_enable_get_request", "message.bsn_header", L(19),
       <<Const(B(1)), Const(B(4)), Length(4), Num("xid", 4),
         Const(L(6035143)), Const(L(19))>>),
      Leaf("message.bsn_bw_enable_set_reply", "message.bsn_header", L(23),
       <<Const(B(1)), Const(B(4)), Length(4), Num("xid", 4),
         Const(L(6035143)), Const(L(23)), Num("enable", 4),
         Num("status", 4)>>) }

bsn_bw_enable_set_request_to_bsn_get_interfaces_request ==
    { Leaf("message.bsn_bw_enable_set_request", "message.bsn_header", L(18),
       <<Const(B(1)), Const(B(4)), Length(4), Num("xid", 4),
         Const(L(6035143)), Const(L(18)), Num("enable", 4)>>),
      Leaf("message.bsn_get_interfaces_reply", "message.bsn_header", L(10),
       <<Const(B(1)), Const(B(4)), Length(4), Num("xid", 4),
         Const(L(6035143)), Const(L(10)),
         List("interfaces", "common.bsn_interface")>>),
      Leaf("message.bsn_get_interfaces_request", "message.bsn_header", L(9),
       <<Const(B(1)), Const(B(4)), Length(4), Num("xid", 4),
         Const(L(6035143)), Const(L(9))>>) }

bsn_get_ip_mask_reply_to_bsn_get_l2_table_reply ==
    { Leaf("message.bsn_get_ip_mask_reply", "message.bsn_header", L(2),
       <<Const(B(1)), Const(B(4)), Length(4), Num("xid", 4),
         Const(L(6035143)), Const(L(2)), Num("index", 1), Zeros(3),
         Num("mask", 4)>>),
      Leaf("message.bsn_get_ip_mask_request", "message.bsn_header", L(1),
       <<Const(B(1)), Const(B(4)), Length(4), Num("xid", 4),
         Const(L(6035143)), Const(L(1)), Num("index", 1), Zeros(7)>>),
      Leaf("message.bsn_get_l2_table_reply", "message.bsn_header", L(14),
       <<Const(B(1)), Const(B(4)), Length(4), Num("xid", 4),
         Const(L(6035143)), Const(L(14)), Num("l2_table_enable", 1), Zeros(1),
         Num("l2_table_priority", 2), Zeros(4)>>) }

bsn_get_l2_table_request_to_bsn_get_mirroring_request ==
    { Leaf("message.bsn_get_l2_table_request", "message.bsn_header", L(13),
       <<Const(B(1)), Const(B(4)), Length(4), Num("xid", 4),
         Const(L(6035143)), Const(L(13))>>),
      Leaf("message.bsn_get_mirroring_reply", "message.bsn_header", L(5),
       <<Const(B(1)), Const(B(4)), Length(4), Num("xid", 4),
         Const(L(6035143)), Const(L(5)), Num("report_mirror_ports", 1),
         Zeros(3)>>),
      Leaf("message.bsn_get_mirroring_request", "message.bsn_header", L(4),
       <<Const(B(1)), Const(B(4)), Length(4), Num("xid", 4),
         Const(L(6035143)), Const(L(4)), Num("report_mirror_ports", 1),
         Zeros(3)>>) }

bsn_hybrid_get_reply_to_bsn_pdu_rx_reply ==
    { Leaf("message.bsn_hybrid_get_reply", "message.bsn_header", L(28),
       <<Const(B(1)), Const(B(4)), Length(4), Num("xid", 4),
         Const(L(6035143)), Const(L(28)), Num("hybrid_enable", 1), Zeros(1),
         Num("hybrid_version", 2), Zeros(4)>>),
      Leaf("message.bsn_hybrid_get_request", "message.bsn_header", L(27),
       <<Const(B(1)), Const(B(4)), Length(4), Num("xid", 4),
         Const(L(6035143)), Const(L(27))>>),
      Leaf("message.bsn_pdu_rx_reply", "message.bsn_header", L(34),
       <<Const(B(1)), Const(B(4)), Length(4), Num("xid", 4),
         Const(L(6035143)), Const(L(34)), Num("status", 4), Num("port_no", 2),
         Num("slot_num", 1)>>) }

bsn_pdu_rx_request_to_bsn_pdu_tx_reply ==
    { Leaf("message.bsn_pdu_rx_request", "message.bsn_header", L(33),
       <<Const(B(1)), Const(B(4)), Length(4), Num("xid", 4),
         Const(L(6035143)), Const(L(33)), Num("timeout_ms", 4),
         Num("port_no", 2), Num("slot_num", 1), Zeros(3), Rest("data")>>),
      Leaf("message.bsn_pdu_rx_timeout", "message.bsn_header", L(35),
       <<Const(B(1)), Const(B(4)), Length(4), Num("xid", 4),
         Const(L(6035143)), Const(L(35)), Num("port_no", 2),
         Num("slot_num", 1)>>),
      Leaf("message.bsn_pdu_tx_reply", "message.bsn_header", L(32),
       <<Const(B(1)), Const(B(4)), Length(4), Num("xid", 4),
         Const(L(6035143)), Const(L(32)), Num("status", 4), Num("port_no", 2),
         Num("slot_num", 1)>>) }

bsn_pdu_tx_request_to_bsn_set_l2_table_reply ==
    { Leaf("message.bsn_pdu_tx_request", "message.bsn_header", L(31),
       <<Const(B(1)), Const(B(4)), Length(4), Num("xid", 4),
         Const(L(6035143)), Const(L(31)), Num("tx_interval_ms", 4),
         Num("port_no", 2), Num("slot_num", 1), Zeros(3), Rest("data")>>),
      Leaf("message.bsn_set_ip_mask", "message.bsn_header", L(0),
       <<Const(B(1)), Const(B(4)), Length(4), Num("xid", 4),
         Const(L(6035143)), Const(L(0)), Num("index", 1), Zeros(3),
         Num("mask", 4)>>),
      Leaf("message.bsn_set_l2_table_reply", "message.bsn_header", L(24),
       <<Const(B(1)), Const(B(4)), Length(4), Num("xid", 4),
         Const(L(6035143)), Const(L(24)), Num("l2_table_enable", 1), Zeros(1),
         Num("l2_table_priority", 2), Num("status", 4)>>) }

bsn_set_l2_table_request_to_bsn_set_pktin_suppression_reply ==
    { Leaf("message.bsn_set_l2_table_request", "message.bsn_header", L(12),
       <<Const(B(1)), Const(B(4)), Length(4), Num("xid", 4),
         Const(L(6035143)), Const(L(12)), Num("l2_table_enable", 1), Zeros(1),
         Num("l2_table_priority", 2), Zeros(4)>>),
      Leaf("message.bsn_set_mirroring", "message.bsn_header", L(3),
       <<Const(B(1)), Const(B(4)), Length(4), Num("xid", 4),
         Const(L(6035143)), Const(L(3)), Num("report_mirror_ports", 1),
         Zeros(3)>>),
      Leaf("message.bsn_set_pktin_suppression_reply", "message.bsn_header", L(25),
       <<Const(B(1)), Const(B(4)), Length(4), Num("xid", 4),
         Const(L(6035143)), Const(L(25)), Num("status", 4)>>) }

bsn_set_pktin_suppression_request_to_bsn_shell_output ==
    { Leaf("message.bsn_set_pktin_suppression_request", "message.bsn_header", L(11),
       <<Const(B(1)), Const(B(4)), Length(4), Num("xid", 4),
         Const(L(6035143)), Const(L(11)), Num("enabled", 1), Zeros(1),
         Num("idle_timeout", 2), Num("hard_timeout", 2), Num("priority", 2),
         Num("cookie", 8)>>),
      Leaf("message.bsn_shell_command", "message.bsn_header", L(6),
       <<Const(B(1)), Const(B(4)), Length(4), Num("xid", 4),
         Const(L(6035143)), Const(L(6)), Num("service", 4), Rest("data")>>),
      Leaf("message.bsn_shell_output", "message.bsn_header", L(7),
       <<Const(B(1)), Const(B(4)), Length(4), Num("xid", 4),
         Const(L(6035143)), Const(L(7)), Rest("data")>>) }

bsn_shell_status_to_bsn_stats_reply ==
    { Leaf("message.bsn_shell_status", "message.bsn_header", L(8),
       <<Const(B(1)), Const(B(4)), Length(4), Num("xid", 4),
         Const(L(6035143)), Const(L(8)), Num("status", 4)>>),
      Node("message.experimenter_stats_reply", "message.stats_reply", H(65535), Peek(4, 12),
       <<Const(B(1)), Const(B(17)), Length(4), Num("xid", 4), Const(H(65535)),
         Num("flags", 2), Num("experimenter", 4), Rest("data")>>),
      Node("message.bsn_stats_reply", "message.experimenter_stats_reply", L(6035143), Peek(4, 20),
       <<Const(B(1)), Const(B(19)), Length(4), Num("xid", 4), Const(H(65535)),
         Num("flags", 2), Zeros(4), Const(L(6035143)), Num("subtype", 4)>>) }

experimenter_stats_request_to_bsn_virtual_port_create_reply ==
    { Node("message.experimenter_stats_request", "message.stats_request", H(65535), Peek(4, 12),
       <<Const(B(1)), Const(B(16)), Length(4), Num("xid", 4), Const(H(65535)),
         Num("flags", 2), Num("experimenter", 4), Rest("data")>>),
      Node("message.bsn_stats_request", "message.experimenter_stats_request", L(6035143), Peek(4, 20),
       <<Const(B(1)), Const(B(18)), Length(4), Num("xid", 4), Const(H(65535)),
         Num("flags", 2), Zeros(4), Const(L(6035143)), Num("subtype", 4)>>),
      Leaf("message.bsn_virtual_port_create_reply", "message.bsn_header", L(16),
       <<Const(B(1)), Const(B(4)), Length(4), Num("xid", 4),
         Const(L(6035143)), Const(L(16)), Num("status", 4),
         Num("vport_no", 4)>>) }

bsn_virtual_port_create_request_to_bsn_virtual_port_remove_request ==
    { Leaf("message.bsn_virtual_port_create_request", "message.bsn_header", L(15),
       <<Const(B(1)), Const(B(4)), Length(4), Num("xid", 4),
         Const(L(6035143)), Const(L(15)),
         Object("vport", "common.bsn_vport")>>),
      Leaf("message.bsn_virtual_port_remove_reply", "message.bsn_header", L(26),
       <<Const(B(1)), Const(B(4)), Length(4), Num("xid", 4),
         Const(L(6035143)), Const(L(26)), Num("status", 4)>>),
      Leaf("message.bsn_virtual_port_remove_request", "message.bsn_header", L(17),
       <<Const(B(1)), Const(B(4)), Length(4), Num("xid", 4),
         Const(L(6035143)), Const(L(17)), Num("vport_no", 4)>>) }

desc_stats_reply_to_echo_reply ==
    { Leaf("message.desc_stats_reply", "message.stats_reply", H(0),
       <<Const(B(1)), Const(B(17)), Length(4), Num("xid", 4), Const(H(0)),
         Num("flags", 2), Text("mfr_desc", 256), Text("hw_desc", 256),
         Text("sw_desc", 256), Text("serial_num", 32), Text("dp_desc", 256)>>),
      Leaf("message.desc_stats_request", "message.stats_request", H(0),
       <<Const(B(1)), Const(B(16)), Length(4), Num("xid", 4), Const(H(0)),
         Num("flags", 2)>>),
      Leaf("message.echo_reply", "message.message", B(3),
       <<Const(B(1)), Const(B(3)), Length(4), Num("xid", 4), Rest("data")>>) }

echo_request_to_features_request ==
    { Leaf("message.echo_request", "message.message", B(2),
       <<Const(B(1)), Const(B(2)), Length(4), Num("xid", 4), Rest("data")>>),
      Leaf("message.features_reply", "message.message", B(6),
       <<Const(B(1)), Const(B(6)), Length(4), Num("xid", 4),
         Num("datapath_id", 8), Num("n_buffers", 4), Num("n_tables", 1),
         Zeros(3), Num("capabilities", 4), Num("actions", 4),
         List("ports", "common.port_desc")>>),
      Leaf("message.features_request", "message.message", B(5),
       <<Const(B(1)), Const(B(5)), Length(4), Num("xid", 4)>>) }

flow_mod ==
    { Node("message.flow_mod", "message.message", B(14), Peek(2, 56),
       <<Const(B(1)), Const(B(14)), Length(4), Num("xid", 4),
         Object("match", "common.match_v1"), Num("cookie", 8),
         Num("_command", 2), Num("idle_timeout", 2), Num("hard_timeout", 2),
         Num("priority", 2), Num("buffer_id", 4), Num("out_port", 2),
         Num("flags", 2), List("actions", "action.action")>>) }

flow_add_to_flow_delete ==
    { Leaf("message.flow_add", "message.flow_mod", H(0),
       <<Const(B(1)), Const(B(14)), Length(4), Num("xid", 4),
         Object("match", "common.match_v1"), Num("cookie", 8), Const(H(0)),
         Num("idle_timeout", 2), Num("hard_timeout", 2), Num("priority", 2),
         Num("buffer_id", 4), Num("out_port", 2), Num("flags", 2),
         List("actions", "action.action")>>),
      Leaf("message.flow_delete", "message.flow_mod", H(3),
       <<Const(B(1)), Const(B(14)), Length(4), Num("xid", 4),
         Object("match", "common.match_v1"), Num("cookie", 8), Const(H(3)),
         Num("idle_timeout", 2), Num("hard_timeout", 2), Num("priority", 2),
         Num("buffer_id", 4), Num("out_port", 2), Num("flags", 2),
         List("actions", "action.action")>>) }

flow_delete_strict_to_flow_mod_failed_error_msg ==
    { Leaf("message.flow_delete_strict", "message.flow_mod", H(4),
       <<Const(B(1)), Const(B(14)), Length(4), Num("xid", 4),
         Object("match", "common.match_v1"), Num("cookie", 8), Const(H(4)),
         Num("idle_timeout", 2), Num("hard_timeout", 2), Num("priority", 2),
         Num("buffer_id", 4), Num("out_port", 2), Num("flags", 2),
         List("actions", "action.action")>>),
      Leaf("message.flow_mod_failed_error_msg", "message.error_msg", H(3),
       <<Const(B(1)), Const(B(1)), Length(4), Num("xid", 4), Const(H(3)),
         Num("code", 2), Rest("data")>>) }

flow_modify_to_flow_modify_strict ==
    { Leaf("message.flow_modify", "message.flow_mod", H(1),
       <<Const(B(1)), Const(B(14)), Length(4), Num("xid", 4),
         Object("match", "common.match_v1"), Num("cookie", 8), Const(H(1)),
         Num("idle_timeout", 2), Num("hard_timeout", 2), Num("priority", 2),
         Num("buffer_id", 4), Num("out_port", 2), Num("flags", 2),
         List("actions", "action.action")>>),
      Leaf("message.flow_modify_strict", "message.flow_mod", H(2),
       <<Const(B(1)), Const(B(14)), Length(4), Num("xid", 4),
         Object("match", "common.match_v1"), Num("cookie", 8), Const(H(2)),
         Num("idle_timeout", 2), Num("hard_timeout", 2), Num("priority", 2),
         Num("buffer_id", 4), Num("out_port", 2), Num("flags", 2),
         List("actions", "action.action")>>) }

flow_removed_to_flow_stats_reply ==
    { Leaf("message.flow_removed", "message.message", B(11),
       <<Const(B(1)), Const(B(11)), Length(4), Num("xid", 4),
         Object("match", "common.match_v1"), Num("cookie", 8),
         Num("priority", 2), Num("reason", 1), Zeros(1),
         Num("duration_sec", 4), Num("duration_nsec", 4),
         Num("idle_timeout", 2), Zeros(2), Num("packet_count", 8),
         Num("byte_count", 8)>>),
      Leaf("message.flow_stats_reply", "message.stats_reply", H(1),
       <<Const(B(1)), Const(B(17)), Length(4), Num("xid", 4), Const(H(1)),
         Num("flags", 2), List("entries", "common.flow_stats_entry")>>) }

flow_stats_request_to_get_config_request ==
    { Leaf("message.flow_stats_request", "message.stats_request", H(1),
       <<Const(B(1)), Const(B(16)), Length(4), Num("xid", 4), Const(H(1)),
         Num("flags", 2), Object("match", "common.match_v1"),
         Num("table_id", 1), Zeros(1), Num("out_port", 2)>>),
      Leaf("message.get_config_reply", "message.message", B(8),
       <<Const(B(1)), Const(B(8)), Length(4), Num("xid", 4), Num("flags", 2),
         Num("miss_send_len", 2)>>),
      Leaf("message.get_config_request", "message.message", B(7),
       <<Const(B(1)), Const(B(7)), Length(4), Num("xid", 4)>>) }

hello_to_nicira_controller_role_reply ==
    { Leaf("message.hello", "message.message", B(0),
       <<Const(B(1)), Const(B(0)), Length(4), Num("xid", 4)>>),
      Leaf("message.hello_failed_error_msg", "message.error_msg", H(0),
       <<Const(B(1)), Const(B(1)), Length(4), Num("xid", 4), Const(H(0)),
         Num("code", 2), Rest("data")>>),
      Node("message.nicira_header", "message.experimenter", L(8992), Peek(4, 12),
       <<Const(B(1)), Const(B(4)), Length(4), Num("xid", 4), Const(L(8992)),
         Num("subtype", 4)>>),
      Leaf("message.nicira_controller_role_reply", "message.nicira_header", L(11),
       <<Const(B(1)), Const(B(4)), Length(4), Num("xid", 4), Const(L(8992)),
         Const(L(11)), Num("role", 4)>>) }

nicira_controller_role_request_to_packet_out ==
    { Leaf("message.nicira_controller_role_request", "message.nicira_header", L(10),
       <<Const(B(1)), Const(B(4)), Length(4), Num("xid", 4), Const(L(8992)),
         Const(L(10)), Num("role", 4)>>),
      Leaf("message.packet_in", "message.message", B(10),
       <<Const(B(1)), Const(B(10)), Length(4), Num("xid", 4),
         Num("buffer_id", 4), Num("total_len", 2), Num("in_port", 2),
         Num("reason", 1), Zeros(1), Rest("data")>>),
      Leaf("message.packet_out", "message.message", B(13),
       <<Const(B(1)), Const(B(13)), Length(4), Num("xid", 4),
         Num("buffer_id", 4), Num("in_port", 2), LengthOf("actions"),
         ListIn("actions", "action.action"), Rest("data")>>) }

port_mod_to_port_stats_reply ==
    { Leaf("message.port_mod", "message.message", B(15),
       <<Const(B(1)), Const(B(15)), Length(4), Num("xid", 4),
         Num("port_no", 2), Mac("hw_addr"), Num("config", 4), Num("mask", 4),
         Num("advertise", 4), Zeros(4)>>),
      Leaf("message.port_mod_failed_error_msg", "message.error_msg", H(4),
       <<Const(B(1)), Const(B(1)), Length(4), Num("xid", 4), Const(H(4)),
         Num("code", 2), Rest("data")>>),
      Leaf("message.port_stats_reply", "message.stats_reply", H(4),
       <<Const(B(1)), Const(B(17)), Length(4), Num("xid", 4), Const(H(4)),
         Num("flags", 2), List("entries", "common.port_stats_entry")>>) }

port_stats_request_to_queue_get_config_reply ==
    { Leaf("message.port_stats_request", "message.stats_request", H(4),
       <<Const(B(1)), Const(B(16)), Length(4), Num("xid", 4), Const(H(4)),
         Num("flags", 2), Num("port_no", 2), Zeros(6)>>),
      Leaf("message.port_status", "message.message", B(12),
       <<Const(B(1)), Const(B(12)), Length(4), Num("xid", 4),
         Num("reason", 1), Zeros(7), Object("desc", "common.port_desc")>>),
      Leaf("message.queue_get_config_reply", "message.message", B(21),
       <<Const(B(1)), Const(B(21)), Length(4), Num("xid", 4), Num("port", 2),
         Zeros(6), List("queues", "common.packet_queue")>>) }

queue_get_config_request_to_queue_stats_reply ==
    { Leaf("message.queue_get_config_request", "message.message", B(20),
       <<Const(B(1)), Const(B(20)), Length(4), Num("xid", 4), Num("port", 2),
         Zeros(2)>>),
      Leaf("message.queue_op_failed_error_msg", "message.error_msg", H(5),
       <<Const(B(1)), Const(B(1)), Length(4), Num("xid", 4), Const(H(5)),
         Num("code", 2), Rest("data")>>),
      Leaf("message.queue_stats_reply", "message.stats_reply", H(5),
       <<Const(B(1)), Const(B(17)), Length(4), Num("xid", 4), Const(H(5)),
         Num("flags", 2), List("entries", "common.queue_stats_entry")>>) }

queue_stats_request_to_table_mod ==
    { Leaf("message.queue_stats_request", "message.stats_request", H(5),
       <<Const(B(1)), Const(B(16)), Length(4), Num("xid", 4), Const(H(5)),
         Num("flags", 2), Num("port_no", 2), Zeros(2), Num("queue_id", 4)>>),
      Leaf("message.set_config", "message.message", B(9),
       <<Const(B(1)), Const(B(9)), Length(4), Num("xid", 4), Num("flags", 2),
         Num("miss_send_len", 2)>>),
      Leaf("message.table_mod", "message.message", B(22),
       <<Const(B(1)), Const(B(22)), Length(4), Num("xid", 4),
         Num("table_id", 1), Zeros(3), Num("config", 4)>>) }

table_stats_reply_to_table_stats_request ==
    { Leaf("message.table_stats_reply", "message.stats_reply", H(3),
       <<Const(B(1)), Const(B(17)), Length(4), Num("xid", 4), Const(H(3)),
         Num("flags", 2), List("entries", "common.table_stats_entry")>>),
      Leaf("message.table_stats_request", "message.stats_request", H(3),
       <<Const(B(1)), Const(B(16)), Length(4), Num("xid", 4), Const(H(3)),
         Num("flags", 2)>>) }

Classes ==
    UNION {message_to_aggregate_stats_reply, stats_request_to_error_msg,
      bad_action_error_msg_to_barrier_request,
      experimenter_to_bsn_bw_clear_data_reply,
      bsn_bw_clear_data_request_to_bsn_bw_enable_set_reply,
      bsn_bw_enable_set_request_to_bsn_get_interfaces_request,
      bsn_get_ip_mask_reply_to_bsn_get_l2_table_reply,
      bsn_get_l2_table_request_to_bsn_get_mirroring_request,
      bsn_hybrid_get_reply_to_bsn_pdu_rx_reply,
      bsn_pdu_rx_request_to_bsn_pdu_tx_reply,
      bsn_pdu_tx_request_to_bsn_set_l2_table_reply,
      bsn_set_l2_table_request_to_bsn_set_pktin_suppression_reply,
      bsn_set_pktin_suppression_request_to_bsn_shell_output,
      bsn_shell_status_to_bsn_stats_reply,
      experimenter_stats_request_to_bsn_virtual_port_create_reply,
      bsn_virtual_port_create_request_to_bsn_virtual_port_remove_request,
      desc_stats_reply_to_echo_reply, echo_request_to_features_request,
      flow_mod, flow_add_to_flow_delete,
      flow_delete_strict_to_flow_mod_failed_error_msg,
      flow_modify_to_flow_modify_strict, flow_removed_to_flow_stats_reply,
      flow_stats_request_to_get_config_request,
      hello_to_nicira_controller_role_reply,
      nicira_controller_role_request_to_packet_out,
      port_mod_to_port_stats_reply,
      port_stats_request_to_queue_get_config_reply,
      queue_get_config_request_to_queue_stats_reply,
      queue_stats_request_to_table_mod,
      table_stats_reply_to_table_stats_request}
=============================================================================
