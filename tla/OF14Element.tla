---------------------------- MODULE OF14Element -----------------------------
\* The classes of ofagent/loxi/of14/: action.py, action_id.py,
\* async_config_prop.py, bundle_prop.py, instruction.py, instruction_id.py,
\* meter_band.py, port_desc_prop.py, port_mod_prop.py, port_stats_prop.py,
\* queue_desc_prop.py, queue_stats_prop.py, role_prop.py,
\* table_mod_prop.py.  See Layout.
EXTENDS Layout

-----------------------------------------------------------------------------
\* action.py

action_to_bsn_checksum ==
    { Root("action.action", Peek(2, 0),
       <<Num("type", 2), Length(4), Zeros(4)>>),
      Node("action.experimenter", "action.action", H(65535), Peek(4, 4),
       <<Const(H(65535)), Length(4), Num("experimenter", 4), Rest("data"),
         Fill>>),
      Node("action.bsn", "action.experimenter", L(6035143), Peek(4, 8),
       <<Const(H(65535)), Length(4), Const(L(6035143)), Num("subtype", 4),
         Zeros(4)>>),
      Leaf("action.bsn_checksum", "action.bsn", L(4),
       <<Const(H(65535)), Length(4), Const(L(6035143)), Const(L(4)),
         Num("checksum", 16)>>) }

action_bsn_gentable_to_copy_ttl_in ==
    { Leaf("action.bsn_gentable", "action.bsn", L(5),
       <<Const(H(65535)), Length(4), Const(L(6035143)), Const(L(5)),
         Num("table_id", 4), List("key", "bsn_tlv.bsn_tlv")>>),
      Leaf("action.bsn_mirror", "action.bsn", L(1),
       <<Const(H(65535)), Length(4), Const(L(6035143)), Const(L(1)),
         Num("dest_port", 4), Num("vlan_tag", 4), Num("copy_stage", 1),
         Zeros(3)>>),
      Leaf("action.bsn_set_tunnel_dst", "action.bsn", L(2),
       <<Const(H(65535)), Length(4), Const(L(6035143)), Const(L(2)),
         Num("dst", 4)>>),
      Leaf("action.copy_ttl_in", "action.action", H(12),
       <<Const(H(12)), Length(4), Zeros(4)>>) }

action_copy_ttl_out_to_nicira ==
    { Leaf("action.copy_ttl_out", "action.action", H(11),
       <<Const(H(11)), Length(4), Zeros(4)>>),
      Leaf("action.dec_mpls_ttl", "action.action", H(16),
       <<Const(H(16)), Length(4), Zeros(4)>>),
      Leaf("action.dec_nw_ttl", "action.action", H(24),
       <<Const(H(24)), Length(4), Zeros(4)>>),
      Leaf("action.group", "action.action", H(22),
       <<Const(H(22)), Length(4), Num("group_id", 4)>>),
      Node("action.nicira", "action.experimenter", L(8992), Peek(2, 8),
       <<Const(H(65535)), Length(4), Const(L(8992)), Num("subtype", 2),
         Zeros(2), Zeros(4)>>) }

action_nicira_dec_ttl_to_pop_vlan ==
    { Leaf("action.nicira_dec_ttl", "action.nicira", H(18),
       <<Const(H(65535)), Length(4), Const(L(8992)), Const(H(18)), Zeros(2),
         Zeros(4)>>),
      Leaf("action.output", "action.action", H(0),
       <<Const(H(0)), Length(4), Num("port", 4), Num("max_len", 2),
         Zeros(6)>>),
      Leaf("action.pop_mpls", "action.action", H(20),
       <<Const(H(20)), Length(4), Num("ethertype", 2), Zeros(2)>>),
      Leaf("action.pop_pbb", "action.action", H(27),
       <<Const(H(27)), Length(4), Zeros(4)>>),
      Leaf("action.pop_vlan", "action.action", H(18),
       <<Const(H(18)), Length(4), Zeros(4)>>) }

action_push_mpls_to_set_mpls_ttl ==
    { Leaf("action.push_mpls", "action.action", H(19),
       <<Const(H(19)), Length(4), Num("ethertype", 2), Zeros(2)>>),
      Leaf("action.push_pbb", "action.action", H(26),
       <<Const(H(26)), Length(4), Num("ethertype", 2), Zeros(2)>>),
      Leaf("action.push_vlan", "action.action", H(17),
       <<Const(H(17)), Length(4), Num("ethertype", 2), Zeros(2)>>),
      Leaf("action.set_field", "action.action", H(25),
       <<Const(H(25)), Length(4), Object("field", "oxm.oxm"), Fill>>),
      Leaf("action.set_mpls_ttl", "action.action", H(15),
       <<Const(H(15)), Length(4), Num("mpls_ttl", 1), Zeros(3)>>) }

action_set_nw_ttl_to_set_queue ==
    { Leaf("action.set_nw_ttl", "action.action", H(23),
       <<Const(H(23)), Length(4), Num("nw_ttl", 1), Zeros(3)>>),
      Leaf("action.set_queue", "action.action", H(21),
       <<Const(H(21)), Length(4), Num("queue_id", 4)>>) }

-----------------------------------------------------------------------------
\* action_id.py

action_id_to_bsn_gentable ==
    { Root("action_id.action_id", Peek(2, 0),
       <<Num("type", 2), Length(4)>>),
      Node("action_id.experimenter", "action_id.action_id", H(65535), Peek(4, 4),
       <<Const(H(65535)), Length(4), Num("experimenter", 4)>>),
      Node("action_id.bsn", "action_id.experimenter", L(6035143), Peek(4, 8),
       <<Const(H(65535)), Length(4), Const(L(6035143)), Num("subtype", 4)>>),
      Leaf("action_id.bsn_checksum", "action_id.bsn", L(4),
       <<Const(H(65535)), Length(4), Const(L(6035143)), Const(L(4))>>),
      Leaf("action_id.bsn_gentable", "action_id.bsn", L(5),
       <<Const(H(65535)), Length(4), Const(L(6035143)), Const(L(5))>>) }

action_id_bsn_mirror_to_dec_nw_ttl ==
    { Leaf("action_id.bsn_mirror", "action_id.bsn", L(1),
       <<Const(H(65535)), Length(4), Const(L(6035143)), Const(L(1))>>),
      Leaf("action_id.bsn_set_tunnel_dst", "action_id.bsn", L(2),
       <<Const(H(65535)), Length(4), Const(L(6035143)), Const(L(2))>>),
      Leaf("action_id.copy_ttl_in", "action_id.action_id", H(12),
       <<Const(H(12)), Length(4)>>),
      Leaf("action_id.copy_ttl_out", "action_id.action_id", H(11),
       <<Const(H(11)), Length(4)>>),
      Leaf("action_id.dec_mpls_ttl", "action_id.action_id", H(16),
       <<Const(H(16)), Length(4)>>),
      Leaf("action_id.dec_nw_ttl", "action_id.action_id", H(24),
       <<Const(H(24)), Length(4)>>) }

action_id_group_to_pop_pbb ==
    { Leaf("action_id.group", "action_id.action_id", H(22),
       <<Const(H(22)), Length(4)>>),
      Node("action_id.nicira", "action_id.experimenter", L(8992), Peek(2, 8),
       <<Const(H(65535)), Length(4), Const(L(8992)), Num("subtype", 2)>>),
      Leaf("action_id.nicira_dec_ttl", "action_id.nicira", H(18),
       <<Const(H(65535)), Length(4), Const(L(8992)), Const(H(18))>>),
      Leaf("action_id.output", "action_id.action_id", H(0),
       <<Const(H(0)), Length(4)>>),
      Leaf("action_id.pop_mpls", "action_id.action_id", H(20),
       <<Const(H(20)), Length(4)>>),
      Leaf("action_id.pop_pbb", "action_id.action_id", H(27),
       <<Const(H(27)), Length(4)>>) }

action_id_pop_vlan_to_set_nw_ttl ==
    { Leaf("action_id.pop_vlan", "action_id.action_id", H(18),
       <<Const(H(18)), Length(4)>>),
      Leaf("action_id.push_mpls", "action_id.action_id", H(19),
       <<Const(H(19)), Length(4)>>),
      Leaf("action_id.push_pbb", "action_id.action_id", H(26),
       <<Const(H(26)), Length(4)>>),
      Leaf("action_id.push_vlan", "action_id.action_id", H(17),
       <<Const(H(17)), Length(4)>>),
      Leaf("action_id.set_field", "action_id.action_id", H(25),
       <<Const(H(25)), Length(4)>>),
      Leaf("action_id.set_mpls_ttl", "action_id.action_id", H(15),
       <<Const(H(15)), Length(4)>>),
      Leaf("action_id.set_nw_ttl", "action_id.action_id", H(23),
       <<Const(H(23)), Length(4)>>) }

action_id_set_queue ==
    { Leaf("action_id.set_queue", "action_id.action_id", H(21),
       <<Const(H(21)), Length(4)>>) }

-----------------------------------------------------------------------------
\* async_config_prop.py

async_config_prop_to_packet_in_master ==
    { Root("async_config_prop.async_config_prop", Peek(2, 0),
       <<Num("type", 2), Length(4)>>),
      Leaf("async_config_prop.experimenter_master", "async_config_prop.async_config_prop", H(65535),
       <<Const(H(65535)), Length(4)>>),
      Leaf("async_config_prop.experimenter_slave", "async_config_prop.async_config_prop", H(65534),
       <<Const(H(65534)), Length(4)>>),
      Leaf("async_config_prop.flow_removed_master", "async_config_prop.async_config_prop", H(5),
       <<Const(H(5)), Length(4), Num("mask", 4)>>),
      Leaf("async_config_prop.flow_removed_slave", "async_config_prop.async_config_prop", H(4),
       <<Const(H(4)), Length(4), Num("mask", 4)>>),
      Leaf("async_config_prop.packet_in_master", "async_config_prop.async_config_prop", H(1),
       <<Const(H(1)), Length(4), Num("mask", 4)>>) }

packet_in_slave_to_requestforward_slave ==
    { Leaf("async_config_prop.packet_in_slave", "async_config_prop.async_config_prop", H(0),
       <<Const(H(0)), Length(4), Num("mask", 4)>>),
      Leaf("async_config_prop.port_status_master", "async_config_prop.async_config_prop", H(3),
       <<Const(H(3)), Length(4), Num("mask", 4)>>),
      Leaf("async_config_prop.port_status_slave", "async_config_prop.async_config_prop", H(2),
       <<Const(H(2)), Length(4), Num("mask", 4)>>),
      Leaf("async_config_prop.requestforward_master", "async_config_prop.async_config_prop", H(11),
       <<Const(H(11)), Length(4), Num("mask", 4)>>),
      Leaf("async_config_prop.requestforward_slave", "async_config_prop.async_config_prop", H(10),
       <<Const(H(10)), Length(4), Num("mask", 4)>>) }

role_status_master_to_table_status_slave ==
    { Leaf("async_config_prop.role_status_master", "async_config_prop.async_config_prop", H(7),
       <<Const(H(7)), Length(4), Num("mask", 4)>>),
      Leaf("async_config_prop.role_status_slave", "async_config_prop.async_config_prop", H(6),
       <<Const(H(6)), Length(4), Num("mask", 4)>>),
      Leaf("async_config_prop.table_status_master", "async_config_prop.async_config_prop", H(9),
       <<Const(H(9)), Length(4), Num("mask", 4)>>),
      Leaf("async_config_prop.table_status_slave", "async_config_prop.async_config_prop", H(8),
       <<Const(H(8)), Length(4), Num("mask", 4)>>) }

-----------------------------------------------------------------------------
\* bundle_prop.py

bundle_prop_to_experimenter ==
    { Root("bundle_prop.bundle_prop", Peek(2, 0),
       <<Num("type", 2), Length(4)>>),
      Node("bundle_prop.experimenter", "bundle_prop.bundle_prop", H(65535), Peek(4, 4),
       <<Const(H(65535)), Length(4), Num("experimenter", 4),
         Num("exp_type", 4)>>) }

-----------------------------------------------------------------------------
\* instruction.py

instruction_to_bsn_arp_offload ==
    { Root("instruction.instruction", Peek(2, 0),
       <<Num("type", 2), Length(4)>>),
      Leaf("instruction.apply_actions", "instruction.instruction", H(4),
       <<Const(H(4)), Length(4), Zeros(4), List("actions", "action.action")>>),
      Node("instruction.experimenter", "instruction.instruction", H(65535), Peek(4, 4),
       <<Const(H(65535)), Length(4), Num("experimenter", 4), Rest("data")>>),
      Node("instruction.bsn", "instruction.experimenter", L(6035143), Peek(4, 8),
       <<Const(H(65535)), Length(4), Const(L(6035143)), Num("subtype", 4),
         Zeros(4)>>),
      Leaf("instruction.bsn_arp_offload", "instruction.bsn", L(1),
       <<Const(H(65535)), Length(4), Const(L(6035143)), Const(L(1)),
         Zeros(4)>>) }

instruction_bsn_auto_negotiation_to_bsn_disable_src_mac_check ==
    { Leaf("instruction.bsn_auto_negotiation", "instruction.bsn", L(11),
       <<Const(H(65535)), Length(4), Const(L(6035143)), Const(L(11)),
         Zeros(4)>>),
      Leaf("instruction.bsn_deny", "instruction.bsn", L(5),
       <<Const(H(65535)), Length(4), Const(L(6035143)), Const(L(5)),
         Zeros(4)>>),
      Leaf("instruction.bsn_dhcp_offload", "instruction.bsn", L(2),
       <<Const(H(65535)), Length(4), Const(L(6035143)), Const(L(2)),
         Zeros(4)>>),
      Leaf("instruction.bsn_disable_l3", "instruction.bsn", L(13),
       <<Const(H(65535)), Length(4), Const(L(6035143)), Const(L(13)),
         Zeros(4)>>),
      Leaf("instruction.bsn_disable_src_mac_check", "instruction.bsn", L(0),
       <<Const(H(65535)), Length(4), Const(L(6035143)), Const(L(0)),
         Zeros(4)>>) }

instruction_bsn_disable_vlan_counters_to_bsn_prioritize_pdus ==
    { Leaf("instruction.bsn_disable_vlan_counters", "instruction.bsn", L(9),
       <<Const(H(65535)), Length(4), Const(L(6035143)), Const(L(9)),
         Zeros(4)>>),
      Leaf("instruction.bsn_internal_priority", "instruction.bsn", L(12),
       <<Const(H(65535)), Length(4), Const(L(6035143)), Const(L(12)),
         Num("value", 4)>>),
      Leaf("instruction.bsn_packet_of_death", "instruction.bsn", L(6),
       <<Const(H(65535)), Length(4), Const(L(6035143)), Const(L(6)),
         Zeros(4)>>),
      Leaf("instruction.bsn_permit", "instruction.bsn", L(4),
       <<Const(H(65535)), Length(4), Const(L(6035143)), Const(L(4)),
         Zeros(4)>>),
      Leaf("instruction.bsn_prioritize_pdus", "instruction.bsn", L(7),
       <<Const(H(65535)), Length(4), Const(L(6035143)), Const(L(7)),
         Zeros(4)>>) }

instruction_bsn_require_vlan_xlate_to_meter ==
    { Leaf("instruction.bsn_require_vlan_xlate", "instruction.bsn", L(8),
       <<Const(H(65535)), Length(4), Const(L(6035143)), Const(L(8)),
         Zeros(4)>>),
      Leaf("instruction.bsn_span_destination", "instruction.bsn", L(10),
       <<Const(H(65535)), Length(4), Const(L(6035143)), Const(L(10)),
         Zeros(4)>>),
      Leaf("instruction.clear_actions", "instruction.instruction", H(5),
       <<Const(H(5)), Length(4), Zeros(4)>>),
      Leaf("instruction.goto_table", "instruction.instruction", H(1),
       <<Const(H(1)), Length(4), Num("table_id", 1), Zeros(3)>>),
      Leaf("instruction.meter", "instruction.instruction", H(6),
       <<Const(H(6)), Length(4), Num("meter_id", 4)>>) }

instruction_write_actions_to_write_metadata ==
    { Leaf("instruction.write_actions", "instruction.instruction", H(3),
       <<Const(H(3)), Length(4), Zeros(4), List("actions", "action.action")>>),
      Leaf("instruction.write_metadata", "instruction.instruction", H(2),
       <<Const(H(2)), Length(4), Zeros(4), Num("metadata", 8),
         Num("metadata_mask", 8)>>) }

-----------------------------------------------------------------------------
\* instruction_id.py

instruction_id_to_bsn_arp_offload ==
    { Root("instruction_id.instruction_id", Peek(2, 0),
       <<Num("type", 2), Length(4)>>),
      Leaf("instruction_id.apply_actions", "instruction_id.instruction_id", H(4),
       <<Const(H(4)), Length(4)>>),
      Node("instruction_id.experimenter", "instruction_id.instruction_id", H(65535), Peek(4, 4),
       <<Const(H(65535)), Length(4), Num("experimenter", 4)>>),
      Node("instruction_id.bsn", "instruction_id.experimenter", L(6035143), Peek(4, 8),
       <<Const(H(65535)), Length(4), Const(L(6035143)), Num("subtype", 4)>>),
      Leaf("instruction_id.bsn_arp_offload", "instruction_id.bsn", L(1),
       <<Const(H(65535)), Length(4), Const(L(6035143)), Const(L(1))>>) }

instruction_id_bsn_auto_negotiation_to_bsn_disable_src_mac_check ==
    { Leaf("instruction_id.bsn_auto_negotiation", "instruction_id.bsn", L(11),
       <<Const(H(65535)), Length(4), Const(L(6035143)), Const(L(11))>>),
      Leaf("instruction_id.bsn_deny", "instruction_id.bsn", L(5),
       <<Const(H(65535)), Length(4), Const(L(6035143)), Const(L(5))>>),
      Leaf("instruction_id.bsn_dhcp_offload", "instruction_id.bsn", L(2),
       <<Const(H(65535)), Length(4), Const(L(6035143)), Const(L(2))>>),
      Leaf("instruction_id.bsn_disable_l3", "instruction_id.bsn", L(13),
       <<Const(H(65535)), Length(4), Const(L(6035143)), Const(L(13))>>),
      Leaf("instruction_id.bsn_disable_src_mac_check", "instruction_id.bsn", L(0),
       <<Const(H(65535)), Length(4), Const(L(6035143)), Const(L(0))>>) }

instruction_id_bsn_disable_vlan_counters_to_bsn_prioritize_pdus ==
    { Leaf("instruction_id.bsn_disable_vlan_counters", "instruction_id.bsn", L(9),
       <<Const(H(65535)), Length(4), Const(L(6035143)), Const(L(9))>>),
      Leaf("instruction_id.bsn_internal_priority", "instruction_id.bsn", L(12),
       <<Const(H(65535)), Length(4), Const(L(6035143)), Const(L(12))>>),
      Leaf("instruction_id.bsn_packet_of_death", "instruction_id.bsn", L(6),
       <<Const(H(65535)), Length(4), Const(L(6035143)), Const(L(6))>>),
      Leaf("instruction_id.bsn_permit", "instruction_id.bsn", L(4),
       <<Const(H(65535)), Length(4), Const(L(6035143)), Const(L(4))>>),
      Leaf("instruction_id.bsn_prioritize_pdus", "instruction_id.bsn", L(7),
       <<Const(H(65535)), Length(4), Const(L(6035143)), Const(L(7))>>) }

instruction_id_bsn_require_vlan_xlate_to_write_actions ==
    { Leaf("instruction_id.bsn_require_vlan_xlate", "instruction_id.bsn", L(8),
       <<Const(H(65535)), Length(4), Const(L(6035143)), Const(L(8))>>),
      Leaf("instruction_id.bsn_span_destination", "instruction_id.bsn", L(10),
       <<Const(H(65535)), Length(4), Const(L(6035143)), Const(L(10))>>),
      Leaf("instruction_id.clear_actions", "instruction_id.instruction_id", H(5),
       <<Const(H(5)), Length(4)>>),
      Leaf("instruction_id.goto_table", "instruction_id.instruction_id", H(1),
       <<Const(H(1)), Length(4)>>),
      Leaf("instruction_id.meter", "instruction_id.instruction_id", H(6),
       <<Const(H(6)), Length(4)>>),
      Leaf("instruction_id.write_actions", "instruction_id.instruction_id", H(3),
       <<Const(H(3)), Length(4)>>) }

instruction_id_write_metadata ==
    { Leaf("instruction_id.write_metadata", "instruction_id.instruction_id", H(2),
       <<Const(H(2)), Length(4)>>) }

-----------------------------------------------------------------------------
\* meter_band.py

meter_band_to_experimenter ==
    { Root("meter_band.meter_band", Peek(2, 0),
       <<Num("type", 2), Length(4)>>),
      Leaf("meter_band.drop", "meter_band.meter_band", H(1),
       <<Const(H(1)), Length(4), Num("rate", 4), Num("burst_size", 4),
         Zeros(4)>>),
      Leaf("meter_band.dscp_remark", "meter_band.meter_band", H(2),
       <<Const(H(2)), Length(4), Num("rate", 4), Num("burst_size", 4),
         Num("prec_level", 1), Zeros(3)>>),
      Leaf("meter_band.experimenter", "meter_band.meter_band", H(65535),
       <<Const(H(65535)), Length(4), Num("rate", 4), Num("burst_size", 4),
         Num("experimenter", 4)>>) }

-----------------------------------------------------------------------------
\* port_desc_prop.py

port_desc_prop_to_bsn_uplink ==
    { Root("port_desc_prop.port_desc_prop", Peek(2, 0),
       <<Num("type", 2), Length(4)>>),
      Node("port_desc_prop.experimenter", "port_desc_prop.port_desc_prop", H(65535), Peek(4, 4),
       <<Const(H(65535)), Length(4), Num("experimenter", 4)>>),
      Node("port_desc_prop.bsn", "port_desc_prop.experimenter", L(6035143), Peek(4, 8),
       <<Const(H(65535)), Length(4), Const(L(6035143)), Num("exp_type", 4)>>),
      Leaf("port_desc_prop.bsn_generation_id", "port_desc_prop.bsn", L(1),
       <<Const(H(65535)), Length(4), Const(L(6035143)), Const(L(1)),
         Num("generation_id", 8)>>),
      Leaf("port_desc_prop.bsn_uplink", "port_desc_prop.bsn", L(0),
       <<Const(H(65535)), Length(4), Const(L(6035143)), Const(L(0))>>) }

port_desc_prop_ethernet_to_optical ==
    { Leaf("port_desc_prop.ethernet", "port_desc_prop.port_desc_prop", H(0),
       <<Const(H(0)), Length(4), Zeros(4), Num("curr", 4),
         Num("advertised", 4), Num("supported", 4), Num("peer", 4),
         Num("curr_speed", 4), Num("max_speed", 4)>>),
      Leaf("port_desc_prop.optical", "port_desc_prop.port_desc_prop", H(1),
       <<Const(H(1)), Length(4), Zeros(4), Num("supported", 4),
         Num("tx_min_freq_lmda", 4), Num("tx_max_freq_lmda", 4),
         Num("tx_grid_freq_lmda", 4), Num("rx_min_freq_lmda", 4),
         Num("rx_max_freq_lmda", 4), Num("rx_grid_freq_lmda", 4),
         Num("tx_pwr_min", 4), Num("tx_pwr_max", 4)>>) }

-----------------------------------------------------------------------------
\* port_mod_prop.py

port_mod_prop_to_optical ==
    { Root("port_mod_prop.port_mod_prop", Peek(2, 0),
       <<Num("type", 2), Length(4)>>),
      Leaf("port_mod_prop.ethernet", "port_mod_prop.port_mod_prop", H(0),
       <<Const(H(0)), Length(4), Num("advertise", 4)>>),
      Node("port_mod_prop.experimenter", "port_mod_prop.port_mod_prop", H(65535), Peek(4, 4),
       <<Const(H(65535)), Length(4), Num("experimenter", 4),
         Num("exp_type", 4)>>),
      Leaf("port_mod_prop.optical", "port_mod_prop.port_mod_prop", H(1),
       <<Const(H(1)), Length(4), Num("configure", 4), Num("freq_ldma", 4),
         Num("fl_offset", 4), Num("grid_span", 4), Num("tx_pwr", 4)>>) }

-----------------------------------------------------------------------------
\* port_stats_prop.py

port_stats_prop_to_experimenter ==
    { Root("port_stats_prop.port_stats_prop", Peek(2, 0),
       <<Num("type", 2), Length(4)>>),
      Leaf("port_stats_prop.ethernet", "port_stats_prop.port_stats_prop", H(0),
       <<Const(H(0)), Length(4), Zeros(4), Num("rx_frame_err", 8),
         Num("rx_over_err", 8), Num("rx_crc_err", 8), Num("collisions", 8)>>),
      Node("port_stats_prop.experimenter", "port_stats_prop.port_stats_prop", H(65535), Peek(4, 4),
       <<Const(H(65535)), Length(4), Num("experimenter", 4),
         Num("exp_type", 4), Rest("experimenter_data")>>) }

port_stats_prop_optical ==
    { Leaf("port_stats_prop.optical", "port_stats_prop.port_stats_prop", H(1),
       <<Const(H(1)), Length(4), Zeros(4), Num("flags", 4),
         Num("tx_freq_lmda", 4), Num("tx_offset", 4), Num("tx_grid_span", 4),
         Num("rx_freq_lmda", 4), Num("rx_offset", 4), Num("rx_grid_span", 4),
         Num("tx_pwr", 2), Num("rx_pwr", 2), Num("bias_current", 2),
         Num("temperature", 2)>>) }

-----------------------------------------------------------------------------
\* queue_desc_prop.py

queue_desc_prop_to_min_rate ==
    { Root("queue_desc_prop.queue_desc_prop", Peek(2, 0),
       <<Num("type", 2), Length(4)>>),
      Node("queue_desc_prop.experimenter", "queue_desc_prop.queue_desc_prop", H(65535), Peek(4, 4),
       <<Const(H(65535)), Length(4), Num("experimenter", 4),
         Num("exp_type", 4)>>),
      Leaf("queue_desc_prop.max_rate", "queue_desc_prop.queue_desc_prop", H(2),
       <<Const(H(2)), Length(4), Num("rate", 2), Zeros(2)>>),
      Leaf("queue_desc_prop.min_rate", "queue_desc_prop.queue_desc_prop", H(1),
       <<Const(H(1)), Length(4), Num("rate", 2), Zeros(2)>>) }

-----------------------------------------------------------------------------
\* queue_stats_prop.py

queue_stats_prop_to_experimenter ==
    { Root("queue_stats_prop.queue_stats_prop", Peek(2, 0),
       <<Num("type", 2), Length(4)>>),
      Node("queue_stats_prop.experimenter", "queue_stats_prop.queue_stats_prop", H(65535), Peek(4, 4),
       <<Const(H(65535)), Length(4), Num("experimenter", 4),
         Num("exp_type", 4)>>) }

-----------------------------------------------------------------------------
\* role_prop.py

role_prop_to_experimenter ==
    { Root("role_prop.role_prop", Peek(2, 0),
       <<Num("type", 2), Length(4)>>),
      Node("role_prop.experimenter", "role_prop.role_prop", H(65535), Peek(4, 4),
       <<Const(H(65535)), Length(4), Num("experimenter", 4),
         Num("exp_type", 4)>>) }

-----------------------------------------------------------------------------
\* table_mod_prop.py

table_mod_prop ==
    { Root("table_mod_prop.table_mod_prop", Peek(2, 0),
       <<Num("type", 2), Length(4)>>) }

-----------------------------------------------------------------------------

Classes ==
    UNION {action_to_bsn_checksum, action_bsn_gentable_to_copy_ttl_in,
      action_copy_ttl_out_to_nicira, action_nicira_dec_ttl_to_pop_vlan,
      action_push_mpls_to_set_mpls_ttl, action_set_nw_ttl_to_set_queue,
      action_id_to_bsn_gentable, action_id_bsn_mirror_to_dec_nw_ttl,
      action_id_group_to_pop_pbb, action_id_pop_vlan_to_set_nw_ttl,
      action_id_set_queue, async_config_prop_to_packet_in_master,
      packet_in_slave_to_requestforward_slave,
      role_status_master_to_table_status_slave, bundle_prop_to_experimenter,
      instruction_to_bsn_arp_offload,
      instruction_bsn_auto_negotiation_to_bsn_disable_src_mac_check,
      instruction_bsn_disable_vlan_counters_to_bsn_prioritize_pdus,
      instruction_bsn_require_vlan_xlate_to_meter,
      instruction_write_actions_to_write_metadata,
      instruction_id_to_bsn_arp_offload,
      instruction_id_bsn_auto_negotiation_to_bsn_disable_src_mac_check,
      instruction_id_bsn_disable_vlan_counters_to_bsn_prioritize_pdus,
      instruction_id_bsn_require_vlan_xlate_to_write_actions,
      instruction_id_write_metadata, meter_band_to_experimenter,
      port_desc_prop_to_bsn_uplink, port_desc_prop_ethernet_to_optical,
      port_mod_prop_to_optical, port_stats_prop_to_experimenter,
      port_stats_prop_optical, queue_desc_prop_to_min_rate,
      queue_stats_prop_to_experimenter, role_prop_to_experimenter,
      table_mod_prop}
=============================================================================
