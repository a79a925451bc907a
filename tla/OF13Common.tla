----------------------------- MODULE OF13Common -----------------------------
\* The classes of ofagent/loxi/of13/: bsn_tlv.py, common.py.  See Layout.
EXTENDS Layout

-----------------------------------------------------------------------------
\* bsn_tlv.py

bsn_tlv_to_actor_state ==
    { Root("bsn_tlv.bsn_tlv", Peek(2, 0),
       <<Num("type", 2), Length(4)>>),
      Leaf("bsn_tlv.actor_key", "bsn_tlv.bsn_tlv", H(44),
       <<Const(H(44)), Length(4), Num("value", 2)>>),
      Leaf("bsn_tlv.actor_port_num", "bsn_tlv.bsn_tlv", H(43),
       <<Const(H(43)), Length(4), Num("value", 2)>>),
      Leaf("bsn_tlv.actor_port_priority", "bsn_tlv.bsn_tlv", H(42),
       <<Const(H(42)), Length(4), Num("value", 2)>>),
      Leaf("bsn_tlv.actor_state", "bsn_tlv.bsn_tlv", H(53),
       <<Const(H(53)), Length(4), Num("value", 1)>>) }

actor_system_mac_to_broadcast_rate ==
    { Leaf("bsn_tlv.actor_system_mac", "bsn_tlv.bsn_tlv", H(41),
       <<Const(H(41)), Length(4), Mac("value")>>),
      Leaf("bsn_tlv.actor_system_priority", "bsn_tlv.bsn_tlv", H(40),
       <<Const(H(40)), Length(4), Num("value", 2)>>),
      Leaf("bsn_tlv.anchor", "bsn_tlv.bsn_tlv", H(81),
       <<Const(H(81)), Length(4), Num("value", 2)>>),
      Leaf("bsn_tlv.broadcast_query_timeout", "bsn_tlv.bsn_tlv", H(10),
       <<Const(H(10)), Length(4), Num("value", 4)>>),
      Leaf("bsn_tlv.broadcast_rate", "bsn_tlv.bsn_tlv", H(90),
       <<Const(H(90)), Length(4), Num("value", 4)>>) }

bsn_tlv_bucket_to_data ==
    { Leaf("bsn_tlv.bucket", "bsn_tlv.bsn_tlv", H(64),
       <<Const(H(64)), Length(4), List("value", "bsn_tlv.bsn_tlv")>>),
      Leaf("bsn_tlv.circuit_id", "bsn_tlv.bsn_tlv", H(14),
       <<Const(H(14)), Length(4), Rest("value")>>),
      Leaf("bsn_tlv.convergence_status", "bsn_tlv.bsn_tlv", H(45),
       <<Const(H(45)), Length(4), Num("value", 1)>>),
      Leaf("bsn_tlv.crc_enabled", "bsn_tlv.bsn_tlv", H(22),
       <<Const(H(22)), Length(4), Num("value", 1)>>),
      Leaf("bsn_tlv.data", "bsn_tlv.bsn_tlv", H(55),
       <<Const(H(55)), Length(4), Rest("value")>>) }

decap_to_external_gateway_mac ==
    { Leaf("bsn_tlv.decap", "bsn_tlv.bsn_tlv", H(85),
       <<Const(H(85)), Length(4), Num("value", 2)>>),
      Leaf("bsn_tlv.eth_dst", "bsn_tlv.bsn_tlv", H(33),
       <<Const(H(33)), Length(4), Mac("value")>>),
      Leaf("bsn_tlv.eth_src", "bsn_tlv.bsn_tlv", H(32),
       <<Const(H(32)), Length(4), Mac("value")>>),
      Leaf("bsn_tlv.external_gateway_ip", "bsn_tlv.bsn_tlv", H(26),
       <<Const(H(26)), Length(4), Num("value", 4)>>),
      Leaf("bsn_tlv.external_gateway_mac", "bsn_tlv.bsn_tlv", H(29),
       <<Const(H(29)), Length(4), Mac("value")>>) }

external_ip_to_hash_packet_field ==
    { Leaf("bsn_tlv.external_ip", "bsn_tlv.bsn_tlv", H(23),
       <<Const(H(23)), Length(4), Num("value", 4)>>),
      Leaf("bsn_tlv.external_mac", "bsn_tlv.bsn_tlv", H(24),
       <<Const(H(24)), Length(4), Mac("value")>>),
      Leaf("bsn_tlv.external_netmask", "bsn_tlv.bsn_tlv", H(25),
       <<Const(H(25)), Length(4), Num("value", 4)>>),
      Leaf("bsn_tlv.generation_id", "bsn_tlv.bsn_tlv", H(80),
       <<Const(H(80)), Length(4), Num("value", 8)>>),
      Leaf("bsn_tlv.hash_packet_field", "bsn_tlv.bsn_tlv", H(103),
       <<Const(H(103)), Length(4), Num("value", 8)>>) }

hash_packet_type_to_icmp_code ==
    { Leaf("bsn_tlv.hash_packet_type", "bsn_tlv.bsn_tlv", H(102),
       <<Const(H(102)), Length(4), Num("value", 1)>>),
      Leaf("bsn_tlv.hash_seed", "bsn_tlv.bsn_tlv", H(100),
       <<Const(H(100)), Length(4), Num("seed1", 4), Num("seed2", 4)>>),
      Leaf("bsn_tlv.hash_type", "bsn_tlv.bsn_tlv", H(101),
       <<Const(H(101)), Length(4), Num("value", 1)>>),
      Leaf("bsn_tlv.header_size", "bsn_tlv.bsn_tlv", H(31),
       <<Const(H(31)), Length(4), Num("value", 4)>>),
      Leaf("bsn_tlv.icmp_code", "bsn_tlv.bsn_tlv", H(69),
       <<Const(H(69)), Length(4), Num("value", 1)>>) }

icmp_id_to_igmp_snooping ==
    { Leaf("bsn_tlv.icmp_id", "bsn_tlv.bsn_tlv", H(70),
       <<Const(H(70)), Length(4), Num("value", 2)>>),
      Leaf("bsn_tlv.icmp_type", "bsn_tlv.bsn_tlv", H(68),
       <<Const(H(68)), Length(4), Num("value", 1)>>),
      Leaf("bsn_tlv.idle_notification", "bsn_tlv.bsn_tlv", H(7),
       <<Const(H(7)), Length(4)>>),
      Leaf("bsn_tlv.idle_time", "bsn_tlv.bsn_tlv", H(5),
       <<Const(H(5)), Length(4), Num("value", 8)>>),
      Leaf("bsn_tlv.idle_timeout", "bsn_tlv.bsn_tlv", H(8),
       <<Const(H(8)), Length(4), Num("value", 4)>>),
      Leaf("bsn_tlv.igmp_snooping", "bsn_tlv.bsn_tlv", H(78),
       <<Const(H(78)), Length(4)>>) }

internal_gateway_mac_to_ipv4 ==
    { Leaf("bsn_tlv.internal_gateway_mac", "bsn_tlv.bsn_tlv", H(28),
       <<Const(H(28)), Length(4), Mac("value")>>),
      Leaf("bsn_tlv.internal_mac", "bsn_tlv.bsn_tlv", H(27),
       <<Const(H(27)), Length(4), Mac("value")>>),
      Leaf("bsn_tlv.interval", "bsn_tlv.bsn_tlv", H(58),
       <<Const(H(58)), Length(4), Num("value", 4)>>),
      Leaf("bsn_tlv.ip_proto", "bsn_tlv.bsn_tlv", H(67),
       <<Const(H(67)), Length(4), Num("value", 1)>>),
      Leaf("bsn_tlv.ipv4", "bsn_tlv.bsn_tlv", H(4),
       <<Const(H(4)), Length(4), Num("value", 4)>>) }

ipv4_dst_to_known_multicast_rate ==
    { Leaf("bsn_tlv.ipv4_dst", "bsn_tlv.bsn_tlv", H(35),
       <<Const(H(35)), Length(4), Num("value", 4)>>),
      Leaf("bsn_tlv.ipv4_netmask", "bsn_tlv.bsn_tlv", H(60),
       <<Const(H(60)), Length(4), Num("value", 4)>>),
      Leaf("bsn_tlv.ipv4_src", "bsn_tlv.bsn_tlv", H(34),
       <<Const(H(34)), Length(4), Num("value", 4)>>),
      Leaf("bsn_tlv.ipv6", "bsn_tlv.bsn_tlv", H(84),
       <<Const(H(84)), Length(4), Raw("value", 16)>>),
      Leaf("bsn_tlv.known_multicast_rate", "bsn_tlv.bsn_tlv", H(91),
       <<Const(H(91)), Length(4), Num("value", 4)>>) }

l2_multicast_lookup_to_mpls_control_word ==
    { Leaf("bsn_tlv.l2_multicast_lookup", "bsn_tlv.bsn_tlv", H(79),
       <<Const(H(79)), Length(4)>>),
      Leaf("bsn_tlv.mac", "bsn_tlv.bsn_tlv", H(1),
       <<Const(H(1)), Length(4), Mac("value")>>),
      Leaf("bsn_tlv.mac_mask", "bsn_tlv.bsn_tlv", H(56),
       <<Const(H(56)), Length(4), Mac("value")>>),
      Leaf("bsn_tlv.mcg_type_vxlan", "bsn_tlv.bsn_tlv", H(87),
       <<Const(H(87)), Length(4)>>),
      Leaf("bsn_tlv.miss_packets", "bsn_tlv.bsn_tlv", H(13),
       <<Const(H(13)), Length(4), Num("value", 8)>>),
      Leaf("bsn_tlv.mpls_control_word", "bsn_tlv.bsn_tlv", H(62),
       <<Const(H(62)), Length(4), Num("value", 1)>>) }

mpls_label_to_nexthop_type_vxlan ==
    { Leaf("bsn_tlv.mpls_label", "bsn_tlv.bsn_tlv", H(61),
       <<Const(H(61)), Length(4), Num("value", 4)>>),
      Leaf("bsn_tlv.mpls_sequenced", "bsn_tlv.bsn_tlv", H(63),
       <<Const(H(63)), Length(4), Num("value", 1)>>),
      Leaf("bsn_tlv.multicast_interface_id", "bsn_tlv.bsn_tlv", H(95),
       <<Const(H(95)), Length(4), Num("value", 4)>>),
      Leaf("bsn_tlv.name", "bsn_tlv.bsn_tlv", H(52),
       <<Const(H(52)), Length(4), Rest("value")>>),
      Leaf("bsn_tlv.negate", "bsn_tlv.bsn_tlv", H(83),
       <<Const(H(83)), Length(4)>>),
      Leaf("bsn_tlv.nexthop_type_vxlan", "bsn_tlv.bsn_tlv", H(94),
       <<Const(H(94)), Length(4)>>) }

offset_to_partner_state ==
    { Leaf("bsn_tlv.offset", "bsn_tlv.bsn_tlv", H(82),
       <<Const(H(82)), Length(4), Num("value", 2)>>),
      Leaf("bsn_tlv.partner_key", "bsn_tlv.bsn_tlv", H(51),
       <<Const(H(51)), Length(4), Num("value", 2)>>),
      Leaf("bsn_tlv.partner_port_num", "bsn_tlv.bsn_tlv", H(50),
       <<Const(H(50)), Length(4), Num("value", 2)>>),
      Leaf("bsn_tlv.partner_port_priority", "bsn_tlv.bsn_tlv", H(49),
       <<Const(H(49)), Length(4), Num("value", 2)>>),
      Leaf("bsn_tlv.partner_state", "bsn_tlv.bsn_tlv", H(54),
       <<Const(H(54)), Length(4), Num("value", 1)>>) }

partner_system_mac_to_priority ==
    { Leaf("bsn_tlv.partner_system_mac", "bsn_tlv.bsn_tlv", H(48),
       <<Const(H(48)), Length(4), Mac("value")>>),
      Leaf("bsn_tlv.partner_system_priority", "bsn_tlv.bsn_tlv", H(47),
       <<Const(H(47)), Length(4), Num("value", 2)>>),
      Leaf("bsn_tlv.port", "bsn_tlv.bsn_tlv", H(0),
       <<Const(H(0)), Length(4), Num("value", 4)>>),
      Leaf("bsn_tlv.port_vxlan_mode", "bsn_tlv.bsn_tlv", H(88),
       <<Const(H(88)), Length(4), Num("value", 1)>>),
      Leaf("bsn_tlv.priority", "bsn_tlv.bsn_tlv", H(57),
       <<Const(H(57)), Length(4), Num("value", 4)>>) }

queue_id_to_reply_packets ==
    { Leaf("bsn_tlv.queue_id", "bsn_tlv.bsn_tlv", H(20),
       <<Const(H(20)), Length(4), Num("value", 4)>>),
      Leaf("bsn_tlv.queue_weight", "bsn_tlv.bsn_tlv", H(21),
       <<Const(H(21)), Length(4), Num("value", 4)>>),
      Leaf("bsn_tlv.rate_unit", "bsn_tlv.bsn_tlv", H(89),
       <<Const(H(89)), Length(4), Num("value", 1)>>),
      Leaf("bsn_tlv.reference", "bsn_tlv.bsn_tlv", H(59),
       <<Const(H(59)), Length(4), Num("table_id", 2),
         List("key", "bsn_tlv.bsn_tlv")>>),
      Leaf("bsn_tlv.reply_packets", "bsn_tlv.bsn_tlv", H(12),
       <<Const(H(12)), Length(4), Num("value", 8)>>) }

request_packets_to_set_loopback_mode ==
    { Leaf("bsn_tlv.request_packets", "bsn_tlv.bsn_tlv", H(11),
       <<Const(H(11)), Length(4), Num("value", 8)>>),
      Leaf("bsn_tlv.rx_bytes", "bsn_tlv.bsn_tlv", H(71),
       <<Const(H(71)), Length(4), Num("value", 8)>>),
      Leaf("bsn_tlv.rx_packets", "bsn_tlv.bsn_tlv", H(2),
       <<Const(H(2)), Length(4), Num("value", 8)>>),
      Leaf("bsn_tlv.sampling_rate", "bsn_tlv.bsn_tlv", H(30),
       <<Const(H(30)), Length(4), Num("value", 4)>>),
      Leaf("bsn_tlv.set_loopback_mode", "bsn_tlv.bsn_tlv", H(74),
       <<Const(H(74)), Length(4)>>) }

status_to_tcp_dst ==
    { Leaf("bsn_tlv.status", "bsn_tlv.bsn_tlv", H(97),
       <<Const(H(97)), Length(4), Num("value", 1)>>),
      Leaf("bsn_tlv.strip_mpls_l2_on_ingress", "bsn_tlv.bsn_tlv", H(75),
       <<Const(H(75)), Length(4)>>),
      Leaf("bsn_tlv.strip_mpls_l3_on_ingress", "bsn_tlv.bsn_tlv", H(76),
       <<Const(H(76)), Length(4)>>),
      Leaf("bsn_tlv.strip_vlan_on_egress", "bsn_tlv.bsn_tlv", H(73),
       <<Const(H(73)), Length(4)>>),
      Leaf("bsn_tlv.sub_agent_id", "bsn_tlv.bsn_tlv", H(38),
       <<Const(H(38)), Length(4), Num("value", 4)>>),
      Leaf("bsn_tlv.tcp_dst", "bsn_tlv.bsn_tlv", H(66),
       <<Const(H(66)), Length(4), Num("value", 2)>>) }

tcp_src_to_udf_id ==
    { Leaf("bsn_tlv.tcp_src", "bsn_tlv.bsn_tlv", H(65),
       <<Const(H(65)), Length(4), Num("value", 2)>>),
      Leaf("bsn_tlv.tx_bytes", "bsn_tlv.bsn_tlv", H(39),
       <<Const(H(39)), Length(4), Num("value", 8)>>),
      Leaf("bsn_tlv.tx_packets", "bsn_tlv.bsn_tlv", H(3),
       <<Const(H(3)), Length(4), Num("value", 8)>>),
      Leaf("bsn_tlv.udf_anchor", "bsn_tlv.bsn_tlv", H(16),
       <<Const(H(16)), Length(4), Num("value", 2)>>),
      Leaf("bsn_tlv.udf_id", "bsn_tlv.bsn_tlv", H(15),
       <<Const(H(15)), Length(4), Num("value", 2)>>) }

udf_length_to_unicast_query_timeout ==
    { Leaf("bsn_tlv.udf_length", "bsn_tlv.bsn_tlv", H(18),
       <<Const(H(18)), Length(4), Num("value", 2)>>),
      Leaf("bsn_tlv.udf_offset", "bsn_tlv.bsn_tlv", H(17),
       <<Const(H(17)), Length(4), Num("value", 2)>>),
      Leaf("bsn_tlv.udp_dst", "bsn_tlv.bsn_tlv", H(37),
       <<Const(H(37)), Length(4), Num("value", 2)>>),
      Leaf("bsn_tlv.udp_src", "bsn_tlv.bsn_tlv", H(36),
       <<Const(H(36)), Length(4), Num("value", 2)>>),
      Leaf("bsn_tlv.unicast_query_timeout", "bsn_tlv.bsn_tlv", H(9),
       <<Const(H(9)), Length(4), Num("value", 4)>>) }

unicast_rate_to_vlan_pcp ==
    { Leaf("bsn_tlv.unicast_rate", "bsn_tlv.bsn_tlv", H(93),
       <<Const(H(93)), Length(4), Num("value", 4)>>),
      Leaf("bsn_tlv.unknown_multicast_rate", "bsn_tlv.bsn_tlv", H(92),
       <<Const(H(92)), Length(4), Num("value", 4)>>),
      Leaf("bsn_tlv.use_packet_state", "bsn_tlv.bsn_tlv", H(96),
       <<Const(H(96)), Length(4), Num("value", 1)>>),
      Leaf("bsn_tlv.vfi", "bsn_tlv.bsn_tlv", H(99),
       <<Const(H(99)), Length(4), Num("value", 2)>>),
      Leaf("bsn_tlv.vlan_pcp", "bsn_tlv.bsn_tlv", H(72),
       <<Const(H(72)), Length(4), Num("value", 1)>>) }

vlan_vid_to_vrf ==
    { Leaf("bsn_tlv.vlan_vid", "bsn_tlv.bsn_tlv", H(6),
       <<Const(H(6)), Length(4), Num("value", 2)>>),
      Leaf("bsn_tlv.vlan_vid_mask", "bsn_tlv.bsn_tlv", H(77),
       <<Const(H(77)), Length(4), Num("value", 2)>>),
      Leaf("bsn_tlv.vni", "bsn_tlv.bsn_tlv", H(86),
       <<Const(H(86)), Length(4), Num("value", 4)>>),
      Leaf("bsn_tlv.vrf", "bsn_tlv.bsn_tlv", H(19),
       <<Const(H(19)), Length(4), Num("value", 4)>>) }

-----------------------------------------------------------------------------
\* common.py

bsn_controller_connection_to_bsn_generic_stats_entry ==
    { Plain("common.bsn_controller_connection",
       <<Num("state", 1), Num("auxiliary_id", 1), Zeros(2), Num("role", 4),
         Text("uri", 256)>>),
      Plain("common.bsn_debug_counter_desc_stats_entry",
       <<Num("counter_id", 8), Text("name", 64), Text("description", 256)>>),
      Plain("common.bsn_debug_counter_stats_entry",
       <<Num("counter_id", 8), Num("value", 8)>>),
      Plain("common.bsn_flow_checksum_bucket_stats_entry",
       <<Num("checksum", 8)>>),
      Plain("common.bsn_generic_stats_entry",
       <<Length(2), List("tlvs", "bsn_tlv.bsn_tlv")>>) }

bsn_gentable_bucket_stats_entry_to_bsn_gentable_entry_stats_entry ==
    { Plain("common.bsn_gentable_bucket_stats_entry",
       <<Num("checksum", 16)>>),
      Plain("common.bsn_gentable_desc_stats_entry",
       <<Length(2), Num("table_id", 2), Text("name", 32),
         Num("buckets_size", 4), Num("max_entries", 4), Zeros(4)>>),
      Plain("common.bsn_gentable_entry_desc_stats_entry",
       <<Length(2), LengthOf("key"), Num("checksum", 16),
         ListIn("key", "bsn_tlv.bsn_tlv"), List("value", "bsn_tlv.bsn_tlv")>>),
      Plain("common.bsn_gentable_entry_stats_entry",
       <<Length(2), LengthOf("key"), ListIn("key", "bsn_tlv.bsn_tlv"),
         List("stats", "bsn_tlv.bsn_tlv")>>) }

bsn_gentable_stats_entry_to_bsn_lacp_stats_entry ==
    { Plain("common.bsn_gentable_stats_entry",
       <<Num("table_id", 2), Zeros(2), Num("entry_count", 4),
         Num("checksum", 16)>>),
      Plain("common.bsn_interface",
       <<Mac("hw_addr"), Zeros(2), Text("name", 16), Num("ipv4_addr", 4),
         Num("ipv4_netmask", 4)>>),
      Plain("common.bsn_lacp_stats_entry",
       <<Num("port_no", 4), Num("actor_sys_priority", 2),
         Mac("actor_sys_mac"), Num("actor_port_priority", 2),
         Num("actor_port_num", 2), Num("actor_key", 2),
         Num("convergence_status", 1), Zeros(1),
         Num("partner_sys_priority", 2), Mac("partner_sys_mac"),
         Num("partner_port_priority", 2), Num("partner_port_num", 2),
         Num("partner_key", 2), Zeros(2)>>) }

bsn_port_counter_stats_entry_to_bsn_vport ==
    { Plain("common.bsn_port_counter_stats_entry",
       <<Length(2), Zeros(2), Num("port_no", 4),
         List("values", "common.uint64")>>),
      Plain("common.bsn_switch_pipeline_stats_entry",
       <<Text("pipeline", 256)>>),
      Plain("common.bsn_table_checksum_stats_entry",
       <<Num("table_id", 1), Num("checksum", 8)>>),
      Plain("common.bsn_tlv_vlan_mac_list",
       <<Const(H(98)), Length(4), List("key", "common.bsn_vlan_mac")>>),
      Root("common.bsn_vport", Peek(2, 0),
       <<Num("type", 2), Length(4)>>) }

bsn_vlan_counter_stats_entry_to_bsn_vport_l2gre ==
    { Plain("common.bsn_vlan_counter_stats_entry",
       <<Length(2), Num("vlan_vid", 2), Zeros(4),
         List("values", "common.uint64")>>),
      Plain("common.bsn_vlan_mac",
       <<Num("vlan_vid", 2), Mac("mac")>>),
      Leaf("common.bsn_vport_l2gre", "common.bsn_vport", H(1),
       <<Const(H(1)), Length(4), Num("flags", 4), Num("port_no", 4),
         Num("loopback_port_no", 4), Mac("local_mac"), Mac("nh_mac"),
         Num("src_ip", 4), Num("dst_ip", 4), Num("dscp", 1), Num("ttl", 1),
         Zeros(2), Num("vpn", 4), Num("rate_limit", 4), Text("if_name", 16)>>) }

bsn_vport_q_in_q_to_bucket_counter ==
    { Leaf("common.bsn_vport_q_in_q", "common.bsn_vport", H(0),
       <<Const(H(0)), Length(4), Num("port_no", 4), Num("ingress_tpid", 2),
         Num("ingress_vlan_id", 2), Num("egress_tpid", 2),
         Num("egress_vlan_id", 2), Text("if_name", 16)>>),
      Plain("common.bsn_vrf_counter_stats_entry",
       <<Length(2), Zeros(2), Num("vrf", 4),
         List("values", "common.uint64")>>),
      Plain("common.bucket",
       <<Length(2), Num("weight", 2), Num("watch_port", 4),
         Num("watch_group", 4), Zeros(4), List("actions", "action.action")>>),
      Plain("common.bucket_counter",
       <<Num("packet_count", 8), Num("byte_count", 8)>>) }

flow_stats_entry_to_group_desc_stats_entry ==
    { Plain("common.flow_stats_entry",
       <<Length(2), Num("table_id", 1), Zeros(1), Num("duration_sec", 4),
         Num("duration_nsec", 4), Num("priority", 2), Num("idle_timeout", 2),
         Num("hard_timeout", 2), Num("flags", 2), Zeros(4), Num("cookie", 8),
         Num("packet_count", 8), Num("byte_count", 8),
         Object("match", "common.match_v3"),
         List("instructions", "instruction.instruction")>>),
      Plain("common.group_desc_stats_entry",
       <<Length(2), Num("group_type", 1), Zeros(1), Num("group_id", 4),
         List("buckets", "common.bucket")>>) }

group_stats_entry_to_match_v3 ==
    { Plain("common.group_stats_entry",
       <<Length(2), Zeros(2), Num("group_id", 4), Num("ref_count", 4),
         Zeros(4), Num("packet_count", 8), Num("byte_count", 8),
         Num("duration_sec", 4), Num("duration_nsec", 4),
         List("bucket_stats", "common.bucket_counter")>>),
      Root("common.hello_elem", Peek(2, 0),
       <<Num("type", 2), Length(4)>>),
      Leaf("common.hello_elem_versionbitmap", "common.hello_elem", H(1),
       <<Const(H(1)), Length(4), List("bitmaps", "common.uint32")>>),
      Plain("common.match_v3",
       <<Const(H(1)), Length(4), List("oxm_list", "oxm.oxm"), Align>>) }

meter_band_stats_to_meter_features ==
    { Plain("common.meter_band_stats",
       <<Num("packet_band_count", 8), Num("byte_band_count", 8)>>),
      Plain("common.meter_config",
       <<Length(2), Num("flags", 2), Num("meter_id", 4),
         List("entries", "meter_band.meter_band")>>),
      Plain("common.meter_features",
       <<Num("max_meter", 4), Num("band_types", 4), Num("capabilities", 4),
         Num("max_bands", 1), Num("max_color", 1), Zeros(2)>>) }

meter_stats_to_packet_queue ==
    { Plain("common.meter_stats",
       <<Num("meter_id", 4), Length(6), Zeros(6), Num("flow_count", 4),
         Num("packet_in_count", 8), Num("byte_in_count", 8),
         Num("duration_sec", 4), Num("duration_nsec", 4),
         List("band_stats", "common.meter_band_stats")>>),
      Plain("common.packet_queue",
       <<Num("queue_id", 4), Num("port", 4), Length(10), Zeros(6),
         List("properties", "common.queue_prop")>>) }

port_desc ==
    { Plain("common.port_desc",
       <<Num("port_no", 4), Zeros(4), Mac("hw_addr"), Zeros(2),
         Text("name", 16), Num("config", 4), Num("state", 4), Num("curr", 4),
         Num("advertised", 4), Num("supported", 4), Num("peer", 4),
         Num("curr_speed", 4), Num("max_speed", 4)>>) }

port_stats_entry_to_queue_prop ==
    { Plain("common.port_stats_entry",
       <<Num("port_no", 4), Zeros(4), Num("rx_packets", 8),
         Num("tx_packets", 8), Num("rx_bytes", 8), Num("tx_bytes", 8),
         Num("rx_dropped", 8), Num("tx_dropped", 8), Num("rx_errors", 8),
         Num("tx_errors", 8), Num("rx_frame_err", 8), Num("rx_over_err", 8),
         Num("rx_crc_err", 8), Num("collisions", 8), Num("duration_sec", 4),
         Num("duration_nsec", 4)>>),
      Root("common.queue_prop", Peek(2, 0),
       <<Num("type", 2), Length(4), Zeros(4)>>) }

queue_prop_experimenter_to_queue_stats_entry ==
    { Node("common.queue_prop_experimenter", "common.queue_prop", H(65535), Peek(4, 8),
       <<Const(H(65535)), Length(4), Zeros(4), Num("experimenter", 4),
         Zeros(4), Rest("data")>>),
      Leaf("common.queue_prop_max_rate", "common.queue_prop", H(2),
       <<Const(H(2)), Length(4), Zeros(4), Num("rate", 2), Zeros(6)>>),
      Leaf("common.queue_prop_min_rate", "common.queue_prop", H(1),
       <<Const(H(1)), Length(4), Zeros(4), Num("rate", 2), Zeros(6)>>),
      Plain("common.queue_stats_entry",
       <<Num("port_no", 4), Num("queue_id", 4), Num("tx_bytes", 8),
         Num("tx_packets", 8), Num("tx_errors", 8), Num("duration_sec", 4),
         Num("duration_nsec", 4)>>) }

table_feature_prop_to_table_feature_prop_apply_setfield_miss ==
    { Root("common.table_feature_prop", Peek(2, 0),
       <<Num("type", 2), Length(4)>>),
      Leaf("common.table_feature_prop_apply_actions", "common.table_feature_prop", H(6),
       <<Const(H(6)), Length(4), List("action_ids", "action_id.action_id"),
         Align>>),
      Leaf("common.table_feature_prop_apply_actions_miss", "common.table_feature_prop", H(7),
       <<Const(H(7)), Length(4), List("action_ids", "action_id.action_id"),
         Align>>),
      Leaf("common.table_feature_prop_apply_setfield", "common.table_feature_prop", H(14),
       <<Const(H(14)), Length(4), List("oxm_ids", "common.uint32"), Align>>),
      Leaf("common.table_feature_prop_apply_setfield_miss", "common.table_feature_prop", H(15),
       <<Const(H(15)), Length(4), List("oxm_ids", "common.uint32"), Align>>) }

table_feature_prop_experimenter_to_table_feature_prop_instructions_miss ==
    { Node("common.table_feature_prop_experimenter", "common.table_feature_prop", H(65534), Peek(4, 4),
       <<Const(H(65534)), Length(4), Num("experimenter", 4),
         Num("subtype", 4), Rest("experimenter_data"), Align>>),
      Node("common.table_feature_prop_experimenter_miss", "common.table_feature_prop", H(65535), Peek(4, 4),
       <<Const(H(65535)), Length(4), Num("experimenter", 4),
         Num("subtype", 4), Rest("experimenter_data"), Align>>),
      Leaf("common.table_feature_prop_instructions", "common.table_feature_prop", H(0),
       <<Const(H(0)), Length(4),
         List("instruction_ids", "instruction_id.instruction_id"), Align>>),
      Leaf("common.table_feature_prop_instructions_miss", "common.table_feature_prop", H(1),
       <<Const(H(1)), Length(4),
         List("instruction_ids", "instruction_id.instruction_id"), Align>>) }

table_feature_prop_match_to_table_feature_prop_write_actions ==
    { Leaf("common.table_feature_prop_match", "common.table_feature_prop", H(8),
       <<Const(H(8)), Length(4), List("oxm_ids", "common.uint32"), Align>>),
      Leaf("common.table_feature_prop_next_tables", "common.table_feature_prop", H(2),
       <<Const(H(2)), Length(4), List("next_table_ids", "common.uint8"),
         Align>>),
      Leaf("common.table_feature_prop_next_tables_miss", "common.table_feature_prop", H(3),
       <<Const(H(3)), Length(4), List("next_table_ids", "common.uint8"),
         Align>>),
      Leaf("common.table_feature_prop_wildcards", "common.table_feature_prop", H(10),
       <<Const(H(10)), Length(4), List("oxm_ids", "common.uint32"), Align>>),
      Leaf("common.table_feature_prop_write_actions", "common.table_feature_prop", H(4),
       <<Const(H(4)), Length(4), List("action_ids", "action_id.action_id"),
         Align>>) }

table_feature_prop_write_actions_miss_to_table_features ==
    { Leaf("common.table_feature_prop_write_actions_miss", "common.table_feature_prop", H(5),
       <<Const(H(5)), Length(4), List("action_ids", "action_id.action_id"),
         Align>>),
      Leaf("common.table_feature_prop_write_setfield", "common.table_feature_prop", H(12),
       <<Const(H(12)), Length(4), List("oxm_ids", "common.uint32"), Align>>),
      Leaf("common.table_feature_prop_write_setfield_miss", "common.table_feature_prop", H(13),
       <<Const(H(13)), Length(4), List("oxm_ids", "common.uint32"), Align>>),
      Plain("common.table_features",
       <<Length(2), Num("table_id", 1), Zeros(5), Text("name", 32),
         Num("metadata_match", 8), Num("metadata_write", 8), Num("config", 4),
         Num("max_entries", 4),
         List("properties", "common.table_feature_prop")>>) }

table_stats_entry_to_uint8 ==
    { Plain("common.table_stats_entry",
       <<Num("table_id", 1), Zeros(3), Num("active_count", 4),
         Num("lookup_count", 8), Num("matched_count", 8)>>),
      Plain("common.uint32",
       <<Num("value", 4)>>),
      Plain("common.uint64",
       <<Num("value", 8)>>),
      Plain("common.uint8",
       <<Num("value", 1)>>) }

-----------------------------------------------------------------------------

Classes ==
    UNION {bsn_tlv_to_actor_state, actor_system_mac_to_broadcast_rate,
      bsn_tlv_bucket_to_data, decap_to_external_gateway_mac,
      external_ip_to_hash_packet_field, hash_packet_type_to_icmp_code,
      icmp_id_to_igmp_snooping, internal_gateway_mac_to_ipv4,
      ipv4_dst_to_known_multicast_rate,
      l2_multicast_lookup_to_mpls_control_word,
      mpls_label_to_nexthop_type_vxlan, offset_to_partner_state,
      partner_system_mac_to_priority, queue_id_to_reply_packets,
      request_packets_to_set_loopback_mode, status_to_tcp_dst,
      tcp_src_to_udf_id, udf_length_to_unicast_query_timeout,
      unicast_rate_to_vlan_pcp, vlan_vid_to_vrf,
      bsn_controller_connection_to_bsn_generic_stats_entry,
      bsn_gentable_bucket_stats_entry_to_bsn_gentable_entry_stats_entry,
      bsn_gentable_stats_entry_to_bsn_lacp_stats_entry,
      bsn_port_counter_stats_entry_to_bsn_vport,
      bsn_vlan_counter_stats_entry_to_bsn_vport_l2gre,
      bsn_vport_q_in_q_to_bucket_counter,
      flow_stats_entry_to_group_desc_stats_entry,
      group_stats_entry_to_match_v3, meter_band_stats_to_meter_features,
      meter_stats_to_packet_queue, port_desc, port_stats_entry_to_queue_prop,
      queue_prop_experimenter_to_queue_stats_entry,
      table_feature_prop_to_table_feature_prop_apply_setfield_miss,
      table_feature_prop_experimenter_to_table_feature_prop_instructions_miss,
      table_feature_prop_match_to_table_feature_prop_write_actions,
      table_feature_prop_write_actions_miss_to_table_features,
      table_stats_entry_to_uint8}
=============================================================================
