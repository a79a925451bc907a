------------------------------ MODULE OF13Oxm -------------------------------
\* The classes of ofagent/loxi/of13/oxm.py, see Layout.
EXTENDS Layout

oxm_to_arp_spa ==
    { Root("oxm.oxm", Peek(4, 0),
       <<Num("type_len", 4)>>),
      Leaf("oxm.arp_op", "oxm.oxm", LL(32768, 10754),
       <<Const(LL(32768, 10754)), Num("value", 2)>>),
      Leaf("oxm.arp_op_masked", "oxm.oxm", LL(32768, 11012),
       <<Const(LL(32768, 11012)), Num("value", 2), Num("value_mask", 2)>>),
      Leaf("oxm.arp_sha", "oxm.oxm", LL(32768, 12294),
       <<Const(LL(32768, 12294)), Mac("value")>>),
      Leaf("oxm.arp_sha_masked", "oxm.oxm", LL(32768, 12556),
       <<Const(LL(32768, 12556)), Mac("value"), Mac("value_mask")>>),
      Leaf("oxm.arp_spa", "oxm.oxm", LL(32768, 11268),
       <<Const(LL(32768, 11268)), Num("value", 4)>>) }

arp_spa_masked_to_arp_tpa_masked ==
    { Leaf("oxm.arp_spa_masked", "oxm.oxm", LL(32768, 11528),
       <<Const(LL(32768, 11528)), Num("value", 4), Num("value_mask", 4)>>),
      Leaf("oxm.arp_tha", "oxm.oxm", LL(32768, 12806),
       <<Const(LL(32768, 12806)), Mac("value")>>),
      Leaf("oxm.arp_tha_masked", "oxm.oxm", LL(32768, 13068),
       <<Const(LL(32768, 13068)), Mac("value"), Mac("value_mask")>>),
      Leaf("oxm.arp_tpa", "oxm.oxm", LL(32768, 11780),
       <<Const(LL(32768, 11780)), Num("value", 4)>>),
      Leaf("oxm.arp_tpa_masked", "oxm.oxm", LL(32768, 12040),
       <<Const(LL(32768, 12040)), Num("value", 4), Num("value_mask", 4)>>) }

bsn_egr_port_group_id_to_bsn_in_ports_128 ==
    { Leaf("oxm.bsn_egr_port_group_id", "oxm.oxm", L(200196),
       <<Const(L(200196)), Num("value", 4)>>),
      Leaf("oxm.bsn_egr_port_group_id_masked", "oxm.oxm", L(200456),
       <<Const(L(200456)), Num("value", 4), Num("value_mask", 4)>>),
      Leaf("oxm.bsn_global_vrf_allowed", "oxm.oxm", L(198145),
       <<Const(L(198145)), Num("value", 1)>>),
      Leaf("oxm.bsn_global_vrf_allowed_masked", "oxm.oxm", L(198402),
       <<Const(L(198402)), Num("value", 1), Num("value_mask", 1)>>),
      Leaf("oxm.bsn_in_ports_128", "oxm.oxm", L(196624),
       <<Const(L(196624)), Bitmap("value", 16)>>) }

bsn_in_ports_128_masked_to_bsn_ingress_port_group_id_masked ==
    { Leaf("oxm.bsn_in_ports_128_masked", "oxm.oxm", L(196896),
       <<Const(L(196896)), Bitmap("value", 16), Bitmap("value_mask", 16)>>),
      Leaf("oxm.bsn_in_ports_512", "oxm.oxm", L(206400),
       <<Const(L(206400)), Bitmap("value", 64)>>),
      Leaf("oxm.bsn_in_ports_512_masked", "oxm.oxm", L(206720),
       <<Const(L(206720)), Bitmap("value", 64), Bitmap("value_mask", 64)>>),
      Leaf("oxm.bsn_ingress_port_group_id", "oxm.oxm", L(206852),
       <<Const(L(206852)), Num("value", 4)>>),
      Leaf("oxm.bsn_ingress_port_group_id_masked", "oxm.oxm", L(207112),
       <<Const(L(207112)), Num("value", 4), Num("value_mask", 4)>>) }

bsn_inner_eth_dst_to_bsn_inner_vlan_vid ==
    { Leaf("oxm.bsn_inner_eth_dst", "oxm.oxm", L(207878),
       <<Const(L(207878)), Mac("value")>>),
      Leaf("oxm.bsn_inner_eth_dst_masked", "oxm.oxm", L(208140),
       <<Const(L(208140)), Mac("value"), Mac("value_mask")>>),
      Leaf("oxm.bsn_inner_eth_src", "oxm.oxm", L(208390),
       <<Const(L(208390)), Mac("value")>>),
      Leaf("oxm.bsn_inner_eth_src_masked", "oxm.oxm", L(208652),
       <<Const(L(208652)), Mac("value"), Mac("value_mask")>>),
      Leaf("oxm.bsn_inner_vlan_vid", "oxm.oxm", L(208898),
       <<Const(L(208898)), Num("value", 2)>>) }

bsn_inner_vlan_vid_masked_to_bsn_l3_dst_class_id_masked ==
    { Leaf("oxm.bsn_inner_vlan_vid_masked", "oxm.oxm", L(209156),
       <<Const(L(209156)), Num("value", 2), Num("value_mask", 2)>>),
      Leaf("oxm.bsn_l2_cache_hit", "oxm.oxm", L(205825),
       <<Const(L(205825)), Num("value", 1)>>),
      Leaf("oxm.bsn_l2_cache_hit_masked", "oxm.oxm", L(206082),
       <<Const(L(206082)), Num("value", 1), Num("value_mask", 1)>>),
      Leaf("oxm.bsn_l3_dst_class_id", "oxm.oxm", L(199684),
       <<Const(L(199684)), Num("value", 4)>>),
      Leaf("oxm.bsn_l3_dst_class_id_masked", "oxm.oxm", L(199944),
       <<Const(L(199944)), Num("value", 4), Num("value_mask", 4)>>) }

bsn_l3_interface_class_id_to_bsn_lag_id ==
    { Leaf("oxm.bsn_l3_interface_class_id", "oxm.oxm", L(198660),
       <<Const(L(198660)), Num("value", 4)>>),
      Leaf("oxm.bsn_l3_interface_class_id_masked", "oxm.oxm", L(198920),
       <<Const(L(198920)), Num("value", 4), Num("value_mask", 4)>>),
      Leaf("oxm.bsn_l3_src_class_id", "oxm.oxm", L(199172),
       <<Const(L(199172)), Num("value", 4)>>),
      Leaf("oxm.bsn_l3_src_class_id_masked", "oxm.oxm", L(199432),
       <<Const(L(199432)), Num("value", 4), Num("value_mask", 4)>>),
      Leaf("oxm.bsn_lag_id", "oxm.oxm", L(197124),
       <<Const(L(197124)), Num("value", 4)>>) }

bsn_lag_id_masked_to_bsn_udf0_masked ==
    { Leaf("oxm.bsn_lag_id_masked", "oxm.oxm", L(197384),
       <<Const(L(197384)), Num("value", 4), Num("value_mask", 4)>>),
      Leaf("oxm.bsn_tcp_flags", "oxm.oxm", L(204802),
       <<Const(L(204802)), Num("value", 2)>>),
      Leaf("oxm.bsn_tcp_flags_masked", "oxm.oxm", L(205060),
       <<Const(L(205060)), Num("value", 2), Num("value_mask", 2)>>),
      Leaf("oxm.bsn_udf0", "oxm.oxm", L(200708),
       <<Const(L(200708)), Num("value", 4)>>),
      Leaf("oxm.bsn_udf0_masked", "oxm.oxm", L(200968),
       <<Const(L(200968)), Num("value", 4), Num("value_mask", 4)>>) }

bsn_udf1_to_bsn_udf3 ==
    { Leaf("oxm.bsn_udf1", "oxm.oxm", L(201220),
       <<Const(L(201220)), Num("value", 4)>>),
      Leaf("oxm.bsn_udf1_masked", "oxm.oxm", L(201480),
       <<Const(L(201480)), Num("value", 4), Num("value_mask", 4)>>),
      Leaf("oxm.bsn_udf2", "oxm.oxm", L(201732),
       <<Const(L(201732)), Num("value", 4)>>),
      Leaf("oxm.bsn_udf2_masked", "oxm.oxm", L(201992),
       <<Const(L(201992)), Num("value", 4), Num("value_mask", 4)>>),
      Leaf("oxm.bsn_udf3", "oxm.oxm", L(202244),
       <<Const(L(202244)), Num("value", 4)>>) }

bsn_udf3_masked_to_bsn_udf5_masked ==
    { Leaf("oxm.bsn_udf3_masked", "oxm.oxm", L(202504),
       <<Const(L(202504)), Num("value", 4), Num("value_mask", 4)>>),
      Leaf("oxm.bsn_udf4", "oxm.oxm", L(202756),
       <<Const(L(202756)), Num("value", 4)>>),
      Leaf("oxm.bsn_udf4_masked", "oxm.oxm", L(203016),
       <<Const(L(203016)), Num("value", 4), Num("value_mask", 4)>>),
      Leaf("oxm.bsn_udf5", "oxm.oxm", L(203268),
       <<Const(L(203268)), Num("value", 4)>>),
      Leaf("oxm.bsn_udf5_masked", "oxm.oxm", L(203528),
       <<Const(L(203528)), Num("value", 4), Num("value_mask", 4)>>) }

bsn_udf6_to_bsn_vfi ==
    { Leaf("oxm.bsn_udf6", "oxm.oxm", L(203780),
       <<Const(L(203780)), Num("value", 4)>>),
      Leaf("oxm.bsn_udf6_masked", "oxm.oxm", L(204040),
       <<Const(L(204040)), Num("value", 4), Num("value_mask", 4)>>),
      Leaf("oxm.bsn_udf7", "oxm.oxm", L(204292),
       <<Const(L(204292)), Num("value", 4)>>),
      Leaf("oxm.bsn_udf7_masked", "oxm.oxm", L(204552),
       <<Const(L(204552)), Num("value", 4), Num("value_mask", 4)>>),
      Leaf("oxm.bsn_vfi", "oxm.oxm", L(209410),
       <<Const(L(209410)), Num("value", 2)>>) }

bsn_vfi_masked_to_bsn_vrf_masked ==
    { Leaf("oxm.bsn_vfi_masked", "oxm.oxm", L(209668),
       <<Const(L(209668)), Num("value", 2), Num("value_mask", 2)>>),
      Leaf("oxm.bsn_vlan_xlate_port_group_id", "oxm.oxm", L(205316),
       <<Const(L(205316)), Num("value", 4)>>),
      Leaf("oxm.bsn_vlan_xlate_port_group_id_masked", "oxm.oxm", L(205576),
       <<Const(L(205576)), Num("value", 4), Num("value_mask", 4)>>),
      Leaf("oxm.bsn_vrf", "oxm.oxm", L(197636),
       <<Const(L(197636)), Num("value", 4)>>),
      Leaf("oxm.bsn_vrf_masked", "oxm.oxm", L(197896),
       <<Const(L(197896)), Num("value", 4), Num("value_mask", 4)>>) }

bsn_vxlan_network_id_to_eth_src ==
    { Leaf("oxm.bsn_vxlan_network_id", "oxm.oxm", L(207364),
       <<Const(L(207364)), Num("value", 4)>>),
      Leaf("oxm.bsn_vxlan_network_id_masked", "oxm.oxm", L(207624),
       <<Const(L(207624)), Num("value", 4), Num("value_mask", 4)>>),
      Leaf("oxm.eth_dst", "oxm.oxm", LL(32768, 1542),
       <<Const(LL(32768, 1542)), Mac("value")>>),
      Leaf("oxm.eth_dst_masked", "oxm.oxm", LL(32768, 1804),
       <<Const(LL(32768, 1804)), Mac("value"), Mac("value_mask")>>),
      Leaf("oxm.eth_src", "oxm.oxm", LL(32768, 2054),
       <<Const(LL(32768, 2054)), Mac("value")>>) }

eth_src_masked_to_icmpv4_code_masked ==
    { Leaf("oxm.eth_src_masked", "oxm.oxm", LL(32768, 2316),
       <<Const(LL(32768, 2316)), Mac("value"), Mac("value_mask")>>),
      Leaf("oxm.eth_type", "oxm.oxm", LL(32768, 2562),
       <<Const(LL(32768, 2562)), Num("value", 2)>>),
      Leaf("oxm.eth_type_masked", "oxm.oxm", LL(32768, 2820),
       <<Const(LL(32768, 2820)), Num("value", 2), Num("value_mask", 2)>>),
      Leaf("oxm.icmpv4_code", "oxm.oxm", LL(32768, 10241),
       <<Const(LL(32768, 10241)), Num("value", 1)>>),
      Leaf("oxm.icmpv4_code_masked", "oxm.oxm", LL(32768, 10498),
       <<Const(LL(32768, 10498)), Num("value", 1), Num("value_mask", 1)>>) }

icmpv4_type_to_icmpv6_type ==
    { Leaf("oxm.icmpv4_type", "oxm.oxm", LL(32768, 9729),
       <<Const(LL(32768, 9729)), Num("value", 1)>>),
      Leaf("oxm.icmpv4_type_masked", "oxm.oxm", LL(32768, 9986),
       <<Const(LL(32768, 9986)), Num("value", 1), Num("value_mask", 1)>>),
      Leaf("oxm.icmpv6_code", "oxm.oxm", LL(32768, 15361),
       <<Const(LL(32768, 15361)), Num("value", 1)>>),
      Leaf("oxm.icmpv6_code_masked", "oxm.oxm", LL(32768, 15618),
       <<Const(LL(32768, 15618)), Num("value", 1), Num("value_mask", 1)>>),
      Leaf("oxm.icmpv6_type", "oxm.oxm", LL(32768, 14849),
       <<Const(LL(32768, 14849)), Num("value", 1)>>) }

icmpv6_type_masked_to_in_port_masked ==
    { Leaf("oxm.icmpv6_type_masked", "oxm.oxm", LL(32768, 15106),
       <<Const(LL(32768, 15106)), Num("value", 1), Num("value_mask", 1)>>),
      Leaf("oxm.in_phy_port", "oxm.oxm", LL(32768, 516),
       <<Const(LL(32768, 516)), Num("value", 4)>>),
      Leaf("oxm.in_phy_port_masked", "oxm.oxm", LL(32768, 776),
       <<Const(LL(32768, 776)), Num("value", 4), Num("value_mask", 4)>>),
      Leaf("oxm.in_port", "oxm.oxm", LL(32768, 4),
       <<Const(LL(32768, 4)), Num("value", 4)>>),
      Leaf("oxm.in_port_masked", "oxm.oxm", LL(32768, 264),
       <<Const(LL(32768, 264)), Num("value", 4), Num("value_mask", 4)>>) }

ip_dscp_to_ip_proto ==
    { Leaf("oxm.ip_dscp", "oxm.oxm", LL(32768, 4097),
       <<Const(LL(32768, 4097)), Num("value", 1)>>),
      Leaf("oxm.ip_dscp_masked", "oxm.oxm", LL(32768, 4354),
       <<Const(LL(32768, 4354)), Num("value", 1), Num("value_mask", 1)>>),
      Leaf("oxm.ip_ecn", "oxm.oxm", LL(32768, 4609),
       <<Const(LL(32768, 4609)), Num("value", 1)>>),
      Leaf("oxm.ip_ecn_masked", "oxm.oxm", LL(32768, 4866),
       <<Const(LL(32768, 4866)), Num("value", 1), Num("value_mask", 1)>>),
      Leaf("oxm.ip_proto", "oxm.oxm", LL(32768, 5121),
       <<Const(LL(32768, 5121)), Num("value", 1)>>) }

ip_proto_masked_to_ipv4_src_masked ==
    { Leaf("oxm.ip_proto_masked", "oxm.oxm", LL(32768, 5378),
       <<Const(LL(32768, 5378)), Num("value", 1), Num("value_mask", 1)>>),
      Leaf("oxm.ipv4_dst", "oxm.oxm", LL(32768, 6148),
       <<Const(LL(32768, 6148)), Num("value", 4)>>),
      Leaf("oxm.ipv4_dst_masked", "oxm.oxm", LL(32768, 6408),
       <<Const(LL(32768, 6408)), Num("value", 4), Num("value_mask", 4)>>),
      Leaf("oxm.ipv4_src", "oxm.oxm", LL(32768, 5636),
       <<Const(LL(32768, 5636)), Num("value", 4)>>),
      Leaf("oxm.ipv4_src_masked", "oxm.oxm", LL(32768, 5896),
       <<Const(LL(32768, 5896)), Num("value", 4), Num("value_mask", 4)>>) }

ipv6_dst_to_ipv6_flabel ==
    { Leaf("oxm.ipv6_dst", "oxm.oxm", LL(32768, 13840),
       <<Const(LL(32768, 13840)), Raw("value", 16)>>),
      Leaf("oxm.ipv6_dst_masked", "oxm.oxm", LL(32768, 14112),
       <<Const(LL(32768, 14112)), Raw("value", 16), Raw("value_mask", 16)>>),
      Leaf("oxm.ipv6_exthdr", "oxm.oxm", LL(32768, 19970),
       <<Const(LL(32768, 19970)), Num("value", 2)>>),
      Leaf("oxm.ipv6_exthdr_masked", "oxm.oxm", LL(32768, 20228),
       <<Const(LL(32768, 20228)), Num("value", 2), Num("value_mask", 2)>>),
      Leaf("oxm.ipv6_flabel", "oxm.oxm", LL(32768, 14340),
       <<Const(LL(32768, 14340)), Num("value", 4)>>) }

ipv6_flabel_masked_to_ipv6_nd_target_masked ==
    { Leaf("oxm.ipv6_flabel_masked", "oxm.oxm", LL(32768, 14600),
       <<Const(LL(32768, 14600)), Num("value", 4), Num("value_mask", 4)>>),
      Leaf("oxm.ipv6_nd_sll", "oxm.oxm", LL(32768, 16390),
       <<Const(LL(32768, 16390)), Mac("value")>>),
      Leaf("oxm.ipv6_nd_sll_masked", "oxm.oxm", LL(32768, 16652),
       <<Const(LL(32768, 16652)), Mac("value"), Mac("value_mask")>>),
      Leaf("oxm.ipv6_nd_target", "oxm.oxm", LL(32768, 15888),
       <<Const(LL(32768, 15888)), Raw("value", 16)>>),
      Leaf("oxm.ipv6_nd_target_masked", "oxm.oxm", LL(32768, 16160),
       <<Const(LL(32768, 16160)), Raw("value", 16), Raw("value_mask", 16)>>) }

ipv6_nd_tll_to_metadata ==
    { Leaf("oxm.ipv6_nd_tll", "oxm.oxm", LL(32768, 16902),
       <<Const(LL(32768, 16902)), Mac("value")>>),
      Leaf("oxm.ipv6_nd_tll_masked", "oxm.oxm", LL(32768, 17164),
       <<Const(LL(32768, 17164)), Mac("value"), Mac("value_mask")>>),
      Leaf("oxm.ipv6_src", "oxm.oxm", LL(32768, 13328),
       <<Const(LL(32768, 13328)), Raw("value", 16)>>),
      Leaf("oxm.ipv6_src_masked", "oxm.oxm", LL(32768, 13600),
       <<Const(LL(32768, 13600)), Raw("value", 16), Raw("value_mask", 16)>>),
      Leaf("oxm.metadata", "oxm.oxm", LL(32768, 1032),
       <<Const(LL(32768, 1032)), Num("value", 8)>>) }

metadata_masked_to_mpls_label_masked ==
    { Leaf("oxm.metadata_masked", "oxm.oxm", LL(32768, 1296),
       <<Const(LL(32768, 1296)), Num("value", 8), Num("value_mask", 8)>>),
      Leaf("oxm.mpls_bos", "oxm.oxm", LL(32768, 18433),
       <<Const(LL(32768, 18433)), Num("value", 1)>>),
      Leaf("oxm.mpls_bos_masked", "oxm.oxm", LL(32768, 18690),
       <<Const(LL(32768, 18690)), Num("value", 1), Num("value_mask", 1)>>),
      Leaf("oxm.mpls_label", "oxm.oxm", LL(32768, 17412),
       <<Const(LL(32768, 17412)), Num("value", 4)>>),
      Leaf("oxm.mpls_label_masked", "oxm.oxm", LL(32768, 17672),
       <<Const(LL(32768, 17672)), Num("value", 4), Num("value_mask", 4)>>) }

mpls_tc_to_sctp_src ==
    { Leaf("oxm.mpls_tc", "oxm.oxm", LL(32768, 17921),
       <<Const(LL(32768, 17921)), Num("value", 1)>>),
      Leaf("oxm.mpls_tc_masked", "oxm.oxm", LL(32768, 18178),
       <<Const(LL(32768, 18178)), Num("value", 1), Num("value_mask", 1)>>),
      Leaf("oxm.sctp_dst", "oxm.oxm", LL(32768, 9218),
       <<Const(LL(32768, 9218)), Num("value", 2)>>),
      Leaf("oxm.sctp_dst_masked", "oxm.oxm", LL(32768, 9476),
       <<Const(LL(32768, 9476)), Num("value", 2), Num("value_mask", 2)>>),
      Leaf("oxm.sctp_src", "oxm.oxm", LL(32768, 8706),
       <<Const(LL(32768, 8706)), Num("value", 2)>>) }

sctp_src_masked_to_tcp_src_masked ==
    { Leaf("oxm.sctp_src_masked", "oxm.oxm", LL(32768, 8964),
       <<Const(LL(32768, 8964)), Num("value", 2), Num("value_mask", 2)>>),
      Leaf("oxm.tcp_dst", "oxm.oxm", LL(32768, 7170),
       <<Const(LL(32768, 7170)), Num("value", 2)>>),
      Leaf("oxm.tcp_dst_masked", "oxm.oxm", LL(32768, 7428),
       <<Const(LL(32768, 7428)), Num("value", 2), Num("value_mask", 2)>>),
      Leaf("oxm.tcp_src", "oxm.oxm", LL(32768, 6658),
       <<Const(LL(32768, 6658)), Num("value", 2)>>),
      Leaf("oxm.tcp_src_masked", "oxm.oxm", LL(32768, 6916),
       <<Const(LL(32768, 6916)), Num("value", 2), Num("value_mask", 2)>>) }

tunnel_id_to_tunnel_ipv4_src ==
    { Leaf("oxm.tunnel_id", "oxm.oxm", LL(32768, 19464),
       <<Const(LL(32768, 19464)), Num("value", 8)>>),
      Leaf("oxm.tunnel_id_masked", "oxm.oxm", LL(32768, 19728),
       <<Const(LL(32768, 19728)), Num("value", 8), Num("value_mask", 8)>>),
      Leaf("oxm.tunnel_ipv4_dst", "oxm.oxm", L(81924),
       <<Const(L(81924)), Num("value", 4)>>),
      Leaf("oxm.tunnel_ipv4_dst_masked", "oxm.oxm", L(82184),
       <<Const(L(82184)), Num("value", 4), Num("value_mask", 4)>>),
      Leaf("oxm.tunnel_ipv4_src", "oxm.oxm", L(81412),
       <<Const(L(81412)), Num("value", 4)>>) }

tunnel_ipv4_src_masked_to_udp_src_masked ==
    { Leaf("oxm.tunnel_ipv4_src_masked", "oxm.oxm", L(81672),
       <<Const(L(81672)), Num("value", 4), Num("value_mask", 4)>>),
      Leaf("oxm.udp_dst", "oxm.oxm", LL(32768, 8194),
       <<Const(LL(32768, 8194)), Num("value", 2)>>),
      Leaf("oxm.udp_dst_masked", "oxm.oxm", LL(32768, 8452),
       <<Const(LL(32768, 8452)), Num("value", 2), Num("value_mask", 2)>>),
      Leaf("oxm.udp_src", "oxm.oxm", LL(32768, 7682),
       <<Const(LL(32768, 7682)), Num("value", 2)>>),
      Leaf("oxm.udp_src_masked", "oxm.oxm", LL(32768, 7940),
       <<Const(LL(32768, 7940)), Num("value", 2), Num("value_mask", 2)>>) }

vlan_pcp_to_vlan_vid_masked ==
    { Leaf("oxm.vlan_pcp", "oxm.oxm", LL(32768, 3585),
       <<Const(LL(32768, 3585)), Num("value", 1)>>),
      Leaf("oxm.vlan_pcp_masked", "oxm.oxm", LL(32768, 3842),
       <<Const(LL(32768, 3842)), Num("value", 1), Num("value_mask", 1)>>),
      Leaf("oxm.vlan_vid", "oxm.oxm", LL(32768, 3074),
       <<Const(LL(32768, 3074)), Num("value", 2)>>),
      Leaf("oxm.vlan_vid_masked", "oxm.oxm", LL(32768, 3332),
       <<Const(LL(32768, 3332)), Num("value", 2), Num("value_mask", 2)>>) }

Classes ==
    UNION {oxm_to_arp_spa, arp_spa_masked_to_arp_tpa_masked,
      bsn_egr_port_group_id_to_bsn_in_ports_128,
      bsn_in_ports_128_masked_to_bsn_ingress_port_group_id_masked,
      bsn_inner_eth_dst_to_bsn_inner_vlan_vid,
      bsn_inner_vlan_vid_masked_to_bsn_l3_dst_class_id_masked,
      bsn_l3_interface_class_id_to_bsn_lag_id,
      bsn_lag_id_masked_to_bsn_udf0_masked, bsn_udf1_to_bsn_udf3,
      bsn_udf3_masked_to_bsn_udf5_masked, bsn_udf6_to_bsn_vfi,
      bsn_vfi_masked_to_bsn_vrf_masked, bsn_vxlan_network_id_to_eth_src,
      eth_src_masked_to_icmpv4_code_masked, icmpv4_type_to_icmpv6_type,
      icmpv6_type_masked_to_in_port_masked, ip_dscp_to_ip_proto,
      ip_proto_masked_to_ipv4_src_masked, ipv6_dst_to_ipv6_flabel,
      ipv6_flabel_masked_to_ipv6_nd_target_masked, ipv6_nd_tll_to_metadata,
      metadata_masked_to_mpls_label_masked, mpls_tc_to_sctp_src,
      sctp_src_masked_to_tcp_src_masked, tunnel_id_to_tunnel_ipv4_src,
      tunnel_ipv4_src_masked_to_udp_src_masked, vlan_pcp_to_vlan_vid_masked}
=============================================================================
