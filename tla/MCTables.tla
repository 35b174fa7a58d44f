-------------------------------- MODULE MCTables --------------------------------
(***************************************************************************)
(* The tables of the worker, one component at a time: requests are handled *)
(* one by one, and the tables of one kind of object are not read by the    *)
(* requests for another.  A behaviour runs the specification that          *)
(* `component' names; the others stay in their initial state.              *)
(*                                                                         *)
(* IpsecTunnel is here with two keys of one tunnel, whose associations are *)
(* created, replaced, deleted and created again in any order, over         *)
(* restarts and failing crypto.                                            *)
(***************************************************************************)
EXTENDS IpsecTunnel, ApiObjects, Routes, LoadBalancer, Firewall, Metering, Capture, NatTables,
  VirtSvc, DhcpNodes

VARIABLE component

(* IpsecTunnel: one tunnel between two hosts. *)

MCHostOf    == [i \in Iface |-> IF i = "a1" THEN "A" ELSE "B"]
MCVniOf     == [i \in Iface |-> 1]
MCKeyTunnel == [k \in KeyMaterial |-> [from |-> "A", vni |-> 1, to |-> "B"]]
MCTunnelRoute == {<<"a1", "b1">>}

(* ApiObjects: every field at its bounds and beyond them. *)

MCAddress == [ver : {"v4", "v6", "?"}, form : {"v4", "v6", BAD}, val : {1}]
MCIpv4    == [ver |-> "v4", form |-> "v4", val |-> 1]
MCUnderlay == {"", "::", BAD, "own_external", "own", "other"}
MCPortNo  == {0, 1, 65535, 65536, 65537}
MCHexKey  == UNION {[1 .. n -> {"0", "a", "A", BAD}] : n \in {2, 3}} \cup [1 .. 4 -> {"1", "A"}]
MCLbPort  == [port : {0, 80, 65536}, protocol : {"TCP", "UDP", "?"}]

MCApiRequests ==
  [class : {"interface"}, id : {"", "i", BAD}, device : {"d"}, vni : {1}, ip4 : {0, 1, BAD},
   ip6 : {0, 1, BAD}, pxe : {"", "v4", "v6", BAD}, boot : {"", "b"}, hostname : {"", "h", BAD},
   ul : {"", "own_external"}, encrypt : BOOLEAN]
  \cup [class : {"prefix"}, id : {"i"}, addr : MCAddress, length : {0, 32, 255, 256, 300}, ul : MCUnderlay]
  \cup [class : {"vip"}, id : {"i", ""}, addr : MCAddress, ul : MCUnderlay]
  \cup [class : {"nat"}, id : {"i"}, addr : MCAddress, min : MCPortNo, max : MCPortNo, ul : {""}]
  \cup [class : {"neighnat"}, addr : {MCIpv4}, min : MCPortNo, max : MCPortNo, ul : {BAD, "other"}]
  \cup [class : {"lb"}, id : {"i"}, addr : {MCIpv4}, vni : {1, VniMax, VniMax + 1}, ul : {""},
        ports : UNION {[1 .. n -> MCLbPort] : n \in 0 .. 2}]
  \cup [class : {"sa"}, dir : {"INGRESS", "EGRESS", "?"}, src : {"s"}, dst : {"d", BAD},
        algo : {"AES_128_GCM", "AES_256_GCM", "?"}, window : {0}, key : MCHexKey]
  \cup [class : {"capture"}, src_port : MCPortNo, dst_port : MCPortNo, sink : {"s", BAD}]

(* Routes: prefixes of every length, with and without host bits, in the     *)
(* VNIs of two interfaces; a length out of range, mismatched families.      *)

MCRoute(vni, ver, form, ip, len, hopver) ==
  [vni |-> vni, ver |-> ver, form |-> form, ip |-> ip, len |-> len, hopver |-> hopver, hop |-> 7, hopvni |-> vni]

MCRtRequests ==
  {MCRoute(v, "v4", "v4", i, l, "v6") : v \in {1, 2}, i \in {0, 1, 2}, l \in 0 .. 3}
  \cup {MCRoute(1, "v6", "v6", 3, l, "v6") : l \in {0, 1, 256}}
  \cup {MCRoute(1, "v4", "v6", 1, 1, "v6"), MCRoute(1, "v4", "v4", 3, 1, "v4")}

MCRtVniOf == [p \in RtPort |-> IF p = "v1" THEN 1 ELSE 2]
MCRtOwn   == [p \in RtPort |-> 2]

(* LoadBalancer: two load balancers, three backends whose preferences       *)
(* collide, one flow to each address.                                       *)

MCMurmur  == [b \in Backend |-> <<7, 1, 9>>[b]]
MCDjb     == [b \in Backend |-> <<2, 4, 3>>[b]]
MCLbPorts == {<<80>>, <<0, 81>>}
MCLbFlow  ==
  {[vni |-> "v", addr |-> "x", port |-> 80, hash |-> 4], [vni |-> "v", addr |-> "y", port |-> 81, hash |-> 8]}

(* Firewall: rules that shadow, overlap and contradict each other. *)

MCAll4 == [v6 |-> FALSE, len |-> 0, hosts |-> {"h1", "h2"}]
MCOne4 == [v6 |-> FALSE, len |-> 32, hosts |-> {"h1"}]
MCAll6 == [v6 |-> TRUE, len |-> 0, hosts |-> {"s1"}]
MCOne6 == [v6 |-> TRUE, len |-> 128, hosts |-> {"s1"}]

MCRule(id, dir, action, proto, w, src) ==
  [id |-> id, dir |-> dir, action |-> action, proto |-> proto, w |-> w, src |-> src,
   dst |-> IF src.v6 THEN MCAll6 ELSE MCAll4, priority |-> 1000]

MCFwRequest == {
  MCRule("a", "EGRESS", "ACCEPT", "TCP", <<-1, -1, 80, 80>>, MCAll4),
  MCRule("b", "INGRESS", "ACCEPT", "TCP", <<1, 1024, 80, -1>>, MCOne4),
  MCRule("c", "INGRESS", "DROP", "TCP", <<-1, -1, 80, 80>>, MCAll4),
  MCRule("d", "EGRESS", "DROP", "any", <<0, 0, 0, 0>>, MCAll4),
  MCRule("d", "INGRESS", "ACCEPT", "any", <<0, 0, 0, 0>>, MCOne6),
  MCRule("a", "INGRESS", "ACCEPT", "ICMP", <<8, -1, 0, 0>>, MCOne4),
  MCRule("b", "INGRESS", "ACCEPT", "UDP", <<80, 79, -1, -1>>, MCAll4)}

MCTcp(src, sport) ==
  [l4 |-> "TCP", v6 |-> FALSE, src |-> src, dst |-> "h2", sport |-> sport, dport |-> 80]
MCEcho6 ==
  [l4 |-> "ICMPV6", v6 |-> TRUE, src |-> "s1", dst |-> "s1", type |-> 128, code |-> 1, id |-> 7]

MCFwFlow == {
  [in |-> "v1", out |-> "v2", pkt |-> MCTcp("h1", 7)],
  [in |-> "pf", out |-> "v2", pkt |-> MCTcp("h2", 2000)],
  [in |-> "pf", out |-> "v1", pkt |-> MCEcho6]}

(* Capture: requests with known, unknown and no interfaces. *)

MCCapRequests == {<<"v1">>, <<"v1", "v2">>, <<"pf", "v2">>, <<"v2", UNKNOWN>>, <<>>}

(* NatTables: a VIP and a NAT address that coincide, ranges that overlap. *)

MCNtVniOf == [p \in NtPort |-> 1]
MCNtRange == {<<1, 2>>, <<1, 3>>}
MCNtFlow  == {[ip |-> "m", vni |-> 1, port |-> 1]}

(* DhcpNodes: message type and boot class in any order, padded, cut short   *)
(* and after the end; DHCPv6 requests of up to two options.                 *)

MCOption(c, d) == [code |-> c, data |-> d]
MCTypes == {MCOption(OPT_MESSAGE_TYPE, <<t>>) : t \in {DHCPDISCOVER, DHCPREQUEST, 7}}
MCBoots == {MCOption(OPT_USER_CLASS, <<IPXE>>), MCOption(OPT_VENDOR_CLASS_ID, <<9, PXECLIENT>>), MCOption(12, <<1, 2>>)}
MCPad   == MCOption(OPT_PAD, <<>>)
MCEnd   == MCOption(OPT_END, <<>>)

MCDhOptions ==
  UNION {{<<t>>, <<b, t>>, <<t, b, MCEnd>>, <<t, MCPad, b, MCEnd>>, <<b, MCEnd, t>>} : t \in MCTypes, b \in MCBoots}

MCOption6 ==
  {[code |-> "client_id", len |-> 10], [code |-> "ia_na", len |-> 12], [code |-> "rapid_commit", len |-> 0],
   [code |-> "boot", len |-> 6], [code |-> "oro", len |-> 2]}
MCDh6Request ==
  [type : {"solicit", "request", "release", "confirm", "renew"}, options : UNION {[1 .. n -> MCOption6] : n \in 0 .. 2}]

MCDual     == [v4 |-> TRUE, v6 |-> TRUE, pxe6 |-> FALSE]
MCDhConfig == {MCDual, [MCDual EXCEPT !.pxe6 = TRUE], [MCDual EXCEPT !.v6 = FALSE]}

-------------------------------------------------------------------------------
\* Components with several initial states have one while another component runs.
MCInit ==
  /\ component \in {"ipsec", "api", "route", "lb", "firewall", "meter", "capture", "nat", "virtsvc", "dhcp"}
  /\ Init /\ ApiInit /\ RtInit /\ LbInit /\ FwInit /\ MtInit /\ CapInit /\ NtInit /\ VirtSvcInit /\ DhInit
  /\ component # "virtsvc" => role = "active" /\ uptime = 0
  /\ component # "dhcp" => cfg = [v \in DhVf |-> MCDual]

MCNext ==
  /\ UNCHANGED component
  /\ \/ component = "ipsec" /\ Next
     \/ component # "ipsec" /\ UNCHANGED vars
  /\ \/ component = "api" /\ ApiNext
     \/ component # "api" /\ UNCHANGED api
  /\ \/ component = "route" /\ RtNext
     \/ component # "route" /\ UNCHANGED rt_vars
  /\ \/ component = "lb" /\ LbNext
     \/ component # "lb" /\ UNCHANGED lbVars
  /\ \/ component = "firewall" /\ FwNext
     \/ component # "firewall" /\ UNCHANGED fwVars
  /\ \/ component = "meter" /\ MtNext
     \/ component # "meter" /\ UNCHANGED mtVars
  /\ \/ component = "capture" /\ CapNext
     \/ component # "capture" /\ UNCHANGED capVars
  /\ \/ component = "nat" /\ NtNext
     \/ component # "nat" /\ UNCHANGED ntVars
  /\ \/ component = "virtsvc" /\ VirtSvcNext
     \/ component # "virtsvc" /\ UNCHANGED virtsvcVars
  /\ \/ component = "dhcp" /\ DhNext
     \/ component # "dhcp" /\ UNCHANGED dh_vars

MCSpec ==
  MCInit /\ [][MCNext]_<<component, vars, api, rt_vars, lbVars, fwVars, mtVars, capVars, ntVars, virtsvcVars, dh_vars>>

(* Every variable of every component has its type.                          *)
TablesTypeOK ==
  /\ TypeOK /\ RtTypeOK /\ LbTypeOK /\ FwTypeOK /\ MtTypeOK
  /\ CapTypeOK /\ NtTypeOK /\ VirtSvcTypeOK
===============================================================================
