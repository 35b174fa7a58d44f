------------------------------ MODULE NatHandover ------------------------------
(***************************************************************************)
(* What a connection behind a shared NAT address looks like on both sides  *)
(* of the translation, and what is left of it when the other process takes *)
(* over: the flow keys of dp_flow.c, the header translation of dp_nat.c    *)
(* (IPv4 to IPv4, and NAT64), the first packet in snat_node.c, the way     *)
(* back in dnat_node.c, the entries sent to the standby process and the    *)
(* flows it makes of them (dp_cntrack_from_sync_nat).                      *)
(*                                                                         *)
(* One VNI, one interface with an IPv4 and an IPv6 address, one NAT        *)
(* address: VNI and VNF type are the same in all keys and left out, like   *)
(* the checksums and lengths of the headers.  Messages are not lost here;  *)
(* HaSync is about the exchange.                                           *)
(***************************************************************************)
EXTENDS Naturals, Sequences, FiniteSets, Functions

CONSTANTS
  HoPacket,      \* packets the VM sends to the outside
  HoNatIp,       \* NAT address of its interface
  HoNatPort,     \* port range of its interface
  MaxTakeovers,  \* bound: takeovers
  DROPPED

VARIABLES
  ho_flow,       \* flow_table: key -> flow value
  ho_held,       \* portoverload table: key -> portmap key it was made for
  ho_peer,       \* portoverload table of the standby process: key -> metadata
  ho_sync,       \* a standby process is there
  ho_takeovers

hoVars == <<ho_flow, ho_held, ho_peer, ho_sync, ho_takeovers>>

TCP == 6
UDP == 17
ICMP == 1
ICMPV6 == 58
ECHO_REPLY == 0
ECHO_REQUEST == 8
ICMP_ERROR == 3
ECHO_REQUEST6 == 128
ECHO_REPLY6 == 129

(* struct dp_ip_address; a NAT64 address carries an IPv4 address. *)
Addr4(a) == [ver |-> 4, a |-> a]
Addr6(a) == [ver |-> 6, a |-> a]
Nat64(a) == [ver |-> 64, a |-> a]
is_v6(x) == x.ver # 4
IsEcho(proto) == proto \in {ICMP, ICMPV6}

(* A packet: ports for TCP and UDP, type and identifier for ICMP, the      *)
(* packet it is about for an ICMP error.                                   *)
Pkt(src, dst, proto, sport, dport, type, id, inner) ==
  [src |-> src, dst |-> dst, proto |-> proto, sport |-> sport, dport |-> dport,
   type |-> type, id |-> id, inner |-> inner]

(* struct flow_key: `from' is the source port or the ICMP type. *)
FKey(src, dst, proto, port, from) ==
  [src |-> src, dst |-> dst, proto |-> proto, port |-> port, from |-> from]

-----------------------------------------------------------------------------
(* dp_get_icmp_err_ip_hdr(): the packet an error is about, with its ports. *)
HasErrHdr(p) == LET h == p.inner[1] IN h.proto \in {TCP, UDP} /\ h.sport # 0 /\ h.dport # 0

(* dp_build_icmp_flow_key(): an error belongs to the flow of the packet it *)
(* is about, seen from the other end.                                      *)
build_icmp_flow_key(p) ==
  CASE p.type \in {ECHO_REPLY, ECHO_REQUEST} -> FKey(p.src, p.dst, ICMP, p.id, p.type)
    [] p.type = ICMP_ERROR /\ HasErrHdr(p) ->
         LET h == p.inner[1] IN FKey(h.dst, h.src, h.proto, h.sport, h.dport)
    [] OTHER -> DROPPED

(* dp_build_flow_key() *)
build_flow_key(p) ==
  CASE p.proto \in {TCP, UDP} -> FKey(p.src, p.dst, p.proto, p.dport, p.sport)
    [] p.proto = ICMP         -> build_icmp_flow_key(p)
    [] p.proto = ICMPV6       -> FKey(p.src, p.dst, ICMPV6, p.id, p.type)

OtherEcho(t) ==
  CASE t = ECHO_REPLY    -> ECHO_REQUEST
    [] t = ECHO_REQUEST  -> ECHO_REPLY
    [] t = ECHO_REPLY6   -> ECHO_REQUEST6
    [] t = ECHO_REQUEST6 -> ECHO_REPLY6
    [] OTHER             -> 0

(* dp_invert_flow_key() *)
invert_flow_key(k) ==
  IF IsEcho(k.proto) THEN FKey(k.dst, k.src, k.proto, k.port, OtherEcho(k.from))
  ELSE FKey(k.dst, k.src, k.proto, k.from, k.port)

(* The ICMP type of an ICMPv6 type in a key; 0 if it is no echo. *)
Type4(t) == IF t = ECHO_REQUEST6 THEN ECHO_REQUEST ELSE 0

(* dp_set_pkt_flow_direction(): a packet is in the original direction      *)
(* unless its key is the reply key.                                        *)
IsReply(f, k) == k = f.reply /\ k # f.org

-----------------------------------------------------------------------------
(* dp_nat_chg_ipv6_to_ipv4_hdr(): only echo messages of ICMPv6. *)
nat_chg_ipv6_to_ipv4_hdr(p, ip) ==
  LET q == [p EXCEPT !.src = Addr4(ip), !.dst = Addr4(p.dst.a)]
  IN  CASE p.proto \in {TCP, UDP} -> q
        [] p.proto = ICMPV6 /\ p.type = ECHO_REQUEST6 -> [q EXCEPT !.proto = ICMP, !.type = ECHO_REQUEST]
        [] p.proto = ICMPV6 /\ p.type = ECHO_REPLY6   -> [q EXCEPT !.proto = ICMP, !.type = ECHO_REPLY]
        [] OTHER -> DROPPED

(* dp_nat_chg_ipv4_to_ipv6_hdr() *)
nat_chg_ipv4_to_ipv6_hdr(p, addr) ==
  LET q == [p EXCEPT !.src = Nat64(p.src.a), !.dst = addr]
  IN  CASE p.proto \in {TCP, UDP} -> q
        [] p.proto = ICMP /\ p.type = ECHO_REQUEST -> [q EXCEPT !.proto = ICMPV6, !.type = ECHO_REQUEST6]
        [] p.proto = ICMP /\ p.type = ECHO_REPLY   -> [q EXCEPT !.proto = ICMPV6, !.type = ECHO_REPLY6]
        [] OTHER -> DROPPED

(* dp_change_icmp_identifier(), dp_change_l4_hdr_port(), dp_change_icmp_   *)
(* err_l4_src_port()                                                       *)
change_icmp_identifier(p, id) == [p EXCEPT !.id = id]
change_l4_hdr_port(p, dir, port) ==
  IF dir = "src" THEN [p EXCEPT !.sport = port] ELSE [p EXCEPT !.dport = port]
change_icmp_err_l4_src_port(p, port) == [p EXCEPT !.inner[1].sport = port]

SetSource(p, port) ==
  IF p.proto = ICMP THEN change_icmp_identifier(p, port) ELSE change_l4_hdr_port(p, "src", port)

(* The way out, for a flow that has its translation. *)
snat_known(f, p) ==
  CASE f.flag = "SRC_NAT"   -> SetSource([p EXCEPT !.src = f.reply.dst], f.reply.port)
    [] f.flag = "SRC_NAT64" ->
         LET q == nat_chg_ipv6_to_ipv4_hdr(p, HoNatIp)
         IN  IF q = DROPPED THEN DROPPED ELSE SetSource(q, f.reply.port)
    [] OTHER -> p

(* The way back for IPv4: an error gets its inner packet translated too. *)
dnat_reply(f, p) ==
  LET q == [p EXCEPT !.dst = f.org.src]
  IN  CASE p.proto # ICMP      -> change_l4_hdr_port(q, "dst", f.org.from)
        [] p.type = ECHO_REPLY -> change_icmp_identifier(q, f.org.port)
        [] p.type = ICMP_ERROR -> change_icmp_err_l4_src_port([q EXCEPT !.inner[1].src = f.org.src], f.org.from)
        [] OTHER               -> q

(* The way back for NAT64. *)
dnat_reply64(f, p) ==
  LET q == CASE p.proto # ICMP      -> change_l4_hdr_port(p, "dst", f.org.from)
             [] p.type = ECHO_REPLY -> change_icmp_identifier(p, f.org.port)
             [] OTHER               -> p
  IN  nat_chg_ipv4_to_ipv6_hdr(q, f.org.src)

(* What the VM gets of a packet that comes in for the NAT address; one     *)
(* without flow is dropped.                                                *)
Deliver(p) ==
  LET k == build_flow_key(p)
      f == ho_flow[k]
  IN  CASE k = DROPPED \/ k \notin DOMAIN ho_flow    -> DROPPED
        [] f.flag = "SRC_NAT" /\ IsReply(f, k)      -> dnat_reply(f, p)
        [] f.flag = "SRC_NAT64" /\ IsReply(f, k)    -> dnat_reply64(f, p)
        [] OTHER                                     -> DROPPED

-----------------------------------------------------------------------------
(* struct flow_value: its two keys and its NAT flag.  flow_table_insert_   *)
(* entry() makes one without translation.                                  *)
FlowVal(org, reply, flag) == [org |-> org, reply |-> reply, flag |-> flag]
NewFlowVal(k) == FlowVal(k, invert_flow_key(k), "NONE")

(* dp_process_ipv4_snat() with NAT port np *)
process_ipv4_snat(k, np) ==
  FlowVal(k, [invert_flow_key(k) EXCEPT !.dst = Addr4(HoNatIp), !.port = np], "SRC_NAT")

(* dp_process_ipv6_nat64(): the replies are IPv4. *)
process_ipv6_nat64(k, np) ==
  LET inv   == invert_flow_key(k)
      reply == [inv EXCEPT !.src = Addr4(k.dst.a), !.dst = Addr4(HoNatIp), !.port = np]
  IN  FlowVal(k, IF k.proto = ICMPV6 THEN [reply EXCEPT !.proto = ICMP, !.from = Type4(inv.from)] ELSE reply,
              "SRC_NAT64")

(* The keys of the NAT port tables for a packet (dp_allocate_network_snat_ *)
(* port()) and for a flow (dp_flow_to_snat_keys()).                        *)
OverloadKey(np, dst, dport, proto) == [port |-> np, dst |-> dst, dport |-> dport, proto |-> proto]
PortmapKey(src, port) == [src |-> src, port |-> port]

PacketPortmap(p) == PortmapKey(p.src, IF IsEcho(p.proto) THEN p.id ELSE p.sport)
PacketOverload(p, np) == OverloadKey(np, p.dst.a, IF IsEcho(p.proto) THEN p.id ELSE p.dport, p.proto)

FlowPortmap(f) == PortmapKey(f.org.src, IF IsEcho(f.org.proto) THEN f.org.port ELSE f.org.from)
FlowOverload(f) == OverloadKey(f.reply.port, f.org.dst.a, f.org.port, f.org.proto)

(* The ports a packet may get: the one its source has already, or any that *)
(* is free towards its destination; {} if the connection is there already, *)
(* or the range is full.  NatPorts is about the choice.                    *)
PortsFor(p) ==
  LET mine == {e.port : e \in {x \in DOMAIN ho_held : ho_held[x] = PacketPortmap(p)}}
  IN  {np \in (IF mine # {} THEN mine ELSE HoNatPort) : PacketOverload(p, np) \notin DOMAIN ho_held}

(* A function without, with an entry. *)
Without(t, S) == Restrict(t, DOMAIN t \ S)
With(t, k, v) == [x \in DOMAIN t \cup {k} |-> IF x = k THEN v ELSE t[x]]

EntriesOf(t, f) == {k \in DOMAIN t : t[k] = f}

-----------------------------------------------------------------------------
HoInit ==
  /\ ho_flow = <<>> /\ ho_held = <<>>
  /\ ho_peer = <<>> /\ ho_sync = FALSE /\ ho_takeovers = 0

(* rte_hash_add_key_data() replaces what the key had before. *)
Installed(t, f) == With(With(t, f.org, f), f.reply, f)

(* dp_sync_send_nat_create(), dp_sync_send_nat_delete() and what the       *)
(* standby process does with them; a duplicate is ignored.  Mutant: the    *)
(* deletion is not sent.                                                   *)
send_nat_create(e, pm, type) ==
  IF ~ho_sync \/ e \in DOMAIN ho_peer THEN ho_peer ELSE With(ho_peer, e, [pm |-> pm, type |-> type])
send_nat_deleteUnsent(e) == ho_peer
send_nat_delete(e) == Without(ho_peer, {e})

(* A packet of the VM without translation: conntrack, then get_next_index()*)
(* of snat_node.c.  The port is allocated and announced before the header  *)
(* is changed; if that fails, dp_remove_network_snat_port() refuses, as    *)
(* the reply key is not IPv4 yet, and the port stays taken.                *)
VmSendsFirst(p) ==
  LET k    == build_flow_key(p)
      was  == IF k \in DOMAIN ho_flow THEN ho_flow[k] ELSE NewFlowVal(k)
      rest == Without(ho_flow, EntriesOf(ho_flow, was))
  IN  /\ k # DROPPED /\ was.flag = "NONE"
      /\ IF PortsFor(p) = {} THEN ho_flow' = Installed(rest, was) /\ UNCHANGED <<ho_held, ho_peer>>
         ELSE \E np \in PortsFor(p) :
                /\ ho_held' = With(ho_held, PacketOverload(p, np), PacketPortmap(p))
                /\ ho_peer' = send_nat_create(PacketOverload(p, np), PacketPortmap(p), k.from)
                /\ ho_flow' = Installed(rest,
                     IF ~is_v6(p.src) THEN process_ipv4_snat(k, np)
                     ELSE IF nat_chg_ipv6_to_ipv4_hdr(p, HoNatIp) = DROPPED THEN was
                     ELSE process_ipv6_nat64(k, np))
      /\ UNCHANGED <<ho_sync, ho_takeovers>>

(* dp_process_aged_flows_non_offload() for a flow: its entries go, and     *)
(* with the second one the flow and its port (dp_free_flow()).             *)
ConnectionAges(k) ==
  LET f == ho_flow[k]
      freed == Cardinality(EntriesOf(ho_flow, f)) = 2 /\ f.flag # "NONE"
  IN  /\ k # f.reply
      /\ ho_flow' = Without(ho_flow, EntriesOf(ho_flow, f))
      /\ ho_held' = IF freed THEN Without(ho_held, {FlowOverload(f)}) ELSE ho_held
      /\ ho_peer' = IF freed THEN send_nat_delete(FlowOverload(f)) ELSE ho_peer
      /\ UNCHANGED <<ho_sync, ho_takeovers>>

(* dp_synchronize_local_nat_flows(): each flow is there twice; the entry   *)
(* whose key is the flow's original key is the one sent.                   *)
Dumped == {f \in Range(ho_flow) : f.flag # "NONE" /\ f.org \in DOMAIN ho_flow /\ ho_flow[f.org] = f}

(* dp_sync_snat_flow() *)
sync_snat_flow(f) == [pm |-> FlowPortmap(f), type |-> f.org.from]

(* A standby process starts and gets the dump it asks for. *)
StandbyStarts ==
  /\ ~ho_sync /\ ho_takeovers < MaxTakeovers
  /\ ho_sync' = TRUE
  /\ ho_peer' = [e \in {FlowOverload(f) : f \in Dumped} |->
                   sync_snat_flow(CHOOSE f \in Dumped : FlowOverload(f) = e)]
  /\ UNCHANGED <<ho_flow, ho_held, ho_takeovers>>

StandbyStops ==
  /\ ho_sync /\ ho_sync' = FALSE /\ ho_peer' = <<>>
  /\ UNCHANGED <<ho_flow, ho_held, ho_takeovers>>

(* Mutant: the ICMP type of the first packet is not restored. *)
from_sync_natNoType(e, m) ==
  LET key == FKey(m.pm.src, Addr4(e.dst), e.proto, e.dport, m.pm.port)
      inv == [invert_flow_key(key) EXCEPT !.dst = Addr4(HoNatIp), !.port = e.port]
  IN  [key  |-> IF is_v6(key.src) THEN [key EXCEPT !.dst = Nat64(e.dst)] ELSE key,
       flow |-> FlowVal(key, IF e.proto = ICMPV6 THEN [inv EXCEPT !.proto = ICMP, !.from = Type4(inv.from)] ELSE inv,
                        IF is_v6(key.src) THEN "SRC_NAT64" ELSE "SRC_NAT")]

(* dp_cntrack_from_sync_nat(): the flow and the key of its original        *)
(* direction in the table.  For NAT64 the two differ: the flow has the     *)
(* IPv4 destination in its own copy of the key.                            *)
from_sync_nat(e, m) ==
  LET key == FKey(m.pm.src, Addr4(e.dst), e.proto, e.dport, IF IsEcho(e.proto) THEN m.type ELSE m.pm.port)
      inv == [invert_flow_key(key) EXCEPT !.dst = Addr4(HoNatIp), !.port = e.port]
  IN  [key  |-> IF is_v6(key.src) THEN [key EXCEPT !.dst = Nat64(e.dst)] ELSE key,
       flow |-> FlowVal(key, IF e.proto = ICMPV6 THEN [inv EXCEPT !.proto = ICMP, !.from = Type4(inv.from)] ELSE inv,
                        IF is_v6(key.src) THEN "SRC_NAT64" ELSE "SRC_NAT")]

(* dp_create_sync_snat_flows(): a flow for every entry, in the order of    *)
(* the hash table; of flows with the same reply key the last has it.       *)
Takeover ==
  LET Made == {from_sync_nat(e, ho_peer[e]) : e \in DOMAIN ho_peer}
      Replies == {m.flow.reply : m \in Made}
  IN  /\ ho_sync
      /\ \E last \in {g \in [Replies -> Made] : \A r \in Replies : g[r].flow.reply = r} :
           ho_flow' = [k \in {m.key : m \in Made} \cup Replies |->
                         IF k \in Replies THEN last[k].flow ELSE (CHOOSE m \in Made : m.key = k).flow]
      /\ ho_held' = [e \in DOMAIN ho_peer |-> ho_peer[e].pm]
      /\ ho_sync' = FALSE /\ ho_peer' = <<>>
      /\ ho_takeovers' = ho_takeovers + 1

HoNext ==
  \/ \E p \in HoPacket : VmSendsFirst(p)
  \/ \E k \in DOMAIN ho_flow : ConnectionAges(k)
  \/ StandbyStarts \/ StandbyStops \/ Takeover

HoSpec == HoInit /\ [][HoNext]_hoVars

-----------------------------------------------------------------------------
(* Type invariant: translated flows have replies for the NAT address at a  *)
(* port of the range, and the standby process holds what is held here.     *)
HoTypeOK ==
  /\ \A k \in DOMAIN ho_flow : LET f == ho_flow[k] IN
       f.flag # "NONE" => f.reply.dst = Addr4(HoNatIp) /\ f.reply.port \in HoNatPort
  /\ \A e \in DOMAIN ho_held : e.port \in HoNatPort
  /\ DOMAIN ho_peer \subseteq DOMAIN ho_held /\ (~ho_sync => ho_peer = <<>>)
  /\ ho_takeovers \in 0 .. MaxTakeovers

(* What the other end sends back for a packet it gets, and the error a     *)
(* router sends about it.                                                  *)
Answer(p) ==
  IF IsEcho(p.proto) THEN [p EXCEPT !.src = p.dst, !.dst = p.src, !.type = OtherEcho(p.type)]
  ELSE [p EXCEPT !.src = p.dst, !.dst = p.src, !.sport = p.dport, !.dport = p.sport]
ErrorAbout(p) == Pkt(p.dst, p.src, ICMP, 0, 0, ICMP_ERROR, 0, <<p>>)

(* The packets NAT64 translates; the others are dropped. *)
Supported(p) == p.proto = ICMPV6 => p.type \in {ECHO_REQUEST6, ECHO_REPLY6}

(* The packets of the VM that have a translated flow, and the flow they    *)
(* have.  Two echo flows may have got the same reply key (nat_echo); a     *)
(* flow that lost its key to another one has no answers.                   *)
HasFlow(p) == build_flow_key(p) \in DOMAIN ho_flow /\ ho_flow[build_flow_key(p)].flag # "NONE"
FlowFor(p) == ho_flow[build_flow_key(p)]
Overtaken(p) == IsEcho(p.proto) /\ FlowFor(p).reply \notin EntriesOf(ho_flow, FlowFor(p))

(* The answer to a translated packet comes back to the VM as the answer to *)
(* the packet it sent: same addresses, family, protocol, ports, type and   *)
(* identifier (snat_node.c, dnat_node.c and the keys between them).  The   *)
(* same for an ICMP error about it, over IPv4.  A takeover makes no        *)
(* difference.                                                             *)
AnswersReturn ==
  \A p \in HoPacket : HasFlow(p) /\ Supported(p) /\ ~Overtaken(p) =>
    LET out == snat_known(FlowFor(p), p)
    IN  /\ Deliver(Answer(out)) = Answer(p)
        /\ ~IsEcho(p.proto) /\ ~is_v6(p.src) => Deliver(ErrorAbout(out)) = ErrorAbout(p)

(* A flow knows which port it has: the keys dp_flow_to_snat_keys() makes   *)
(* of it are those of an entry that was made for it, also when the flow    *)
(* was made from the entry after a takeover.  Every TCP or UDP entry has   *)
(* such a flow, which gives the port back when it ages.                    *)
PortsAreReleased ==
  /\ \A f \in Range(ho_flow) : f.flag # "NONE" =>
       FlowOverload(f) \in DOMAIN ho_held /\ ho_held[FlowOverload(f)] = FlowPortmap(f)
  /\ \A e \in DOMAIN ho_held : ~IsEcho(e.proto) =>
       \E f \in Range(ho_flow) : f.flag # "NONE" /\ FlowOverload(f) = e

(* A NAT64 flow from a takeover is not in the table under its own key and  *)
(* is left out of the dumps.                                               *)
Misfiled(k) == k # ho_flow[k].reply /\ k # ho_flow[k].org

(* The connections survive a takeover: what had a translation has the same *)
(* one afterwards, whether the standby process was told when the flow      *)
(* began or by the dump (dp_create_sync_snat_flows()), unless it is of the *)
(* takeover before.                                                        *)
ConnectionsSurvive ==
  [][ho_takeovers' > ho_takeovers =>
       \A k \in DOMAIN ho_flow :
         LET f == ho_flow[k]
         IN  f.flag # "NONE" /\ k # f.reply /\ ~Misfiled(k) =>
               k \in DOMAIN ho_flow' /\ ho_flow'[k].reply = f.reply /\ ho_flow'[k].flag = f.flag]_hoVars
=============================================================================
