------------------------------ MODULE NatTables ------------------------------
(***************************************************************************)
(* The addresses of the NAT: the SNAT and DNAT tables and the list of      *)
(* neighbour ranges in dp_nat.c, the handlers that maintain them, and the  *)
(* decision dnat_node.c takes for a packet from the underlay.              *)
(*                                                                         *)
(* One SNAT record per interface address holds both its VIP (an address of *)
(* its own) and its NAT address (shared: every user has a port range, on   *)
(* this host or on a neighbour).  The DNAT table says for a public address *)
(* which interface has it as VIP, or SHARED.  The tables are keyed by the  *)
(* address and VNI of the interface and outlive it.                        *)
(***************************************************************************)
EXTENDS Naturals, FiniteSets

CONSTANTS
  NtPort,       \* ports
  NtVni,        \* VNIs
  NtVniOf,      \* VNI of the interface a port is used for
  NtAddr,       \* addresses of interfaces
  VipIp, NatIp, \* public addresses assigned as VIP, as NAT address
  NtRange,      \* port ranges of neighbours <<min, max>>, max excluded
  NtUl,         \* underlay addresses of this host
  NeighUl,      \* underlay addresses of neighbours
  NtFlow,       \* flows from the underlay: [ip, vni, port]
  MaxNeigh,     \* bound: neighbour entries
  SHARED, EMPTY

VARIABLES
  nt_iface,     \* port -> address of its interface
  snat_tbl,     \* (address, VNI) -> record
  dnat_tbl,     \* (public address, VNI) -> address of an interface, SHARED
  neighnat,     \* neighnat_head, without its order: ranges in it do not overlap
  nt_vnf,       \* underlay addresses that are taken
  port_nat,     \* port -> nat_ip of the interface (NAT64 uses it)
  nt_flow,      \* flow -> neighbour its packets are relayed to
  nt_reset      \* an Initialize request has been served

ntVars == <<nt_iface, snat_tbl, dnat_tbl, neighnat, nt_vnf, port_nat, nt_flow, nt_reset>>

ASSUME NtAssumption ==
  /\ NtVniOf \in [NtPort -> NtVni]
  /\ NtRange \subseteq {r \in Nat \X Nat : r[1] < r[2]}
  /\ \A f \in NtFlow : f.port \in Nat
  /\ {SHARED, EMPTY} \cap (NtAddr \cup VipIp \cup NatIp) = {}

NtIp == VipIp \cup NatIp
NoRecord == [vip |-> EMPTY, vip_ul |-> EMPTY, nat |-> EMPTY, nat_ul |-> EMPTY]

(* dp_get_iface_snat_data(): the record of the interface of p. *)
SnatOf(p) == <<nt_iface[p], NtVniOf[p]>>
Present(p) == nt_iface[p] # EMPTY
InVni(v) == {p \in NtPort : Present(p) /\ NtVniOf[p] = v}

-----------------------------------------------------------------------------
(* dp_set_iface_vip_ip() and dp_set_iface_nat_ip(); a record is created on *)
(* the first use.  A record without VIP and NAT is no record.  The port    *)
(* range of a local user is NatPorts' subject.                             *)
SetVip(t, k, ip, u) == [t EXCEPT ![k].vip = ip, ![k].vip_ul = u]
SetNat(t, k, ip, u) == [t EXCEPT ![k].nat = ip, ![k].nat_ul = u]

(* dp_delete_snat_data() *)
delete_snat_data(t, k) == [t EXCEPT ![k] = NoRecord]

(* dp_del_iface_vip_ip() and dp_del_iface_nat_ip(): the record stays while *)
(* the other half is in use.                                               *)
DelVip(t, k) ==
  IF t[k].nat # EMPTY THEN [t EXCEPT ![k].vip = EMPTY, ![k].vip_ul = EMPTY]
  ELSE delete_snat_data(t, k)
DelNat(t, k) ==
  IF t[k].vip # EMPTY THEN [t EXCEPT ![k].nat = EMPTY, ![k].nat_ul = EMPTY]
  ELSE delete_snat_data(t, k)

(* dp_get_dnat_data(), dp_set_dnat_ip(), dp_del_dnat_ip() *)
get_dnat_data(ip, v) == dnat_tbl[<<ip, v>>]
set_dnat_ip(ip, a, v) == [dnat_tbl EXCEPT ![<<ip, v>>] = a]
del_dnat_ip(ip, v) == [dnat_tbl EXCEPT ![<<ip, v>>] = EMPTY]

(* dp_is_network_nat_entry_port_overlap(): whatever the VNI. *)
Overlap(e, ip, r) == e.ip = ip /\ r[2] > e.range[1] /\ r[1] < e.range[2]

(* dp_is_network_nat_port() *)
Covers(e, f) == e.vni = f.vni /\ e.ip = f.ip /\ e.range[1] <= f.port /\ f.port < e.range[2]

(* Mutant: the entry goes with its last local user. *)
del_vip_from_dnatAlways(l, ip, v) == del_dnat_ip(ip, v)

(* dp_del_vip_from_dnat(): keeps the entry for the neighbours in list l,   *)
(* but not for another interface of this host.                             *)
del_vip_from_dnat(l, ip, v) ==
  IF \E e \in l : e.vni = v /\ e.ip = ip THEN dnat_tbl
  ELSE del_dnat_ip(ip, v)

(* dp_add_neighnat_entry(), dp_del_neighnat_entry() *)
add_neighnat_entry(ip, v, r, u) ==
  neighnat \cup {[ip |-> ip, vni |-> v, range |-> r, ul |-> u]}
del_neighnat_entry(e) == neighnat \ {e}

(* dp_lookup_neighnat_underlay_ip(): a range of the list. *)
lookup_neighnat(f) == {e.ul : e \in {x \in neighnat : Covers(x, f)}}

(* dp_remove_neighnat_flows() *)
remove_neighnat_flows(e) == [f \in NtFlow |-> IF Covers(e, f) THEN EMPTY ELSE nt_flow[f]]

(* dp_del_all_neigh_nat_entries_in_vni() for one VNI, dp_del_dnat_by_vni() *)
WithoutVni(l, v) == {e \in l : e.vni # v}
del_dnat_by_vni(v) ==
  [k \in DOMAIN dnat_tbl |-> IF k[2] = v THEN EMPTY ELSE dnat_tbl[k]]

-----------------------------------------------------------------------------
NtInit ==
  /\ nt_iface = [p \in NtPort |-> EMPTY]
  /\ snat_tbl = [k \in NtAddr \X NtVni |-> NoRecord]
  /\ dnat_tbl = [k \in NtIp \X NtVni |-> EMPTY]
  /\ neighnat = {} /\ nt_vnf = {}
  /\ port_nat = [p \in NtPort |-> EMPTY]
  /\ nt_flow = [f \in NtFlow |-> EMPTY]
  /\ nt_reset = FALSE

(* An interface appears: its address is new to its VNI. *)
NtCreateIface(p, a) ==
  /\ ~Present(p) /\ \A q \in InVni(NtVniOf[p]) : nt_iface[q] # a
  /\ nt_iface' = [nt_iface EXCEPT ![p] = a]
  /\ UNCHANGED <<snat_tbl, dnat_tbl, neighnat, nt_vnf, port_nat, nt_flow, nt_reset>>

(* It goes; with the last one of the VNI dp_free_vni_data() deletes the    *)
(* neighbour entries and every DNAT entry of the VNI.                      *)
NtDeleteIface(p) ==
  LET v == NtVniOf[p]
      last == InVni(v) = {p}
  IN  /\ Present(p)
      /\ nt_iface' = [nt_iface EXCEPT ![p] = EMPTY]
      /\ port_nat' = [port_nat EXCEPT ![p] = EMPTY]
      /\ neighnat' = IF last THEN WithoutVni(neighnat, v) ELSE neighnat
      /\ dnat_tbl' = IF last THEN del_dnat_by_vni(v) ELSE dnat_tbl
      /\ UNCHANGED <<snat_tbl, nt_vnf, nt_flow, nt_reset>>

(* dp_process_create_vip(): VNF entry, SNAT record, DNAT entry, each taken *)
(* back when a later one fails.  (A request that is refused before it      *)
(* wrote anything is no step.)                                             *)
CreateVip(p, ip, u) ==
  LET k == SnatOf(p)
      with == SetVip(snat_tbl, k, ip, u)
  IN  /\ Present(p) /\ u \notin nt_vnf /\ snat_tbl[k].vip = EMPTY
      /\ \/ /\ snat_tbl' = DelVip(with, k)    \* the DNAT entry exists, or no memory
            /\ UNCHANGED <<dnat_tbl, nt_vnf>>
         \/ /\ get_dnat_data(ip, k[2]) = EMPTY
            /\ snat_tbl' = with
            /\ dnat_tbl' = set_dnat_ip(ip, k[1], k[2])
            /\ nt_vnf' = nt_vnf \cup {u}
      /\ UNCHANGED <<nt_iface, neighnat, port_nat, nt_flow, nt_reset>>

(* Mutant: the DNAT entry stays. *)
DeleteVipKeepsDnat(p) ==
  LET k == SnatOf(p)
  IN  /\ Present(p) /\ snat_tbl[k].vip # EMPTY
      /\ nt_vnf' = nt_vnf \ {snat_tbl[k].vip_ul}
      /\ snat_tbl' = DelVip(snat_tbl, k)
      /\ UNCHANGED <<nt_iface, dnat_tbl, neighnat, port_nat, nt_flow, nt_reset>>

(* dp_process_delete_vip(); without a VIP it is refused. *)
DeleteVip(p) ==
  LET k == SnatOf(p)
  IN  /\ Present(p) /\ snat_tbl[k].vip # EMPTY
      /\ nt_vnf' = nt_vnf \ {snat_tbl[k].vip_ul}
      /\ dnat_tbl' = del_dnat_ip(snat_tbl[k].vip, k[2])
      /\ snat_tbl' = DelVip(snat_tbl, k)
      /\ UNCHANGED <<nt_iface, neighnat, port_nat, nt_flow, nt_reset>>

(* dp_process_create_nat(): an existing DNAT entry is shared, whatever it  *)
(* is; adding one may fail.                                                *)
CreateNtNat(p, ip, u) ==
  LET k == SnatOf(p)
      with == SetNat(snat_tbl, k, ip, u)
  IN  /\ Present(p) /\ u \notin nt_vnf /\ snat_tbl[k].nat = EMPTY
      /\ \/ /\ get_dnat_data(ip, k[2]) = EMPTY
            /\ snat_tbl' = DelNat(with, k)
            /\ UNCHANGED <<dnat_tbl, nt_vnf, port_nat>>
         \/ /\ snat_tbl' = with
            /\ dnat_tbl' = IF get_dnat_data(ip, k[2]) = EMPTY THEN set_dnat_ip(ip, SHARED, k[2])
                           ELSE dnat_tbl
            /\ nt_vnf' = nt_vnf \cup {u}
            /\ port_nat' = [port_nat EXCEPT ![p] = ip]
      /\ UNCHANGED <<nt_iface, neighnat, nt_flow, nt_reset>>

(* dp_process_delete_nat(); without a NAT address it is refused. *)
DeleteNtNat(p) ==
  LET k == SnatOf(p)
  IN  /\ Present(p) /\ snat_tbl[k].nat # EMPTY
      /\ nt_vnf' = nt_vnf \ {snat_tbl[k].nat_ul}
      /\ dnat_tbl' = del_vip_from_dnat(neighnat, snat_tbl[k].nat, k[2])
      /\ snat_tbl' = DelNat(snat_tbl, k)
      /\ port_nat' = [port_nat EXCEPT ![p] = EMPTY]
      /\ UNCHANGED <<nt_iface, neighnat, nt_flow, nt_reset>>

(* Mutant: the DNAT entry points to the public address. *)
CreateNeighNatToItself(ip, v, r, u) ==
  /\ \A x \in neighnat : ~Overlap(x, ip, r)
  /\ Cardinality(neighnat) < MaxNeigh
  /\ neighnat' = add_neighnat_entry(ip, v, r, u)
  /\ dnat_tbl' = [dnat_tbl EXCEPT ![<<ip, v>>] = IF @ = EMPTY THEN ip ELSE @]
  /\ UNCHANGED <<nt_iface, snat_tbl, nt_vnf, port_nat, nt_flow, nt_reset>>

(* dp_process_create_neighnat(), dp_add_neighnat_entry(); the entry is     *)
(* freed again when the DNAT entry cannot be added.                        *)
CreateNeighNat(ip, v, r, u) ==
  /\ \A x \in neighnat : ~Overlap(x, ip, r)
  /\ Cardinality(neighnat) < MaxNeigh
  /\ neighnat' = add_neighnat_entry(ip, v, r, u)
  /\ dnat_tbl' = IF get_dnat_data(ip, v) = EMPTY THEN set_dnat_ip(ip, SHARED, v) ELSE dnat_tbl
  /\ UNCHANGED <<nt_iface, snat_tbl, nt_vnf, port_nat, nt_flow, nt_reset>>

(* Mutant: the flows stay. *)
DeleteNeighNatKeepsFlows(e) ==
  /\ neighnat' = del_neighnat_entry(e)
  /\ dnat_tbl' = del_vip_from_dnat(neighnat', e.ip, e.vni)
  /\ UNCHANGED <<nt_iface, snat_tbl, nt_vnf, port_nat, nt_flow, nt_reset>>

(* dp_process_delete_neighnat(), dp_del_neighnat_entry() and               *)
(* dp_remove_neighnat_flows().                                             *)
DeleteNeighNat(e) ==
  /\ neighnat' = del_neighnat_entry(e)
  /\ dnat_tbl' = del_vip_from_dnat(neighnat', e.ip, e.vni)
  /\ nt_flow' = remove_neighnat_flows(e)
  /\ UNCHANGED <<nt_iface, snat_tbl, nt_vnf, port_nat, nt_reset>>

(* dp_process_initialize(): all neighbour entries, no DNAT entry (they are *)
(* compared with VNI 0).                                                   *)
NtInitialize ==
  /\ neighnat' = {}
  /\ nt_reset' = TRUE
  /\ UNCHANGED <<nt_iface, snat_tbl, dnat_tbl, nt_vnf, port_nat, nt_flow>>

(* dnat_node: the first packet of a flow from the underlay for a shared    *)
(* address is relayed to the neighbour whose range covers its port, and so *)
(* are the later ones; without one it is dropped.                          *)
RelayStarts(f) ==
  /\ nt_flow[f] = EMPTY /\ get_dnat_data(f.ip, f.vni) = SHARED
  /\ \E u \in lookup_neighnat(f) : nt_flow' = [nt_flow EXCEPT ![f] = u]
  /\ UNCHANGED <<nt_iface, snat_tbl, dnat_tbl, neighnat, nt_vnf, port_nat, nt_reset>>

RelayEnds(f) ==
  /\ nt_flow[f] # EMPTY
  /\ nt_flow' = [nt_flow EXCEPT ![f] = EMPTY]
  /\ UNCHANGED <<nt_iface, snat_tbl, dnat_tbl, neighnat, nt_vnf, port_nat, nt_reset>>

NtNext ==
  \/ \E p \in NtPort :
       \/ \E a \in NtAddr : NtCreateIface(p, a)
       \/ NtDeleteIface(p) \/ DeleteVip(p) \/ DeleteNtNat(p)
       \/ \E u \in NtUl : \/ \E ip \in VipIp : CreateVip(p, ip, u)
                          \/ \E ip \in NatIp : CreateNtNat(p, ip, u)
  \/ \E ip \in NatIp, v \in NtVni, r \in NtRange, u \in NeighUl : CreateNeighNat(ip, v, r, u)
  \/ \E e \in neighnat : DeleteNeighNat(e)
  \/ NtInitialize
  \/ \E f \in NtFlow : RelayStarts(f) \/ RelayEnds(f)

NtSpec == NtInit /\ [][NtNext]_ntVars

-----------------------------------------------------------------------------
(* The type of the tables. *)
NtTypeOK ==
  /\ nt_iface \in [NtPort -> NtAddr \cup {EMPTY}]
  /\ snat_tbl \in [NtAddr \X NtVni -> [vip : VipIp \cup {EMPTY}, vip_ul : NtUl \cup {EMPTY},
                     nat : NatIp \cup {EMPTY}, nat_ul : NtUl \cup {EMPTY}]]
  /\ dnat_tbl \in [NtIp \X NtVni -> NtAddr \cup {SHARED, EMPTY}]
  /\ neighnat \subseteq [ip : NatIp, vni : NtVni, range : NtRange, ul : NeighUl]
  /\ Cardinality(neighnat) <= MaxNeigh
  /\ nt_vnf \subseteq NtUl
  /\ port_nat \in [NtPort -> NatIp \cup {EMPTY}]
  /\ nt_flow \in [NtFlow -> NeighUl \cup {EMPTY}]

(***************************************************************************)
(* A public address that is delivered to an interface is the VIP that the  *)
(* replies of this interface leave with: the DNAT table never points to an *)
(* interface address whose SNAT record says otherwise, also when           *)
(* interfaces, VIPs and NAT addresses come and go in any order.            *)
(***************************************************************************)
InboundMatchesOutbound ==
  \A ip \in NtIp, v \in NtVni :
    dnat_tbl[<<ip, v>>] \in NtAddr => snat_tbl[<<dnat_tbl[<<ip, v>>], v>>].vip = ip

(***************************************************************************)
(* Only DeleteVip and the end of its VNI take an address of its own away   *)
(* from an interface (dp_grpc_impl.c: "1:1 VIP is not shared with          *)
(* anything").  The exception is a record that outlived both its interface *)
(* and its VNI: the address can be given to another interface meanwhile,   *)
(* and deleting the VIP of the first one takes it away from the second.    *)
(***************************************************************************)
VipStaysDelivered ==
  [][\A ip \in VipIp \ NatIp, v \in NtVni : LET a == dnat_tbl[<<ip, v>>] IN
       a \in NtAddr /\ dnat_tbl'[<<ip, v>>] # a
         => \/ snat_tbl'[<<a, v>>].vip # ip \/ InVni(v)' = {}
            \/ \E b \in NtAddr \ {a} : snat_tbl[<<b, v>>].vip = ip]_ntVars

(***************************************************************************)
(* Every neighbour range can be reached: there is a DNAT entry for its     *)
(* address, however the local users of the address come and go (the        *)
(* comment in dp_del_vip_from_dnat()).  A VIP on the same address spoils   *)
(* this.                                                                   *)
(***************************************************************************)
NeighboursReachable ==
  \A e \in neighnat : e.ip \notin VipIp => dnat_tbl[<<e.ip, e.vni>>] = SHARED

(***************************************************************************)
(* No shared DNAT entry without a user of the address, which would make    *)
(* the host swallow the packets for it and refuse it as a VIP.  An         *)
(* Initialize request breaks this: it forgets the users, not the entry.    *)
(***************************************************************************)
SharedHasUser ==
  ~nt_reset => \A ip \in NtIp, v \in NtVni : dnat_tbl[<<ip, v>>] = SHARED =>
    \/ \E a \in NtAddr : snat_tbl[<<a, v>>].nat = ip
    \/ \E e \in neighnat : e.ip = ip /\ e.vni = v

(***************************************************************************)
(* The ranges of the neighbours do not overlap, so that a packet has one   *)
(* neighbour to be relayed to.                                             *)
(***************************************************************************)
NeighbourUnambiguous ==
  \A f \in NtFlow, d, e \in neighnat : Covers(d, f) /\ Covers(e, f) => d = e

(***************************************************************************)
(* After a neighbour's range was deleted no flow is relayed to it any      *)
(* longer; only the end of the VNI and Initialize leave such flows behind. *)
(***************************************************************************)
RelayFollowsRange ==
  [][\A f \in NtFlow :
       /\ \E e \in neighnat : Covers(e, f)
       /\ \A e \in neighnat' : ~Covers(e, f)
       => nt_flow'[f] = EMPTY \/ InVni(f.vni)' = {} \/ nt_reset']_ntVars

(***************************************************************************)
(* VIP and NAT address share a record but not a life: no request changes   *)
(* both, in particular none that takes one of them away.                   *)
(***************************************************************************)
VipAndNatIndependent ==
  [][\A k \in DOMAIN snat_tbl :
       snat_tbl'[k].vip = snat_tbl[k].vip \/ snat_tbl'[k].nat = snat_tbl[k].nat]_ntVars

(***************************************************************************)
(* An underlay address is taken as long as some record refers to it, and   *)
(* then by one of them only, whichever step of a request failed.           *)
(***************************************************************************)
UnderlayAccounted ==
  /\ nt_vnf = UNION {{snat_tbl[k].vip_ul, snat_tbl[k].nat_ul} : k \in DOMAIN snat_tbl} \ {EMPTY}
  /\ \A p \in NtPort : port_nat[p] # EMPTY => snat_tbl[SnatOf(p)].nat = port_nat[p]

=============================================================================
