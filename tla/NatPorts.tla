------------------------------- MODULE NatPorts -------------------------------
(***************************************************************************)
(* Ports of the network NAT, src/src/dp_nat.c: ipv4_netnat_portmap_tbl     *)
(* gives every source port of an interface one port of the NAT address,    *)
(* with a count of the connections that use it; one port serves many       *)
(* connections, and ipv4_netnat_portoverload_tbl records which remote      *)
(* endpoints it is taken for, so that a reply finds its connection.        *)
(*                                                                         *)
(* The users of the tables are conntrack entries (nat): a connection is    *)
(* translated once, when its first packet passes snat_node.c, and gives    *)
(* its port back when the entry is freed, by ageing or because the NAT     *)
(* address is withdrawn.  Everything runs in the graph worker, a call at a *)
(* time.  A remote endpoint is an address, a port and a protocol, for ICMP *)
(* an address; the source port of an echo session is its identifier.  An   *)
(* interface is its address and VNI.                                       *)
(***************************************************************************)
EXTENDS Integers, FiniteSets

CONSTANTS
  Iface, SrcPort, Endpoint,
  Icmp,         \* the endpoints that are ICMP
  NatIp, NatPort,
  PortRange,    \* port ranges a NAT address is configured with, <<min, max>>
  Hash,         \* rte_hash_hash() of a portmap key
  HashMod,      \* 2^32: hash values wrap
  FlowCntMod,   \* 2^16: flow_cnt wraps
  NONE

Conn        == [iface : Iface, sport : SrcPort, dst : Endpoint]
PortmapKey  == [iface : Iface, sport : SrcPort]
OverloadKey == [nat_ip : NatIp, nat_port : NatPort, dst : Endpoint, ident : SrcPort \cup {NONE}]
Portmap     == [nat_ip : NatIp, nat_port : NatPort, flow_cnt : 0 .. FlowCntMod - 1]
Snat        == [nat_ip : NatIp, range : PortRange]
Translation == [nat_ip : NatIp, nat_port : NatPort]

ASSUME PortAssumption ==
  /\ Icmp \subseteq Endpoint
  /\ NatPort \subseteq Nat
  /\ PortRange \subseteq Nat \X Nat
  /\ \A r \in PortRange : r[1] < r[2] /\ r[1] .. r[2] - 1 \subseteq NatPort
ASSUME HashAssumption ==
  /\ HashMod \in Nat \ {0} /\ FlowCntMod \in Nat \ {0, 1}
  /\ Hash \in [PortmapKey -> 0 .. HashMod - 1]
ASSUME NatNoneAssumption ==
  /\ NONE \notin Portmap /\ NONE \notin Snat /\ NONE \notin Translation
  /\ NONE \notin Iface /\ NONE \notin NatPort
ASSUME FiniteAssumption == IsFiniteSet(Conn)

VARIABLES
  portmap,   \* ipv4_netnat_portmap_tbl
  overload,  \* ipv4_netnat_portoverload_tbl
  snat,      \* nat_ip and nat_port_range of the snat_data of each interface
  nat,       \* the translation in the conntrack entry of each connection
  used,      \* used-port statistics of each interface
  purge,     \* interface whose NAT address is being withdrawn
  result     \* what the last allocation returned

portVars == <<portmap, overload>>
vars     == <<portVars, snat, nat, used, purge, result>>

KeyOf(c) == [iface |-> c.iface, sport |-> c.sport]
\* The dst_port of the overload key of an ICMP packet is its untranslated identifier.
OverloadOf(c, ip, p) ==
  [nat_ip |-> ip, nat_port |-> p, dst |-> c.dst, ident |-> IF c.dst \in Icmp THEN c.sport ELSE NONE]
Held(c) == OverloadOf(c, nat[c].nat_ip, nat[c].nat_port)

-------------------------------------------------------------------------------
(* dp_allocate_network_snat_port() *)

CountConnection(k) ==
  portmap' = [portmap EXCEPT ![k].flow_cnt = (@ + 1) % FlowCntMod]

\* dp_use_existing_portmap_entry(): the source port has a NAT port already.
UseExisting(c, ip) ==
  LET k == KeyOf(c)
      p == portmap[k].nat_port
      o == OverloadOf(c, ip, p)
  IN  /\ portmap[k] # NONE
      /\ \/ /\ o \in overload
            /\ result' = "EEXIST"
            /\ UNCHANGED <<portVars, nat, used>>
         \/ /\ o \notin overload
            /\ overload' = overload \cup {o}
            /\ CountConnection(k)
            /\ nat' = [nat EXCEPT ![c] = [nat_ip |-> ip, nat_port |-> p]]
            /\ used' = [used EXCEPT ![c.iface] = @ + 1]
            /\ result' = "OK"

Size(r) == r[2] - r[1]

\* The p-th port dp_find_new_port() tries.
Candidate(k, r, p) == r[1] + (((Hash[k] + p) % HashMod) % Size(r))

\* Mutant: a port that is in use for the endpoint passes.
IsFreeAlways(c, s, p) == TRUE

IsFree(c, s, p) == OverloadOf(c, s.nat_ip, Candidate(KeyOf(c), s.range, p)) \notin overload

\* The first free one; empty if every candidate is taken.
FindNewPort(c, s) ==
  LET free == {p \in 0 .. Size(s.range) - 1 : IsFree(c, s, p)}
  IN  {Candidate(KeyOf(c), s.range, p) : p \in {q \in free : \A r \in free : q <= r}}

\* dp_create_new_portmap_entry().
CreateNew(c, s) ==
  /\ portmap[KeyOf(c)] = NONE
  /\ \/ /\ FindNewPort(c, s) = {}
        /\ result' = "ENOENT"
        /\ UNCHANGED <<portVars, nat, used>>
     \/ \E p \in FindNewPort(c, s) :
        /\ overload' = overload \cup {OverloadOf(c, s.nat_ip, p)}
        /\ portmap' = [portmap EXCEPT ![KeyOf(c)] =
                         [nat_ip |-> s.nat_ip, nat_port |-> p, flow_cnt |-> 1]]
        /\ nat' = [nat EXCEPT ![c] = [nat_ip |-> s.nat_ip, nat_port |-> p]]
        /\ used' = [used EXCEPT ![c.iface] = @ + 1]
        /\ result' = "OK"

\* Mutant: the overload entry stays when there is no memory for the portmap entry.
OutOfMemoryNoRollback(c, s) ==
  /\ result' = "ERROR"
  /\ portmap[KeyOf(c)] = NONE
  /\ \E p \in FindNewPort(c, s) : overload' = overload \cup {OverloadOf(c, s.nat_ip, p)}
  /\ UNCHANGED <<portmap, nat, used>>

\* A table is full or there is no memory: what was added before is taken back.
OutOfMemory(c, s) ==
  /\ result' = "ERROR"
  /\ UNCHANGED <<portVars, nat, used>>

Allocate(c) ==
  /\ purge = NONE
  /\ snat[c.iface] # NONE
  /\ nat[c] = NONE
  /\ \/ UseExisting(c, snat[c.iface].nat_ip)
     \/ CreateNew(c, snat[c.iface])
     \/ OutOfMemory(c, snat[c.iface])
  /\ UNCHANGED <<snat, purge>>

-------------------------------------------------------------------------------
(* dp_remove_network_snat_port() and the withdrawal of a NAT address. *)

\* Mutant: the entry goes with the first connection, not with the last.
CountDownDeletes(k) == portmap' = [portmap EXCEPT ![k] = NONE]

CountDown(k) ==
  LET n == (portmap[k].flow_cnt + FlowCntMod - 1) % FlowCntMod IN
  portmap' = IF portmap[k] = NONE THEN portmap
             ELSE IF n = 0 THEN [portmap EXCEPT ![k] = NONE]
             ELSE [portmap EXCEPT ![k].flow_cnt = n]

\* dp_delete_snat_entries() with the keys dp_flow_to_snat_keys() reads off the conntrack entry.
DeleteEntries(c) ==
  /\ overload' = overload \ {Held(c)}
  /\ CountDown(KeyOf(c))

\* The conntrack entry is freed.
Release(c) ==
  /\ nat[c] # NONE
  /\ DeleteEntries(c)
  /\ nat' = [nat EXCEPT ![c] = NONE]
  /\ used' = [used EXCEPT ![c.iface] = @ - 1]
  /\ UNCHANGED <<snat, purge, result>>

Age(c) == purge = NONE /\ Release(c)

CreateNat(i, s) ==
  /\ purge = NONE
  /\ snat[i] = NONE
  /\ snat' = [snat EXCEPT ![i] = s]
  /\ UNCHANGED <<portVars, nat, used, purge, result>>

\* dp_process_delete_nat(): dp_remove_nat_flows() frees the connections one after the other, then
\* the configuration goes.
DeleteNat(i) ==
  /\ purge = NONE
  /\ snat[i] # NONE
  /\ purge' = i
  /\ UNCHANGED <<portVars, snat, nat, used, result>>

RemoveNatFlow(c) == purge = c.iface /\ Release(c)

DelIfaceNatIp ==
  /\ purge # NONE
  /\ \A c \in Conn : c.iface = purge => nat[c] = NONE
  /\ snat' = [snat EXCEPT ![purge] = NONE]
  /\ purge' = NONE
  /\ UNCHANGED <<portVars, nat, used, result>>

-------------------------------------------------------------------------------

Init ==
  /\ portmap = [k \in PortmapKey |-> NONE]
  /\ overload = {}
  /\ snat = [i \in Iface |-> NONE]
  /\ nat = [c \in Conn |-> NONE]
  /\ used = [i \in Iface |-> 0]
  /\ purge = NONE
  /\ result = "OK"

Next ==
  \/ \E c \in Conn : Allocate(c) \/ Age(c) \/ RemoveNatFlow(c)
  \/ \E i \in Iface : DeleteNat(i) \/ \E s \in Snat : CreateNat(i, s)
  \/ DelIfaceNatIp

Spec == Init /\ [][Next]_vars

-------------------------------------------------------------------------------
(* Properties. *)

\* The counter can hold the connections of a source port.
CounterFits ==
  \A k \in PortmapKey : Cardinality({c \in Conn : KeyOf(c) = k}) < FlowCntMod

Translated    == {c \in Conn : nat[c] # NONE}
SharesPort(k) == {c \in Translated : KeyOf(c) = k}

\* Every variable has its type; the statistics never run below zero.
TypeOK ==
  /\ portmap \in [PortmapKey -> Portmap \cup {NONE}]
  /\ overload \subseteq OverloadKey
  /\ snat \in [Iface -> Snat \cup {NONE}]
  /\ nat \in [Conn -> Translation \cup {NONE}]
  /\ used \in [Iface -> Nat]
  /\ purge \in Iface \cup {NONE}
  /\ result \in {"OK", "EEXIST", "ENOENT", "ERROR"}

\* Two TCP or UDP connections never look the same to a remote endpoint, whichever interfaces they
\* come from and however the ranges overlap: a reply belongs to one connection.
RepliesUnambiguous ==
  \A c, d \in Translated : c.dst = d.dst /\ c.dst \notin Icmp /\ nat[c] = nat[d] => c = d

\* The overload table holds exactly what live connections use: nothing is lost to a failed
\* allocation or an early release, and no port stays taken without a user.
OverloadIsHeld == overload = {Held(c) : c \in Translated}

\* The connection counter of a source port counts its connections, and the entry goes with the
\* last of them.
CountsConnections ==
  \A k \in PortmapKey :
    IF SharesPort(k) = {} THEN portmap[k] = NONE
    ELSE portmap[k] # NONE /\ portmap[k].flow_cnt = Cardinality(SharesPort(k))

\* While a source port has a connection, all its connections leave from the same NAT address and
\* port, and that is the one the portmap table remembers.
MappingIsStable ==
  \A c \in Translated :
    /\ portmap[KeyOf(c)] # NONE
    /\ portmap[KeyOf(c)].nat_ip = nat[c].nat_ip /\ portmap[KeyOf(c)].nat_port = nat[c].nat_port

\* A connection uses the NAT address its interface has now and a port of its range; other hosts
\* own the rest of the ports of that address.
WithinRange ==
  \A c \in Translated :
    /\ snat[c.iface] # NONE
    /\ nat[c].nat_ip = snat[c.iface].nat_ip
    /\ nat[c].nat_port >= snat[c.iface].range[1] /\ nat[c].nat_port < snat[c.iface].range[2]

\* The exported number of used NAT ports of an interface is its number of translated connections.
UsedCountsPorts == \A i \in Iface : used[i] = Cardinality({c \in Translated : c.iface = i})

\* test_vf_to_pf.py: two echo sessions of an interface with different identifiers leave with
\* different identifiers.
EchoIdentifiersDiffer ==
  \A c, d \in Translated :
    c.iface = d.iface /\ c.sport # d.sport /\ {c.dst, d.dst} \subseteq Icmp => nat[c] # nat[d]

\* Comment in dp_use_existing_portmap_entry(): the overload entry of a connection that conntrack
\* lets through to allocation is never there already.
AllocatedOnlyOnce == result # "EEXIST"
===============================================================================
