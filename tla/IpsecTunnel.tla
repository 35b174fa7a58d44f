----------------------------- MODULE IpsecTunnel -----------------------------
(***************************************************************************)
(* ESP between hosts: the outbound half of the graph (ipip_encap_node.c,   *)
(* ipsec_encap_node.c, tx_node.c), the inbound half (cls_node.c,           *)
(* ipsec_decap_node.c, ipip_decap_node.c), the per-interface encryption    *)
(* flag, and the associations the control plane installs at both ends.     *)
(*                                                                         *)
(* A graph walk handles a packet from Rx to Tx and requests are processed  *)
(* by a source node of the same graph, so one packet, or one request, is   *)
(* one step of a host.  Hosts and the underlay interleave freely: wire     *)
(* holds every frame that was ever sent, so a frame may be delayed,        *)
(* overtaken, duplicated or lost at every receiver.                        *)
(*                                                                         *)
(* The database of a host is the table of SaTable (IpsecSad implements     *)
(* it), with the state librte_ipsec keeps for each association: the        *)
(* outbound sequence number and the inbound anti-replay window.            *)
(***************************************************************************)
EXTENDS Naturals, FiniteSets

CONSTANTS
  Host,           \* dp-service instances, named by their underlay prefix
  Iface,          \* interfaces; an underlay address is an interface's
  HostOf, VniOf,  \* where an interface lives and the tenant network it is in
  Route,          \* pairs of interfaces that send to each other over the underlay
  Spi,            \* wire SPIs
  KeyMaterial,    \* key and salt
  KeyTunnel,      \* the control plane dedicates key material to one tunnel
  Window,         \* replay_window values in use, 0 switches replay checks off
  SqnMax,         \* last sequence number of the counter librte_ipsec keeps
  MaxPackets,     \* bound: packets offered by the guests
  MaxDeliveries,  \* bound: deliveries of one packet that are told apart
  NONE

Vni    == {VniOf[i] : i \in Iface}
Tunnel == [from : Host, vni : Vni, to : Host]

ASSUME TopologyAssumption ==
  /\ HostOf \in [Iface -> Host]
  /\ Route \subseteq Iface \X Iface
  /\ \A r \in Route : HostOf[r[1]] # HostOf[r[2]]
  /\ KeyTunnel \in [KeyMaterial -> Tunnel]
ASSUME NumberAssumption ==
  /\ SqnMax \in Nat \ {0} /\ MaxPackets \in Nat /\ MaxDeliveries \in Nat
  /\ Window \subseteq Nat

VARIABLES
  iface,    \* "absent", or the encrypt flag as "clear" and "encrypt"
  egress,   \* outbound association of each tunnel, at its from host
  ingress,  \* inbound association of each host, SPI and peer
  wire,     \* frames sent over the underlay
  packets,  \* packets the guests have handed over
  received, \* how often each packet reached its destination interface
  outKeys,  \* key material that was ever used outbound
  inKeys,   \* replay window of key material that was ever used inbound, NONE if it was not
  bypassed  \* interfaces that were a cleartext interface at some time

saVars   == <<egress, ingress, outKeys, inKeys>>
dataVars == <<wire, packets, received>>
vars     == <<iface, saVars, dataVars, bypassed>>

PacketId == 1 .. MaxPackets
Outbound == [spi : Spi, key : KeyMaterial, sqn : 0 .. SqnMax]
Inbound  == [vni : Vni, key : KeyMaterial, window : Window, last : 0 .. SqnMax,
             seen : SUBSET (1 .. SqnMax)]
InKey    == [at : Host, spi : Spi, peer : Host]

\* Frames: IP in IP, or the same with ESP in between.
PlainFrame == [id : PacketId, esp : {FALSE}, src : Iface, dst : Iface]
EspFrame   == [id : PacketId, esp : {TRUE}, src : Iface, dst : Iface,
               spi : Spi, sqn : 1 .. SqnMax, key : KeyMaterial]

ASSUME NoneAssumption == NONE \notin Outbound \cup Inbound \cup Window

-------------------------------------------------------------------------------
(* Outbound: ipip_encap, then ipsec_encap for an encrypting interface, then tx. *)

\* ipsec_encap_build_key(): the VNI of the incoming interface and the outer addresses.
TunnelOf(i, j) == [from |-> HostOf[i], vni |-> VniOf[i], to |-> HostOf[j]]

\* Mutant: a packet with no association leaves as ipip_encap built it.
EncapFallsBack(i, j) ==
  LET t == TunnelOf(i, j) IN
  /\ iface[i] = "encrypt"
  /\ \/ /\ egress[t] = NONE
        /\ wire' = wire \cup {[id |-> packets', esp |-> FALSE, src |-> i, dst |-> j]}
        /\ UNCHANGED egress
     \/ /\ egress[t] # NONE
        /\ egress[t].sqn < SqnMax
        /\ egress' = [egress EXCEPT ![t].sqn = @ + 1]
        /\ wire' = wire \cup {[id |-> packets', esp |-> TRUE, src |-> i, dst |-> j,
                               spi |-> egress[t].spi, sqn |-> egress[t].sqn + 1,
                               key |-> egress[t].key]}

\* Mutant: the counter wraps when it runs out.
EncapWraps(i, j) ==
  LET t == TunnelOf(i, j)
      n == (egress[t].sqn % SqnMax) + 1
  IN  /\ iface[i] = "encrypt"
      /\ egress[t] # NONE
      /\ egress' = [egress EXCEPT ![t].sqn = n]
      /\ wire' = wire \cup {[id |-> packets', esp |-> TRUE, src |-> i, dst |-> j,
                             spi |-> egress[t].spi, sqn |-> n, key |-> egress[t].key]}

\* An encrypting interface: no association, a counter that has run out and a failed crypto
\* operation all end in a drop.  The sequence number is taken before the operation, so a failure
\* there uses it up.
Encap(i, j) ==
  LET t == TunnelOf(i, j) IN
  /\ iface[i] = "encrypt"
  /\ \/ /\ egress[t] = NONE
        /\ UNCHANGED <<egress, wire>>
     \/ /\ egress[t] # NONE
        /\ egress[t].sqn = SqnMax
        /\ UNCHANGED <<egress, wire>>
     \/ /\ egress[t] # NONE
        /\ egress[t].sqn < SqnMax
        /\ egress' = [egress EXCEPT ![t].sqn = @ + 1]
        /\ \/ wire' = wire \cup {[id |-> packets', esp |-> TRUE, src |-> i, dst |-> j,
                                  spi |-> egress[t].spi, sqn |-> egress[t].sqn + 1,
                                  key |-> egress[t].key]}
           \/ UNCHANGED wire

Bypass(i, j) ==
  /\ iface[i] = "clear"
  /\ wire' = wire \cup {[id |-> packets', esp |-> FALSE, src |-> i, dst |-> j]}
  /\ UNCHANGED egress

Send(i, j) ==
  /\ <<i, j>> \in Route
  /\ packets < MaxPackets
  /\ packets' = packets + 1
  /\ Encap(i, j) \/ Bypass(i, j)
  /\ UNCHANGED <<iface, ingress, received, outKeys, inKeys, bypassed>>

-------------------------------------------------------------------------------
(* Inbound: cls, ipsec_decap, ipip_decap.  A frame that is refused changes nothing. *)

InKeyOf(f) == [at |-> HostOf[f.dst], spi |-> f.spi, peer |-> HostOf[f.src]]

\* cls: the endpoint must exist, and its flag must match the frame's protection.
ClsAccepts(f) ==
  /\ iface[f.dst] # "absent"
  /\ (iface[f.dst] = "encrypt") = f.esp

\* librte_ipsec: a sequence number is refused when it has been seen or has fallen out of the
\* window; a window of size 0 refuses nothing.
ReplayAccepts(sa, n) ==
  sa.window = 0 \/ (n + sa.window >= sa.last /\ n \notin sa.seen)

\* Mutant: ingress associations are not bound to their VNI.
DecapIgnoresVni(f) ==
  LET sa == ingress[InKeyOf(f)] IN
  sa # NONE /\ ReplayAccepts(sa, f.sqn) /\ sa.key = f.key

\* ipsec_decap: an association for the SPI and the peer, bound to the VNI of the endpoint, whose
\* window accepts the sequence number and whose key authenticates the frame.
DecapAccepts(f) ==
  LET sa == ingress[InKeyOf(f)] IN
  sa # NONE /\ sa.vni = VniOf[f.dst] /\ ReplayAccepts(sa, f.sqn) /\ sa.key = f.key

\* Mutant: the window is consulted but never moved.
UpdateWindowForgets(sa, n) == sa

\* rte_ipsec_pkt_process() moves the window once the frame has been authenticated.
UpdateWindow(sa, n) ==
  IF sa.window = 0 THEN sa
  ELSE [sa EXCEPT !.last = IF n > @ THEN n ELSE @, !.seen = @ \cup {n}]

Receive(f) ==
  /\ received[f.id] < MaxDeliveries
  /\ ClsAccepts(f)
  /\ \/ /\ f.esp
        /\ DecapAccepts(f)
        /\ ingress' = [ingress EXCEPT ![InKeyOf(f)] = UpdateWindow(@, f.sqn)]
     \/ ~f.esp /\ UNCHANGED ingress
  /\ received' = [received EXCEPT ![f.id] = @ + 1]
  /\ UNCHANGED <<iface, egress, wire, packets, outKeys, inKeys, bypassed>>

-------------------------------------------------------------------------------
(* The control plane.  It never uses key material twice in one direction. *)

NewOutbound(spi, k) == [spi |-> spi, key |-> k, sqn |-> 0]

CreateEgress(t, spi, k) ==
  /\ egress[t] = NONE
  /\ KeyTunnel[k] = t /\ k \notin outKeys
  /\ egress' = [egress EXCEPT ![t] = NewOutbound(spi, k)]
  /\ outKeys' = outKeys \cup {k}
  /\ UNCHANGED <<iface, ingress, inKeys, dataVars, bypassed>>

\* Mutant: the replacement keeps the wire SPI of the association it replaces.
UpdateEgressKeepsSpi(t, spi, k) ==
  /\ egress[t] # NONE
  /\ KeyTunnel[k] = t /\ k \notin outKeys
  /\ egress' = [egress EXCEPT ![t] = NewOutbound(@.spi, k)]
  /\ outKeys' = outKeys \cup {k}
  /\ UNCHANGED <<iface, ingress, inKeys, dataVars, bypassed>>

\* Mutant: the association to replace is named by the SPI it is about to get.
UpdateEgressByNewSpi(t, spi, k) ==
  /\ egress[t] # NONE /\ egress[t].spi = spi
  /\ KeyTunnel[k] = t /\ k \notin outKeys
  /\ egress' = [egress EXCEPT ![t] = NewOutbound(spi, k)]
  /\ outKeys' = outKeys \cup {k}
  /\ UNCHANGED <<iface, ingress, inKeys, dataVars, bypassed>>

\* The replacement has a counter of its own, from the start.
UpdateEgress(t, spi, k) ==
  /\ egress[t] # NONE
  /\ KeyTunnel[k] = t /\ k \notin outKeys
  /\ egress' = [egress EXCEPT ![t] = NewOutbound(spi, k)]
  /\ outKeys' = outKeys \cup {k}
  /\ UNCHANGED <<iface, ingress, inKeys, dataVars, bypassed>>

DeleteEgress(t) ==
  /\ egress[t] # NONE
  /\ egress' = [egress EXCEPT ![t] = NONE]
  /\ UNCHANGED <<iface, ingress, outKeys, inKeys, dataVars, bypassed>>

InKeyFor(t, spi) == [at |-> t.to, spi |-> spi, peer |-> t.from]

\* Mutant: an association that is already there is overwritten.
CreateIngressOverwrites(t, spi, k, w) ==
  /\ KeyTunnel[k] = t /\ inKeys[k] = NONE
  /\ ingress' = [ingress EXCEPT ![InKeyFor(t, spi)] =
                   [vni |-> t.vni, key |-> k, window |-> w, last |-> 0, seen |-> {}]]
  /\ inKeys' = [inKeys EXCEPT ![k] = w]
  /\ UNCHANGED <<iface, egress, outKeys, dataVars, bypassed>>

CreateIngress(t, spi, k, w) ==
  /\ ingress[InKeyFor(t, spi)] = NONE
  /\ KeyTunnel[k] = t /\ inKeys[k] = NONE
  /\ ingress' = [ingress EXCEPT ![InKeyFor(t, spi)] =
                   [vni |-> t.vni, key |-> k, window |-> w, last |-> 0, seen |-> {}]]
  /\ inKeys' = [inKeys EXCEPT ![k] = w]
  /\ UNCHANGED <<iface, egress, outKeys, dataVars, bypassed>>

DeleteIngress(x) ==
  /\ ingress[x] # NONE
  /\ ingress' = [ingress EXCEPT ![x] = NONE]
  /\ UNCHANGED <<iface, egress, outKeys, inKeys, dataVars, bypassed>>

SetIface(i, mode) ==
  /\ iface' = [iface EXCEPT ![i] = mode]
  /\ bypassed' = IF mode = "clear" THEN bypassed \cup {i} ELSE bypassed
  /\ UNCHANGED <<saVars, dataVars>>

CreateInterface(i, mode) == iface[i] = "absent" /\ SetIface(i, mode)
DeleteInterface(i)       == iface[i] # "absent" /\ SetIface(i, "absent")
EnableEncryption(i)      == iface[i] = "clear" /\ SetIface(i, "encrypt")
DisableEncryption(i)     == iface[i] = "encrypt" /\ SetIface(i, "clear")

\* Nothing is persisted: a restarted instance has neither interfaces nor associations.
Restart(h) ==
  /\ iface' = [i \in Iface |-> IF HostOf[i] = h THEN "absent" ELSE iface[i]]
  /\ egress' = [t \in Tunnel |-> IF t.from = h THEN NONE ELSE egress[t]]
  /\ ingress' = [x \in InKey |-> IF x.at = h THEN NONE ELSE ingress[x]]
  /\ UNCHANGED <<outKeys, inKeys, dataVars, bypassed>>

-------------------------------------------------------------------------------

Init ==
  /\ iface = [i \in Iface |-> "absent"]
  /\ egress = [t \in Tunnel |-> NONE]
  /\ ingress = [x \in InKey |-> NONE]
  /\ wire = {} /\ packets = 0 /\ received = [n \in PacketId |-> 0]
  /\ outKeys = {} /\ inKeys = [k \in KeyMaterial |-> NONE]
  /\ bypassed = {}

Traffic ==
  \/ \E i, j \in Iface : Send(i, j)
  \/ \E f \in wire : Receive(f)

Control ==
  \/ \E t \in Tunnel, spi \in Spi, k \in KeyMaterial :
       \/ CreateEgress(t, spi, k) \/ UpdateEgress(t, spi, k)
       \/ \E w \in Window : CreateIngress(t, spi, k, w)
  \/ \E t \in Tunnel : DeleteEgress(t)
  \/ \E x \in InKey : DeleteIngress(x)
  \/ \E i \in Iface : \/ CreateInterface(i, "clear") \/ CreateInterface(i, "encrypt")
                      \/ DeleteInterface(i) \/ EnableEncryption(i) \/ DisableEncryption(i)
  \/ \E h \in Host : Restart(h)

Next == Traffic \/ Control

Spec == Init /\ [][Next]_vars

-------------------------------------------------------------------------------
(* Properties. *)

\* Every variable has its type; in particular no sequence number passes the end of the counter
\* that librte_ipsec keeps for an outbound association.
TypeOK ==
  /\ iface \in [Iface -> {"absent", "clear", "encrypt"}]
  /\ egress \in [Tunnel -> Outbound \cup {NONE}]
  /\ ingress \in [InKey -> Inbound \cup {NONE}]
  /\ wire \subseteq PlainFrame \cup EspFrame
  /\ packets \in 0 .. MaxPackets
  /\ received \in [PacketId -> 0 .. MaxDeliveries]
  /\ outKeys \subseteq KeyMaterial
  /\ inKeys \in [KeyMaterial -> Window \cup {NONE}]
  /\ bypassed \subseteq Iface

\* No two frames are encrypted with the same key and sequence number, which make the AES-GCM
\* nonce, across rekeying, deletion, restarts, failed crypto and an exhausted counter.
NonceUsedOnce ==
  \A f, g \in wire : f.esp /\ g.esp /\ f.key = g.key /\ f.sqn = g.sqn => f = g

\* An interface that has encrypted for as long as it existed never has a packet on the underlay
\* in the clear and is never handed one that came in the clear.
NeverInTheClear ==
  \A f \in wire : ~f.esp =>
    /\ f.src \in bypassed
    /\ received[f.id] > 0 => f.dst \in bypassed

\* What an ESP frame delivers stays in its tenant network: the VNI of the receiving interface is
\* that of the sending one, although every underlay address of a host masks to one prefix.
TenantIsolation ==
  \A f \in wire : f.esp /\ received[f.id] > 0 => VniOf[f.src] = VniOf[f.dst]

\* An association with a replay window hands a packet over at most once, however often the
\* underlay repeats the frame and in whatever order frames arrive.
DeliveredOnce ==
  \A f \in wire : f.esp /\ received[f.id] > 1 => inKeys[f.key] = 0

\* The associations of a host, without the state of librte_ipsec.
Associations(h) ==
  {[dir |-> "EGRESS", vni |-> t.vni, src |-> t.from, dst |-> t.to, spi |-> egress[t].spi,
    key |-> egress[t].key, replay_window |-> 0]
     : t \in {u \in Tunnel : u.from = h /\ egress[u] # NONE}}
  \cup
  {[dir |-> "INGRESS", vni |-> ingress[x].vni, src |-> x.peer, dst |-> x.at, spi |-> x.spi,
    key |-> ingress[x].key, replay_window |-> ingress[x].window]
     : x \in {y \in InKey : y.at = h /\ ingress[y] # NONE}}

Db(h) == INSTANCE SaTable WITH
  Sa <- [spi : Spi, vni : Vni, dir : {"INGRESS", "EGRESS"}, src : Host, dst : Host,
         replay_window : Window \cup {0}, key : KeyMaterial],
  table <- Associations(h)

\* The database each host uses here is the one IpsecSad provides: no step does to the associations
\* of a host what SaTable does not allow.
UsesSaTable ==
  /\ \A h \in Host : Db(h)!Init
  /\ [][\/ UNCHANGED <<egress, ingress>>
        \/ \A h \in Host : UNCHANGED Associations(h) \/ Db(h)!Next]_vars
===============================================================================
