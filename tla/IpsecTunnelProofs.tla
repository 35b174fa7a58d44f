------------------------- MODULE IpsecTunnelProofs --------------------------
(***************************************************************************)
(* What ESP between hosts promises, for any hosts, tenants, keys, windows  *)
(* and numbers of packets: nonces are fresh, encrypting interfaces stay    *)
(* out of the clear, tenants stay apart and a window delivers once.  Behind *)
(* the tunnels, every host uses its database the way SaTable allows, and a *)
(* tunnel is rekeyed under traffic without a gap.                          *)
(***************************************************************************)
EXTENDS IpsecRekey, TLAPS

(* What the type of a frame says of its fields. *)
LEMMA FrameFields ==
  ASSUME NEW f \in PlainFrame \cup EspFrame
  PROVE  /\ f.id \in PacketId /\ f.esp \in BOOLEAN /\ f.src \in Iface /\ f.dst \in Iface
         /\ f.esp => f.spi \in Spi /\ f.sqn \in 1 .. SqnMax /\ f.key \in KeyMaterial
  BY Zenon DEF PlainFrame, EspFrame

(* The key of ipsec_encap_build_key() is a tunnel, that of                 *)
(* ipsec_decap_build_key() a key of the database.                          *)
LEMMA Endpoints ==
  ASSUME NEW i \in Iface, NEW j \in Iface
  PROVE  /\ TunnelOf(i, j) \in Tunnel
         /\ TunnelOf(i, j).from = HostOf[i] /\ TunnelOf(i, j).to = HostOf[j]
         /\ TunnelOf(i, j).vni = VniOf[i]
         /\ \A s \in Spi : [at |-> HostOf[j], spi |-> s, peer |-> HostOf[i]] \in InKey
  BY TopologyAssumption, Zenon DEF TunnelOf, Tunnel, Vni, InKey

-------------------------------------------------------------------------------
(* An outgoing packet changes an association only by counting it, and the  *)
(* frame that leaves, if one does, is in the clear from a cleartext        *)
(* interface or carries the key and the next number of its tunnel.         *)
LEMMA SendSteps ==
  ASSUME TypeOK, NEW i \in Iface, NEW j \in Iface, Send(i, j)
  PROVE  LET t == TunnelOf(i, j)
             n == egress[t].sqn + 1
         IN  /\ packets \in Nat /\ packets' = packets + 1 /\ packets' \in PacketId
             /\ UNCHANGED <<iface, ingress, received, outKeys, inKeys, bypassed>>
             /\ \/ UNCHANGED <<egress, wire>>
                \/ /\ iface[i] = "clear" /\ UNCHANGED egress
                   /\ wire' = wire \cup {[id |-> packets', esp |-> FALSE, src |-> i, dst |-> j]}
                \/ /\ egress[t] \in Outbound /\ n \in 1 .. SqnMax
                   /\ egress' = [egress EXCEPT ![t].sqn = n]
                   /\ \/ UNCHANGED wire
                      \/ wire' = wire \cup {[id |-> packets', esp |-> TRUE, src |-> i, dst |-> j,
                                            spi |-> egress[t].spi, sqn |-> n, key |-> egress[t].key]}
<1> DEFINE t == TunnelOf(i, j)
<1>1. t \in Tunnel /\ egress[t] \in Outbound \cup {NONE}
  BY Endpoints, Zenon DEF TypeOK
<1>2. packets \in Nat /\ packets' = packets + 1 /\ packets' \in PacketId
  BY NumberAssumption DEF TypeOK, Send, PacketId
<1>3. CASE Bypass(i, j)
  BY <1>2, <1>3, Zenon DEF Send, Bypass
<1>4. CASE Encap(i, j)
  <2>1. egress[t] # NONE /\ egress[t].sqn < SqnMax =>
          egress[t] \in Outbound /\ egress[t].sqn + 1 \in 1 .. SqnMax
    BY <1>1, NumberAssumption DEF Outbound
  <2> QED BY <1>2, <1>4, <2>1, Zenon DEF Send, Encap
<1> QED BY <1>3, <1>4, Zenon DEF Send

(* Sending keeps the types. *)
LEMMA SendTypes == ASSUME TypeOK, NEW i \in Iface, NEW j \in Iface, Send(i, j) PROVE TypeOK'
<1> DEFINE t == TunnelOf(i, j)
           n == egress[t].sqn + 1
<1>1. t \in Tunnel
  BY Endpoints, Zenon
<1>2. packets' \in 0 .. MaxPackets /\ packets' \in PacketId
  BY SendSteps, NumberAssumption DEF PacketId
<1>3. egress' \in [Tunnel -> Outbound \cup {NONE}]
  <2>1. CASE UNCHANGED egress
    BY <2>1, Zenon DEF TypeOK
  <2>2. CASE /\ egress[t] \in Outbound /\ n \in 1 .. SqnMax
             /\ egress' = [egress EXCEPT ![t].sqn = n]
    <3>1. [egress[t] EXCEPT !.sqn = n] \in Outbound
      BY <2>2 DEF Outbound
    <3> QED BY <1>1, <2>2, <3>1, Zenon DEF TypeOK
  <2> QED BY <2>1, <2>2, SendSteps, Zenon
<1>4. wire' \subseteq PlainFrame \cup EspFrame
  <2>1. CASE wire' = wire \cup {[id |-> packets', esp |-> FALSE, src |-> i, dst |-> j]}
    <3>1. [id |-> packets', esp |-> FALSE, src |-> i, dst |-> j] \in PlainFrame
      BY <1>2, Zenon DEF PlainFrame
    <3> QED BY <2>1, <3>1, Zenon DEF TypeOK
  <2>2. CASE /\ egress[t] \in Outbound /\ n \in 1 .. SqnMax
             /\ wire' = wire \cup {[id |-> packets', esp |-> TRUE, src |-> i, dst |-> j,
                                    spi |-> egress[t].spi, sqn |-> n, key |-> egress[t].key]}
    <3>1. [id |-> packets', esp |-> TRUE, src |-> i, dst |-> j,
           spi |-> egress[t].spi, sqn |-> n, key |-> egress[t].key] \in EspFrame
      BY <1>2, <2>2, Zenon DEF Outbound, EspFrame
    <3> QED BY <2>2, <3>1, Zenon DEF TypeOK
  <2> QED BY <2>1, <2>2, SendSteps, Zenon DEF TypeOK
<1> QED BY <1>2, <1>3, <1>4, SendSteps, Zenon DEF TypeOK

(* A frame that is accepted counts as delivered; an ESP frame moves the    *)
(* window of the association that opened it.                               *)
LEMMA ReceiveSteps ==
  ASSUME TypeOK, NEW f \in wire, Receive(f)
  PROVE  LET x == InKeyOf(f)
         IN  /\ received' = [received EXCEPT ![f.id] = @ + 1]
             /\ received[f.id] \in Nat /\ received[f.id] + 1 \in 0 .. MaxDeliveries
             /\ UNCHANGED <<iface, egress, wire, packets, outKeys, inKeys, bypassed>>
             /\ \/ ~f.esp /\ UNCHANGED ingress /\ iface[f.dst] = "clear"
                \/ /\ f.esp /\ x \in InKey /\ ingress[x] \in Inbound
                   /\ ingress[x].key = f.key /\ ingress[x].vni = VniOf[f.dst]
                   /\ ingress[x].window = 0 \/ f.sqn \notin ingress[x].seen
                   /\ ingress' = [ingress EXCEPT ![x] = UpdateWindow(@, f.sqn)]
<1>1. /\ f.id \in PacketId /\ f.esp \in BOOLEAN /\ f.src \in Iface /\ f.dst \in Iface
      /\ f.esp => f.spi \in Spi
  BY FrameFields, Zenon DEF TypeOK
<1>2. received[f.id] \in Nat /\ received[f.id] + 1 \in 0 .. MaxDeliveries
  BY <1>1, NumberAssumption DEF TypeOK, Receive
<1>3. CASE ~f.esp
  BY <1>1, <1>2, <1>3, Zenon DEF Receive, ClsAccepts, TypeOK
<1>4. CASE f.esp
  <2>1. InKeyOf(f) \in InKey
    BY <1>1, <1>4, Endpoints, Zenon DEF InKeyOf
  <2>2. ingress[InKeyOf(f)] \in Inbound
    BY <1>4, <2>1, Zenon DEF Receive, DecapAccepts, TypeOK
  <2> QED BY <1>2, <1>4, <2>1, <2>2, Zenon DEF Receive, DecapAccepts, ReplayAccepts
<1> QED BY <1>1, <1>3, <1>4, Zenon

(* rte_ipsec_pkt_process() keeps the association and adds the number of    *)
(* the frame to what a window has seen.                                    *)
LEMMA WindowSteps ==
  ASSUME NEW sa \in Inbound, NEW n \in 1 .. SqnMax
  PROVE  /\ UpdateWindow(sa, n) \in Inbound
         /\ UpdateWindow(sa, n).key = sa.key /\ UpdateWindow(sa, n).vni = sa.vni
         /\ UpdateWindow(sa, n).window = sa.window
         /\ sa.window # 0 => UpdateWindow(sa, n).seen = sa.seen \cup {n}
<1>1. CASE sa.window = 0
  BY <1>1, Zenon DEF UpdateWindow
<1>2. CASE sa.window # 0
  <2> DEFINE last == IF n > sa.last THEN n ELSE sa.last
  <2>1. last \in 0 .. SqnMax /\ sa.seen \cup {n} \in SUBSET (1 .. SqnMax)
    BY NumberAssumption DEF Inbound
  <2>2. UpdateWindow(sa, n) = [sa EXCEPT !.last = last, !.seen = sa.seen \cup {n}]
    BY <1>2, Zenon DEF UpdateWindow
  <2> HIDE DEF last
  <2> QED BY <1>2, <2>1, <2>2, Zenon DEF Inbound
<1> QED BY <1>1, <1>2, Zenon

(* Receiving keeps the types. *)
LEMMA ReceiveTypes == ASSUME TypeOK, NEW f \in wire, Receive(f) PROVE TypeOK'
<1>1. received' \in [PacketId -> 0 .. MaxDeliveries]
  BY ReceiveSteps, FrameFields DEF TypeOK
<1>2. ingress' \in [InKey -> Inbound \cup {NONE}]
  <2>1. CASE UNCHANGED ingress
    BY <2>1, Zenon DEF TypeOK
  <2>2. CASE /\ f.esp /\ InKeyOf(f) \in InKey /\ ingress[InKeyOf(f)] \in Inbound
             /\ ingress' = [ingress EXCEPT ![InKeyOf(f)] = UpdateWindow(@, f.sqn)]
    <3>1. UpdateWindow(ingress[InKeyOf(f)], f.sqn) \in Inbound
      BY <2>2, FrameFields, WindowSteps, Zenon DEF TypeOK
    <3> QED BY <2>2, <3>1, Zenon DEF TypeOK
  <2> QED BY <2>1, <2>2, ReceiveSteps, Zenon
<1> QED BY <1>1, <1>2, ReceiveSteps, Zenon DEF TypeOK

(* A new outbound association has a counter of its own. *)
LEMMA OutboundCreated ==
  ASSUME TypeOK, NEW t \in Tunnel, NEW spi \in Spi, NEW k \in KeyMaterial,
         CreateEgress(t, spi, k) \/ UpdateEgress(t, spi, k)
  PROVE  /\ KeyTunnel[k] = t /\ k \notin outKeys
         /\ NewOutbound(spi, k) \in Outbound /\ NewOutbound(spi, k).key = k
         /\ egress' = [egress EXCEPT ![t] = NewOutbound(spi, k)]
         /\ outKeys' = outKeys \cup {k}
         /\ UNCHANGED <<iface, ingress, inKeys, dataVars, bypassed>>
  BY NumberAssumption DEF CreateEgress, UpdateEgress, NewOutbound, Outbound

(* A new inbound association has an empty window. *)
LEMMA InboundCreated ==
  ASSUME TypeOK, NEW t \in Tunnel, NEW spi \in Spi, NEW k \in KeyMaterial, NEW w \in Window,
         CreateIngress(t, spi, k, w)
  PROVE  LET x == InKeyFor(t, spi)
             sa == [vni |-> t.vni, key |-> k, window |-> w, last |-> 0, seen |-> {}]
         IN  /\ x \in InKey /\ ingress[x] = NONE /\ sa \in Inbound
             /\ KeyTunnel[k] = t /\ inKeys[k] = NONE
             /\ ingress' = [ingress EXCEPT ![x] = sa]
             /\ inKeys' = [inKeys EXCEPT ![k] = w]
             /\ UNCHANGED <<iface, egress, outKeys, dataVars, bypassed>>
<1>1. InKeyFor(t, spi) \in InKey
  BY Zenon DEF InKeyFor, InKey, Tunnel
<1>2. [vni |-> t.vni, key |-> k, window |-> w, last |-> 0, seen |-> {}] \in Inbound
  BY NumberAssumption DEF Inbound, Tunnel
<1> QED BY <1>1, <1>2, Zenon DEF CreateIngress

(* The requests that take something away, and a restart, leave of the      *)
(* associations what they do not remove.                                   *)
LEMMA Removed ==
  ASSUME TypeOK,
         \/ \E t \in Tunnel : DeleteEgress(t)
         \/ \E x \in InKey : DeleteIngress(x)
         \/ \E h \in Host : Restart(h)
  PROVE  /\ egress' \in [Tunnel -> Outbound \cup {NONE}]
         /\ ingress' \in [InKey -> Inbound \cup {NONE}]
         /\ iface' \in [Iface -> {"absent", "clear", "encrypt"}]
         /\ \A t \in Tunnel : egress'[t] # NONE => egress'[t] = egress[t]
         /\ \A x \in InKey : ingress'[x] # NONE => ingress'[x] = ingress[x]
         /\ \A i \in Iface : iface'[i] # "absent" => iface'[i] = iface[i]
         /\ UNCHANGED <<outKeys, inKeys, dataVars, bypassed>>
<1>1. ASSUME NEW t \in Tunnel, DeleteEgress(t)
      PROVE  /\ egress' \in [Tunnel -> Outbound \cup {NONE}]
             /\ \A u \in Tunnel : egress'[u] # NONE => egress'[u] = egress[u]
             /\ UNCHANGED <<iface, ingress, outKeys, inKeys, dataVars, bypassed>>
  BY <1>1, Zenon DEF DeleteEgress, TypeOK
<1>2. ASSUME NEW x \in InKey, DeleteIngress(x)
      PROVE  /\ ingress' \in [InKey -> Inbound \cup {NONE}]
             /\ \A y \in InKey : ingress'[y] # NONE => ingress'[y] = ingress[y]
             /\ UNCHANGED <<iface, egress, outKeys, inKeys, dataVars, bypassed>>
  BY <1>2, Zenon DEF DeleteIngress, TypeOK
<1>3. ASSUME NEW h \in Host, Restart(h)
      PROVE  /\ egress' \in [Tunnel -> Outbound \cup {NONE}]
             /\ ingress' \in [InKey -> Inbound \cup {NONE}]
             /\ iface' \in [Iface -> {"absent", "clear", "encrypt"}]
             /\ \A t \in Tunnel : egress'[t] # NONE => egress'[t] = egress[t]
             /\ \A x \in InKey : ingress'[x] # NONE => ingress'[x] = ingress[x]
             /\ \A i \in Iface : iface'[i] # "absent" => iface'[i] = iface[i]
             /\ UNCHANGED <<outKeys, inKeys, dataVars, bypassed>>
  BY <1>3, Zenon DEF Restart, TypeOK
<1> QED BY <1>1, <1>2, <1>3, Zenon DEF TypeOK

(* An interface that passes cleartext is remembered as one. *)
LEMMA IfaceSet ==
  ASSUME TypeOK, NEW i \in Iface, NEW mode \in {"absent", "clear", "encrypt"}, SetIface(i, mode)
  PROVE  /\ iface' \in [Iface -> {"absent", "clear", "encrypt"}] /\ bypassed' \subseteq Iface
         /\ bypassed \subseteq bypassed'
         /\ \A j \in Iface : iface'[j] = "clear" => iface[j] = "clear" \/ j \in bypassed'
         /\ UNCHANGED <<saVars, dataVars>>
  BY Zenon DEF SetIface, TypeOK

(* The requests come down to these. *)
LEMMA ControlSteps ==
  ASSUME Control
  PROVE  \/ \E t \in Tunnel, spi \in Spi, k \in KeyMaterial :
              CreateEgress(t, spi, k) \/ UpdateEgress(t, spi, k)
         \/ \E t \in Tunnel, spi \in Spi, k \in KeyMaterial, w \in Window : CreateIngress(t, spi, k, w)
         \/ \/ \E t \in Tunnel : DeleteEgress(t)
            \/ \E x \in InKey : DeleteIngress(x)
            \/ \E h \in Host : Restart(h)
         \/ \E i \in Iface, mode \in {"absent", "clear", "encrypt"} : SetIface(i, mode)
  BY Zenon DEF Control, CreateInterface, DeleteInterface, EnableEncryption, DisableEncryption

(* Every step keeps the types. *)
LEMMA TypeStep == TypeOK /\ [Next]_vars => TypeOK'
<1> SUFFICES ASSUME TypeOK, [Next]_vars PROVE TypeOK'
  OBVIOUS
<1>1. CASE UNCHANGED vars
  BY <1>1, Zenon DEF TypeOK, vars, saVars, dataVars
<1>2. CASE Traffic
  BY <1>2, SendTypes, ReceiveTypes, Zenon DEF Traffic
<1>3. ASSUME NEW t \in Tunnel, NEW spi \in Spi, NEW k \in KeyMaterial,
             CreateEgress(t, spi, k) \/ UpdateEgress(t, spi, k)
      PROVE  TypeOK'
  BY <1>3, OutboundCreated DEF TypeOK, dataVars
<1>4. ASSUME NEW t \in Tunnel, NEW spi \in Spi, NEW k \in KeyMaterial, NEW w \in Window,
             CreateIngress(t, spi, k, w)
      PROVE  TypeOK'
  <2> DEFINE x == InKeyFor(t, spi)
             sa == [vni |-> t.vni, key |-> k, window |-> w, last |-> 0, seen |-> {}]
  <2>1. /\ x \in InKey /\ sa \in Inbound
        /\ ingress' = [ingress EXCEPT ![x] = sa]
        /\ inKeys' = [inKeys EXCEPT ![k] = w]
    BY <1>4, InboundCreated
  <2> HIDE DEF x, sa
  <2>2. ingress' \in [InKey -> Inbound \cup {NONE}] /\ inKeys' \in [KeyMaterial -> Window \cup {NONE}]
    BY <2>1, Zenon DEF TypeOK
  <2> QED BY <1>4, <2>2, Zenon DEF TypeOK, CreateIngress, dataVars
<1>5. CASE \/ \E t \in Tunnel : DeleteEgress(t)
           \/ \E x \in InKey : DeleteIngress(x)
           \/ \E h \in Host : Restart(h)
  BY <1>5, Removed, Zenon DEF TypeOK, dataVars
<1>6. ASSUME NEW i \in Iface, NEW mode \in {"absent", "clear", "encrypt"}, SetIface(i, mode)
      PROVE  TypeOK'
  BY <1>6, IfaceSet, Zenon DEF TypeOK, saVars, dataVars
<1> QED BY <1>1, <1>2, <1>3, <1>4, <1>5, <1>6, ControlSteps, Zenon DEF Next

-------------------------------------------------------------------------------
(* The inductive invariant, outbound: key material in use was handed out   *)
(* and belongs to its tunnel; the number of no frame is ahead of the       *)
(* counter of the association that holds its key; packets are numbered.    *)
OwnKeys ==
  \A t \in Tunnel : egress[t] # NONE => egress[t].key \in outKeys /\ KeyTunnel[egress[t].key] = t

Numbered ==
  \A f \in wire :
    /\ f.id <= packets
    /\ f.esp =>
         /\ f.key \in outKeys /\ KeyTunnel[f.key] = TunnelOf(f.src, f.dst)
         /\ \A t \in Tunnel : egress[t] # NONE /\ egress[t].key = f.key => f.sqn <= egress[t].sqn

IdsUnique == \A f, g \in wire : f.id = g.id => f = g

OutInv == OwnKeys /\ Numbered /\ IdsUnique /\ NonceUsedOnce

(* A packet that leaves keeps the outbound invariant. *)
LEMMA SendKeepsOut ==
  ASSUME TypeOK, OutInv, NEW i \in Iface, NEW j \in Iface, Send(i, j)
  PROVE  OutInv'
<1> DEFINE t == TunnelOf(i, j)
           n == egress[t].sqn + 1
           plain == [id |-> packets', esp |-> FALSE, src |-> i, dst |-> j]
           sealed == [id |-> packets', esp |-> TRUE, src |-> i, dst |-> j,
                      spi |-> egress[t].spi, sqn |-> n, key |-> egress[t].key]
<1>1. t \in Tunnel
  BY Endpoints, Zenon
<1>2. \A f \in wire : f.id \in Nat /\ f.id <= packets /\ f.id < packets' /\ f.esp \in BOOLEAN
                      /\ (f.esp => f.sqn \in Nat)
  BY FrameFields, SendSteps, NumberAssumption DEF OutInv, Numbered, TypeOK, PacketId
<1>3. plain.id = packets' /\ plain.esp = FALSE
  OBVIOUS
<1>4. /\ sealed.id = packets' /\ sealed.esp = TRUE /\ sealed.src = i /\ sealed.dst = j
      /\ sealed.key = egress[t].key /\ sealed.sqn = n
  OBVIOUS
<1>5. packets' \in Nat /\ packets' >= packets /\ UNCHANGED outKeys
  BY SendSteps
<1> HIDE DEF plain, sealed
<1>6. CASE UNCHANGED <<egress, wire>>
  BY <1>2, <1>5, <1>6 DEF OutInv, OwnKeys, Numbered, IdsUnique, NonceUsedOnce
<1>7. CASE UNCHANGED egress /\ wire' = wire \cup {plain}
  <2>1. OwnKeys'
    BY <1>5, <1>7, Zenon DEF OutInv, OwnKeys
  <2>2. Numbered'
    BY <1>2, <1>3, <1>5, <1>7 DEF OutInv, Numbered
  <2>3. IdsUnique' /\ NonceUsedOnce'
    BY <1>2, <1>3, <1>5, <1>7 DEF OutInv, IdsUnique, NonceUsedOnce
  <2> QED BY <2>1, <2>2, <2>3, Zenon DEF OutInv
<1>8. CASE /\ egress[t] \in Outbound /\ n \in 1 .. SqnMax
           /\ egress' = [egress EXCEPT ![t].sqn = n]
           /\ UNCHANGED wire \/ wire' = wire \cup {sealed}
  <2>1. /\ egress[t] # NONE /\ egress[t].sqn \in Nat
        /\ egress[t].key \in outKeys /\ KeyTunnel[egress[t].key] = t
    BY <1>1, <1>8, NoneAssumption DEF OutInv, OwnKeys, Outbound
  <2>2. egress'[t].key = egress[t].key /\ egress'[t].sqn = n
    BY <1>1, <1>8, Zenon DEF TypeOK, Outbound
  <2>3. \A u \in Tunnel : u # t => egress'[u] = egress[u]
    BY <1>1, <1>8, Zenon DEF TypeOK
  <2>4. OwnKeys'
    BY <1>5, <2>1, <2>2, <2>3, Zenon DEF OutInv, OwnKeys
  <2>5. \A f \in wire : f.esp /\ f.key = egress[t].key => f.sqn < n
    BY <1>1, <1>2, <2>1 DEF OutInv, Numbered
  <2>6. \A f \in wire : f.esp => \A u \in Tunnel :
           egress'[u] # NONE /\ egress'[u].key = f.key => f.sqn <= egress'[u].sqn
    BY <1>2, <1>8, <2>2, <2>3, <2>5 DEF OutInv, Numbered
  <2>7. \A u \in Tunnel : egress'[u] # NONE /\ egress'[u].key = egress[t].key => u = t
    BY <1>1, <2>1, <2>2, <2>3, Zenon DEF OutInv, OwnKeys
  <2>8. Numbered'
    BY <1>1, <1>2, <1>4, <1>5, <1>8, <2>1, <2>2, <2>6, <2>7 DEF OutInv, Numbered
  <2>9. IdsUnique' /\ NonceUsedOnce'
    BY <1>2, <1>4, <1>5, <1>8, <2>5 DEF OutInv, IdsUnique, NonceUsedOnce
  <2> QED BY <2>4, <2>8, <2>9, Zenon DEF OutInv
<1> QED BY <1>6, <1>7, <1>8, SendSteps, Zenon DEF plain, sealed

(* Every step keeps the outbound invariant: fresh key material has sealed  *)
(* no frame, and what is removed takes nothing back.                       *)
LEMMA OutStep == TypeOK /\ OutInv /\ [Next]_vars => OutInv'
<1> SUFFICES ASSUME TypeOK, OutInv, [Next]_vars PROVE OutInv'
  OBVIOUS
<1>1. CASE UNCHANGED <<egress, wire, packets, outKeys>>
  BY <1>1, Zenon DEF OutInv, OwnKeys, Numbered, IdsUnique, NonceUsedOnce
<1>2. ASSUME NEW f \in wire, Receive(f) PROVE OutInv'
  BY <1>1, <1>2, Zenon DEF Receive
<1>3. ASSUME NEW t \in Tunnel, NEW spi \in Spi, NEW k \in KeyMaterial,
             CreateEgress(t, spi, k) \/ UpdateEgress(t, spi, k)
      PROVE  OutInv'
  <2>1. /\ egress'[t].key = k /\ KeyTunnel[k] = t /\ k \notin outKeys /\ outKeys' = outKeys \cup {k}
        /\ \A u \in Tunnel : u # t => egress'[u] = egress[u]
        /\ UNCHANGED <<wire, packets>>
    BY <1>3, OutboundCreated DEF TypeOK, dataVars
  <2>2. OwnKeys'
    BY <2>1, Zenon DEF OutInv, OwnKeys
  <2>3. Numbered'
    BY <2>1 DEF OutInv, Numbered
  <2> QED BY <2>1, <2>2, <2>3, Zenon DEF OutInv, IdsUnique, NonceUsedOnce
<1>4. ASSUME NEW t \in Tunnel, NEW spi \in Spi, NEW k \in KeyMaterial, NEW w \in Window,
             CreateIngress(t, spi, k, w)
      PROVE  OutInv'
  BY <1>1, <1>4, Zenon DEF CreateIngress, dataVars
<1>5. CASE \/ \E t \in Tunnel : DeleteEgress(t)
           \/ \E x \in InKey : DeleteIngress(x)
           \/ \E h \in Host : Restart(h)
  <2>1. /\ \A t \in Tunnel : egress'[t] # NONE => egress'[t] = egress[t]
        /\ UNCHANGED <<outKeys, wire, packets>>
    BY <1>5, Removed, Zenon DEF dataVars
  <2> QED BY <2>1 DEF OutInv, OwnKeys, Numbered, IdsUnique, NonceUsedOnce
<1>6. ASSUME NEW i \in Iface, NEW mode \in {"absent", "clear", "encrypt"}, SetIface(i, mode)
      PROVE  OutInv'
  BY <1>1, <1>6, Zenon DEF SetIface, saVars, dataVars
<1>7. CASE UNCHANGED vars
  BY <1>1, <1>7, Zenon DEF vars, saVars, dataVars
<1> QED BY <1>2, <1>3, <1>4, <1>5, <1>6, <1>7, SendKeepsOut, ControlSteps, Zenon DEF Next, Traffic

-------------------------------------------------------------------------------
(* The inductive invariant, inbound: key material is in one association at *)
(* a time, with the window it was first given and in the tenant network it *)
(* was made for; a window has seen every frame that was delivered, also    *)
(* frames delivered while another association was at its place.            *)
ClearKnown == \A i \in Iface : iface[i] = "clear" => i \in bypassed

SentFirst == \A m \in PacketId : received[m] > 0 => m <= packets

KeysIn ==
  \A x \in InKey : ingress[x] # NONE =>
    /\ inKeys[ingress[x].key] = ingress[x].window
    /\ KeyTunnel[ingress[x].key].vni = ingress[x].vni
    /\ \A y \in InKey : ingress[y] # NONE /\ ingress[y].key = ingress[x].key => x = y

Seen ==
  \A f \in wire : f.esp /\ received[f.id] > 0 =>
    /\ inKeys[f.key] # NONE
    /\ \A x \in InKey : ingress[x] # NONE /\ ingress[x].key = f.key /\ ingress[x].window # 0 =>
         f.sqn \in ingress[x].seen

InInv ==
  /\ ClearKnown /\ SentFirst /\ KeysIn /\ Seen
  /\ NeverInTheClear /\ TenantIsolation /\ DeliveredOnce

(* A packet that leaves was not delivered before. *)
LEMMA SendKeepsIn ==
  ASSUME TypeOK, OutInv, InInv, NEW i \in Iface, NEW j \in Iface, Send(i, j)
  PROVE  InInv'
<1>1. /\ packets \in Nat /\ packets' = packets + 1 /\ packets' \in PacketId
      /\ UNCHANGED <<iface, ingress, received, outKeys, inKeys, bypassed>>
  BY SendSteps, Zenon
<1>2. received[packets'] = 0
  BY <1>1, NumberAssumption DEF InInv, SentFirst, TypeOK, PacketId
<1>3. \A f \in wire' : f \in wire \/ (f.id = packets' /\ (f.esp \/ f.src \in bypassed))
  <2> DEFINE plain == [id |-> packets', esp |-> FALSE, src |-> i, dst |-> j]
             sealed == [id |-> packets', esp |-> TRUE, src |-> i, dst |-> j, spi |-> egress[TunnelOf(i, j)].spi,
                        sqn |-> egress[TunnelOf(i, j)].sqn + 1, key |-> egress[TunnelOf(i, j)].key]
  <2>1. plain.id = packets' /\ plain.src = i /\ sealed.id = packets' /\ sealed.esp = TRUE
    OBVIOUS
  <2>2. \/ UNCHANGED wire
        \/ iface[i] = "clear" /\ wire' = wire \cup {plain}
        \/ wire' = wire \cup {sealed}
    BY SendSteps, Zenon
  <2> HIDE DEF plain, sealed
  <2> QED BY <2>1, <2>2, Zenon DEF InInv, ClearKnown
<1>4. ClearKnown' /\ SentFirst' /\ KeysIn'
  BY <1>1, NumberAssumption DEF InInv, ClearKnown, SentFirst, KeysIn, PacketId, TypeOK
<1>5. Seen'
  BY <1>1, <1>2, <1>3 DEF InInv, Seen
<1>6. NeverInTheClear' /\ TenantIsolation' /\ DeliveredOnce'
  BY <1>1, <1>2, <1>3 DEF InInv, NeverInTheClear, TenantIsolation, DeliveredOnce
<1> QED BY <1>4, <1>5, <1>6, Zenon DEF InInv

(* A frame that is delivered in the clear. *)
LEMMA PlainKeepsIn ==
  ASSUME TypeOK, OutInv, InInv, NEW f \in wire, Receive(f), ~f.esp
  PROVE  InInv'
<1>1. /\ f.id \in PacketId /\ received' = [received EXCEPT ![f.id] = @ + 1]
      /\ UNCHANGED <<iface, egress, wire, packets, ingress, inKeys, bypassed>> /\ iface[f.dst] = "clear"
      /\ f.dst \in bypassed /\ f.id <= packets
  BY ReceiveSteps, FrameFields, Zenon DEF TypeOK, InInv, ClearKnown, OutInv, Numbered
<1>2. \A m \in PacketId : m # f.id => received'[m] = received[m]
  BY <1>1, Zenon DEF TypeOK
<1>3. \A g \in wire : g # f => g.id \in PacketId /\ received'[g.id] = received[g.id]
  BY <1>2, FrameFields, Zenon DEF OutInv, IdsUnique, TypeOK
<1>4. ClearKnown' /\ SentFirst' /\ KeysIn'
  BY <1>1, <1>2, Zenon DEF InInv, ClearKnown, SentFirst, KeysIn
<1>5. Seen'
  BY <1>1, <1>3, Zenon DEF InInv, Seen
<1>6. NeverInTheClear' /\ TenantIsolation' /\ DeliveredOnce'
  BY <1>1, <1>3, Zenon DEF InInv, NeverInTheClear, TenantIsolation, DeliveredOnce
<1> QED BY <1>4, <1>5, <1>6, Zenon DEF InInv

(* A frame that an association opens: its key is that of a tunnel of the   *)
(* receiver's tenant network, and a window has not seen it.                *)
LEMMA EspKeepsIn ==
  ASSUME TypeOK, OutInv, InInv, NEW f \in wire, Receive(f), f.esp
  PROVE  InInv'
<1> DEFINE x == InKeyOf(f)
<1>1. /\ received' = [received EXCEPT ![f.id] = @ + 1]
      /\ UNCHANGED <<iface, egress, wire, packets, inKeys, bypassed>>
      /\ x \in InKey /\ ingress[x] \in Inbound
      /\ ingress[x].key = f.key /\ ingress[x].vni = VniOf[f.dst]
      /\ ingress[x].window = 0 \/ f.sqn \notin ingress[x].seen
      /\ ingress' = [ingress EXCEPT ![x] = UpdateWindow(@, f.sqn)]
  BY ReceiveSteps, Zenon
<1>2. /\ f.id \in PacketId /\ f.id <= packets /\ f.sqn \in 1 .. SqnMax /\ f.src \in Iface /\ f.dst \in Iface
      /\ KeyTunnel[f.key] = TunnelOf(f.src, f.dst)
  BY FrameFields, Zenon DEF TypeOK, OutInv, Numbered
<1>3. \A m \in PacketId : m # f.id => received'[m] = received[m]
  BY <1>1, <1>2, Zenon DEF TypeOK
<1>4. \A g \in wire : g # f => g.id \in PacketId /\ received'[g.id] = received[g.id]
  BY <1>3, FrameFields, Zenon DEF OutInv, IdsUnique, TypeOK
<1>5. ingress[x] # NONE /\ ingress'[x] # NONE /\ ingress'[x] = UpdateWindow(ingress[x], f.sqn)
  BY <1>1, <1>2, WindowSteps, NoneAssumption DEF TypeOK
<1>6. \A y \in InKey : y # x => ingress'[y] = ingress[y]
  BY <1>1, Zenon DEF TypeOK
<1>7. /\ ingress'[x].key = ingress[x].key /\ ingress'[x].vni = ingress[x].vni
      /\ ingress'[x].window = ingress[x].window
      /\ ingress[x].window # 0 => ingress'[x].seen = ingress[x].seen \cup {f.sqn}
  BY <1>1, <1>2, <1>5, WindowSteps
<1>8. /\ inKeys[f.key] = ingress[x].window /\ inKeys[f.key] # NONE
      /\ VniOf[f.src] = VniOf[f.dst]
  <2>1. ingress[x].window \in Window /\ KeyTunnel[f.key].vni = VniOf[f.src]
    BY <1>1, <1>2, Endpoints DEF Inbound
  <2> QED BY <1>1, <1>5, <2>1, NoneAssumption DEF InInv, KeysIn
<1> HIDE DEF x
<1>9. ClearKnown' /\ SentFirst'
  BY <1>1, <1>2, <1>3, Zenon DEF InInv, ClearKnown, SentFirst
<1>10. KeysIn'
  <2>1. \A y \in InKey : ingress'[y] # NONE =>
          /\ ingress[y] # NONE /\ ingress'[y].key = ingress[y].key
          /\ ingress'[y].vni = ingress[y].vni /\ ingress'[y].window = ingress[y].window
    BY <1>5, <1>6, <1>7, Zenon
  <2> QED BY <1>1, <2>1 DEF InInv, KeysIn
<1>11. Seen'
  <2> SUFFICES ASSUME NEW g \in wire, g.esp, received'[g.id] > 0
               PROVE  /\ inKeys[g.key] # NONE
                      /\ \A y \in InKey :
                           ingress'[y] # NONE /\ ingress'[y].key = g.key /\ ingress'[y].window # 0 =>
                             g.sqn \in ingress'[y].seen
    BY <1>1, Zenon DEF Seen
  <2>1. CASE g = f
    <3>1. \A y \in InKey : ingress'[y] # NONE /\ ingress'[y].key = f.key => y = x
      BY <1>1, <1>5, <1>6, <1>7 DEF InInv, KeysIn
    <3> QED BY <1>7, <1>8, <2>1, <3>1, Zenon
  <2>2. CASE g # f
    <3>1. received[g.id] > 0
      BY <1>4, <2>2, Zenon
    <3> QED BY <1>5, <1>6, <1>7, <3>1 DEF InInv, Seen
  <2> QED BY <2>1, <2>2, Zenon
<1>12. NeverInTheClear' /\ TenantIsolation'
  BY <1>1, <1>4, <1>8, Zenon DEF InInv, NeverInTheClear, TenantIsolation
<1>13. DeliveredOnce'
  <2>1. ingress[x].window # 0 => received[f.id] = 0
    BY <1>1, <1>2, <1>5, NumberAssumption DEF InInv, Seen, TypeOK
  <2>2. received'[f.id] > 1 => inKeys[f.key] = 0
    BY <1>1, <1>2, <1>8, <2>1 DEF TypeOK
  <2> QED BY <1>1, <1>4, <2>2, Zenon DEF InInv, DeliveredOnce
<1> QED BY <1>9, <1>10, <1>11, <1>12, <1>13, Zenon DEF InInv

(* Every step keeps the inbound invariant.  Key material that comes into   *)
(* use has opened no frame; an association that goes takes nothing back.   *)
LEMMA InStep == TypeOK /\ OutInv /\ InInv /\ [Next]_vars => InInv'
<1> SUFFICES ASSUME TypeOK, OutInv, InInv, [Next]_vars PROVE InInv'
  OBVIOUS
<1>1. CASE UNCHANGED <<iface, ingress, wire, packets, received, inKeys, bypassed>>
  BY <1>1, Zenon
     DEF InInv, ClearKnown, SentFirst, KeysIn, Seen, NeverInTheClear, TenantIsolation, DeliveredOnce
<1>2. ASSUME NEW f \in wire, Receive(f) PROVE InInv'
  <2>1. f.esp \in BOOLEAN
    BY FrameFields, Zenon DEF TypeOK
  <2> QED BY <1>2, <2>1, PlainKeepsIn, EspKeepsIn, Zenon
<1>3. ASSUME NEW t \in Tunnel, NEW spi \in Spi, NEW k \in KeyMaterial,
             CreateEgress(t, spi, k) \/ UpdateEgress(t, spi, k)
      PROVE  InInv'
  BY <1>1, <1>3, OutboundCreated, Zenon DEF dataVars
<1>4. ASSUME NEW t \in Tunnel, NEW spi \in Spi, NEW k \in KeyMaterial, NEW w \in Window,
             CreateIngress(t, spi, k, w)
      PROVE  InInv'
  <2> DEFINE x == InKeyFor(t, spi)
             sa == [vni |-> t.vni, key |-> k, window |-> w, last |-> 0, seen |-> {}]
  <2>1. /\ x \in InKey /\ sa \in Inbound /\ KeyTunnel[k] = t /\ inKeys[k] = NONE
        /\ ingress' = [ingress EXCEPT ![x] = sa]
        /\ inKeys' = [inKeys EXCEPT ![k] = w]
        /\ UNCHANGED <<iface, egress, outKeys, wire, packets, received, bypassed>>
    BY <1>4, InboundCreated DEF dataVars
  <2>2. sa.vni = t.vni /\ sa.key = k /\ sa.window = w
    OBVIOUS
  <2> HIDE DEF x, sa
  <2>3. ingress'[x] = sa /\ \A y \in InKey : y # x => ingress'[y] = ingress[y]
    BY <2>1, Zenon DEF TypeOK
  <2>4. inKeys'[k] = w /\ \A l \in KeyMaterial : l # k => inKeys'[l] = inKeys[l]
    BY <2>1, Zenon DEF TypeOK
  <2>5. w # NONE
    BY NoneAssumption, Zenon
  <2>6. \A y \in InKey : ingress[y] # NONE => ingress[y].key \in KeyMaterial /\ ingress[y].key # k
    <3> SUFFICES ASSUME NEW y \in InKey, ingress[y] # NONE
                 PROVE  ingress[y].key \in KeyMaterial /\ ingress[y].key # k
      OBVIOUS
    <3>1. ingress[y].key \in KeyMaterial /\ ingress[y].window \in Window
      BY Zenon DEF TypeOK, Inbound
    <3> QED BY <2>1, <3>1, NoneAssumption, Zenon DEF InInv, KeysIn
  <2>7. \A f \in wire : f.esp => f.key \in KeyMaterial /\ (received[f.id] > 0 => f.key # k)
    BY <2>1, FrameFields, Zenon DEF InInv, Seen, TypeOK
  <2>8. ClearKnown' /\ SentFirst'
    BY <2>1, Zenon DEF InInv, ClearKnown, SentFirst
  <2>9. KeysIn'
    <3> SUFFICES ASSUME NEW y \in InKey, ingress'[y] # NONE
                 PROVE  /\ inKeys'[ingress'[y].key] = ingress'[y].window
                        /\ KeyTunnel[ingress'[y].key].vni = ingress'[y].vni
                        /\ \A z \in InKey : ingress'[z] # NONE /\ ingress'[z].key = ingress'[y].key => y = z
      BY Zenon DEF KeysIn
    <3>1. CASE y = x
      BY <2>1, <2>2, <2>3, <2>4, <2>6, <3>1
    <3>2. CASE y # x
      BY <2>2, <2>3, <2>4, <2>6, <3>2 DEF InInv, KeysIn
    <3> QED BY <3>1, <3>2, Zenon
  <2>10. Seen'
    <3> SUFFICES ASSUME NEW f \in wire, f.esp, received[f.id] > 0
                 PROVE  /\ inKeys'[f.key] # NONE
                        /\ \A y \in InKey :
                             ingress'[y] # NONE /\ ingress'[y].key = f.key /\ ingress'[y].window # 0 =>
                               f.sqn \in ingress'[y].seen
      BY <2>1, Zenon DEF Seen
    <3> QED BY <2>2, <2>3, <2>4, <2>7, Zenon DEF InInv, Seen
  <2>11. NeverInTheClear' /\ TenantIsolation'
    BY <2>1, Zenon DEF InInv, NeverInTheClear, TenantIsolation
  <2>12. DeliveredOnce'
    <3> SUFFICES ASSUME NEW f \in wire, f.esp, received[f.id] > 1 PROVE inKeys'[f.key] = 0
      BY <2>1, Zenon DEF DeliveredOnce
    <3>1. received[f.id] > 0
      BY FrameFields DEF TypeOK
    <3> QED BY <2>4, <2>7, <3>1, Zenon DEF InInv, DeliveredOnce
  <2> QED BY <2>8, <2>9, <2>10, <2>11, <2>12, Zenon DEF InInv
<1>5. CASE \/ \E t \in Tunnel : DeleteEgress(t)
           \/ \E x \in InKey : DeleteIngress(x)
           \/ \E h \in Host : Restart(h)
  <2>1. /\ \A x \in InKey : ingress'[x] # NONE => ingress'[x] = ingress[x]
        /\ \A i \in Iface : iface'[i] # "absent" => iface'[i] = iface[i]
        /\ UNCHANGED <<inKeys, wire, packets, received, bypassed>>
    BY <1>5, Removed, Zenon DEF dataVars
  <2>2. ClearKnown' /\ SentFirst' /\ KeysIn' /\ Seen'
    BY <2>1 DEF InInv, ClearKnown, SentFirst, KeysIn, Seen
  <2> QED BY <2>1, <2>2, Zenon DEF InInv, NeverInTheClear, TenantIsolation, DeliveredOnce
<1>6. ASSUME NEW i \in Iface, NEW mode \in {"absent", "clear", "encrypt"}, SetIface(i, mode)
      PROVE  InInv'
  <2>1. /\ bypassed \subseteq bypassed'
        /\ \A j \in Iface : iface'[j] = "clear" => iface[j] = "clear" \/ j \in bypassed'
        /\ UNCHANGED <<ingress, inKeys, wire, packets, received>>
    BY <1>6, IfaceSet, Zenon DEF saVars, dataVars
  <2>2. ClearKnown' /\ SentFirst' /\ KeysIn' /\ Seen'
    BY <2>1, Zenon DEF InInv, ClearKnown, SentFirst, KeysIn, Seen
  <2> QED BY <2>1, <2>2, Zenon DEF InInv, NeverInTheClear, TenantIsolation, DeliveredOnce
<1>7. CASE UNCHANGED vars
  BY <1>1, <1>7, Zenon DEF vars, saVars, dataVars
<1> QED BY <1>2, <1>3, <1>4, <1>5, <1>6, <1>7, SendKeepsIn, ControlSteps, Zenon DEF Next, Traffic

-------------------------------------------------------------------------------
(* The invariant of both directions holds in every reachable state, over   *)
(* rekeying, deletion, restarts, failed crypto, exhausted counters and an  *)
(* underlay that loses, repeats and reorders frames.                       *)
THEOREM EspInvariance == Spec => [](TypeOK /\ OutInv /\ InInv)
<1>1. Init => TypeOK /\ OutInv /\ InInv
  <2> SUFFICES ASSUME Init PROVE TypeOK /\ OutInv /\ InInv
    OBVIOUS
  <2>1. TypeOK
    BY NumberAssumption DEF Init, TypeOK, PacketId
  <2>2. OutInv
    BY Zenon DEF Init, OutInv, OwnKeys, Numbered, IdsUnique, NonceUsedOnce
  <2>3. InInv
    BY DEF Init, InInv, ClearKnown, SentFirst, KeysIn, Seen, NeverInTheClear, TenantIsolation, DeliveredOnce
  <2> QED BY <2>1, <2>2, <2>3, Zenon
<1>2. (TypeOK /\ OutInv /\ InInv) /\ [Next]_vars => (TypeOK /\ OutInv /\ InInv)'
  BY TypeStep, OutStep, InStep, Zenon
<1> QED BY <1>1, <1>2, PTL DEF Spec

(* ipsec_encap_node.c never seals two frames with one key and number.      *)
THEOREM NoncesAreFresh == Spec => []NonceUsedOnce
<1>1. OutInv => NonceUsedOnce
  BY Zenon DEF OutInv
<1> QED BY <1>1, EspInvariance, PTL

(* An interface that always encrypted neither sends nor receives cleartext *)
(* (cls_node.c, ipip_encap_node.c), whatever was on the underlay when its  *)
(* flag was set.                                                           *)
THEOREM EncryptedStaysOutOfTheClear == Spec => []NeverInTheClear
<1>1. InInv => NeverInTheClear
  BY Zenon DEF InInv
<1> QED BY <1>1, EspInvariance, PTL

(* ESP stays in its tenant network (ipsec_decap_node.c).                   *)
THEOREM TenantsStayApart == Spec => []TenantIsolation
<1>1. InInv => TenantIsolation
  BY Zenon DEF InInv
<1> QED BY <1>1, EspInvariance, PTL

(* A replay window delivers a packet at most once, also when its           *)
(* association is deleted and another takes its place.                     *)
THEOREM WindowsDeliverOnce == Spec => []DeliveredOnce
<1>1. InInv => DeliveredOnce
  BY Zenon DEF InInv
<1> QED BY <1>1, EspInvariance, PTL

-------------------------------------------------------------------------------
(* The database of a host.  Its associations, one by one.                  *)
EgressSa(t, sa) ==
  [dir |-> "EGRESS", vni |-> t.vni, src |-> t.from, dst |-> t.to, spi |-> sa.spi,
   key |-> sa.key, replay_window |-> 0]
IngressSa(x, sa) ==
  [dir |-> "INGRESS", vni |-> sa.vni, src |-> x.peer, dst |-> x.at, spi |-> x.spi,
   key |-> sa.key, replay_window |-> sa.window]

LEMMA AssociationsOf ==
  ASSUME NEW h \in Host
  PROVE  /\ Associations(h) =
              {EgressSa(t, egress[t]) : t \in {u \in Tunnel : u.from = h /\ egress[u] # NONE}}
              \cup {IngressSa(x, ingress[x]) : x \in {y \in InKey : y.at = h /\ ingress[y] # NONE}}
         /\ Associations(h)' =
              {EgressSa(t, egress'[t]) : t \in {u \in Tunnel : u.from = h /\ egress'[u] # NONE}}
              \cup {IngressSa(x, ingress'[x]) : x \in {y \in InKey : y.at = h /\ ingress'[y] # NONE}}
  BY Zenon DEF Associations, EgressSa, IngressSa

(* An association tells which tunnel, or which SPI and peer, it is for.    *)
LEMMA AssociationNames ==
  ASSUME NEW a, NEW b
  PROVE  /\ \A t \in Tunnel, x \in InKey : EgressSa(t, a) # IngressSa(x, b)
         /\ \A t, u \in Tunnel : EgressSa(t, a) = EgressSa(u, b) => t = u
         /\ \A x, y \in InKey : IngressSa(x, a) = IngressSa(y, b) => x = y
  BY DEF EgressSa, IngressSa, Tunnel, InKey

(* A request about an outbound association of a host replaces at most that *)
(* one, and one about an inbound association likewise.                     *)
LEMMA EgressReplaced ==
  ASSUME NEW t \in Tunnel, \A u \in Tunnel : u # t => egress'[u] = egress[u], UNCHANGED ingress,
         NEW h \in Host
  PROVE  Associations(h)' =
           IF h # t.from THEN Associations(h)
           ELSE (Associations(h) \ {EgressSa(t, egress[t])})
                \cup (IF egress'[t] = NONE THEN {} ELSE {EgressSa(t, egress'[t])})
<1>1. \A u \in Tunnel : u # t => egress'[u] = egress[u]
  OBVIOUS
<1>2. \A a : a \in Associations(h) <=>
         \/ \E u \in Tunnel : u.from = h /\ egress[u] # NONE /\ a = EgressSa(u, egress[u])
         \/ \E x \in InKey : x.at = h /\ ingress[x] # NONE /\ a = IngressSa(x, ingress[x])
  BY AssociationsOf
<1>3. \A a : a \in Associations(h)' <=>
         \/ \E u \in Tunnel : u.from = h /\ egress'[u] # NONE /\ a = EgressSa(u, egress'[u])
         \/ \E x \in InKey : x.at = h /\ ingress[x] # NONE /\ a = IngressSa(x, ingress[x])
  BY AssociationsOf
<1>4. /\ \A x \in InKey : \A a, b : EgressSa(t, a) # IngressSa(x, b)
      /\ \A u \in Tunnel : \A a, b : EgressSa(t, a) = EgressSa(u, b) => t = u
  BY AssociationNames, Zenon
<1>5. CASE h # t.from
  <2>1. \A a : a \in Associations(h)' <=> a \in Associations(h)
    BY <1>1, <1>2, <1>3, <1>5, Zenon
  <2> QED BY <1>5, <2>1, Zenon
<1>6. CASE h = t.from
  <2> DEFINE new == (Associations(h) \ {EgressSa(t, egress[t])}) 
                    \cup (IF egress'[t] = NONE THEN {} ELSE {EgressSa(t, egress'[t])})
  <2>1. ASSUME NEW a \in Associations(h)' PROVE a \in new
    <3>1. CASE \E u \in Tunnel : u.from = h /\ egress'[u] # NONE /\ a = EgressSa(u, egress'[u])
      <4>1. PICK u \in Tunnel : u.from = h /\ egress'[u] # NONE /\ a = EgressSa(u, egress'[u])
        BY <3>1, Zenon
      <4>2. CASE u = t
        BY <1>1, <4>1, <4>2, Zenon
      <4>3. CASE u # t
        <5>1. a = EgressSa(u, egress[u]) /\ a \in Associations(h)
          BY <1>1, <1>2, <4>1, <4>3, Zenon
        <5>2. a # EgressSa(t, egress[t])
          BY <1>4, <4>3, <5>1, Zenon
        <5> QED BY <5>1, <5>2, Zenon
      <4> QED BY <4>2, <4>3, Zenon
    <3>2. CASE \E x \in InKey : x.at = h /\ ingress[x] # NONE /\ a = IngressSa(x, ingress[x])
      BY <1>2, <1>4, <3>2
    <3> QED BY <1>3, <3>1, <3>2, Zenon
  <2>2. \A a : a \in new => a \in Associations(h)'
    BY <1>1, <1>2, <1>3, <1>4, <1>6
  <2> QED BY <1>6, <2>1, <2>2, Zenon
<1> QED BY <1>5, <1>6, Zenon

LEMMA IngressReplaced ==
  ASSUME NEW x \in InKey, \A y \in InKey : y # x => ingress'[y] = ingress[y], UNCHANGED egress,
         NEW h \in Host
  PROVE  Associations(h)' =
           IF h # x.at THEN Associations(h)
           ELSE (Associations(h) \ {IngressSa(x, ingress[x])})
                \cup (IF ingress'[x] = NONE THEN {} ELSE {IngressSa(x, ingress'[x])})
<1>1. \A y \in InKey : y # x => ingress'[y] = ingress[y]
  OBVIOUS
<1>2. \A a : a \in Associations(h) <=>
         \/ \E u \in Tunnel : u.from = h /\ egress[u] # NONE /\ a = EgressSa(u, egress[u])
         \/ \E y \in InKey : y.at = h /\ ingress[y] # NONE /\ a = IngressSa(y, ingress[y])
  BY AssociationsOf, Zenon
<1>3. \A a : a \in Associations(h)' <=>
         \/ \E u \in Tunnel : u.from = h /\ egress[u] # NONE /\ a = EgressSa(u, egress[u])
         \/ \E y \in InKey : y.at = h /\ ingress'[y] # NONE /\ a = IngressSa(y, ingress'[y])
  BY AssociationsOf, Zenon
<1>4. /\ \A u \in Tunnel : \A a, b : EgressSa(u, a) # IngressSa(x, b)
      /\ \A y \in InKey : \A a, b : IngressSa(x, a) = IngressSa(y, b) => x = y
  BY AssociationNames, Zenon
<1>5. CASE h # x.at
  <2>1. \A a : a \in Associations(h)' <=> a \in Associations(h)
    BY <1>1, <1>2, <1>3, <1>5, ZenonT(40)
  <2>2. Associations(h)' = Associations(h)
    BY <2>1, Zenon
  <2> QED BY <1>5, <2>2, Zenon
<1>6. CASE h = x.at
  <2> DEFINE new == (Associations(h) \ {IngressSa(x, ingress[x])}) 
                    \cup (IF ingress'[x] = NONE THEN {} ELSE {IngressSa(x, ingress'[x])})
  <2>1. ASSUME NEW a \in Associations(h)' PROVE a \in new
    <3>1. CASE \E y \in InKey : y.at = h /\ ingress'[y] # NONE /\ a = IngressSa(y, ingress'[y])
      <4>1. PICK y \in InKey : y.at = h /\ ingress'[y] # NONE /\ a = IngressSa(y, ingress'[y])
        BY <3>1, Zenon
      <4>2. CASE y = x
        BY <1>1, <4>1, <4>2, Zenon
      <4>3. CASE y # x
        <5>1. a = IngressSa(y, ingress[y]) /\ a \in Associations(h)
          BY <1>1, <1>2, <4>1, <4>3, Zenon
        <5>2. a # IngressSa(x, ingress[x])
          BY <1>4, <4>3, <5>1, Zenon
        <5> QED BY <5>1, <5>2, Zenon
      <4> QED BY <4>2, <4>3, Zenon
    <3>2. CASE \E u \in Tunnel : u.from = h /\ egress[u] # NONE /\ a = EgressSa(u, egress[u])
      BY <1>2, <1>4, <3>2
    <3> QED BY <1>3, <3>1, <3>2, Zenon
  <2>2. \A a : a \in new => a \in Associations(h)'
    BY <1>1, <1>2, <1>3, <1>4, <1>6
  <2> QED BY <1>6, <2>1, <2>2, Zenon
<1> QED BY <1>5, <1>6, Zenon

(* A packet changes only what librte_ipsec keeps with an association.      *)
LEMMA CountersHidden ==
  ASSUME TypeOK, NEW h \in Host,
         \A t \in Tunnel : /\ egress'[t] = NONE <=> egress[t] = NONE
                           /\ egress'[t].spi = egress[t].spi /\ egress'[t].key = egress[t].key,
         \A x \in InKey : /\ ingress'[x] = NONE <=> ingress[x] = NONE
                          /\ ingress'[x].vni = ingress[x].vni /\ ingress'[x].key = ingress[x].key
                          /\ ingress'[x].window = ingress[x].window
  PROVE  Associations(h)' = Associations(h)
<1>1. \A t \in Tunnel : EgressSa(t, egress'[t]) = EgressSa(t, egress[t])
  BY Zenon DEF EgressSa
<1>2. \A x \in InKey : IngressSa(x, ingress'[x]) = IngressSa(x, ingress[x])
  BY Zenon DEF IngressSa
<1> QED BY <1>1, <1>2, AssociationsOf

(* What a step does to the associations of one host. *)
DbStep(h) == UNCHANGED Associations(h) \/ Db(h)!Next

LEMMA TrafficKeepsDb == ASSUME TypeOK, Traffic, NEW h \in Host PROVE DbStep(h)
<1>1. ASSUME NEW i \in Iface, NEW j \in Iface, Send(i, j) PROVE UNCHANGED Associations(h)
  <2> DEFINE t == TunnelOf(i, j)
             n == egress[t].sqn + 1
  <2>1. UNCHANGED ingress /\ t \in Tunnel
    BY <1>1, SendSteps, Endpoints, Zenon
  <2>2. CASE UNCHANGED egress
    BY <2>1, <2>2, CountersHidden, Zenon
  <2>3. CASE egress[t] \in Outbound /\ n \in 1 .. SqnMax /\ egress' = [egress EXCEPT ![t].sqn = n]
    <3>1. egress'[t] = [egress[t] EXCEPT !.sqn = n] /\ \A u \in Tunnel : u # t => egress'[u] = egress[u]
      BY <2>1, <2>3, Zenon DEF TypeOK
    <3> HIDE DEF t, n
    <3>2. [egress[t] EXCEPT !.sqn = n] \in Outbound
      BY <2>3 DEF Outbound
    <3>3. egress'[t].spi = egress[t].spi /\ egress'[t].key = egress[t].key
      BY <2>3, <3>1 DEF Outbound
    <3>4. egress'[t] # NONE /\ egress[t] # NONE
      BY <2>3, <3>1, <3>2, NoneAssumption, Zenon
    <3>5. \A u \in Tunnel : /\ egress'[u] = NONE <=> egress[u] = NONE
                            /\ egress'[u].spi = egress[u].spi /\ egress'[u].key = egress[u].key
      <4>1. \A u \in Tunnel : u # t => egress'[u] = egress[u]
        BY <3>1, Zenon
      <4> QED BY <3>3, <3>4, <4>1, Zenon
    <3> QED BY <2>1, <3>5, CountersHidden, Zenon
  <2> QED BY <1>1, <2>2, <2>3, SendSteps, Zenon
<1>2. ASSUME NEW f \in wire, Receive(f) PROVE UNCHANGED Associations(h)
  <2> DEFINE x == InKeyOf(f)
             sa == UpdateWindow(ingress[x], f.sqn)
  <2>1. UNCHANGED egress
    BY <1>2, ReceiveSteps, Zenon
  <2>2. CASE UNCHANGED ingress
    BY <2>1, <2>2, CountersHidden, Zenon
  <2>3. CASE f.esp /\ x \in InKey /\ ingress[x] \in Inbound /\ ingress' = [ingress EXCEPT ![x] = sa]
    <3>1. sa \in Inbound /\ sa.key = ingress[x].key /\ sa.vni = ingress[x].vni /\ sa.window = ingress[x].window
      BY <2>3, FrameFields, WindowSteps, Zenon DEF TypeOK
    <3>2. ingress'[x] = sa /\ \A y \in InKey : y # x => ingress'[y] = ingress[y]
      BY <2>3, Zenon DEF TypeOK
    <3>3. sa # NONE /\ ingress[x] # NONE
      BY <2>3, <3>1, NoneAssumption, Zenon
    <3> HIDE DEF x, sa
    <3> QED BY <2>1, <3>1, <3>2, <3>3, CountersHidden, Zenon
  <2> QED BY <1>2, <2>2, <2>3, ReceiveSteps, Zenon
<1> QED BY <1>1, <1>2, Zenon DEF Traffic, DbStep

(* A request about an outbound association: created where none serves the  *)
(* tunnel, replaced by one with the same VNI and addresses, or deleted.    *)
LEMMA EgressCreateInDb ==
  ASSUME TypeOK, NEW t \in Tunnel, NEW spi \in Spi, NEW k \in KeyMaterial,
         CreateEgress(t, spi, k) \/ UpdateEgress(t, spi, k), NEW h \in Host
  PROVE  DbStep(h)
<1> DEFINE new == NewOutbound(spi, k)
           a == EgressSa(t, new)
           old == EgressSa(t, egress[t])
<1>1. /\ egress' = [egress EXCEPT ![t] = new] /\ UNCHANGED ingress
      /\ new \in Outbound /\ new # NONE
  BY OutboundCreated, NoneAssumption
<1> HIDE DEF new
<1>2. Associations(h)' = IF h # t.from THEN Associations(h) ELSE (Associations(h) \ {old}) \cup {a}
  <2>1. egress'[t] = new /\ \A u \in Tunnel : u # t => egress'[u] = egress[u]
    BY <1>1, Zenon DEF TypeOK
  <2> QED BY <1>1, <2>1, EgressReplaced
<1>3. CASE h = t.from
  <2>1. Associations(h)' = (Associations(h) \ {old}) \cup {a}
    BY <1>2, <1>3, Zenon
  <2>2. a \in [spi : Spi, vni : Vni, dir : {"INGRESS", "EGRESS"}, src : Host, dst : Host,
               replay_window : Window \cup {0}, key : KeyMaterial]
    BY Zenon DEF EgressSa, new, NewOutbound, Tunnel
  <2>3. CASE CreateEgress(t, spi, k)
    <3>1. ASSUME NEW b \in Associations(h), Db(h)!Collide(a, b) PROVE FALSE
      <4>1. b.dir = "EGRESS" /\ b.src = t.from /\ b.dst = t.to /\ b.vni = t.vni
        BY <3>1, Zenon DEF EgressSa, Db!Collide
      <4>2. PICK u \in Tunnel : egress[u] # NONE /\ b = EgressSa(u, egress[u])
        BY <4>1, AssociationsOf DEF IngressSa
      <4>3. u = t
        BY <4>1, <4>2 DEF EgressSa, Tunnel
      <4> QED BY <2>3, <4>2, <4>3, Zenon DEF CreateEgress
    <3>2. old \notin Associations(h)
      <4> SUFFICES ASSUME old \in Associations(h) PROVE FALSE
        OBVIOUS
      <4>1. PICK u \in Tunnel : egress[u] # NONE /\ old = EgressSa(u, egress[u])
        <5>1. \A x \in InKey : old # IngressSa(x, ingress[x])
          BY AssociationNames, Zenon
        <5> HIDE DEF old
        <5> QED BY <5>1, AssociationsOf
      <4>2. u = t
        BY <4>1, AssociationNames, Zenon
      <4> QED BY <2>3, <4>1, <4>2, Zenon DEF CreateEgress
    <3> HIDE DEF a, old
    <3>3. Associations(h)' = Associations(h) \cup {a}
      BY <2>1, <3>2, Zenon
    <3>4. Db(h)!Create(a)
      BY <3>1, <3>3, Zenon DEF Db!Create
    <3> QED BY <2>2, <3>4, Zenon DEF DbStep, Db!Next
  <2>4. CASE UpdateEgress(t, spi, k)
    <3>1. old \in Associations(h)
      BY <1>3, <2>4, AssociationsOf, Zenon DEF UpdateEgress
    <3>2. a.dir = "EGRESS" /\ old.dir = a.dir /\ old.vni = a.vni /\ old.src = a.src /\ old.dst = a.dst
      BY Zenon DEF EgressSa
    <3> HIDE DEF a, old
    <3>3. Db(h)!Update(old, a)
      BY <2>1, <3>2, Zenon DEF Db!Update
    <3> QED BY <2>2, <3>1, <3>3, Zenon DEF DbStep, Db!Next
  <2> QED BY <2>3, <2>4, Zenon
<1> QED BY <1>2, <1>3, Zenon DEF DbStep

LEMMA IngressCreateInDb ==
  ASSUME TypeOK, NEW t \in Tunnel, NEW spi \in Spi, NEW k \in KeyMaterial, NEW w \in Window,
         CreateIngress(t, spi, k, w), NEW h \in Host
  PROVE  DbStep(h)
<1> DEFINE x == InKeyFor(t, spi)
           new == [vni |-> t.vni, key |-> k, window |-> w, last |-> 0, seen |-> {}]
           a == IngressSa(x, new)
           old == IngressSa(x, ingress[x])
<1>1. /\ x \in InKey /\ ingress[x] = NONE /\ new \in Inbound /\ new # NONE
      /\ ingress' = [ingress EXCEPT ![x] = new] /\ UNCHANGED egress
  BY InboundCreated, NoneAssumption
<1>2. a \in [spi : Spi, vni : Vni, dir : {"INGRESS", "EGRESS"}, src : Host, dst : Host,
             replay_window : Window \cup {0}, key : KeyMaterial]
  BY Zenon DEF IngressSa, InKeyFor, Tunnel
<1> HIDE DEF x, new
<1>3. Associations(h)' = IF h # x.at THEN Associations(h) ELSE (Associations(h) \ {old}) \cup {a}
  <2>1. ingress'[x] = new /\ \A y \in InKey : y # x => ingress'[y] = ingress[y]
    BY <1>1, Zenon DEF TypeOK
  <2> QED BY <1>1, <2>1, IngressReplaced, Zenon
<1>4. CASE h = x.at
  <2>1. ASSUME NEW b \in Associations(h), Db(h)!Collide(a, b) PROVE FALSE
    <3>1. b.dir = "INGRESS" /\ b.src = x.peer /\ b.dst = x.at /\ b.spi = x.spi
      BY <2>1, Zenon DEF IngressSa, Db!Collide
    <3>2. PICK y \in InKey : ingress[y] # NONE /\ b = IngressSa(y, ingress[y])
      BY <3>1, AssociationsOf DEF EgressSa
    <3>3. y = x
      BY <1>1, <3>1, <3>2 DEF IngressSa, InKey
    <3> QED BY <1>1, <3>2, <3>3, Zenon
  <2>2. old \notin Associations(h)
    <3> SUFFICES ASSUME old \in Associations(h) PROVE FALSE
      OBVIOUS
    <3>1. PICK y \in InKey : ingress[y] # NONE /\ old = IngressSa(y, ingress[y])
      <4>1. \A u \in Tunnel : old # EgressSa(u, egress[u])
        BY <1>1, AssociationNames, Zenon
      <4> HIDE DEF old
      <4> QED BY <4>1, AssociationsOf
    <3>2. y = x
      BY <1>1, <3>1, AssociationNames, Zenon
    <3> QED BY <1>1, <3>1, <3>2, Zenon
  <2> HIDE DEF a, old
  <2>3. Associations(h)' = Associations(h) \cup {a}
    BY <1>3, <1>4, <2>2, Zenon
  <2>4. Db(h)!Create(a)
    BY <2>1, <2>3, Zenon DEF Db!Create
  <2> QED BY <1>2, <2>4, Zenon DEF DbStep, Db!Next
<1> QED BY <1>3, <1>4, Zenon DEF DbStep

(* What is taken away: one association of one host, or all of one host.    *)
LEMMA RemovedFromDb ==
  ASSUME TypeOK, NEW h \in Host,
         \/ \E t \in Tunnel : DeleteEgress(t)
         \/ \E x \in InKey : DeleteIngress(x)
         \/ \E g \in Host : Restart(g)
  PROVE  DbStep(h)
<1>1. ASSUME NEW t \in Tunnel, DeleteEgress(t) PROVE DbStep(h)
  <2> DEFINE old == EgressSa(t, egress[t])
  <2>1. /\ egress[t] # NONE /\ egress'[t] = NONE /\ UNCHANGED ingress
        /\ \A u \in Tunnel : u # t => egress'[u] = egress[u]
    BY <1>1, Zenon DEF DeleteEgress, TypeOK
  <2>2. Associations(h)' = IF h # t.from THEN Associations(h) ELSE Associations(h) \ {old}
    BY <2>1, EgressReplaced, Zenon
  <2>3. h = t.from => old \in Associations(h)
    BY <2>1, AssociationsOf, Zenon
  <2> HIDE DEF old
  <2>4. h = t.from => Db(h)!Delete(old)
    BY <2>2, Zenon DEF Db!Delete
  <2> QED BY <2>2, <2>3, <2>4, Zenon DEF DbStep, Db!Next
<1>2. ASSUME NEW x \in InKey, DeleteIngress(x) PROVE DbStep(h)
  <2> DEFINE old == IngressSa(x, ingress[x])
  <2>1. /\ ingress[x] # NONE /\ ingress'[x] = NONE /\ UNCHANGED egress
        /\ \A y \in InKey : y # x => ingress'[y] = ingress[y]
    BY <1>2, Zenon DEF DeleteIngress, TypeOK
  <2>2. Associations(h)' = IF h # x.at THEN Associations(h) ELSE Associations(h) \ {old}
    BY <2>1, IngressReplaced, Zenon
  <2>3. h = x.at => old \in Associations(h)
    BY <2>1, AssociationsOf, Zenon
  <2> HIDE DEF old
  <2>4. h = x.at => Db(h)!Delete(old)
    BY <2>2, Zenon DEF Db!Delete
  <2> QED BY <2>2, <2>3, <2>4, Zenon DEF DbStep, Db!Next
<1>3. ASSUME NEW g \in Host, Restart(g) PROVE DbStep(h)
  <2>1. /\ \A t \in Tunnel : egress'[t] = IF t.from = g THEN NONE ELSE egress[t]
        /\ \A x \in InKey : ingress'[x] = IF x.at = g THEN NONE ELSE ingress[x]
    BY <1>3, Zenon DEF Restart
  <2>2. CASE h = g
    <3>1. Associations(h)' = {}
      BY <2>1, <2>2, AssociationsOf, Zenon
    <3>2. Db(h)!Shutdown
      BY <3>1, Zenon DEF Db!Shutdown
    <3> QED BY <3>2, Zenon DEF DbStep, Db!Next
  <2>3. CASE h # g
    <3>1. \A a : a \in Associations(h)' <=> a \in Associations(h)
      BY <2>1, <2>3, AssociationsOf
    <3>2. Associations(h)' = Associations(h)
      BY <3>1, Zenon
    <3> QED BY <3>2, Zenon DEF DbStep
  <2> QED BY <2>2, <2>3, Zenon
<1> QED BY <1>1, <1>2, <1>3, Zenon

(* The database each host uses is the one that IpsecSad provides: the      *)
(* tunnels of any number of hosts make every host's associations follow    *)
(* SaTable.                                                                *)
THEOREM TunnelsUseSaTable == Spec => UsesSaTable
<1>1. ASSUME Init PROVE \A h \in Host : Db(h)!Init
  <2>1. (\A t \in Tunnel : egress[t] = NONE) /\ (\A x \in InKey : ingress[x] = NONE)
    BY <1>1, Zenon DEF Init
  <2> SUFFICES ASSUME NEW h \in Host PROVE Associations(h) = {}
    BY Zenon DEF Db!Init
  <2> QED BY <2>1, AssociationsOf
<1> DEFINE inDb == UNCHANGED <<egress, ingress>> \/ \A h \in Host : UNCHANGED Associations(h) \/ Db(h)!Next
<1>2. ASSUME TypeOK, Next PROVE inDb
  <2>1. CASE Traffic
    BY <1>2, <2>1, TrafficKeepsDb, Zenon DEF DbStep
  <2>2. CASE Control
    <3>1. CASE \E t \in Tunnel, spi \in Spi, k \in KeyMaterial :
                 CreateEgress(t, spi, k) \/ UpdateEgress(t, spi, k)
      BY <1>2, <3>1, EgressCreateInDb, Zenon DEF DbStep
    <3>2. CASE \E t \in Tunnel, spi \in Spi, k \in KeyMaterial, w \in Window :
                 CreateIngress(t, spi, k, w)
      BY <1>2, <3>2, IngressCreateInDb, Zenon DEF DbStep
    <3>3. CASE \/ \E t \in Tunnel : DeleteEgress(t)
               \/ \E x \in InKey : DeleteIngress(x)
               \/ \E h \in Host : Restart(h)
      BY <1>2, <3>3, RemovedFromDb, Zenon DEF DbStep
    <3>4. CASE \E i \in Iface, mode \in {"absent", "clear", "encrypt"} : SetIface(i, mode)
      BY <3>4, Zenon DEF SetIface, saVars
    <3> QED BY <2>2, <3>1, <3>2, <3>3, <3>4, ControlSteps, Zenon
  <2> QED BY <1>2, <2>1, <2>2, Zenon DEF Next
<1>3. TypeOK /\ [Next]_vars => [inDb]_vars
  BY <1>2, Zenon
<1> QED BY <1>1, <1>3, EspInvariance, PTL DEF Spec, UsesSaTable
-------------------------------------------------------------------------------
(* Rekeying.  The inductive invariant: the outbound association is that of *)
(* the newest generation the procedure has switched to; the peer holds the *)
(* inbound association of that generation and of every one since gen, and  *)
(* of none before; what is on the wire was sealed for the tunnel with the  *)
(* SPI of its generation; no packet was lost on the way out.               *)
Sealing == IF step = 2 THEN gen + 1 ELSE gen
Newest == IF step = 0 THEN gen ELSE gen + 1
InboundOf(g) == [vni |-> Rekeyed.vni, key |-> g, window |-> 0, last |-> 0, seen |-> {}]

Sealed ==
  /\ egress[Rekeyed] # NONE
  /\ egress[Rekeyed].key = Sealing /\ egress[Rekeyed].spi = SpiOf(Sealing)
  /\ egress[Rekeyed].sqn <= packets

Held ==
  /\ \A g \in gen .. Newest : ingress[InKeyFor(Rekeyed, SpiOf(g))] = InboundOf(g)
  /\ \A s \in Spi : LET sa == ingress[InKeyFor(Rekeyed, s)] IN sa # NONE => sa.key >= gen

OnRoute(f) == <<f.src, f.dst>> \in Route

OnWire ==
  /\ \A f \in wire : f.esp /\ f.key <= Sealing /\ f.spi = SpiOf(f.key) /\ OnRoute(f)
  /\ \A n \in 1 .. packets : \E f \in wire : f.id = n

RekeyInv ==
  /\ gen \in 0 .. MaxGen /\ step \in 0 .. 2 /\ (step > 0 => gen < MaxGen)
  /\ \A i \in Iface : iface[i] = "encrypt"
  /\ Sealed /\ Held /\ OnWire

(* The two wire SPIs take turns. *)
LEMMA SpiTurns ==
  ASSUME NEW g \in Nat
  PROVE  /\ SpiOf(g) \in Spi /\ SpiOf(g + 1) \in Spi /\ SpiOf(g) # SpiOf(g + 1)
         /\ InKeyFor(Rekeyed, SpiOf(g)) \in InKey /\ InKeyFor(Rekeyed, SpiOf(g + 1)) \in InKey
         /\ InKeyFor(Rekeyed, SpiOf(g)) # InKeyFor(Rekeyed, SpiOf(g + 1))
<1>1. SpiOf(g) \in Spi /\ SpiOf(g + 1) \in Spi /\ SpiOf(g) # SpiOf(g + 1)
  BY RekeyAssumption DEF SpiOf
<1> QED BY <1>1, RekeyAssumption, Zenon DEF InKeyFor, InKey, Tunnel

(* The traffic of the tunnel uses its associations. *)
LEMMA RekeyedTraffic ==
  ASSUME NEW i, NEW j, <<i, j>> \in Route
  PROVE  /\ i \in Iface /\ j \in Iface /\ TunnelOf(i, j) = Rekeyed /\ VniOf[j] = Rekeyed.vni
         /\ \A s : [at |-> HostOf[j], spi |-> s, peer |-> HostOf[i]] = InKeyFor(Rekeyed, s)
<1>1. i \in Iface /\ j \in Iface
  BY TopologyAssumption, Zenon
<1>2. TunnelOf(i, j) = Rekeyed /\ VniOf[j] = Rekeyed.vni
  BY RekeyAssumption, Zenon
<1>3. HostOf[i] = Rekeyed.from /\ HostOf[j] = Rekeyed.to
  BY <1>1, <1>2, Endpoints, Zenon
<1> QED BY <1>1, <1>2, <1>3, Zenon DEF InKeyFor

(* A step of a rekey is a step of the tunnels. *)
LEMMA RekeyIsNext == ASSUME RekeyInv, [RekeyNext]_rekeyVars PROVE [Next]_vars
<1>1. CASE UNCHANGED rekeyVars
  BY <1>1, Zenon DEF rekeyVars
<1>2. CASE Traffic
  BY <1>2, Zenon DEF Next
<1>3. gen \in Nat /\ Rekeyed \in Tunnel /\ 0 \in Window
  BY RekeyAssumption DEF RekeyInv
<1>4. CASE InstallNew
  <2>1. gen + 1 \in KeyMaterial
    BY <1>3, <1>4, RekeyAssumption DEF InstallNew
  <2> QED BY <1>3, <1>4, <2>1, SpiTurns, Zenon DEF InstallNew, Next, Control
<1>5. CASE ReplaceOld
  <2>1. gen + 1 \in KeyMaterial
    BY <1>3, <1>5, RekeyAssumption DEF ReplaceOld, RekeyInv
  <2> QED BY <1>3, <1>5, <2>1, SpiTurns, Zenon DEF ReplaceOld, Next, Control
<1>6. CASE DeleteOld
  BY <1>3, <1>6, SpiTurns, Zenon DEF DeleteOld, Next, Control
<1> QED BY <1>1, <1>2, <1>4, <1>5, <1>6, Zenon DEF RekeyNext

LEMMA RekeyInitInv == RekeyInit => TypeOK /\ RekeyInv
<1> SUFFICES ASSUME RekeyInit PROVE TypeOK /\ RekeyInv
  OBVIOUS
<1> USE DEF RekeyInit
<1>1. 0 \in KeyMaterial /\ SpiOf(0) \in Spi /\ Rekeyed \in Tunnel /\ 0 \in Window
  BY RekeyAssumption, SpiTurns
<1>2. NewOutbound(SpiOf(0), 0) \in Outbound
  BY <1>1, NumberAssumption DEF NewOutbound, Outbound
<1>3. InboundOf(0) \in Inbound
  BY <1>1, NumberAssumption DEF InboundOf, Inbound, Tunnel
<1>4. TypeOK
  <2>1. egress \in [Tunnel -> Outbound \cup {NONE}] /\ ingress \in [InKey -> Inbound \cup {NONE}]
    BY <1>2, <1>3, Zenon DEF InboundOf
  <2>2. /\ iface \in [Iface -> {"absent", "clear", "encrypt"}] /\ wire \subseteq PlainFrame \cup EspFrame
        /\ packets \in 0 .. MaxPackets /\ received \in [PacketId -> 0 .. MaxDeliveries]
    BY NumberAssumption
  <2>3. /\ outKeys \subseteq KeyMaterial /\ inKeys \in [KeyMaterial -> Window \cup {NONE}]
        /\ bypassed \subseteq Iface
    BY <1>1, Zenon
  <2> QED BY <2>1, <2>2, <2>3, Zenon DEF TypeOK
<1>5. Sealed
  <2>1. egress[Rekeyed] = NewOutbound(SpiOf(0), 0)
    BY <1>1, Zenon
  <2> QED BY <1>2, <2>1, NoneAssumption DEF Sealed, NewOutbound, Sealing
<1>6. Held
  <2>1. ingress[InKeyFor(Rekeyed, SpiOf(0))] = InboundOf(0)
    BY SpiTurns, Zenon DEF InboundOf
  <2>2. \A s \in Spi : LET sa == ingress[InKeyFor(Rekeyed, s)] IN sa # NONE => sa = InboundOf(0)
    BY <1>1, Zenon DEF InboundOf, InKeyFor, InKey, Tunnel
  <2>3. InboundOf(0).key = 0
    BY Zenon DEF InboundOf
  <2>4. \A g \in gen .. Newest : g = 0
    BY DEF Newest
  <2>5. gen = 0 /\ 0 >= gen
    OBVIOUS
  <2> QED BY <2>1, <2>2, <2>3, <2>4, <2>5, Zenon DEF Held
<1> QED BY <1>4, <1>5, <1>6, RekeyAssumption DEF RekeyInv, OnWire

(* Every packet of the tunnel leaves encrypted for its generation. *)
LEMMA SendWhileRekeying ==
  ASSUME TypeOK, RekeyInv, NEW i \in Iface, NEW j \in Iface, Send(i, j), CryptoWorks,
         UNCHANGED <<gen, step>>
  PROVE  RekeyInv'
<1> DEFINE sa == egress[Rekeyed]
           f == [id |-> packets', esp |-> TRUE, src |-> i, dst |-> j, spi |-> sa.spi,
                 sqn |-> sa.sqn + 1, key |-> sa.key]
<1>1. <<i, j>> \in Route /\ TunnelOf(i, j) = Rekeyed /\ Rekeyed \in Tunnel
  BY RekeyedTraffic, RekeyAssumption, Zenon DEF Send
<1>2. /\ sa \in Outbound /\ sa # NONE /\ sa.key = Sealing /\ sa.spi = SpiOf(Sealing)
      /\ sa.sqn <= packets /\ sa.sqn \in 0 .. SqnMax
  BY <1>1, RekeyAssumption, Zenon DEF TypeOK, RekeyInv, Sealed, Outbound
<1>3. packets \in Nat /\ packets' = packets + 1 /\ packets < MaxPackets
  BY SendSteps, Zenon DEF Send
<1>4. sa.sqn < SqnMax
  BY <1>2, <1>3, NumberAssumption, RekeyAssumption
<1>5. egress' = [egress EXCEPT ![Rekeyed].sqn = sa.sqn + 1] /\ wire' = wire \cup {f}
  <2>1. Encap(i, j)
    BY Zenon DEF RekeyInv, Send, Bypass
  <2>2. /\ egress' = [egress EXCEPT ![Rekeyed].sqn = @ + 1]
        /\ wire' = wire \cup {f} \/ UNCHANGED wire
    BY <1>1, <1>2, <1>4, <2>1, NumberAssumption DEF Encap
  <2>3. egress'[Rekeyed].sqn = sa.sqn + 1
    BY <1>1, <1>2, <2>2, Zenon DEF TypeOK, Outbound
  <2>4. egress' # egress
    BY <1>2, <2>3, NumberAssumption
  <2> QED BY <2>2, <2>4, Zenon DEF CryptoWorks
<1>6. UNCHANGED <<iface, ingress, gen, step>>
  BY Zenon DEF Send
<1>7. Sealed'
  <2>1. egress'[Rekeyed] = [sa EXCEPT !.sqn = sa.sqn + 1]
    BY <1>1, <1>5, Zenon DEF TypeOK
  <2>2. [sa EXCEPT !.sqn = sa.sqn + 1] \in Outbound
    BY <1>2, <1>4, NumberAssumption DEF Outbound
  <2>3. egress'[Rekeyed] # NONE
    BY <2>1, <2>2, NoneAssumption, Zenon
  <2>4. egress'[Rekeyed].key = sa.key /\ egress'[Rekeyed].spi = sa.spi /\ egress'[Rekeyed].sqn = sa.sqn + 1
    BY <1>2, <2>1, Zenon DEF Outbound
  <2>5. sa.sqn + 1 <= packets'
    BY <1>2, <1>3, NumberAssumption
  <2> QED BY <1>2, <1>6, <2>3, <2>4, <2>5, Zenon DEF Sealed, Sealing
<1>8. OnWire'
  <2>1. f.id = packets' /\ f.esp /\ f.src = i /\ f.dst = j /\ f.spi = sa.spi /\ f.key = sa.key
    OBVIOUS
  <2>2. Sealing <= Sealing /\ Sealing' = Sealing
    BY <1>6 DEF RekeyInv, Sealing
  <2> HIDE DEF f
  <2>3. \A e \in wire' : e.esp /\ e.key <= Sealing /\ e.spi = SpiOf(e.key) /\ OnRoute(e)
    <3>1. f.esp /\ f.key <= Sealing /\ f.spi = SpiOf(f.key) /\ OnRoute(f)
      BY <1>1, <1>2, <2>1, <2>2, Zenon DEF OnRoute
    <3> QED BY <1>5, <3>1, Zenon DEF RekeyInv, OnWire
  <2>4. \A n \in 1 .. packets' : n \in 1 .. packets \/ n = packets'
    BY <1>3
  <2>5. \A n \in 1 .. packets' : \E e \in wire' : e.id = n
    BY <1>5, <2>1, <2>4, Zenon DEF RekeyInv, OnWire
  <2> QED BY <2>2, <2>3, <2>5, Zenon DEF OnWire
<1>9. Held'
  BY <1>6, Zenon DEF RekeyInv, Held, Newest
<1> QED BY <1>6, <1>7, <1>8, <1>9, Zenon DEF RekeyInv

(* A window of size 0 does not move. *)
LEMMA ReceiveWhileRekeying ==
  ASSUME TypeOK, RekeyInv, NEW f \in wire, Receive(f), UNCHANGED <<gen, step>>
  PROVE  RekeyInv'
<1>1. UNCHANGED <<iface, egress, wire, packets>>
  BY Zenon DEF Receive
<1>2. \A s \in Spi : /\ InKeyFor(Rekeyed, s) \in InKey
                     /\ ingress'[InKeyFor(Rekeyed, s)] = NONE <=> ingress[InKeyFor(Rekeyed, s)] = NONE
                     /\ ingress[InKeyFor(Rekeyed, s)] # NONE =>
                          /\ ingress'[InKeyFor(Rekeyed, s)].key = ingress[InKeyFor(Rekeyed, s)].key
                          /\ ingress[InKeyFor(Rekeyed, s)].window = 0 =>
                               ingress'[InKeyFor(Rekeyed, s)] = ingress[InKeyFor(Rekeyed, s)]
  <2> DEFINE x == InKeyOf(f)
             sa == UpdateWindow(ingress[x], f.sqn)
  <2>1. \A s \in Spi : InKeyFor(Rekeyed, s) \in InKey
    BY RekeyAssumption, Zenon DEF InKeyFor, InKey, Tunnel
  <2>2. CASE UNCHANGED ingress
    BY <2>1, <2>2, Zenon
  <2>3. CASE f.esp /\ x \in InKey /\ ingress[x] \in Inbound /\ ingress' = [ingress EXCEPT ![x] = sa]
    <3>1. sa \in Inbound /\ sa.key = ingress[x].key
      BY <2>3, FrameFields, WindowSteps, Zenon DEF TypeOK
    <3>2. ingress[x].window = 0 => sa = ingress[x]
      BY Zenon DEF UpdateWindow
    <3>3. ingress'[x] = sa /\ \A y \in InKey : y # x => ingress'[y] = ingress[y]
      BY <2>3, Zenon DEF TypeOK
    <3>4. sa # NONE /\ ingress[x] # NONE
      BY <2>3, <3>1, NoneAssumption, Zenon
    <3> HIDE DEF x, sa
    <3> QED BY <2>1, <3>1, <3>2, <3>3, <3>4, Zenon
  <2> QED BY <2>2, <2>3, ReceiveSteps, Zenon
<1>3. Held'
  <2>1. UNCHANGED <<gen, step>> /\ UNCHANGED Newest
    BY Zenon DEF Newest
  <2>2. ASSUME NEW g \in gen .. Newest PROVE ingress'[InKeyFor(Rekeyed, SpiOf(g))] = InboundOf(g)
    <3>1. SpiOf(g) \in Spi
      BY SpiTurns DEF RekeyInv, Newest
    <3>2. ingress[InKeyFor(Rekeyed, SpiOf(g))] = InboundOf(g) /\ InboundOf(g).window = 0
      BY Zenon DEF RekeyInv, Held, InboundOf
    <3>3. ingress[InKeyFor(Rekeyed, SpiOf(g))] # NONE
      <4>1. gen .. Newest \subseteq KeyMaterial
        BY RekeyAssumption DEF RekeyInv, Newest
      <4>2. InboundOf(g) \in Inbound
        BY <4>1, RekeyAssumption, NumberAssumption DEF InboundOf, Inbound, Tunnel
      <4> QED BY <3>2, <4>2, NoneAssumption, Zenon
    <3> QED BY <1>2, <3>1, <3>2, <3>3, Zenon
  <2>3. \A s \in Spi : LET sa == ingress'[InKeyFor(Rekeyed, s)] IN sa # NONE => sa.key >= gen
    BY <1>2, Zenon DEF RekeyInv, Held
  <2> QED BY <2>1, <2>2, <2>3, Zenon DEF Held
<1> QED BY <1>1, <1>3, Zenon DEF RekeyInv, Sealed, OnWire, Sealing

(* The three steps of the procedure, each of which finds what the one      *)
(* before it left.                                                         *)
LEMMA InstallKeepsRekey == ASSUME TypeOK, RekeyInv, InstallNew PROVE RekeyInv'
<1> DEFINE old == InKeyFor(Rekeyed, SpiOf(gen))
           new == InKeyFor(Rekeyed, SpiOf(gen + 1))
<1>1. /\ gen \in Nat /\ gen < MaxGen /\ MaxGen \in Nat /\ step = 0 /\ step' = 1
      /\ UNCHANGED <<gen, iface, egress, wire, packets>>
      /\ ingress' = [ingress EXCEPT ![new] = InboundOf(gen + 1)]
  BY RekeyAssumption DEF InstallNew, CreateIngress, RekeyInv, dataVars, InboundOf
<1>2. old \in InKey /\ new \in InKey /\ old # new
  BY <1>1, SpiTurns, Zenon
<1>3. ingress'[new] = InboundOf(gen + 1) /\ \A x \in InKey : x # new => ingress'[x] = ingress[x]
  BY <1>1, <1>2, Zenon DEF TypeOK
<1>4. ingress[old] = InboundOf(gen)
  BY <1>1 DEF RekeyInv, Held, Newest
<1> HIDE DEF old, new
<1>5. Held'
  <2>1. \A g \in gen' .. Newest' : g = gen \/ g = gen + 1
    BY <1>1 DEF Newest
  <2>2. ingress'[old] = InboundOf(gen) /\ ingress'[new] = InboundOf(gen + 1)
    BY <1>2, <1>3, <1>4, Zenon
  <2>3. \A g \in gen' .. Newest' : ingress'[InKeyFor(Rekeyed, SpiOf(g))] = InboundOf(g)
    BY <2>1, <2>2, Zenon DEF old, new
  <2>4. ASSUME NEW s \in Spi, ingress'[InKeyFor(Rekeyed, s)] # NONE
        PROVE  ingress'[InKeyFor(Rekeyed, s)].key >= gen
    <3>1. InKeyFor(Rekeyed, s) \in InKey
      BY RekeyAssumption, Zenon DEF InKeyFor, InKey, Tunnel
    <3>2. CASE InKeyFor(Rekeyed, s) = new
      BY <1>1, <1>3, <3>2 DEF InboundOf
    <3>3. CASE InKeyFor(Rekeyed, s) # new
      BY <1>3, <2>4, <3>1, <3>3, Zenon DEF RekeyInv, Held
    <3> QED BY <3>2, <3>3, Zenon
  <2> QED BY <1>1, <2>3, <2>4, Zenon DEF Held
<1> QED BY <1>1, <1>5, SMTT(30) DEF RekeyInv, Sealed, OnWire, Sealing

LEMMA ReplaceKeepsRekey == ASSUME TypeOK, RekeyInv, ReplaceOld PROVE RekeyInv'
<1> DEFINE new == NewOutbound(SpiOf(gen + 1), gen + 1)
<1>1. /\ gen \in Nat /\ gen < MaxGen /\ MaxGen \in Nat /\ step = 1 /\ step' = 2
      /\ UNCHANGED <<gen, iface, ingress, wire, packets>>
      /\ egress' = [egress EXCEPT ![Rekeyed] = new]
  BY RekeyAssumption DEF ReplaceOld, UpdateEgress, RekeyInv, dataVars
<1>2. egress'[Rekeyed] = new
  BY <1>1, RekeyAssumption, Zenon DEF TypeOK
<1>3. new.key = gen + 1 /\ new.spi = SpiOf(gen + 1) /\ new.sqn = 0
  BY Zenon DEF NewOutbound
<1>4. new # NONE
  <2>1. gen + 1 \in KeyMaterial /\ SpiOf(gen + 1) \in Spi
    BY <1>1, SpiTurns, RekeyAssumption
  <2> QED BY <2>1, NumberAssumption, NoneAssumption DEF NewOutbound, Outbound
<1> HIDE DEF new
<1>5. Sealed'
  BY <1>1, <1>2, <1>3, <1>4, SMTT(30) DEF Sealed, Sealing, TypeOK
<1>6. Held'
  BY <1>1 DEF RekeyInv, Held, Newest
<1>7. OnWire'
  <2>1. Sealing = gen /\ Sealing' = gen + 1
    BY <1>1 DEF Sealing
  <2>2. \A f \in wire : f.esp /\ f.key \in Nat
    BY FrameFields, RekeyAssumption DEF TypeOK, RekeyInv, OnWire
  <2>3. \A f \in wire : f.key <= gen => f.key <= gen + 1
    BY <1>1, <2>2
  <2> QED BY <1>1, <2>1, <2>3, Zenon DEF RekeyInv, OnWire
<1> QED BY <1>1, <1>5, <1>6, <1>7 DEF RekeyInv

LEMMA DeleteKeepsRekey == ASSUME TypeOK, RekeyInv, DeleteOld PROVE RekeyInv'
<1> DEFINE old == InKeyFor(Rekeyed, SpiOf(gen))
           new == InKeyFor(Rekeyed, SpiOf(gen + 1))
<1>1. /\ gen \in Nat /\ gen < MaxGen /\ MaxGen \in Nat /\ step = 2 /\ step' = 0 /\ gen' = gen + 1
      /\ UNCHANGED <<iface, egress, wire, packets>>
      /\ ingress' = [ingress EXCEPT ![old] = NONE]
  BY RekeyAssumption DEF DeleteOld, DeleteIngress, RekeyInv, dataVars
<1>2. old \in InKey /\ new \in InKey /\ old # new
  BY <1>1, SpiTurns, Zenon
<1>3. ingress'[old] = NONE /\ \A x \in InKey : x # old => ingress'[x] = ingress[x]
  BY <1>1, <1>2, Zenon DEF TypeOK
<1>4. ingress[new] = InboundOf(gen + 1)
  BY <1>1 DEF RekeyInv, Held, Newest
<1> HIDE DEF old, new
<1>5. Held'
  <2>1. \A g \in gen' .. Newest' : g = gen + 1
    BY <1>1 DEF Newest
  <2>2. \A g \in gen' .. Newest' : ingress'[InKeyFor(Rekeyed, SpiOf(g))] = InboundOf(g)
    BY <1>2, <1>3, <1>4, <2>1, Zenon DEF new
  <2>3. ASSUME NEW s \in Spi, ingress'[InKeyFor(Rekeyed, s)] # NONE
        PROVE  ingress'[InKeyFor(Rekeyed, s)].key >= gen'
    <3>1. InKeyFor(Rekeyed, s) = new
      <4>1. s = SpiOf(gen) \/ s = SpiOf(gen + 1)
        <5>1. SpiOf(gen) \in Spi /\ SpiOf(gen + 1) \in Spi /\ SpiOf(gen) # SpiOf(gen + 1)
          BY <1>1, SpiTurns, Zenon
        <5>2. Spi = {1, 2}
          BY RekeyAssumption, Zenon
        <5> QED BY <5>1, <5>2, Zenon
      <4> QED BY <1>3, <2>3, <4>1, Zenon DEF old, new
    <3>2. ingress'[new] = InboundOf(gen + 1)
      BY <1>2, <1>3, <1>4, Zenon
    <3> QED BY <1>1, <3>1, <3>2 DEF InboundOf
  <2> QED BY <2>2, <2>3, Zenon DEF Held
<1>6. Sealing' = Sealing
  BY <1>1 DEF Sealing
<1> QED BY <1>1, <1>5, <1>6 DEF RekeyInv, Sealed, OnWire

(* The invariant of a rekey holds at all times. *)
THEOREM RekeyInvariance == RekeySpec => [](TypeOK /\ RekeyInv)
<1>1. TypeOK /\ RekeyInv /\ [RekeyNext]_rekeyVars => (TypeOK /\ RekeyInv)'
  <2> SUFFICES ASSUME TypeOK, RekeyInv, [RekeyNext]_rekeyVars PROVE TypeOK' /\ RekeyInv'
    OBVIOUS
  <2>1. TypeOK'
    BY RekeyIsNext, TypeStep, Zenon
  <2>2. ASSUME UNCHANGED rekeyVars PROVE RekeyInv'
    <3>1. UNCHANGED <<gen, step, iface, egress, ingress, wire, packets>>
      BY <2>2, Zenon DEF rekeyVars, vars, saVars, dataVars
    <3>2. Sealed'
      BY <3>1, Zenon DEF RekeyInv, Sealed, Sealing
    <3>3. Held'
      BY <3>1, Zenon DEF RekeyInv, Held, Newest
    <3>4. OnWire'
      BY <3>1, Zenon DEF RekeyInv, OnWire, Sealing
    <3> QED BY <3>1, <3>2, <3>3, <3>4, Zenon DEF RekeyInv
  <2>3. ASSUME Traffic, CryptoWorks, UNCHANGED <<gen, step>> PROVE RekeyInv'
    <3>1. ASSUME NEW i \in Iface, NEW j \in Iface, Send(i, j) PROVE RekeyInv'
      BY <2>3, <3>1, SendWhileRekeying, Zenon
    <3>2. ASSUME NEW f \in wire, Receive(f) PROVE RekeyInv'
      BY <2>3, <3>2, ReceiveWhileRekeying, Zenon
    <3> QED BY <2>3, <3>1, <3>2, Zenon DEF Traffic
  <2> QED BY <2>1, <2>2, <2>3, InstallKeepsRekey, ReplaceKeepsRekey, DeleteKeepsRekey, Zenon DEF RekeyNext
<1> QED BY <1>1, RekeyInitInv, PTL DEF RekeySpec

(* What the invariant says of a frame: which association it will meet.     *)
LEMMA FrameMeets ==
  ASSUME TypeOK, RekeyInv, NEW f \in wire
  PROVE  /\ InKeyOf(f) = InKeyFor(Rekeyed, SpiOf(f.key)) /\ VniOf[f.dst] = Rekeyed.vni
         /\ f.esp /\ iface[f.dst] = "encrypt" /\ f.key \in Nat /\ SpiOf(f.key) \in Spi
         /\ f.key >= gen => f.key \in gen .. Newest
<1>1. f.esp = TRUE /\ f.key <= Sealing /\ f.spi = SpiOf(f.key) /\ OnRoute(f)
  BY FrameFields, Zenon DEF TypeOK, RekeyInv, OnWire
<1>2. f.key \in Nat /\ f.dst \in Iface
  BY <1>1, FrameFields, RekeyAssumption, SMTT(30) DEF TypeOK
<1>3. InKeyOf(f) = InKeyFor(Rekeyed, f.spi) /\ VniOf[f.dst] = Rekeyed.vni
  BY <1>1, RekeyedTraffic DEF OnRoute, InKeyOf
<1>4. f.key >= gen => f.key \in gen .. Newest
  BY <1>1, <1>2 DEF RekeyInv, Sealing, Newest
<1> QED BY <1>1, <1>2, <1>3, <1>4, SpiTurns, Zenon DEF RekeyInv

(* docs/concepts/ipsec.md: rekeying in the order it gives loses nothing.   *)
(* Every packet leaves encrypted and is accepted until the association of  *)
(* its generation is deleted, for any number of generations and packets.   *)
THEOREM RekeyingIsGapless == RekeySpec => []Gapless
<1>1. ASSUME TypeOK, RekeyInv PROVE Gapless
  <2>1. \A n \in 1 .. packets : \E f \in wire : f.id = n /\ f.esp
    BY <1>1, Zenon DEF RekeyInv, OnWire
  <2>2. ASSUME NEW f \in wire, f.key >= gen PROVE ClsAccepts(f) /\ DecapAccepts(f)
    <3>1. ingress[InKeyOf(f)] = InboundOf(f.key)
      BY <1>1, <2>2, FrameMeets, Zenon DEF RekeyInv, Held
    <3>2. InboundOf(f.key) # NONE
      <4>1. f.key \in KeyMaterial
        BY <1>1, FrameMeets, FrameFields, ZenonT(40) DEF TypeOK
      <4> QED BY <4>1, RekeyAssumption, NumberAssumption, NoneAssumption DEF InboundOf, Inbound, Tunnel
    <3>3. DecapAccepts(f)
      BY <1>1, <3>1, <3>2, FrameMeets DEF DecapAccepts, ReplayAccepts, InboundOf
    <3>4. ClsAccepts(f)
      <4>1. f.esp = TRUE /\ iface[f.dst] = "encrypt"
        BY <1>1, FrameMeets, FrameFields, Zenon DEF TypeOK
      <4>2. (iface[f.dst] = "encrypt") = TRUE /\ iface[f.dst] # "absent"
        BY <4>1, Zenon
      <4> QED BY <4>1, <4>2, Zenon DEF ClsAccepts
    <3> QED BY <3>3, <3>4, Zenon
  <2> QED BY <2>1, <2>2, Zenon DEF Gapless
<1> QED BY <1>1, RekeyInvariance, PTL

(* ipsec_decap_node.c: a frame of an earlier generation is not opened by   *)
(* the association that now has its SPI.                                   *)
THEOREM LateFramesStayOut == RekeySpec => []LateFramesRefused
<1>1. ASSUME TypeOK, RekeyInv PROVE LateFramesRefused
  <2> SUFFICES ASSUME NEW f \in wire, f.key < gen, DecapAccepts(f) PROVE FALSE
    BY Zenon DEF LateFramesRefused
  <2>1. ingress[InKeyOf(f)] # NONE /\ ingress[InKeyOf(f)].key = f.key
    BY Zenon DEF DecapAccepts
  <2>2. f.key >= gen
    BY <1>1, <2>1, FrameMeets, Zenon DEF RekeyInv, Held
  <2> QED BY <1>1, <2>2, FrameMeets DEF RekeyInv
<1> QED BY <1>1, RekeyInvariance, PTL

=============================================================================
