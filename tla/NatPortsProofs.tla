--------------------------- MODULE NatPortsProofs ---------------------------
(***************************************************************************)
(* The invariants of NatPorts, for any interfaces, ports, endpoints and    *)
(* hash function, as long as flow_cnt can hold the connections of a source *)
(* port; then the invariant of conntrack's flow table, and why the steps   *)
(* that give nothing a NAT port keep it: a packet that finds its flow or   *)
(* has one created, a reply, the scans that remove flows, and the requests. *)
(***************************************************************************)
EXTENDS NatFlows, FiniteSetTheorems, TLAPS

\* Every connection has an overload entry of its own.
HeldOnce == \A c, d \in Translated : Held(c) = Held(d) => c = d

IInv ==
  /\ TypeOK
  /\ HeldOnce
  /\ OverloadIsHeld
  /\ CountsConnections
  /\ MappingIsStable
  /\ WithinRange
  /\ UsedCountsPorts

-------------------------------------------------------------------------------
(* Facts about the definitions. *)

\* A candidate port of dp_find_new_port() lies in the configured range, wherever the hash starts.
LEMMA CandidateInRange ==
  ASSUME NEW k \in PortmapKey, NEW r \in PortRange, NEW p \in Nat
  PROVE  /\ Candidate(k, r, p) \in NatPort
         /\ Candidate(k, r, p) >= r[1] /\ Candidate(k, r, p) < r[2]
<1> DEFINE h == (Hash[k] + p) % HashMod
           n == Size(r)
<1>1. /\ r[1] \in Nat /\ r[2] \in Nat /\ r[1] < r[2]
      /\ r[1] .. r[2] - 1 \subseteq NatPort
  BY PortAssumption, Zenon
<1>2. n \in Nat /\ n > 0
  BY <1>1 DEF Size
<1>3. h \in Nat
  BY HashAssumption
<1>4. h % n \in 0 .. n - 1
  <2> HIDE DEF h, n
  <2> QED BY <1>2, <1>3
<1>5. Candidate(k, r, p) = r[1] + (h % n)
  BY Zenon DEF Candidate
<1> HIDE DEF h
<1> QED BY <1>1, <1>4, <1>5 DEF Size

\* What dp_find_new_port() returns is in the range and free for the endpoint.
LEMMA FoundPort ==
  ASSUME NEW c \in Conn, NEW s \in Snat, NEW p \in FindNewPort(c, s)
  PROVE  /\ p \in NatPort /\ p >= s.range[1] /\ p < s.range[2]
         /\ OverloadOf(c, s.nat_ip, p) \notin overload
<1>1. PICK q \in 0 .. Size(s.range) - 1 :
        IsFree(c, s, q) /\ p = Candidate(KeyOf(c), s.range, q)
  BY Zenon DEF FindNewPort
<1>2. KeyOf(c) \in PortmapKey /\ s.range \in PortRange /\ q \in Nat
  BY <1>1 DEF KeyOf, PortmapKey, Conn, Snat
<1>3. QED BY <1>1, <1>2, CandidateInRange, Zenon DEF IsFree

\* Sets of connections are finite.
LEMMA ConnsFinite ==
  ASSUME NEW S \in SUBSET Conn
  PROVE  IsFiniteSet(S) /\ Cardinality(S) \in Nat
BY FiniteAssumption, FS_Subset, FS_CardinalityType, Zenon

\* Translating a connection adds it to the connections of its source port and of its interface.
LEMMA TranslateAdds ==
  ASSUME TypeOK, NEW c \in Conn, nat[c] = NONE, NEW t \in Translation,
         nat' = [nat EXCEPT ![c] = t]
  PROVE  /\ Translated' = Translated \cup {c}
         /\ nat'[c] = t /\ Held(c)' = OverloadOf(c, t.nat_ip, t.nat_port)
         /\ \A d \in Translated : d # c /\ nat'[d] = nat[d] /\ Held(d)' = Held(d)
         /\ \A k \in PortmapKey :
              SharesPort(k)' = IF k = KeyOf(c) THEN SharesPort(k) \cup {c} ELSE SharesPort(k)
         /\ c \notin SharesPort(KeyOf(c))
<1>1. t # NONE
  BY NatNoneAssumption, Zenon
<1>2. /\ nat'[c] = t
      /\ \A d \in Conn : d # c => nat'[d] = nat[d]
  BY Zenon DEF TypeOK
<1>3. Translated' = Translated \cup {c}
  BY <1>1, <1>2, Zenon DEF Translated
<1>4. \A d \in Translated : d # c /\ nat'[d] = nat[d]
  BY <1>2, Zenon DEF Translated
<1>5. Held(c)' = OverloadOf(c, t.nat_ip, t.nat_port) /\ \A d \in Translated : Held(d)' = Held(d)
  BY <1>2, <1>4, Zenon DEF Held, OverloadOf
<1>6. \A k \in PortmapKey :
        SharesPort(k)' = IF k = KeyOf(c) THEN SharesPort(k) \cup {c} ELSE SharesPort(k)
  BY <1>3, Zenon DEF SharesPort
<1>7. QED BY <1>2, <1>3, <1>4, <1>5, <1>6, Zenon DEF SharesPort, Translated

\* Freeing a connection takes it away from both.
LEMMA ReleaseRemoves ==
  ASSUME TypeOK, NEW c \in Conn, nat[c] # NONE,
         nat' = [nat EXCEPT ![c] = NONE]
  PROVE  /\ Translated' = Translated \ {c}
         /\ \A d \in Translated' : d # c /\ nat'[d] = nat[d] /\ Held(d)' = Held(d)
         /\ \A k \in PortmapKey :
              SharesPort(k)' = IF k = KeyOf(c) THEN SharesPort(k) \ {c} ELSE SharesPort(k)
         /\ c \in SharesPort(KeyOf(c))
<1>1. /\ nat'[c] = NONE
      /\ \A d \in Conn : d # c => nat'[d] = nat[d]
  BY Zenon DEF TypeOK
<1>2. Translated' = Translated \ {c}
  BY <1>1, Zenon DEF Translated
<1>3. \A d \in Translated' : d # c /\ nat'[d] = nat[d]
  BY <1>1, Zenon DEF Translated
<1>4. \A d \in Translated' : Held(d)' = Held(d)
  BY <1>3, Zenon DEF Held, OverloadOf
<1>5. \A k \in PortmapKey :
        SharesPort(k)' = IF k = KeyOf(c) THEN SharesPort(k) \ {c} ELSE SharesPort(k)
  BY <1>2, Zenon DEF SharesPort
<1>6. QED BY <1>2, <1>3, <1>4, <1>5, Zenon DEF SharesPort, Translated

-------------------------------------------------------------------------------
(* The steps. *)

\* A successful allocation, from an existing portmap entry or a new one, keeps the invariant.
LEMMA TranslateIInv ==
  ASSUME IInv, CounterFits, NEW c \in Conn, nat[c] = NONE, snat[c.iface] # NONE,
         NEW p \in NatPort, p >= snat[c.iface].range[1], p < snat[c.iface].range[2],
         NEW t \in Translation, t = [nat_ip |-> snat[c.iface].nat_ip, nat_port |-> p],
         NEW o, o = OverloadOf(c, t.nat_ip, p), o \notin overload,
         overload' = overload \cup {o},
         nat' = [nat EXCEPT ![c] = t],
         used' = [used EXCEPT ![c.iface] = @ + 1],
         \/ /\ portmap[KeyOf(c)] = NONE
            /\ portmap' = [portmap EXCEPT ![KeyOf(c)] =
                             [nat_ip |-> t.nat_ip, nat_port |-> p, flow_cnt |-> 1]]
         \/ /\ portmap[KeyOf(c)] # NONE
            /\ portmap[KeyOf(c)].nat_ip = t.nat_ip /\ portmap[KeyOf(c)].nat_port = p
            /\ CountConnection(KeyOf(c)),
         result' = "OK", UNCHANGED <<snat, purge>>
  PROVE  IInv'
<1> DEFINE k == KeyOf(c)
<1>0. TypeOK /\ t.nat_ip \in NatIp /\ t.nat_port = p /\ k \in PortmapKey /\ c.iface \in Iface
  BY Zenon DEF IInv, KeyOf, PortmapKey, Conn, Translation
<1>1. /\ Translated' = Translated \cup {c}
      /\ nat'[c] = t /\ Held(c)' = o
      /\ \A d \in Translated : d # c /\ nat'[d] = nat[d] /\ Held(d)' = Held(d)
      /\ \A j \in PortmapKey :
           SharesPort(j)' = IF j = k THEN SharesPort(j) \cup {c} ELSE SharesPort(j)
      /\ c \notin SharesPort(k)
  <2>1. /\ Translated' = Translated \cup {c}
        /\ nat'[c] = t /\ Held(c)' = OverloadOf(c, t.nat_ip, t.nat_port)
        /\ \A d \in Translated : d # c /\ nat'[d] = nat[d] /\ Held(d)' = Held(d)
        /\ \A j \in PortmapKey :
             SharesPort(j)' = IF j = KeyOf(c) THEN SharesPort(j) \cup {c} ELSE SharesPort(j)
        /\ c \notin SharesPort(KeyOf(c))
    BY <1>0, TranslateAdds, Zenon
  <2>2. OverloadOf(c, t.nat_ip, t.nat_port) = o
    BY <1>0, Zenon
  <2>3. QED BY <2>1, <2>2, Zenon
<1>2. /\ IsFiniteSet(SharesPort(k)) /\ Cardinality(SharesPort(k)) \in Nat
      /\ Cardinality(SharesPort(k)') = Cardinality(SharesPort(k)) + 1
      /\ Cardinality(SharesPort(k)') < FlowCntMod
  <2>1. SharesPort(k) \in SUBSET Conn /\ SharesPort(k)' = SharesPort(k) \cup {c}
    BY <1>0, <1>1, Zenon DEF SharesPort, Translated
  <2>2. IsFiniteSet(SharesPort(k)) /\ Cardinality(SharesPort(k)) \in Nat
    BY <2>1, ConnsFinite, Zenon
  <2>3. Cardinality(SharesPort(k)') = Cardinality(SharesPort(k)) + 1
    <3>1. Cardinality(SharesPort(k) \cup {c}) = Cardinality(SharesPort(k)) + 1
      BY ONLY <1>1, <2>2, FS_AddElement, Zenon
    <3>2. QED BY <2>1, <3>1, Zenon
  <2> DEFINE all == {d \in Conn : KeyOf(d) = k}
  <2>4. Cardinality(all) \in Nat /\ Cardinality(all) < FlowCntMod /\ IsFiniteSet(all)
    BY <1>0, ConnsFinite, Zenon DEF CounterFits
  <2>5. SharesPort(k)' \in SUBSET all
    BY <2>1, Zenon DEF SharesPort, Translated
  <2>6. Cardinality(SharesPort(k)') <= Cardinality(all)
    <3> HIDE DEF all
    <3> QED BY <2>4, <2>5, FS_Subset, Zenon
  <2>7. QED BY <2>2, <2>3, <2>4, <2>6, HashAssumption
<1>3. /\ portmap' \in [PortmapKey -> Portmap \cup {NONE}]
      /\ \A j \in PortmapKey \ {k} : portmap'[j] = portmap[j]
      /\ portmap'[k] # NONE
      /\ portmap'[k].nat_ip = t.nat_ip /\ portmap'[k].nat_port = p
      /\ portmap'[k].flow_cnt = Cardinality(SharesPort(k)')
  <2>1. CASE portmap[k] = NONE
    <3>1. SharesPort(k) = {}
      BY <1>0, <2>1, Zenon DEF IInv, CountsConnections
    <3>2. Cardinality(SharesPort(k)') = 1
      BY <1>2, <3>1, FS_EmptySet
    <3> DEFINE new == [nat_ip |-> t.nat_ip, nat_port |-> p, flow_cnt |-> 1]
    <3>3. new \in Portmap /\ new # NONE /\ portmap' = [portmap EXCEPT ![k] = new]
      BY <1>0, <2>1, HashAssumption, NatNoneAssumption DEF Portmap
    <3>4. QED BY <1>0, <3>2, <3>3, Zenon DEF TypeOK
  <2>2. CASE portmap[k] # NONE
    <3>1. portmap[k] \in Portmap /\ portmap[k].flow_cnt = Cardinality(SharesPort(k))
      BY <1>0, <2>2, FS_EmptySet, Zenon DEF IInv, CountsConnections, TypeOK
    <3>2. (portmap[k].flow_cnt + 1) % FlowCntMod = Cardinality(SharesPort(k)')
      BY <1>2, <3>1, HashAssumption
    <3> DEFINE new == [portmap[k] EXCEPT !.flow_cnt = Cardinality(SharesPort(k)')]
    <3>3. portmap' = [portmap EXCEPT ![k] = new]
      BY <1>0, <2>2, <3>2, Zenon DEF CountConnection, TypeOK
    <3>4. /\ new \in Portmap /\ new # NONE
          /\ new.nat_ip = t.nat_ip /\ new.nat_port = p
          /\ new.flow_cnt = Cardinality(SharesPort(k)')
      BY <1>2, <2>2, <3>1, HashAssumption, NatNoneAssumption DEF Portmap
    <3> HIDE DEF new
    <3>5. QED BY <1>0, <3>3, <3>4, Zenon DEF TypeOK
  <2>3. QED BY <2>1, <2>2, Zenon
<1>4. TypeOK'
  <2>1. o \in OverloadKey
    BY <1>0, Zenon DEF OverloadOf, OverloadKey, Conn
  <2>2. nat' \in [Conn -> Translation \cup {NONE}] /\ used' \in [Iface -> Nat]
    BY <1>0 DEF TypeOK
  <2>3. QED BY <1>0, <1>3, <2>1, <2>2, Zenon DEF TypeOK
<1>5. HeldOnce' /\ OverloadIsHeld'
  <2>1. overload = {Held(d) : d \in Translated} /\ HeldOnce
    BY Zenon DEF IInv, OverloadIsHeld
  <2>2. OverloadIsHeld'
    BY <1>1, <2>1 DEF OverloadIsHeld
  <2>3. \A d \in Translated : Held(d)' # Held(c)'
    BY <1>1, <2>1
  <2>4. HeldOnce'
    BY <1>1, <2>1, <2>3 DEF HeldOnce
  <2>5. QED BY <2>2, <2>4, Zenon
<1>6. CountsConnections'
  <2> SUFFICES ASSUME NEW j \in PortmapKey
               PROVE  IF SharesPort(j)' = {} THEN portmap'[j] = NONE
                      ELSE portmap'[j] # NONE /\ portmap'[j].flow_cnt = Cardinality(SharesPort(j)')
    BY Zenon DEF CountsConnections
  <2>1. CASE j = k
    BY <1>1, <1>3, <2>1, Zenon
  <2>2. CASE j # k
    BY <1>1, <1>3, <2>2, Zenon DEF IInv, CountsConnections
  <2>3. QED BY <2>1, <2>2, Zenon
<1>7. MappingIsStable'
  <2> SUFFICES ASSUME NEW d \in Translated'
               PROVE  /\ portmap'[KeyOf(d)] # NONE
                      /\ portmap'[KeyOf(d)].nat_ip = nat'[d].nat_ip
                      /\ portmap'[KeyOf(d)].nat_port = nat'[d].nat_port
    BY Zenon DEF MappingIsStable
  <2>1. CASE d = c
    BY <1>0, <1>1, <1>3, <2>1, Zenon
  <2>2. CASE d \in Translated
    <3>1. /\ portmap[KeyOf(d)] # NONE /\ nat'[d] = nat[d] /\ KeyOf(d) \in PortmapKey
          /\ portmap[KeyOf(d)].nat_ip = nat[d].nat_ip /\ portmap[KeyOf(d)].nat_port = nat[d].nat_port
      BY <1>1, <2>2, Zenon DEF IInv, MappingIsStable, Translated, KeyOf, PortmapKey, Conn
    <3>2. QED BY <1>3, <3>1
  <2>3. QED BY <1>1, <2>1, <2>2, Zenon
<1>8. WithinRange'
  BY <1>0, <1>1 DEF IInv, WithinRange
<1>9. UsedCountsPorts'
  <2> SUFFICES ASSUME NEW i \in Iface
               PROVE  used'[i] = Cardinality({d \in Translated' : d.iface = i})
    BY Zenon DEF UsedCountsPorts
  <2> DEFINE S == {d \in Translated : d.iface = i}
  <2>1. S \in SUBSET Conn /\ c \notin S /\ used[i] = Cardinality(S)
    BY <1>1, Zenon DEF IInv, UsedCountsPorts, Translated
  <2>2. IsFiniteSet(S) /\ Cardinality(S) \in Nat
    BY <2>1, ConnsFinite, Zenon
  <2>3. CASE i = c.iface
    <3>1. {d \in Translated' : d.iface = i} = S \cup {c}
      BY <1>1, <2>3, Zenon
    <3>2. Cardinality(S \cup {c}) = Cardinality(S) + 1
      <4> HIDE DEF S
      <4> QED BY <2>1, <2>2, FS_AddElement, Zenon
    <3>3. used'[i] = used[i] + 1
      BY <1>0, <2>3, Zenon DEF TypeOK
    <3>4. QED BY <2>1, <3>1, <3>2, <3>3, Zenon
  <2>4. CASE i # c.iface
    <3>1. {d \in Translated' : d.iface = i} = S
      BY <1>1, <2>4, Zenon
    <3>2. QED BY <1>0, <2>1, <2>4, <3>1, Zenon DEF TypeOK
  <2>5. QED BY <2>3, <2>4, Zenon
<1>10. QED BY <1>4, <1>5, <1>6, <1>7, <1>8, <1>9, Zenon DEF IInv

\* Freeing a conntrack entry, by ageing or for a withdrawn NAT address, keeps the invariant.
LEMMA ReleaseIInv ==
  ASSUME IInv, CounterFits, NEW c \in Conn, Release(c)
  PROVE  IInv'
<1> DEFINE k == KeyOf(c)
<1>0. /\ TypeOK /\ k \in PortmapKey /\ c.iface \in Iface /\ c \in Translated
      /\ nat' = [nat EXCEPT ![c] = NONE] /\ used' = [used EXCEPT ![c.iface] = @ - 1]
      /\ overload' = overload \ {Held(c)} /\ CountDown(k) /\ UNCHANGED <<snat, purge, result>>
  BY Zenon DEF IInv, KeyOf, PortmapKey, Conn, Release, DeleteEntries, Translated
<1>1. /\ Translated' = Translated \ {c}
      /\ \A d \in Translated' : d # c /\ nat'[d] = nat[d] /\ Held(d)' = Held(d)
      /\ \A j \in PortmapKey :
           SharesPort(j)' = IF j = k THEN SharesPort(j) \ {c} ELSE SharesPort(j)
      /\ c \in SharesPort(k)
  <2>1. nat[c] # NONE
    BY <1>0, Zenon DEF Translated
  <2>2. QED BY <1>0, <2>1, ReleaseRemoves, Zenon
<1>2. /\ IsFiniteSet(SharesPort(k)') /\ Cardinality(SharesPort(k)') \in Nat
      /\ Cardinality(SharesPort(k)) \in Nat
      /\ Cardinality(SharesPort(k)') = Cardinality(SharesPort(k)) - 1
  <2>1. SharesPort(k) \in SUBSET Conn /\ SharesPort(k)' = SharesPort(k) \ {c}
    BY <1>0, <1>1, Zenon DEF SharesPort, Translated
  <2>2. IsFiniteSet(SharesPort(k)) /\ Cardinality(SharesPort(k)) \in Nat
    BY <2>1, ConnsFinite, Zenon
  <2>3. Cardinality(SharesPort(k) \ {c}) = Cardinality(SharesPort(k)) - 1
    BY ONLY <1>1, <2>2, FS_RemoveElement, Zenon
  <2>4. SharesPort(k)' \in SUBSET Conn
    BY <2>1, Zenon
  <2>5. QED BY <2>1, <2>2, <2>3, <2>4, ConnsFinite, Zenon
<1>3. /\ portmap' \in [PortmapKey -> Portmap \cup {NONE}]
      /\ \A j \in PortmapKey \ {k} : portmap'[j] = portmap[j]
      /\ IF SharesPort(k)' = {} THEN portmap'[k] = NONE
         ELSE /\ portmap'[k] # NONE
              /\ portmap'[k].nat_ip = portmap[k].nat_ip
              /\ portmap'[k].nat_port = portmap[k].nat_port
              /\ portmap'[k].flow_cnt = Cardinality(SharesPort(k)')
  <2> DEFINE n == Cardinality(SharesPort(k)')
  <2>1. portmap[k] # NONE /\ portmap[k] \in Portmap /\ portmap[k].flow_cnt = n + 1
    BY <1>0, <1>1, <1>2 DEF IInv, CountsConnections, TypeOK
  <2>2. n + 1 \in 0 .. FlowCntMod - 1 /\ n \in Nat
    BY <1>2, <2>1, Zenon DEF Portmap
  <2>3. (portmap[k].flow_cnt + FlowCntMod - 1) % FlowCntMod = n
    <3>1. portmap[k].flow_cnt + FlowCntMod - 1 = n + FlowCntMod
      BY <2>1, <2>2, HashAssumption
    <3>2. (n + FlowCntMod) % FlowCntMod = n
      <4> HIDE DEF n
      <4> QED BY <2>2, HashAssumption
    <3>3. QED BY <3>1, <3>2, Zenon
  <2>4. SharesPort(k)' = {} <=> n = 0
    BY <1>2, FS_EmptySet, Zenon
  <2>5. CASE n = 0
    <3>1. portmap' = [portmap EXCEPT ![k] = NONE]
      BY <1>0, <2>1, <2>3, <2>5, Zenon DEF CountDown
    <3>2. QED BY <1>0, <2>4, <2>5, <3>1, Zenon DEF TypeOK
  <2>6. CASE n # 0
    <3> DEFINE new == [portmap[k] EXCEPT !.flow_cnt = n]
    <3>1. portmap' = [portmap EXCEPT ![k] = new]
      BY <1>0, <2>1, <2>3, <2>6, Zenon DEF CountDown, TypeOK
    <3>2. /\ new \in Portmap /\ new # NONE /\ new.flow_cnt = n
          /\ new.nat_ip = portmap[k].nat_ip /\ new.nat_port = portmap[k].nat_port
      BY <2>1, <2>2, HashAssumption, NatNoneAssumption DEF Portmap
    <3> HIDE DEF new
    <3>3. QED BY <1>0, <2>4, <2>6, <3>1, <3>2, Zenon DEF TypeOK
  <2>7. QED BY <2>5, <2>6, Zenon
<1>4. HeldOnce' /\ OverloadIsHeld'
  <2>1. overload = {Held(d) : d \in Translated} /\ HeldOnce
    BY Zenon DEF IInv, OverloadIsHeld
  <2>2. \A d \in Translated' : d \in Translated /\ Held(d) # Held(c)
    BY <1>0, <1>1, <2>1, Zenon DEF HeldOnce
  <2>3. overload' = {Held(d) : d \in Translated'}
    BY <1>0, <1>1, <2>1, <2>2, Zenon
  <2>4. OverloadIsHeld'
    BY <1>1, <2>3, Zenon DEF OverloadIsHeld
  <2>5. HeldOnce'
    BY <1>1, <2>1, <2>2 DEF HeldOnce
  <2>6. QED BY <2>4, <2>5, Zenon
<1>5. CountsConnections'
  <2> SUFFICES ASSUME NEW j \in PortmapKey
               PROVE  IF SharesPort(j)' = {} THEN portmap'[j] = NONE
                      ELSE portmap'[j] # NONE /\ portmap'[j].flow_cnt = Cardinality(SharesPort(j)')
    BY Zenon DEF CountsConnections
  <2>1. CASE j = k
    BY <1>3, <2>1, Zenon
  <2>2. CASE j # k
    BY <1>1, <1>3, <2>2 DEF IInv, CountsConnections
  <2>3. QED BY <2>1, <2>2, Zenon
<1>6. MappingIsStable'
  <2> SUFFICES ASSUME NEW d \in Translated'
               PROVE  /\ portmap'[KeyOf(d)] # NONE
                      /\ portmap'[KeyOf(d)].nat_ip = nat'[d].nat_ip
                      /\ portmap'[KeyOf(d)].nat_port = nat'[d].nat_port
    BY Zenon DEF MappingIsStable
  <2>1. /\ portmap[KeyOf(d)] # NONE /\ nat'[d] = nat[d] /\ KeyOf(d) \in PortmapKey
        /\ portmap[KeyOf(d)].nat_ip = nat[d].nat_ip /\ portmap[KeyOf(d)].nat_port = nat[d].nat_port
    BY <1>1, Zenon DEF IInv, MappingIsStable, Translated, KeyOf, PortmapKey, Conn
  <2>2. KeyOf(d) = k => SharesPort(k)' # {}
    BY Zenon DEF SharesPort
  <2>3. QED BY <1>3, <2>1, <2>2, Zenon
<1>7. WithinRange'
  BY <1>0, <1>1, Zenon DEF IInv, WithinRange
<1>8. UsedCountsPorts' /\ used' \in [Iface -> Nat]
  <2> SUFFICES ASSUME NEW i \in Iface
               PROVE  used'[i] = Cardinality({d \in Translated' : d.iface = i}) /\ used'[i] \in Nat
    BY <1>0, Zenon DEF UsedCountsPorts, TypeOK
  <2> DEFINE S == {d \in Translated : d.iface = i}
  <2>1. S \in SUBSET Conn /\ used[i] = Cardinality(S)
    BY Zenon DEF IInv, UsedCountsPorts, Translated
  <2>2. IsFiniteSet(S) /\ Cardinality(S) \in Nat /\ IsFiniteSet(S \ {c}) /\ Cardinality(S \ {c}) \in Nat
    BY <2>1, ConnsFinite, Zenon
  <2>3. CASE i = c.iface
    <3>1. {d \in Translated' : d.iface = i} = S \ {c} /\ c \in S
      BY <1>0, <1>1, <2>3, Zenon
    <3>2. Cardinality(S \ {c}) = Cardinality(S) - 1
      <4> HIDE DEF S
      <4> QED BY <2>2, <3>1, FS_RemoveElement, Zenon
    <3>3. used'[i] = used[i] - 1
      BY <1>0, <2>3, Zenon DEF TypeOK
    <3>4. QED BY <2>1, <2>2, <3>1, <3>2, <3>3, Zenon
  <2>4. CASE i # c.iface
    <3>1. {d \in Translated' : d.iface = i} = S
      BY <1>1, <2>4, Zenon
    <3>2. QED BY <1>0, <2>1, <2>2, <2>4, <3>1, Zenon DEF TypeOK
  <2>5. QED BY <2>3, <2>4, Zenon
<1>9. TypeOK'
  BY <1>0, <1>3, <1>8, Zenon DEF TypeOK
<1>10. QED BY <1>4, <1>5, <1>6, <1>7, <1>8, <1>9, Zenon DEF IInv

\* dp_allocate_network_snat_port() keeps the invariant whatever it returns.
LEMMA AllocateIInv ==
  ASSUME IInv, CounterFits, NEW c \in Conn, Allocate(c)
  PROVE  IInv'
<1> DEFINE s == snat[c.iface]
<1>0. /\ TypeOK /\ s \in Snat /\ s # NONE /\ nat[c] = NONE /\ UNCHANGED <<snat, purge>>
      /\ KeyOf(c) \in PortmapKey /\ c.iface \in Iface
  BY DEF IInv, TypeOK, Allocate, Conn, KeyOf, PortmapKey
<1>1. ASSUME UNCHANGED <<portVars, nat, used>>, result' \in {"EEXIST", "ENOENT", "ERROR"}
      PROVE  IInv'
  <2>1. /\ UNCHANGED <<portmap, overload, nat, used, snat, purge>>
        /\ Translated' = Translated /\ (\A d \in Conn : Held(d)' = Held(d))
        /\ \A k \in PortmapKey : SharesPort(k)' = SharesPort(k)
    BY <1>0, <1>1, Zenon DEF portVars, Translated, Held, SharesPort
  <2>2. TypeOK' /\ MappingIsStable' /\ WithinRange' /\ UsedCountsPorts'
    BY <1>1, <2>1, Zenon DEF IInv, TypeOK, MappingIsStable, WithinRange, UsedCountsPorts
  <2>3. HeldOnce' /\ OverloadIsHeld'
    BY <2>1, Zenon DEF IInv, HeldOnce, OverloadIsHeld, Translated, Held
  <2>4. CountsConnections'
    BY <2>1, Zenon DEF IInv, CountsConnections
  <2>5. QED BY <2>2, <2>3, <2>4, Zenon DEF IInv
<1>2. CASE UseExisting(c, s.nat_ip)
  <2> DEFINE k == KeyOf(c)
             p == portmap[k].nat_port
             o == OverloadOf(c, s.nat_ip, p)
             t == [nat_ip |-> s.nat_ip, nat_port |-> p]
  <2>1. CASE o \in overload
    BY <1>1, <1>2, <2>1, Zenon DEF UseExisting
  <2>2. CASE o \notin overload
    <3>1. /\ portmap[k] # NONE /\ overload' = overload \cup {o} /\ CountConnection(k)
          /\ nat' = [nat EXCEPT ![c] = t] /\ used' = [used EXCEPT ![c.iface] = @ + 1]
          /\ result' = "OK"
      BY <1>2, <2>2, Zenon DEF UseExisting
    <3>2. PICK d \in SharesPort(k) : TRUE
      BY <1>0, <3>1, Zenon DEF IInv, CountsConnections
    <3>3. d \in Translated /\ KeyOf(d) = k /\ d.iface = c.iface
      BY <3>2, Zenon DEF SharesPort, KeyOf
    <3>4. /\ portmap[k].nat_ip = nat[d].nat_ip /\ p = nat[d].nat_port
          /\ nat[d].nat_ip = s.nat_ip /\ p >= s.range[1] /\ p < s.range[2]
      BY <3>3, Zenon DEF IInv, MappingIsStable, WithinRange
    <3>5. p \in NatPort /\ t \in Translation
      BY <1>0, <3>1, Zenon DEF TypeOK, Portmap, Translation, Snat
    <3> HIDE DEF p
    <3>6. t.nat_ip = s.nat_ip /\ t.nat_port = p
      OBVIOUS
    <3> HIDE DEF o, t
    <3>7. o = OverloadOf(c, t.nat_ip, p) /\ t = [nat_ip |-> s.nat_ip, nat_port |-> p]
      BY <3>6, Zenon DEF o, t
    <3>8. QED BY <1>0, <2>2, <3>1, <3>4, <3>5, <3>6, <3>7, TranslateIInv, Zenon DEF p
  <2>3. QED BY <2>1, <2>2, Zenon
<1>3. CASE CreateNew(c, s)
  <2>1. CASE FindNewPort(c, s) = {}
    BY <1>1, <1>3, <2>1, Zenon DEF CreateNew
  <2>2. CASE FindNewPort(c, s) # {}
    <3>1. PICK p \in FindNewPort(c, s) :
            /\ portmap[KeyOf(c)] = NONE
            /\ overload' = overload \cup {OverloadOf(c, s.nat_ip, p)}
            /\ portmap' = [portmap EXCEPT ![KeyOf(c)] =
                             [nat_ip |-> s.nat_ip, nat_port |-> p, flow_cnt |-> 1]]
            /\ nat' = [nat EXCEPT ![c] = [nat_ip |-> s.nat_ip, nat_port |-> p]]
            /\ used' = [used EXCEPT ![c.iface] = @ + 1]
            /\ result' = "OK"
      BY <1>3, <2>2, Zenon DEF CreateNew
    <3>2. /\ p \in NatPort /\ p >= s.range[1] /\ p < s.range[2]
          /\ OverloadOf(c, s.nat_ip, p) \notin overload
      BY <1>0, FoundPort, Zenon
    <3> DEFINE o == OverloadOf(c, s.nat_ip, p)
               t == [nat_ip |-> s.nat_ip, nat_port |-> p]
    <3>3. t \in Translation /\ t.nat_ip = s.nat_ip /\ t.nat_port = p
      BY <1>0, <3>2, Zenon DEF Translation, Snat
    <3> HIDE DEF o, t
    <3>4. o = OverloadOf(c, t.nat_ip, p) /\ t = [nat_ip |-> s.nat_ip, nat_port |-> p]
      BY <3>3, Zenon DEF o, t
    <3>5. QED BY <1>0, <3>1, <3>2, <3>3, <3>4, TranslateIInv, Zenon DEF o, t
  <2>3. QED BY <2>1, <2>2, Zenon
<1>4. CASE OutOfMemory(c, s)
  BY <1>1, <1>4, Zenon DEF OutOfMemory
<1>5. QED BY <1>2, <1>3, <1>4, Zenon DEF Allocate

-------------------------------------------------------------------------------
(* The theorems. *)

\* Nothing is translated at start.
LEMMA InitIInv == ASSUME Init PROVE IInv
<1>1. /\ Translated = {} /\ \A k \in PortmapKey : SharesPort(k) = {}
      /\ \A i \in Iface : {c \in Translated : c.iface = i} = {}
  BY Zenon DEF Init, Translated, SharesPort
<1>2. TypeOK
  BY Zenon DEF Init, TypeOK
<1>3. UsedCountsPorts
  BY <1>1, FS_EmptySet, Zenon DEF Init, UsedCountsPorts
<1>4. HeldOnce /\ OverloadIsHeld /\ MappingIsStable /\ WithinRange
  BY <1>1, Zenon DEF Init, HeldOnce, OverloadIsHeld, MappingIsStable, WithinRange
<1>5. CountsConnections
  BY <1>1, Zenon DEF Init, CountsConnections
<1>6. QED BY <1>2, <1>3, <1>4, <1>5, Zenon DEF IInv

\* Every step keeps the invariant.
LEMMA NextIInv == ASSUME IInv, CounterFits, [Next]_vars PROVE IInv'
<1>1. ASSUME UNCHANGED <<portmap, overload, nat, used, result>>,
             snat' \in [Iface -> Snat \cup {NONE}], purge' \in Iface \cup {NONE},
             \A c \in Translated : snat'[c.iface] = snat[c.iface]
      PROVE  IInv'
  <2>1. /\ Translated' = Translated /\ (\A d \in Conn : Held(d)' = Held(d))
        /\ \A k \in PortmapKey : SharesPort(k)' = SharesPort(k)
    BY <1>1, Zenon DEF Translated, Held, SharesPort
  <2>2. TypeOK' /\ MappingIsStable' /\ UsedCountsPorts'
    BY <1>1, <2>1, Zenon DEF IInv, TypeOK, MappingIsStable, UsedCountsPorts
  <2>3. HeldOnce' /\ OverloadIsHeld'
    BY <1>1, <2>1 DEF IInv, HeldOnce, OverloadIsHeld, Translated, Held
  <2>4. CountsConnections'
    BY <1>1, <2>1, Zenon DEF IInv, CountsConnections
  <2>5. WithinRange'
    BY <1>1, <2>1, Zenon DEF IInv, WithinRange
  <2>6. QED BY <2>2, <2>3, <2>4, <2>5, Zenon DEF IInv
<1>2. TypeOK /\ \A c \in Translated : c.iface \in Iface /\ snat[c.iface] # NONE
  BY Zenon DEF IInv, WithinRange, Translated, Conn
<1>3. ASSUME NEW c \in Conn, Allocate(c) PROVE IInv'
  BY <1>3, AllocateIInv, Zenon
<1>4. ASSUME NEW c \in Conn, Age(c) \/ RemoveNatFlow(c) PROVE IInv'
  BY <1>4, ReleaseIInv, Zenon DEF Age, RemoveNatFlow
<1>5. ASSUME NEW i \in Iface, DeleteNat(i) PROVE IInv'
  BY <1>1, <1>2, <1>5, Zenon DEF DeleteNat, portVars, TypeOK
<1>6. ASSUME NEW i \in Iface, NEW s \in Snat, CreateNat(i, s) PROVE IInv'
  <2>1. \A c \in Translated : snat'[c.iface] = snat[c.iface]
    BY <1>2, <1>6, Zenon DEF CreateNat, TypeOK
  <2>2. snat' \in [Iface -> Snat \cup {NONE}] /\ purge' \in Iface \cup {NONE}
    BY <1>2, <1>6, Zenon DEF CreateNat, TypeOK
  <2>3. QED BY <1>1, <1>6, <2>1, <2>2, Zenon DEF CreateNat, portVars
<1>7. CASE DelIfaceNatIp
  <2>1. \A c \in Translated : snat'[c.iface] = snat[c.iface]
    BY <1>2, <1>7, Zenon DEF DelIfaceNatIp, TypeOK, Translated
  <2>2. snat' \in [Iface -> Snat \cup {NONE}] /\ purge' \in Iface \cup {NONE}
    BY <1>2, <1>7, Zenon DEF DelIfaceNatIp, TypeOK
  <2>3. QED BY <1>1, <1>7, <2>1, <2>2, Zenon DEF DelIfaceNatIp, portVars
<1>8. CASE UNCHANGED vars
  BY <1>1, <1>2, <1>8, Zenon DEF vars, portVars, TypeOK
<1>9. QED BY <1>3, <1>4, <1>5, <1>6, <1>7, <1>8, Zenon DEF Next

\* The port tables, the conntrack entries, the configuration and the statistics agree in every
\* reachable state.
THEOREM Invariance == ASSUME CounterFits PROVE Spec => []IInv
<1>1. Init => IInv
  BY InitIInv, Zenon
<1>2. IInv /\ [Next]_vars => IInv'
  BY NextIInv, Zenon
<1>3. QED BY <1>1, <1>2, PTL DEF Spec

\* Two TCP or UDP connections never look the same to a remote endpoint.
THEOREM RepliesUnambiguousAlways == ASSUME CounterFits PROVE Spec => []RepliesUnambiguous
<1>1. IInv => RepliesUnambiguous
  <2> SUFFICES ASSUME IInv, NEW c \in Translated, NEW d \in Translated,
                      c.dst = d.dst, c.dst \notin Icmp, nat[c] = nat[d]
               PROVE  c = d
    BY Zenon DEF RepliesUnambiguous
  <2>1. Held(c) = Held(d)
    BY Zenon DEF Held, OverloadOf
  <2>2. QED BY <2>1, Zenon DEF IInv, HeldOnce
<1>2. QED BY <1>1, Invariance, PTL

\* The counter of a source port counts its connections.
THEOREM CountsConnectionsAlways == ASSUME CounterFits PROVE Spec => []CountsConnections
<1>1. IInv => CountsConnections
  BY Zenon DEF IInv
<1>2. QED BY <1>1, Invariance, PTL

\* dp_use_existing_portmap_entry(): all connections of a source port leave from the NAT address and
\* port the portmap table remembers, as long as one of them lives.
THEOREM MappingStaysStable == ASSUME CounterFits PROVE Spec => []MappingIsStable
<1>1. IInv => MappingIsStable
  BY Zenon DEF IInv
<1>2. QED BY <1>1, Invariance, PTL

\* The overload table holds what live connections use and nothing else: a failed allocation leaves
\* nothing behind, dp_remove_network_snat_port() forgets nothing.
THEOREM OverloadStaysExact == ASSUME CounterFits PROVE Spec => []OverloadIsHeld
<1>1. IInv => OverloadIsHeld
  BY Zenon DEF IInv
<1>2. QED BY <1>1, Invariance, PTL

\* A connection leaves with the NAT address its interface has now, and a port of its range.
THEOREM TranslationsInRange == ASSUME CounterFits PROVE Spec => []WithinRange
<1>1. IInv => WithinRange
  BY Zenon DEF IInv
<1>2. QED BY <1>1, Invariance, PTL

-----------------------------------------------------------------------------
(* The null pointer is no flow_value. *)
FlowNone == NONE \notin Flow /\ NONE \notin FlowValue /\ NONE \notin Packet

(* The inductive invariant of the flow table, whatever fails: an entry is  *)
(* found under one of the two keys of its flow; a reference is counted for *)
(* each entry; a flow that has not been translated has both its keys or is *)
(* being removed; what a packet of the burst was given is still what the   *)
(* table holds, since nothing is removed while there is a burst.           *)
PortTypes ==
  /\ portmap \in [PortmapKey -> Portmap \cup {NONE}]
  /\ snat \in [Iface -> Snat \cup {NONE}]
  /\ nat \in [Conn -> Translation \cup {NONE}]
  /\ purge \in Iface \cup {NONE}

FlowTypes ==
  /\ flows \in [Flow -> FlowValue \cup {NONE}]
  /\ table \in [Key -> Flow \cup {NONE}]
  /\ cache \in Packet \cup {NONE}
  /\ sweep \subseteq Flow
  /\ failures \in Nat

Pending(p) ==
  /\ p.key.kind \in {"out", "wire"} /\ table[p.key] = p.flow
  /\ p.key.kind = "out" => snat[p.key.conn.iface] # NONE

Phases ==
  /\ burst \in Seq({p \in Packet : Pending(p)})
  /\ burst = <<>> \/ (sweep = {} /\ purge = NONE)
  /\ sweep = {} \/ purge = NONE

Shape ==
  \A h \in Live :
    /\ flows[h].org.kind \in {"out", "wire"}
    /\ ~flows[h].snat => flows[h].reply = Inverted(flows[h].org)
    /\ flows[h].snat => flows[h].org.kind = "out" /\ flows[h].reply.kind = "wire"

Entries ==
  \A k \in Key : table[k] # NONE => table[k] \in Live /\ k \in {flows[table[k]].org, flows[table[k]].reply}

Refs ==
  \A h \in Live :
    /\ flows[h].ref >= 1
    /\ table[flows[h].org] = h /\ table[flows[h].reply] = h => flows[h].ref >= 2

Paired ==
  \A h \in Live : ~flows[h].snat /\ flows[h].org.kind = "out" /\ h \notin sweep =>
    (table[flows[h].org] = h => table[flows[h].reply] = h)

FlowInv ==
  /\ PortTypes /\ FlowTypes /\ Phases /\ Shape /\ Entries /\ Refs /\ Paired /\ FlowsCacheIsFresh

-------------------------------------------------------------------------------
(* Keys. *)
LEMMA KeyKinds ==
  ASSUME NEW k \in Key
  PROVE  /\ k.kind \in {"out", "in", "wire", "back"}
         /\ k.kind \in {"out", "in"} => k.conn \in L4Conn /\ k = [kind |-> k.kind, conn |-> k.conn]
         /\ k.kind \in {"wire", "back"} => k.tuple \in Tuple /\ k = [kind |-> k.kind, tuple |-> k.tuple]
  BY Zenon DEF Key

LEMMA KeyForms ==
  /\ \A c \in L4Conn : /\ Out(c) \in Key /\ Out(c).kind = "out" /\ Out(c).conn = c
                       /\ In(c) \in Key /\ In(c).kind = "in" /\ In(c).conn = c
                       /\ Inverted(Out(c)) = In(c)
  /\ \A o \in Tuple : /\ Wire(o) \in Key /\ Wire(o).kind = "wire" /\ Wire(o).tuple = o
                      /\ Inverted(Wire(o)) \in Key /\ Inverted(Wire(o)).kind = "back"
<1>1. ASSUME NEW c \in L4Conn
      PROVE  /\ Out(c) \in Key /\ Out(c).kind = "out" /\ Out(c).conn = c
             /\ In(c) \in Key /\ In(c).kind = "in" /\ In(c).conn = c
  BY Zenon DEF Key, Out, In
<1>2. ASSUME NEW c \in L4Conn PROVE Inverted(Out(c)) = In(c)
  BY DEF Inverted, Out, In
<1>3. ASSUME NEW o \in Tuple PROVE Wire(o) \in Key /\ Wire(o).kind = "wire" /\ Wire(o).tuple = o
  BY Zenon DEF Key, Wire
<1>4. ASSUME NEW o \in Tuple PROVE Inverted(Wire(o)) = [kind |-> "back", tuple |-> o]
  BY DEF Inverted, Wire
<1>5. \A o \in Tuple : [kind |-> "back", tuple |-> o] \in Key
  BY Zenon DEF Key
<1> QED BY <1>1, <1>2, <1>3, <1>4, <1>5

(* The keys conntrack builds: of a packet of an interface, or of one that  *)
(* arrives for a NAT address.                                              *)
LEMMA KeySplit ==
  ASSUME NEW k \in Key
  PROVE  /\ k.kind = "out" => k.conn \in L4Conn /\ Out(k.conn) = k
         /\ k.kind = "in" => k.conn \in L4Conn /\ In(k.conn) = k
         /\ k.kind = "wire" => k.tuple \in Tuple /\ Wire(k.tuple) = k
         /\ k.kind \in {"out", "wire"} =>
              /\ Inverted(k) \in Key /\ Inverted(k) # k /\ Inverted(k).kind \in {"in", "back"}
              /\ k.kind = "out" <=> Inverted(k).kind = "in"
              /\ k.kind = "out" => Inverted(k) = In(k.conn)
<1>1. /\ k.kind = "out" => k.conn \in L4Conn /\ Out(k.conn) = k
      /\ k.kind = "in" => k.conn \in L4Conn /\ In(k.conn) = k
      /\ k.kind = "wire" => k.tuple \in Tuple /\ Wire(k.tuple) = k
  BY KeyKinds, Zenon DEF Out, In, Wire
<1>2. CASE k.kind = "out"
  <2>1. PICK c \in L4Conn : k = Out(c)
    BY <1>1, <1>2, Zenon
  <2>2. Inverted(k) = In(c) /\ k.conn = c
    BY <2>1, KeyForms, Zenon
  <2> QED BY <1>1, <1>2, <2>2, KeyForms
<1>3. CASE k.kind = "wire"
  <2>1. PICK o \in Tuple : k = Wire(o)
    BY <1>1, <1>3, Zenon
  <2> QED BY <1>1, <1>3, <2>1, KeyForms, Zenon
<1> QED BY <1>1, <1>2, <1>3, Zenon

(* Packets of different connections have different inverse keys. *)
LEMMA InverseUnique ==
  ASSUME NEW k \in Key, NEW q \in Key, k.kind \in {"out", "wire"}, q.kind = "out",
         Inverted(k) = Inverted(q)
  PROVE  k = q
<1>1. k.kind = "out" /\ In(k.conn) = In(q.conn) /\ k.conn \in L4Conn /\ q.conn \in L4Conn
  BY KeySplit
<1>2. k.conn = q.conn
  BY <1>1, KeyForms
<1>3. Out(k.conn) = k /\ Out(q.conn) = q
  BY <1>1, KeySplit, Zenon
<1> QED BY <1>2, <1>3, Zenon

LEMMA ConnTypes ==
  ASSUME NEW c \in L4Conn
  PROVE  c \in Conn /\ c.iface \in Iface /\ KeyOf(c) \in PortmapKey /\ c.dst \notin Icmp
  BY Zenon DEF L4Conn, Conn, KeyOf, PortmapKey

LEMMA NatTuple ==
  ASSUME NEW c \in L4Conn, NEW ip \in NatIp, NEW p \in NatPort
  PROVE  OverloadOf(c, ip, p) \in Tuple
<1>1. OverloadOf(c, ip, p) = [nat_ip |-> ip, nat_port |-> p, dst |-> c.dst, ident |-> NONE]
  BY ConnTypes, Zenon DEF OverloadOf
<1>2. c.dst \in Endpoint /\ c.dst \notin Icmp
  BY Zenon DEF L4Conn, Conn
<1> QED BY <1>1, <1>2 DEF Tuple, OverloadKey

-------------------------------------------------------------------------------
(* The table and the flows of a state that satisfies the invariant.        *)
LEMMA LiveFlow ==
  ASSUME FlowNone, FlowTypes, NEW h \in Live
  PROVE  /\ h \in Flow /\ flows[h] \in FlowValue /\ flows[h] # NONE /\ h # NONE
         /\ flows[h].org \in Key /\ flows[h].reply \in Key /\ flows[h].ref \in Nat
         /\ flows[h].snat \in BOOLEAN
  BY Zenon DEF Live, FlowTypes, FlowValue, FlowNone

(* The two keys of a flow differ. *)
LEMMA TwoKeys ==
  ASSUME FlowNone, FlowTypes, Shape, NEW h \in Live
  PROVE  /\ flows[h].org # flows[h].reply
         /\ flows[h].org.kind = "out" => flows[h].reply.kind \in {"in", "wire"}
         /\ flows[h].reply.kind \in {"in", "back", "wire"}
  BY LiveFlow, KeySplit DEF Shape

(* An entry under the key of an interface's packet is that of the flow     *)
(* that began with it.                                                     *)
LEMMA OutEntry ==
  ASSUME FlowNone, FlowTypes, Shape, Entries, NEW k \in Key, table[k] # NONE
  PROVE  /\ table[k] \in Live
         /\ k.kind = "out" => flows[table[k]].org = k
         /\ k.kind = "in" => /\ flows[table[k]].reply = k /\ ~flows[table[k]].snat
                             /\ flows[table[k]].org = Out(k.conn)
<1> DEFINE h == table[k]
<1>1. h \in Live /\ k \in {flows[h].org, flows[h].reply}
  BY Zenon DEF Entries
<1>2. flows[h].reply.kind \in {"in", "back", "wire"} /\ flows[h].org.kind \in {"out", "wire"}
  BY <1>1, TwoKeys, Zenon DEF Shape
<1>3. k.kind = "out" => flows[h].org = k
  BY <1>1, <1>2, Zenon
<1>4. ASSUME k.kind = "in" PROVE flows[h].reply = k /\ ~flows[h].snat /\ flows[h].org = Out(k.conn)
  <2>1. flows[h].reply = k /\ ~flows[h].snat
    BY <1>1, <1>2, <1>4, LiveFlow, Zenon DEF Shape
  <2>2. k = Inverted(flows[h].org) /\ flows[h].org \in Key
    BY <1>1, <2>1, LiveFlow, Zenon DEF Shape
  <2>3. flows[h].org.kind = "out"
    <3>1. flows[h].org.kind = "wire" => Inverted(flows[h].org).kind = "back"
      BY <2>2, KeySplit, KeyForms, Zenon
    <3> QED BY <1>2, <1>4, <2>2, <3>1, Zenon
  <2>4. Out(flows[h].org.conn) = flows[h].org /\ flows[h].org.conn \in L4Conn
    BY <2>2, <2>3, KeySplit, Zenon
  <2>5. k.conn = flows[h].org.conn
    <3>1. k = In(flows[h].org.conn)
      BY <2>2, <2>3, KeySplit, Zenon
    <3> QED BY <2>4, <3>1, KeyForms
  <2> QED BY <2>1, <2>4, <2>5, Zenon
<1> QED BY <1>1, <1>3, <1>4, Zenon

(* dp_get_flow_val() finds what the table holds. *)
LEMMA LookupIsTable ==
  ASSUME FlowNone, FlowTypes, FlowsCacheIsFresh, NEW k \in Key
  PROVE  Lookup(k) = table[k] /\ (Lookup(k) # NONE => Lookup(k) \in Flow)
  BY Zenon DEF FlowNone, FlowTypes, FlowsCacheIsFresh, Lookup

(* A burst may lose any of its packets. *)
LEMMA Fewer ==
  ASSUME NEW S, burst \in Seq(S), NEW n \in 1 .. Len(burst)
  PROVE  Without(n) \in Seq(S)
  BY DEF Without

-------------------------------------------------------------------------------
(* conntrack_node.c *)

(* A packet that joins the burst, with what the table holds for it. *)
LEMMA PacketJoins ==
  ASSUME FlowNone, FlowTypes, FlowTypes', Phases, UNCHANGED <<snat, purge, sweep>>,
         sweep = {}, purge = NONE,
         NEW k \in Key, NEW h \in Flow, Found(k, h), table'[k] = h,
         k.kind \in {"out", "wire"}, k.kind = "out" => snat[k.conn.iface] # NONE,
         \A j \in Key : j.kind \in {"out", "wire"} /\ table[j] # NONE => table'[j] = table[j]
  PROVE  Phases' /\ FlowsCacheIsFresh'
<1> DEFINE S == {p \in Packet : Pending(p)}
           T == {p \in Packet : Pending(p)'}
           new == [key |-> k, flow |-> h]
<1>1. new \in Packet /\ new.key = k /\ new.flow = h
  BY Zenon DEF Packet
<1>2. Pending(new)'
  BY <1>1, Zenon DEF Pending
<1>3. S \subseteq T
  <2> SUFFICES ASSUME NEW p \in Packet, Pending(p) PROVE Pending(p)'
    OBVIOUS
  <2>1. p.key \in Key /\ p.flow \in Flow /\ p.flow # NONE
    BY Zenon DEF Packet, FlowNone
  <2> QED BY <2>1, Zenon DEF Pending
<1>4. burst \in Seq(S) /\ burst' = Append(burst, new)
  BY Zenon DEF Phases, Found
<1> HIDE DEF S, T, new
<1>5. burst' \in Seq(T)
  <2>1. burst \in Seq(T)
    BY <1>3, <1>4
  <2>2. new \in T
    BY <1>1, <1>2, Zenon DEF T
  <2> QED BY <1>4, <2>1, <2>2
<1>6. Phases'
  BY <1>5, Zenon DEF Phases, T
<1>7. FlowsCacheIsFresh'
  <2>1. cache' = [key |-> k, flow |-> h]
    BY Zenon DEF Found
  <2>2. cache'.key = k /\ cache'.flow = h
    BY <2>1, Zenon
  <2> QED BY <2>2, Zenon DEF FlowsCacheIsFresh
<1> QED BY <1>6, <1>7, Zenon

(* A key that is known. *)
LEMMA HitKeeps ==
  ASSUME FlowNone, FlowInv, NEW k \in Key, Conntrack(k), Hit(k),
         k.kind \in {"out", "wire"}, k.kind = "out" => snat[k.conn.iface] # NONE
  PROVE  FlowInv'
<1>1. table[k] \in Flow /\ Found(k, table[k]) /\ UNCHANGED <<flows, table, failures>>
  BY LookupIsTable, Zenon DEF FlowInv, Hit
<1>2. UNCHANGED <<portmap, snat, nat, purge, sweep>> /\ sweep = {} /\ purge = NONE
  BY Zenon DEF Conntrack, CanReceive, vars, portVars
<1>3. cache' \in Packet
  BY <1>1, Zenon DEF Found, Packet
<1>4. PortTypes' /\ FlowTypes'
  BY <1>1, <1>2, <1>3, Zenon DEF FlowInv, PortTypes, FlowTypes
<1>5. Phases' /\ FlowsCacheIsFresh'
  BY <1>1, <1>2, <1>4, PacketJoins, Zenon DEF FlowInv
<1>6. Shape' /\ Entries' /\ Refs' /\ Paired'
  BY <1>1, <1>2, Zenon DEF FlowInv, Shape, Entries, Refs, Paired, Live
<1> QED BY <1>4, <1>5, <1>6, Zenon DEF FlowInv

(* A key that is not: the new flow is found under it and its inverse. *)
Inserted(k, h) ==
  /\ flows[h] = NONE /\ table[k] = NONE
  /\ NewFlow(k, h)
  /\ table' = [table EXCEPT ![k] = h, ![Inverted(k)] = h]
  /\ Found(k, h)
  /\ UNCHANGED failures

InsertEffect(k, h) ==
  /\ flows'[h].org = k /\ flows'[h].reply = Inverted(k)
  /\ flows'[h].ref = 2 /\ flows'[h].snat = FALSE
  /\ \A g \in Flow : g # h => flows'[g] = flows[g]
  /\ table'[k] = h /\ table'[Inverted(k)] = h
  /\ \A j \in Key : j # k /\ j # Inverted(k) => table'[j] = table[j]
  /\ Live' = Live \cup {h} /\ h \notin Live
  /\ \A j \in Key : table[j] # h

LEMMA InsertSteps ==
  ASSUME FlowNone, FlowInv, NEW k \in Key, k.kind \in {"out", "wire"}, NEW h \in Flow, Inserted(k, h),
         UNCHANGED sweep
  PROVE  FlowTypes' /\ InsertEffect(k, h)
<1> DEFINE f == [org |-> k, reply |-> Inverted(k), ref |-> 2, snat |-> FALSE]
<1>1. Inverted(k) \in Key /\ Inverted(k) # k /\ h # NONE
  BY KeySplit, Zenon DEF FlowNone
<1>2. flows' = [flows EXCEPT ![h] = f] /\ table' = [table EXCEPT ![k] = h, ![Inverted(k)] = h]
  BY Zenon DEF Inserted, NewFlow
<1>3. f \in FlowValue
  BY <1>1, Zenon DEF FlowValue
<1>4. f.org = k /\ f.reply = Inverted(k) /\ f.ref = 2 /\ f.snat = FALSE
  OBVIOUS
<1> HIDE DEF f
<1>5. f # NONE
  BY <1>3, Zenon DEF FlowNone
<1>6. flows \in [Flow -> FlowValue \cup {NONE}] /\ table \in [Key -> Flow \cup {NONE}] /\ sweep \subseteq Flow
  BY Zenon DEF FlowInv, FlowTypes
<1>7. flows'[h] = f /\ (\A g \in Flow : g # h => flows'[g] = flows[g])
      /\ flows' \in [Flow -> FlowValue \cup {NONE}]
  BY <1>2, <1>3, <1>6, Zenon
<1>8. /\ table'[k] = h /\ table'[Inverted(k)] = h
      /\ \A j \in Key : j # k /\ j # Inverted(k) => table'[j] = table[j]
      /\ table' \in [Key -> Flow \cup {NONE}]
  <2> DEFINE i == Inverted(k)
  <2>1. i \in Key /\ i # k
    BY <1>1, Zenon
  <2>2. table' = [[table EXCEPT ![k] = h] EXCEPT ![i] = h]
    BY <1>2, Zenon
  <2> HIDE DEF i
  <2>3. /\ table'[k] = h /\ table'[i] = h /\ \A j \in Key : j # k /\ j # i => table'[j] = table[j]
        /\ table' \in [Key -> Flow \cup {NONE}]
    BY <1>6, <2>1, <2>2, Zenon
  <2> QED BY <2>3, Zenon DEF i
<1>9. Live' = Live \cup {h} /\ h \notin Live
  BY <1>5, <1>7, Zenon DEF Live, Inserted
<1>10. \A j \in Key : table[j] # h
  BY <1>1, <1>9, Zenon DEF FlowInv, Entries
<1>11. cache' \in Packet /\ failures' \in Nat /\ sweep' \subseteq Flow
  BY Zenon DEF FlowInv, FlowTypes, Inserted, Found, Packet, Conntrack
<1>12. FlowTypes'
  BY <1>6, <1>7, <1>8, <1>11, Zenon DEF FlowTypes, FlowInv
<1>13. InsertEffect(k, h)
  BY <1>4, <1>7, <1>8, <1>9, <1>10, Zenon DEF InsertEffect
<1> QED BY <1>12, <1>13, Zenon

LEMMA InsertKeeps ==
  ASSUME FlowNone, FlowInv, NEW k \in Key, Conntrack(k), k.kind \in {"out", "wire"},
         k.kind = "out" => snat[k.conn.iface] # NONE, NEW h \in Flow, Inserted(k, h)
  PROVE  FlowInv'
<1> DEFINE i == Inverted(k)
<1>1. i \in Key /\ i # k /\ i.kind \in {"in", "back"} /\ (k.kind = "out" => i.kind = "in") /\ h # NONE
  BY KeySplit, Zenon DEF FlowNone
<1>2. UNCHANGED <<portmap, snat, nat, purge, sweep>> /\ sweep = {} /\ purge = NONE
  BY Zenon DEF Conntrack, CanReceive, vars, portVars
<1>0. FlowTypes' /\ InsertEffect(k, h)
  BY <1>2, InsertSteps, Zenon
<1>3. /\ flows'[h].org = k /\ flows'[h].reply = i /\ flows'[h].ref = 2 /\ flows'[h].snat = FALSE
      /\ table'[k] = h /\ table'[i] = h
  BY <1>0, Zenon DEF InsertEffect
<1>4. \A g \in Flow : g # h => flows'[g] = flows[g]
  BY <1>0, Zenon DEF InsertEffect
<1>5. \A j \in Key : j # k /\ j # i => table'[j] = table[j]
  BY <1>0, Zenon DEF InsertEffect
<1>6. Live' = Live \cup {h} /\ h \notin Live /\ \A j \in Key : table[j] # h
  BY <1>0, Zenon DEF InsertEffect
<1>7. PortTypes'
  BY <1>2, Zenon DEF FlowInv, PortTypes
<1> HIDE DEF i
<1>8. Phases' /\ FlowsCacheIsFresh'
  <2>1. \A j \in Key : j.kind \in {"out", "wire"} /\ table[j] # NONE => table'[j] = table[j]
    <3>1. table[k] = NONE
      BY Zenon DEF Inserted
    <3> QED BY <1>1, <1>5, <3>1, Zenon
  <2>2. Found(k, h)
    BY Zenon DEF Inserted
  <2> QED BY <1>0, <1>2, <1>3, <2>1, <2>2, PacketJoins, SMTT(30) DEF FlowInv
<1>9. ASSUME NEW g \in Live
      PROVE  /\ g \in Flow /\ g # h /\ flows'[g] = flows[g]
             /\ flows[g].org \in Key /\ flows[g].reply \in Key
             /\ \A j \in Key : table'[j] = g => table[j] = g
  <2>1. g \in Flow /\ g # h /\ flows[g].org \in Key /\ flows[g].reply \in Key
    BY <1>6, LiveFlow, Zenon DEF FlowInv
  <2> QED BY <1>3, <1>4, <1>5, <2>1, Zenon
<1>10. Shape'
  <2>1. \A g \in Live : flows'[g] = flows[g]
    BY <1>9, Zenon
  <2>2. flows'[h].reply = Inverted(flows'[h].org) /\ flows'[h].org.kind \in {"out", "wire"} /\ ~flows'[h].snat
    BY <1>3, Zenon DEF i
  <2> QED BY <1>6, <2>1, <2>2 DEF FlowInv, Shape
<1>11. Entries'
  <2> SUFFICES ASSUME NEW j \in Key, table'[j] # NONE
               PROVE  table'[j] \in Live' /\ j \in {flows'[table'[j]].org, flows'[table'[j]].reply}
    BY Zenon DEF Entries
  <2>1. CASE j = k \/ j = i
    BY <1>3, <1>6, <2>1, Zenon
  <2>2. CASE j # k /\ j # i
    <3>1. table'[j] = table[j] /\ table[j] \in Live /\ j \in {flows[table[j]].org, flows[table[j]].reply}
      BY <1>5, <2>2, Zenon DEF FlowInv, Entries
    <3> QED BY <1>6, <1>9, <3>1
  <2> QED BY <2>1, <2>2, Zenon
<1>12. Refs'
  <2>1. flows'[h].ref >= 1 /\ flows'[h].ref >= 2
    BY <1>3
  <2> QED BY <1>6, <1>9, <2>1 DEF FlowInv, Refs
<1>13. Paired'
  <2>1. ASSUME NEW g \in Live, ~flows[g].snat, flows[g].org.kind = "out",
               table'[flows[g].org] = g, g \notin sweep
        PROVE  table'[flows[g].reply] = g
    <3> DEFINE r == flows[g].reply
               q == flows[g].org
    <3>1. table[q] = g /\ r \in Key /\ q \in Key /\ g # h
      BY <1>9, <2>1, Zenon
    <3>2. table[r] = g
      BY <2>1, <3>1, Zenon DEF FlowInv, Paired
    <3>3. r = Inverted(q) /\ q.kind = "out"
      BY <2>1, Zenon DEF FlowInv, Shape
    <3> HIDE DEF r, q
    <3>4. r # k
      BY <3>1, <3>3, KeySplit, Zenon
    <3>5. r # i
      <4> SUFFICES ASSUME r = i PROVE FALSE
        OBVIOUS
      <4>1. Inverted(k) = Inverted(q) /\ q \in Key /\ q.kind = "out"
        BY <3>1, <3>3, Zenon DEF i
      <4>2. k = q
        BY <4>1, InverseUnique, Zenon
      <4> QED BY <1>3, <2>1, <3>1, <4>2, Zenon DEF q
    <3>6. table'[r] = table[r]
      BY <1>5, <3>1, <3>4, <3>5, Zenon
    <3> QED BY <3>2, <3>6, Zenon DEF r
  <2> QED BY <1>2, <1>3, <1>6, <1>9, <2>1 DEF Paired
<1> QED BY <1>0, <1>7, <1>8, <1>10, <1>11, <1>12, <1>13 DEF FlowInv

(* A step that leaves the table and the flows as they are. *)
LEMMA SameTable ==
  ASSUME FlowNone, FlowInv, UNCHANGED <<flows, table>>, cache' \in {cache, NONE},
         sweep \subseteq sweep', sweep' \subseteq Flow, failures' \in Nat, PortTypes', Phases'
  PROVE  FlowInv'
<1>1. FlowTypes'
  BY Zenon DEF FlowInv, FlowTypes
<1>2. Shape' /\ Entries' /\ Refs'
  BY Zenon DEF FlowInv, Shape, Entries, Refs, Live
<1>3. Paired'
  BY Zenon DEF FlowInv, Paired, Live
<1>4. FlowsCacheIsFresh'
  BY Zenon DEF FlowInv, FlowsCacheIsFresh
<1> QED BY <1>1, <1>2, <1>3, <1>4, Zenon DEF FlowInv

(* conntrack_node.c, whatever it finds and whatever the table refuses. *)
LEMMA ConntrackKeeps ==
  ASSUME FlowNone, FlowInv, NEW k \in Key, Conntrack(k),
         k.kind \in {"out", "wire"}, k.kind = "out" => snat[k.conn.iface] # NONE
  PROVE  FlowInv'
<1>1. CASE Hit(k)
  BY <1>1, HitKeeps, Zenon
<1>2. CASE Insert(k)
  <2>1. table[k] = NONE
    BY <1>2, LookupIsTable, Zenon DEF FlowInv, Insert
  <2>2. ASSUME NEW h \in Flow, flows[h] = NONE, NewFlow(k, h),
               table' = [table EXCEPT ![k] = h, ![Inverted(k)] = h], Found(k, h), UNCHANGED failures
        PROVE  FlowInv'
    <3>1. Inserted(k, h)
      BY <2>1, <2>2, Zenon DEF Inserted
    <3> QED BY <3>1, InsertKeeps, Zenon
  <2>3. ASSUME failures' = failures + 1, cache' \in {cache, Flushed}, UNCHANGED <<flows, table, burst>>
        PROVE  FlowInv'
    <3>1. UNCHANGED <<portmap, snat, nat, purge, sweep>>
      BY Zenon DEF Conntrack, vars, portVars
    <3>2. PortTypes' /\ Phases' /\ failures' \in Nat /\ sweep' \subseteq Flow
      BY <2>3, <3>1 DEF FlowInv, PortTypes, FlowTypes, Phases, Pending
    <3> QED BY <2>3, <3>1, <3>2, SameTable, Zenon DEF Flushed
  <2> QED BY <1>2, <2>2, <2>3, Zenon DEF Insert
<1> QED BY <1>1, <1>2, Zenon DEF Conntrack

-------------------------------------------------------------------------------
(* dnat_node.c and snat_node.c *)

(* What the burst holds. *)
LEMMA InBurst ==
  ASSUME FlowNone, FlowInv, NEW n \in 1 .. Len(burst)
  PROVE  /\ burst[n] \in Packet /\ burst[n].key \in Key /\ burst[n].flow \in Flow
         /\ burst[n].key.kind \in {"out", "wire"} /\ table[burst[n].key] = burst[n].flow
         /\ burst[n].key.kind = "out" => snat[burst[n].key.conn.iface] # NONE
         /\ sweep = {} /\ purge = NONE
<1>1. burst[n] \in {p \in Packet : Pending(p)} /\ burst # <<>>
  BY DEF FlowInv, Phases
<1> QED BY <1>1, Zenon DEF FlowInv, Phases, Pending, Packet

LEMMA DnatKeeps == ASSUME FlowNone, FlowInv, DnatNode PROVE FlowInv'
<1>0. PICK n \in Inbound : Done(n) /\ UNCHANGED <<vars, flows, table, cache, sweep, failures>>
  BY Zenon DEF DnatNode
<1>1. n \in 1 .. Len(burst)
  BY DEF Inbound, FlowInv, Phases
<1>2. /\ UNCHANGED <<flows, table, cache, sweep, failures, portmap, snat, nat, purge>>
      /\ burst' = Without(n)
  BY <1>0, Zenon DEF Done, vars, portVars
<1>3. sweep = {} /\ purge = NONE
  BY <1>1, InBurst, Zenon
<1>4. burst' \in Seq({p \in Packet : Pending(p)})
  BY <1>1, <1>2, Fewer, Zenon DEF FlowInv, Phases
<1>5. Phases'
  BY <1>2, <1>3, <1>4, Zenon DEF Phases, Pending
<1> QED BY <1>2, <1>5, SameTable, Zenon DEF FlowInv, PortTypes, FlowTypes

-------------------------------------------------------------------------------
(* Removal of flows. *)

(* dp_free_network_nat_port() *)
LEMMA FreedPortTypes ==
  ASSUME FlowNone, PortTypes, NEW f \in FlowValue, f.snat => f.org.kind = "out", FreePort(f)
  PROVE  /\ portmap' \in [PortmapKey -> Portmap \cup {NONE}]
         /\ nat' \in [Conn -> Translation \cup {NONE}]
<1>0. portmap \in [PortmapKey -> Portmap \cup {NONE}] /\ nat \in [Conn -> Translation \cup {NONE}]
  BY Zenon DEF PortTypes
<1>1. CASE ~f.snat
  BY <1>0, <1>1, Zenon DEF FreePort, portVars
<1>2. CASE f.snat
  <2> DEFINE c == f.org.conn
             k == KeyOf(c)
             n == (portmap[k].flow_cnt + FlowCntMod - 1) % FlowCntMod
  <2>1. c \in L4Conn
    BY <1>2, KeySplit, Zenon DEF FlowValue
  <2>2. c \in Conn /\ k \in PortmapKey
    BY <2>1, ConnTypes, Zenon
  <2>3. CountDown(k) /\ nat' = [nat EXCEPT ![c] = NONE]
    BY <1>2, Zenon DEF FreePort
  <2> HIDE DEF c, k
  <2>4. CASE portmap[k] = NONE
    BY <1>0, <2>2, <2>3, <2>4, Zenon DEF CountDown
  <2>5. CASE portmap[k] # NONE
    <3>1. portmap[k] \in Portmap /\ portmap[k].flow_cnt \in 0 .. FlowCntMod - 1
      BY <1>0, <2>2, <2>5, Zenon DEF Portmap
    <3>2. n \in 0 .. FlowCntMod - 1
      BY <3>1, HashAssumption
    <3> DEFINE m == [portmap[k] EXCEPT !.flow_cnt = n]
    <3> HIDE DEF n
    <3>3. m \in Portmap
      BY <3>1, <3>2, Zenon DEF Portmap
    <3>4. portmap' = [portmap EXCEPT ![k] = NONE] \/ portmap' = [portmap EXCEPT ![k] = m]
      BY <1>0, <2>2, <2>3, <2>5, Zenon DEF CountDown, n
    <3> HIDE DEF m
    <3> QED BY <1>0, <2>2, <2>3, <3>3, <3>4
  <2> QED BY <2>4, <2>5, Zenon
<1> QED BY <1>1, <1>2, Zenon

(* dp_delete_flow(): the entry goes, with a reference or with the flow. *)
DeleteEffect(k, h) ==
  /\ h \in Live /\ h \in Flow /\ k \in {flows[h].org, flows[h].reply}
  /\ table'[k] = NONE /\ \A j \in Key : j # k => table'[j] = table[j]
  /\ \A g \in Flow : g # h => flows'[g] = flows[g]
  /\ cache' = NONE
  /\ \/ /\ Live' = Live /\ flows[h].ref > 1
        /\ flows'[h].org = flows[h].org /\ flows'[h].reply = flows[h].reply
        /\ flows'[h].snat = flows[h].snat /\ flows'[h].ref = flows[h].ref - 1
        /\ UNCHANGED <<portVars, nat, used>>
     \/ /\ Live' = Live \ {h} /\ flows[h].ref = 1
        /\ \A j \in Key : table'[j] # h
        /\ FreePort(flows[h])

LEMMA DeleteSteps ==
  ASSUME FlowNone, FlowInv, NEW k \in Key, table[k] # NONE, DeleteFlow(k),
         sweep' \subseteq Flow, failures' = failures
  PROVE  FlowTypes' /\ DeleteEffect(k, table[k])
<1> DEFINE h == table[k]
           f == flows[h]
<1>1. h \in Live /\ k \in {f.org, f.reply}
  BY Zenon DEF FlowInv, Entries
<1>2. h \in Flow /\ f \in FlowValue /\ h # NONE /\ f.ref \in Nat
  BY <1>1, LiveFlow, Zenon DEF FlowInv
<1>3. flows \in [Flow -> FlowValue \cup {NONE}] /\ table \in [Key -> Flow \cup {NONE}]
  BY Zenon DEF FlowInv, FlowTypes
<1>4. /\ table' = [table EXCEPT ![k] = NONE] /\ cache' = NONE
      /\ \/ /\ f.ref > 1 /\ flows' = [flows EXCEPT ![h].ref = @ - 1] /\ UNCHANGED <<portVars, nat, used>>
         \/ /\ f.ref = 1 /\ flows' = [flows EXCEPT ![h] = NONE] /\ FreePort(f)
  BY Zenon DEF DeleteFlow, Flushed
<1> HIDE DEF h, f
<1>5. /\ table' \in [Key -> Flow \cup {NONE}] /\ table'[k] = NONE
      /\ \A j \in Key : j # k => table'[j] = table[j]
  BY <1>3, <1>4, Zenon
<1>6. cache' \in Packet \cup {NONE} /\ failures' \in Nat
  BY <1>4, Zenon DEF FlowInv, FlowTypes
<1>7. CASE f.ref > 1 /\ flows' = [flows EXCEPT ![h].ref = @ - 1] /\ UNCHANGED <<portVars, nat, used>>
  <2> DEFINE new == [f EXCEPT !.ref = f.ref - 1]
  <2>1. /\ new \in FlowValue /\ new.org = f.org /\ new.reply = f.reply /\ new.snat = f.snat
        /\ new.ref = f.ref - 1
    BY <1>2, <1>7 DEF FlowValue
  <2>2. flows' = [flows EXCEPT ![h] = new]
    BY <1>2, <1>3, <1>7, Zenon DEF f
  <2> HIDE DEF new
  <2>3. /\ flows' \in [Flow -> FlowValue \cup {NONE}] /\ flows'[h] = new /\ new # NONE
        /\ \A g \in Flow : g # h => flows'[g] = flows[g]
    BY <1>2, <1>3, <2>1, <2>2, Zenon DEF FlowNone
  <2>4. Live' = Live
    BY <1>1, <2>3, Zenon DEF Live
  <2>5. FlowTypes'
    BY <1>5, <1>6, <2>3, Zenon DEF FlowTypes
  <2>6. DeleteEffect(k, h)
    BY <1>1, <1>2, <1>4, <1>5, <1>7, <2>1, <2>3, <2>4, SMTT(30) DEF DeleteEffect, f
  <2> QED BY <2>5, <2>6, Zenon DEF h
<1>8. CASE f.ref = 1 /\ flows' = [flows EXCEPT ![h] = NONE] /\ FreePort(f)
  <2>1. /\ flows' \in [Flow -> FlowValue \cup {NONE}] /\ flows'[h] = NONE
        /\ \A g \in Flow : g # h => flows'[g] = flows[g]
    BY <1>2, <1>3, <1>8
  <2>2. Live' = Live \ {h}
    BY <2>1, Zenon DEF Live
  <2>3. ASSUME NEW j \in Key, table'[j] = h PROVE FALSE
    <3>1. j # k /\ table[j] = h
      BY <1>2, <1>5, <2>3
    <3>2. j \in {f.org, f.reply}
      BY <1>2, <3>1, Zenon DEF FlowInv, Entries, f
    <3>3. table[f.org] = h /\ table[f.reply] = h
      BY <1>1, <3>1, <3>2 DEF h
    <3>4. f.ref >= 2
      BY <1>1, <3>3, Zenon DEF FlowInv, Refs, f
    <3> QED BY <1>8, <3>4
  <2>4. FlowTypes'
    BY <1>5, <1>6, <2>1 DEF FlowTypes
  <2>5. DeleteEffect(k, h)
    BY <1>1, <1>2, <1>4, <1>5, <1>8, <2>1, <2>2, <2>3, SMTT(30) DEF DeleteEffect, f
  <2> QED BY <2>4, <2>5, Zenon DEF h
<1> QED BY <1>4, <1>7, <1>8, Zenon

(* A scan that removes an entry keeps the invariant, if what it leaves of  *)
(* a flow that has not been translated is still to be removed.             *)
LEMMA DeleteKeeps ==
  ASSUME FlowNone, FlowInv, NEW k \in Key, table[k] # NONE, DeleteFlow(k),
         UNCHANGED <<snat, purge, burst, failures>>, burst = <<>>,
         sweep' = {} \/ (sweep' = sweep /\ purge = NONE) \/ purge # NONE, sweep' \subseteq sweep,
         \A g \in Live : ~flows[g].snat /\ g \notin sweep' =>
            IF g = table[k] THEN table'[flows[g].org] # g ELSE g \in sweep => table'[flows[g].org] # g
  PROVE  FlowInv'
<1> DEFINE h == table[k]
<1>0. sweep' \subseteq Flow
  BY Zenon DEF FlowInv, FlowTypes
<1>1. FlowTypes' /\ DeleteEffect(k, h)
  BY <1>0, DeleteSteps, Zenon
<1>2. /\ h \in Live /\ h \in Flow /\ h # NONE /\ k \in {flows[h].org, flows[h].reply} /\ table[k] = h
      /\ flows[h].org # flows[h].reply /\ flows[h] \in FlowValue
      /\ flows[h].org \in Key /\ flows[h].reply \in Key /\ flows[h].ref \in Nat
  <2>1. h \in Live
    BY <1>1, Zenon DEF DeleteEffect
  <2> QED BY <1>1, <2>1, LiveFlow, TwoKeys, Zenon DEF DeleteEffect, FlowInv
<1>3. /\ table'[k] = NONE /\ \A j \in Key : j # k => table'[j] = table[j]
  BY <1>1, Zenon DEF DeleteEffect
<1>4. cache' = NONE /\ Live' \subseteq Live
  BY <1>1, Zenon DEF DeleteEffect
<1>5. ASSUME NEW g \in Live, g # h
      PROVE  /\ flows'[g] = flows[g] /\ flows[g].org \in Key /\ flows[g].reply \in Key
             /\ \A j \in Key : table'[j] = g <=> table[j] = g
             /\ g \in Live'
  <2>1. g \in Flow /\ g # NONE /\ flows[g].org \in Key /\ flows[g].reply \in Key
    BY LiveFlow, Zenon DEF FlowInv
  <2>2. flows'[g] = flows[g]
    BY <1>1, <1>5, <2>1, Zenon DEF DeleteEffect
  <2>3. g \in Live'
    BY <1>1, <1>5, Zenon DEF DeleteEffect
  <2> QED BY <1>2, <1>3, <1>5, <2>1, <2>2, <2>3, SMTT(30)
<1>6. PortTypes'
  <2>1. /\ portmap' \in [PortmapKey -> Portmap \cup {NONE}] /\ nat' \in [Conn -> Translation \cup {NONE}]
    <3>1. CASE UNCHANGED <<portVars, nat, used>>
      BY <3>1, Zenon DEF FlowInv, PortTypes, portVars
    <3>2. CASE FreePort(flows[h])
      <4>1. flows[h].snat => flows[h].org.kind = "out"
        BY <1>2, Zenon DEF FlowInv, Shape
      <4> QED BY <1>2, <3>2, <4>1, FreedPortTypes, Zenon DEF FlowInv
    <3> QED BY <1>1, <3>1, <3>2, Zenon DEF DeleteEffect
  <2> QED BY <2>1, Zenon DEF FlowInv, PortTypes
<1> HIDE DEF h
<1>7. Phases'
  <2>1. burst' \in Seq({p \in Packet : Pending(p)'})
    OBVIOUS
  <2> QED BY <2>1, Zenon DEF FlowInv, Phases
<1>8. ASSUME h \in Live'
      PROVE  /\ flows[h].ref > 1
             /\ flows'[h].org = flows[h].org /\ flows'[h].reply = flows[h].reply
             /\ flows'[h].snat = flows[h].snat /\ flows'[h].ref = flows[h].ref - 1
  BY <1>1, <1>8, Zenon DEF DeleteEffect
<1>9. Shape'
  <2> SUFFICES ASSUME NEW g \in Live'
        PROVE  /\ flows'[g].org.kind \in {"out", "wire"}
               /\ ~flows'[g].snat => flows'[g].reply = Inverted(flows'[g].org)
               /\ flows'[g].snat => flows'[g].org.kind = "out" /\ flows'[g].reply.kind = "wire"
    BY Zenon DEF Shape
  <2>1. /\ flows'[g].org = flows[g].org /\ flows'[g].reply = flows[g].reply
        /\ flows'[g].snat = flows[g].snat /\ g \in Live
    BY <1>4, <1>5, <1>8, Zenon
  <2> QED BY <2>1, Zenon DEF FlowInv, Shape
<1>10. Entries'
  <2> SUFFICES ASSUME NEW j \in Key, table'[j] # NONE
               PROVE  table'[j] \in Live' /\ j \in {flows'[table'[j]].org, flows'[table'[j]].reply}
    BY Zenon DEF Entries
  <2>1. /\ j # k /\ table'[j] = table[j] /\ table[j] \in Live
        /\ j \in {flows[table[j]].org, flows[table[j]].reply}
    BY <1>3, Zenon DEF FlowInv, Entries
  <2>2. CASE table[j] # h
    BY <1>5, <2>1, <2>2
  <2>3. CASE table[j] = h
    <3>1. h \in Live'
      BY <1>1, <1>2, <2>1, <2>3, Zenon DEF DeleteEffect
    <3> QED BY <1>8, <2>1, <2>3, <3>1, Zenon
  <2> QED BY <2>2, <2>3, Zenon
<1>11. Refs'
  <2> SUFFICES ASSUME NEW g \in Live'
        PROVE  /\ flows'[g].ref >= 1
               /\ table'[flows'[g].org] = g /\ table'[flows'[g].reply] = g => flows'[g].ref >= 2
    BY Zenon DEF Refs
  <2>1. CASE g # h
    BY <1>4, <1>5, <2>1, SMTT(30) DEF FlowInv, Refs
  <2>2. CASE g = h
    BY <1>2, <1>3, <1>8, <2>2, SMTT(30)
  <2> QED BY <2>1, <2>2, Zenon
<1>12. Paired'
  <2> SUFFICES ASSUME NEW g \in Live', ~flows'[g].snat, flows'[g].org.kind = "out", g \notin sweep',
                      table'[flows'[g].org] = g
               PROVE  table'[flows'[g].reply] = g
    BY Zenon DEF Paired
  <2>1. g \in Live /\ flows'[g].org = flows[g].org /\ flows'[g].reply = flows[g].reply
        /\ flows'[g].snat = flows[g].snat
    BY <1>4, <1>5, <1>8, Zenon
  <2>2. g # h /\ g \notin sweep
    BY <2>1, Zenon DEF h
  <2>3. table[flows[g].org] = g
    BY <1>5, <2>1, <2>2
  <2>4. table[flows[g].reply] = g
    BY <2>1, <2>2, <2>3, Zenon DEF FlowInv, Paired
  <2> QED BY <1>5, <2>1, <2>2, <2>4
<1>13. FlowsCacheIsFresh'
  BY <1>4, Zenon DEF FlowsCacheIsFresh
<1> QED BY <1>1, <1>6, <1>7, <1>9, <1>10, <1>11, <1>12, <1>13, SMTT(30) DEF FlowInv

LEMMA SweepKeeps == ASSUME FlowNone, FlowInv, NEW k \in Key, SweepEntry(k) PROVE FlowInv'
<1>0. sweep \subseteq Flow
  BY Zenon DEF FlowInv, FlowTypes
<1>1. table[k] # NONE /\ table[k] \in sweep /\ burst = <<>> /\ purge = NONE
  BY <1>0, Zenon DEF SweepEntry, FlowNone, FlowInv, Phases
<1>2. DeleteFlow(k) /\ UNCHANGED <<snat, purge, burst, failures>>
  BY Zenon DEF SweepEntry
<1>3. sweep' \in {{}, sweep} /\ (sweep' # sweep => EntriesOf(sweep) = {k})
  BY Zenon DEF SweepEntry
<1>4. ASSUME NEW g \in Live, g \in sweep, g \notin sweep' PROVE table'[flows[g].org] # g
  <2>1. EntriesOf(sweep) = {k} /\ flows[g].org \in Key /\ g # NONE
    BY <1>3, <1>4, LiveFlow, Zenon DEF FlowInv
  <2>2. table[flows[g].org] = g => flows[g].org = k
    BY <1>4, <2>1, Zenon DEF EntriesOf
  <2>3. table' = [table EXCEPT ![k] = NONE] /\ table \in [Key -> Flow \cup {NONE}]
    BY <1>2, Zenon DEF DeleteFlow, FlowInv, FlowTypes
  <2> QED BY <2>1, <2>2, <2>3, Zenon
<1> QED BY <1>1, <1>2, <1>3, <1>4, DeleteKeeps, Zenon

LEMMA PurgeKeeps == ASSUME FlowNone, FlowInv, NEW k \in Key, PurgeEntry(k) PROVE FlowInv'
<1>1. table[k] # NONE /\ table[k] \in Flow /\ flows[table[k]].snat /\ purge # NONE
  BY Zenon DEF PurgeEntry, NatFlowsOf, FlowNone
<1>2. burst = <<>> /\ sweep = {}
  BY <1>1, Zenon DEF FlowInv, Phases
<1>3. DeleteFlow(k) /\ UNCHANGED <<snat, purge, burst, failures, sweep>>
  BY Zenon DEF PurgeEntry
<1> QED BY <1>1, <1>2, <1>3, DeleteKeeps, Zenon

(* The start of a scan and the requests leave the flows alone. *)
LEMMA RequestsKeep ==
  ASSUME FlowNone, FlowInv,
         (\E S \in SUBSET Flow : StartSweep(S)) \/ FinishDeleteNat \/ (\E i \in Iface : Request(i))
  PROVE  FlowInv'
<1>0. \A S : <<>> \in Seq(S)
  BY SMTT(30)
<1>1. ASSUME NEW S \in SUBSET Flow, StartSweep(S) PROVE FlowInv'
  <2>1. /\ UNCHANGED <<flows, table, cache, burst, failures, portmap, snat, nat, purge>>
        /\ burst = <<>> /\ sweep = {} /\ purge = NONE /\ sweep' = S
    BY <1>1, Zenon DEF StartSweep, Idle, vars, portVars
  <2>2. Phases'
    BY <1>0, <2>1, Zenon DEF Phases
  <2> QED BY <2>1, <2>2, SameTable DEF FlowInv, PortTypes, FlowTypes
<1>2. CASE FinishDeleteNat
  <2>1. /\ UNCHANGED <<flows, table, cache, burst, sweep, failures, portmap, nat>>
        /\ purge # NONE /\ purge' = NONE /\ snat' = [snat EXCEPT ![purge] = NONE]
    BY <1>2, Zenon DEF FinishDeleteNat, flowVars, portVars
  <2>2. burst = <<>> /\ sweep = {}
    BY <2>1, Zenon DEF FlowInv, Phases
  <2>3. Phases'
    BY <1>0, <2>1, <2>2, Zenon DEF Phases
  <2>4. PortTypes'
    BY <2>1, Zenon DEF FlowInv, PortTypes
  <2> QED BY <2>1, <2>3, <2>4, SameTable, Zenon DEF FlowInv, FlowTypes
<1>3. ASSUME NEW i \in Iface, Request(i) PROVE FlowInv'
  <2>1. /\ UNCHANGED <<flows, table, cache, burst, sweep, failures, portmap, nat>>
        /\ burst = <<>> /\ sweep = {}
    BY <1>3, Zenon DEF Request, Idle, DeleteNat, CreateNat, portVars
  <2>2. snat' \in [Iface -> Snat \cup {NONE}] /\ purge' \in Iface \cup {NONE}
    BY <1>3 DEF FlowInv, PortTypes, Request, DeleteNat, CreateNat
  <2>3. Phases'
    BY <1>0, <2>1, Zenon DEF Phases
  <2>4. PortTypes'
    BY <2>1, <2>2, Zenon DEF FlowInv, PortTypes
  <2> QED BY <2>1, <2>3, <2>4, SameTable, Zenon DEF FlowInv, FlowTypes
<1> QED BY <1>1, <1>2, <1>3, Zenon

=============================================================================
