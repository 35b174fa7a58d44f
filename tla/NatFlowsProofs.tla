--------------------------- MODULE NatFlowsProofs ---------------------------
(***************************************************************************)
(* The flow table for any connections, NAT ranges, flow addresses, lengths *)
(* of a burst and numbers of refused additions: the steps that translate,  *)
(* and what holds of the table whatever fails; then, for as long as no     *)
(* addition is refused, conntrack and the NAT ports together.              *)
(***************************************************************************)
EXTENDS NatPortsProofs

(* The first packet of a burst that holds none from outside: its flow is   *)
(* in the table under its key, and, if it is new, under the reply key too. *)
Sending(p, c, h) ==
  /\ p = burst[1] /\ p \in Packet /\ p.key = Out(c) /\ p.key.conn = c /\ p.flow = h
  /\ c \in L4Conn /\ c \in Conn /\ c.iface \in Iface /\ snat[c.iface] \in Snat /\ snat[c.iface] # NONE
  /\ h \in Live /\ flows[h].org = Out(c) /\ table[Out(c)] = h
  /\ ~flows[h].snat => flows[h].reply = In(c) /\ table[In(c)] = h /\ flows[h].ref >= 2
  /\ sweep = {} /\ purge = NONE

LEMMA SnatHead ==
  ASSUME FlowNone, FlowInv, Inbound = {}, burst # <<>>
  PROVE  /\ Sending(Head(burst), Head(burst).key.conn, Head(burst).flow)
         /\ \A n \in 1 .. Len(burst) : burst[n].key.kind = "out"
<1> DEFINE p == burst[1]
           c == p.key.conn
           h == p.flow
<1>1. 1 \in 1 .. Len(burst) /\ Head(burst) = p /\ DOMAIN burst = 1 .. Len(burst)
  BY DEF FlowInv, Phases
<1>2. ASSUME NEW n \in 1 .. Len(burst) PROVE burst[n].key.kind = "out"
  BY <1>1, InBurst, Zenon DEF Inbound
<1>3. /\ p \in Packet /\ p.key \in Key /\ h \in Flow /\ p.key.kind = "out" /\ table[p.key] = h
      /\ snat[p.key.conn.iface] # NONE /\ sweep = {} /\ purge = NONE
  BY <1>1, <1>2, InBurst, Zenon
<1>4. c \in L4Conn /\ p.key = Out(c)
  BY <1>3, KeySplit, Zenon
<1>5. c \in Conn /\ c.iface \in Iface /\ snat[c.iface] \in Snat
  BY <1>3, <1>4, ConnTypes, Zenon DEF FlowInv, PortTypes
<1>6. h \in Live /\ flows[h].org = Out(c)
  <2>1. table[p.key] # NONE
    BY <1>3, Zenon DEF FlowNone
  <2>2. table[p.key] \in Live /\ flows[table[p.key]].org = p.key
    BY <1>3, <2>1, OutEntry, Zenon DEF FlowInv
  <2> QED BY <1>3, <1>4, <2>2, Zenon
<1>7. ASSUME ~flows[h].snat PROVE flows[h].reply = In(c) /\ table[In(c)] = h /\ flows[h].ref >= 2
  <2>1. flows[h].reply = Inverted(Out(c))
    BY <1>6, <1>7, Zenon DEF FlowInv, Shape
  <2>2. flows[h].reply = In(c)
    BY <1>4, <2>1, KeyForms, Zenon
  <2>3. flows[h].org.kind = "out" /\ table[flows[h].org] = h
    BY <1>3, <1>4, <1>6, Zenon
  <2>4. table[flows[h].reply] = h
    BY <1>3, <1>6, <1>7, <2>3, Zenon DEF FlowInv, Paired
  <2> QED BY <1>6, <2>2, <2>3, <2>4, Zenon DEF FlowInv, Refs
<1> HIDE DEF p
<1>8. p = burst[1]
  BY Zenon DEF p
<1>9. Sending(p, c, h)
  BY <1>3, <1>4, <1>5, <1>6, <1>7, <1>8, Zenon DEF Sending
<1> QED BY <1>1, <1>2, <1>9, Zenon

(* The flow gets its translated key, or, if the table refuses it, only the *)
(* record of it.                                                           *)
Refused(h, o) ==
  /\ table' = RemovedReply(h)
  /\ flows' = [flows EXCEPT ![h] = [@ EXCEPT !.reply = Wire(o), !.ref = RefsAfter(h), !.snat = TRUE]]
  /\ cache' = CacheAfter(h)

TranslateEffect(h, c, o) ==
  /\ flows'[h] \in FlowValue
  /\ flows'[h].org = Out(c) /\ flows'[h].reply = Wire(o) /\ flows'[h].snat
  /\ flows'[h].ref >= 1 /\ (table'[Wire(o)] = h => flows'[h].ref >= 2)
  /\ \A g \in Flow : g # h => flows'[g] = flows[g]
  /\ table'[In(c)] = NONE /\ table'[Wire(o)] \in {h, table[Wire(o)]}
  /\ \A j \in Key : j # In(c) /\ j # Wire(o) => table'[j] = table[j]
  /\ Live' = Live /\ cache' = NONE

LEMMA TranslateSteps ==
  ASSUME FlowNone, FlowInv, NEW p, NEW c, NEW h, Sending(p, c, h), ~flows[h].snat,
         NEW o \in Tuple, Rekey(h, o) \/ Refused(h, o), sweep' = sweep, failures' \in Nat
  PROVE  /\ FlowTypes' /\ TranslateEffect(h, c, o)
         /\ Rekey(h, o) => table'[Wire(o)] = h /\ flows'[h].ref = flows[h].ref
<1> DEFINE w == Wire(o)
           i == In(c)
           f == flows[h]
<1>1. /\ w \in Key /\ i \in Key /\ Out(c) \in Key /\ w # i /\ Out(c) # i /\ Out(c) # w
      /\ w.kind = "wire" /\ i.kind = "in" /\ Out(c).kind = "out"
  BY KeyForms, Zenon DEF Sending
<1>2. /\ h \in Flow /\ f \in FlowValue /\ h # NONE /\ h \in Live
      /\ f.org = Out(c) /\ f.reply = i /\ f.ref \in Nat /\ f.ref >= 2 /\ table[i] = h
  BY LiveFlow, Zenon DEF Sending, FlowInv
<1>3. RemovedReply(h) = [table EXCEPT ![i] = NONE] /\ RefsAfter(h) = f.ref - 1 /\ CacheAfter(h) = NONE
  BY <1>2, Zenon DEF RemovedReply, RefsAfter, CacheAfter, Flushed
<1>4. flows \in [Flow -> FlowValue \cup {NONE}] /\ table \in [Key -> Flow \cup {NONE}]
  BY Zenon DEF FlowInv, FlowTypes
<1>5. table[w] # h
  BY <1>1, <1>2, Zenon DEF FlowInv, Entries
<1>6. ASSUME NEW r \in Nat, flows' = [flows EXCEPT ![h] = [f EXCEPT !.reply = w, !.ref = r, !.snat = TRUE]]
      PROVE  /\ flows' \in [Flow -> FlowValue \cup {NONE}] /\ flows'[h] \in FlowValue
             /\ flows'[h].org = Out(c) /\ flows'[h].reply = w /\ flows'[h].ref = r /\ flows'[h].snat
             /\ \A g \in Flow : g # h => flows'[g] = flows[g]
             /\ Live' = Live
  <2> DEFINE new == [f EXCEPT !.reply = w, !.ref = r, !.snat = TRUE]
  <2>1. new \in FlowValue /\ new.org = Out(c) /\ new.reply = w /\ new.ref = r /\ new.snat
    <3> HIDE DEF f, w
    <3> QED BY <1>1, <1>2, Zenon DEF FlowValue
  <2> HIDE DEF new, f
  <2>2. flows' = [flows EXCEPT ![h] = new] /\ new # NONE
    BY <1>6, <2>1, Zenon DEF FlowNone, new, f
  <2>3. flows'[h] = new /\ (\A g \in Flow : g # h => flows'[g] = flows[g])
        /\ flows' \in [Flow -> FlowValue \cup {NONE}]
    BY <1>2, <1>4, <2>1, <2>2, Zenon
  <2>4. Live' = Live
    BY <1>2, <2>2, <2>3, Zenon DEF Live
  <2> QED BY <2>1, <2>3, <2>4, Zenon
<1> HIDE DEF w, i, f
<1>7. cache' = NONE /\ (cache' \in Packet \cup {NONE}) /\ sweep' \subseteq Flow
  BY <1>3, Zenon DEF Rekey, Refused, FlowInv, FlowTypes
<1>8. CASE Rekey(h, o)
  <2>1. /\ table' = [[table EXCEPT ![i] = NONE] EXCEPT ![w] = h]
        /\ flows' = [flows EXCEPT ![h] = [f EXCEPT !.reply = w, !.ref = (f.ref - 1) + 1, !.snat = TRUE]]
    BY <1>2, <1>3, <1>4, <1>8, Zenon DEF Rekey, w, f
  <2>2. (f.ref - 1) + 1 = f.ref
    BY <1>2
  <2>3. flows' = [flows EXCEPT ![h] = [f EXCEPT !.reply = w, !.ref = f.ref, !.snat = TRUE]]
    BY <2>1, <2>2, Zenon
  <2>4. /\ table' \in [Key -> Flow \cup {NONE}] /\ table'[i] = NONE /\ table'[w] = h
        /\ \A j \in Key : j # i /\ j # w => table'[j] = table[j]
    BY <1>1, <1>2, <1>4, <2>1, Zenon
  <2>5. /\ flows' \in [Flow -> FlowValue \cup {NONE}] /\ flows'[h] \in FlowValue
        /\ flows'[h].org = Out(c) /\ flows'[h].reply = w /\ flows'[h].ref = f.ref /\ flows'[h].snat
        /\ \A g \in Flow : g # h => flows'[g] = flows[g]
        /\ Live' = Live
    BY <1>2, <1>6, <2>3, Zenon
  <2>6. flows'[h].ref >= 1 /\ flows'[h].ref >= 2
    BY <1>2, <2>5
  <2>7. FlowTypes'
    BY <1>7, <2>4, <2>5, Zenon DEF FlowTypes
  <2>8. TranslateEffect(h, c, o)
    BY <1>7, <2>4, <2>5, <2>6, Zenon DEF TranslateEffect, w, i
  <2> QED BY <2>4, <2>5, <2>7, <2>8, Zenon DEF w, f
<1>9. CASE Refused(h, o)
  <2>1. /\ table' = [table EXCEPT ![i] = NONE]
        /\ flows' = [flows EXCEPT ![h] = [f EXCEPT !.reply = w, !.ref = f.ref - 1, !.snat = TRUE]]
    BY <1>2, <1>3, <1>4, <1>9, Zenon DEF Refused, w, f
  <2>2. f.ref - 1 \in Nat /\ f.ref - 1 >= 1
    BY <1>2
  <2>4. /\ table' \in [Key -> Flow \cup {NONE}] /\ table'[i] = NONE
        /\ \A j \in Key : j # i => table'[j] = table[j]
    BY <1>1, <1>4, <2>1, Zenon
  <2>5. /\ flows' \in [Flow -> FlowValue \cup {NONE}] /\ flows'[h] \in FlowValue
        /\ flows'[h].org = Out(c) /\ flows'[h].reply = w /\ flows'[h].ref = f.ref - 1 /\ flows'[h].snat
        /\ \A g \in Flow : g # h => flows'[g] = flows[g]
        /\ Live' = Live
    BY <1>6, <2>1, <2>2, Zenon
  <2>6. flows'[h].ref >= 1 /\ table'[w] = table[w] /\ table'[w] # h
    BY <1>1, <1>5, <2>2, <2>4, <2>5, Zenon
  <2>7. FlowTypes'
    BY <1>7, <2>4, <2>5, Zenon DEF FlowTypes
  <2>8. TranslateEffect(h, c, o)
    BY <1>7, <2>4, <2>5, <2>6, Zenon DEF TranslateEffect, w, i
  <2>9. ~Rekey(h, o)
    <3>1. Rekey(h, o) => table'[w] = h
      BY <1>1, <1>3, <1>4, Zenon DEF Rekey, w
    <3> QED BY <2>6, <3>1, Zenon
  <2> QED BY <2>7, <2>8, <2>9, Zenon
<1> QED BY <1>8, <1>9, Zenon

(* The rest of the burst: the keys of packets of interfaces have not       *)
(* changed, whichever flow has been translated.                            *)
LEMMA BurstGoesOn ==
  ASSUME FlowNone, FlowInv, Inbound = {}, burst # <<>>, Done(1),
         UNCHANGED <<snat, purge, sweep>>,
         \A j \in Key : j.kind = "out" => table'[j] = table[j]
  PROVE  Phases'
<1> DEFINE S == {p \in Packet : Pending(p) /\ p.key.kind = "out"}
           T == {p \in Packet : Pending(p)'}
<1>1. \A n \in 1 .. Len(burst) : burst[n] \in S
  <2> SUFFICES ASSUME NEW n \in 1 .. Len(burst) PROVE burst[n] \in S
    OBVIOUS
  <2>1. burst[n].key.kind = "out"
    BY SnatHead, Zenon
  <2>2. burst[n] \in {p \in Packet : Pending(p)}
    BY DEF FlowInv, Phases
  <2> QED BY <2>1, <2>2, Zenon
<1>2. S \subseteq T
  <2> SUFFICES ASSUME NEW p \in Packet, Pending(p), p.key.kind = "out" PROVE Pending(p)'
    OBVIOUS
  <2>1. p.key \in Key
    BY Zenon DEF Packet
  <2> QED BY <2>1, Zenon DEF Pending
<1>3. 1 \in 1 .. Len(burst) /\ burst \in Seq(Packet)
  BY DEF FlowInv, Phases
<1> HIDE DEF S, T
<1>4. burst \in Seq(T)
  BY <1>1, <1>2, <1>3
<1>5. burst' \in Seq(T)
  BY <1>3, <1>4, Fewer, Zenon DEF Done
<1>6. sweep = {} /\ purge = NONE
  BY <1>3, InBurst, Zenon
<1> QED BY <1>5, <1>6, Zenon DEF Phases, T

(* A translation keeps the invariant of the flow table. *)
LEMMA TranslateKeeps ==
  ASSUME FlowNone, FlowInv, NEW p, NEW c, NEW h, Sending(p, c, h), ~flows[h].snat,
         NEW o \in Tuple, Rekey(h, o) \/ Refused(h, o), sweep' = sweep, failures' \in Nat,
         PortTypes', Phases'
  PROVE  FlowInv'
<1> DEFINE w == Wire(o)
           i == In(c)
           q == Out(c)
<1>0. FlowTypes' /\ TranslateEffect(h, c, o)
  BY TranslateSteps, Zenon
<1>1. /\ w \in Key /\ i \in Key /\ q \in Key /\ w # i /\ q # i /\ q # w
      /\ w.kind = "wire" /\ i.kind = "in" /\ q.kind = "out" /\ c \in L4Conn
      /\ h \in Live /\ h \in Flow /\ table[i] = h /\ table[q] = h /\ sweep = {}
  BY KeyForms, Zenon DEF Sending, Live
<1>2. /\ flows'[h].org = q /\ flows'[h].reply = w /\ flows'[h].snat
      /\ flows'[h].ref >= 1 /\ (table'[w] = h => flows'[h].ref >= 2)
      /\ Live' = Live /\ cache' = NONE
      /\ table'[i] = NONE /\ table'[w] \in {h, table[w]}
  BY <1>0, Zenon DEF TranslateEffect
<1>3. \A g \in Live : g \in Flow /\ (g # h => flows'[g] = flows[g])
  BY <1>0, Zenon DEF TranslateEffect, Live
<1>4. \A j \in Key : j # i /\ j # w => table'[j] = table[j]
  BY <1>0, Zenon DEF TranslateEffect
<1> HIDE DEF w, i, q
<1>5. \A j \in Key : table'[j] # NONE /\ table'[j] # h => table'[j] = table[j]
  BY <1>2, <1>4, Zenon
<1>6. Shape'
  BY <1>1, <1>2, <1>3, ZenonT(40) DEF FlowInv, Shape
<1>7. Entries'
  <2> SUFFICES ASSUME NEW j \in Key, table'[j] # NONE
               PROVE  table'[j] \in Live /\ j \in {flows'[table'[j]].org, flows'[table'[j]].reply}
    BY <1>2, Zenon DEF Entries
  <2>1. CASE table'[j] = h
    <3>1. CASE j = w
      BY <1>1, <1>2, <2>1, <3>1, Zenon
    <3>2. CASE j # w
      <4>1. j # i /\ table[j] = h
        BY <1>1, <1>2, <1>4, <2>1, <3>2, Zenon DEF FlowNone
      <4>2. j \in {flows[h].org, flows[h].reply} /\ flows[h].org = q /\ flows[h].reply = i
        BY <1>1, <4>1, Zenon DEF FlowInv, Entries, FlowNone, Sending, q, i
      <4> QED BY <1>1, <1>2, <2>1, <4>1, <4>2, Zenon
    <3> QED BY <3>1, <3>2, Zenon
  <2>2. CASE table'[j] # h
    BY <1>3, <1>5, <2>2, Zenon DEF FlowInv, Entries
  <2> QED BY <2>1, <2>2, Zenon
<1>8. Refs'
  <2> SUFFICES ASSUME NEW g \in Live
               PROVE  /\ flows'[g].ref >= 1
                      /\ table'[flows'[g].org] = g /\ table'[flows'[g].reply] = g => flows'[g].ref >= 2
    BY <1>2, Zenon DEF Refs
  <2>1. CASE g = h
    BY <1>2, <2>1, Zenon
  <2>2. CASE g # h
    <3>1. flows'[g] = flows[g] /\ flows[g].org \in Key /\ flows[g].reply \in Key /\ g # NONE
      BY <1>3, <2>2, LiveFlow, Zenon DEF FlowInv
    <3> QED BY <1>5, <2>2, <3>1, Zenon DEF FlowInv, Refs
  <2> QED BY <2>1, <2>2, Zenon
<1>9. Paired'
  <2> SUFFICES ASSUME NEW g \in Live, ~flows'[g].snat, flows'[g].org.kind = "out", table'[flows'[g].org] = g
               PROVE  table'[flows'[g].reply] = g
    BY <1>2, Zenon DEF Paired
  <2>1. g # h /\ flows'[g] = flows[g]
    BY <1>2, <1>3, Zenon
  <2>2. flows[g].org \in Key /\ flows[g].reply \in Key /\ g # NONE
    BY LiveFlow, Zenon DEF FlowInv
  <2>3. table[flows[g].org] = g
    BY <1>5, <2>1, <2>2, Zenon
  <2>4. table[flows[g].reply] = g
    BY <1>1, <2>1, <2>3, Zenon DEF FlowInv, Paired
  <2>5. flows[g].reply # i
    BY <1>1, <2>1, <2>4, Zenon
  <2>6. flows[g].reply # w
    <3>1. flows[g].reply.kind = "in"
      BY <2>1, <2>2, KeySplit DEF FlowInv, Shape
    <3> QED BY <1>1, <3>1, Zenon
  <2> QED BY <1>4, <2>1, <2>2, <2>4, <2>5, <2>6, Zenon
<1>10. FlowsCacheIsFresh'
  BY <1>2, Zenon DEF FlowsCacheIsFresh
<1> QED BY <1>0, <1>6, <1>7, <1>8, <1>9, <1>10, Zenon DEF FlowInv

(* What dp_allocate_network_snat_port() leaves in the port tables. *)
LEMMA AllocationTypes ==
  ASSUME PortTypes, NEW c \in L4Conn, NEW s \in Snat,
         UseExisting(c, s.nat_ip) \/ CreateNew(c, s) \/ OutOfMemory(c, s)
  PROVE  /\ portmap' \in [PortmapKey -> Portmap \cup {NONE}]
         /\ nat' \in [Conn -> Translation \cup {NONE}]
         /\ result' = "OK" => /\ nat'[c] \in Translation
                              /\ OverloadOf(c, nat'[c].nat_ip, nat'[c].nat_port) \in Tuple
         /\ result' # "OK" => UNCHANGED <<portVars, nat, used>>
<1> DEFINE k == KeyOf(c)
<1>0. k \in PortmapKey /\ c \in Conn /\ s.nat_ip \in NatIp
  BY ConnTypes, Zenon DEF Snat
<1>1. portmap \in [PortmapKey -> Portmap \cup {NONE}] /\ nat \in [Conn -> Translation \cup {NONE}]
  BY Zenon DEF PortTypes
<1>2. ASSUME UNCHANGED <<portVars, nat, used>>, result' # "OK"
      PROVE  /\ portmap' \in [PortmapKey -> Portmap \cup {NONE}]
             /\ nat' \in [Conn -> Translation \cup {NONE}]
  BY <1>1, <1>2, Zenon DEF portVars
<1>3. ASSUME NEW p \in NatPort, nat' = [nat EXCEPT ![c] = [nat_ip |-> s.nat_ip, nat_port |-> p]]
      PROVE  /\ nat' \in [Conn -> Translation \cup {NONE}] /\ nat'[c] \in Translation
             /\ OverloadOf(c, nat'[c].nat_ip, nat'[c].nat_port) \in Tuple
  <2> DEFINE t == [nat_ip |-> s.nat_ip, nat_port |-> p]
  <2>1. t \in Translation /\ t.nat_ip \in NatIp /\ t.nat_port \in NatPort
    BY <1>0, Zenon DEF Translation
  <2> HIDE DEF t
  <2>2. nat'[c] = t /\ nat' \in [Conn -> Translation \cup {NONE}]
    BY <1>0, <1>1, <1>3, <2>1, Zenon DEF t
  <2> QED BY <2>1, <2>2, NatTuple, Zenon
<1>4. CASE UseExisting(c, s.nat_ip)
  <2> DEFINE p == portmap[k].nat_port
  <2>1. portmap[k] \in Portmap
    BY <1>0, <1>1, <1>4, Zenon DEF UseExisting
  <2>2. p \in NatPort
    BY <2>1, Zenon DEF Portmap
  <2>3. CASE OverloadOf(c, s.nat_ip, p) \in overload
    <3>1. UNCHANGED <<portVars, nat, used>> /\ result' # "OK"
      BY <1>4, <2>3, Zenon DEF UseExisting
    <3> QED BY <1>2, <3>1, Zenon
  <2>4. CASE OverloadOf(c, s.nat_ip, p) \notin overload
    <3>1. /\ CountConnection(k) /\ result' = "OK"
          /\ nat' = [nat EXCEPT ![c] = [nat_ip |-> s.nat_ip, nat_port |-> p]]
      BY <1>4, <2>4, Zenon DEF UseExisting
    <3> DEFINE m == [portmap[k] EXCEPT !.flow_cnt = (portmap[k].flow_cnt + 1) % FlowCntMod]
    <3>2. (portmap[k].flow_cnt + 1) % FlowCntMod \in 0 .. FlowCntMod - 1
      BY <2>1, HashAssumption DEF Portmap
    <3>3. m \in Portmap
      BY <2>1, <3>2, Zenon DEF Portmap
    <3>4. portmap' = [portmap EXCEPT ![k] = m]
      BY <1>0, <1>1, <3>1, Zenon DEF CountConnection
    <3> HIDE DEF m, p
    <3>5. portmap' \in [PortmapKey -> Portmap \cup {NONE}]
      BY <1>0, <1>1, <3>3, <3>4, Zenon
    <3> QED BY <1>3, <2>2, <3>1, <3>5, Zenon
  <2> QED BY <2>3, <2>4, Zenon
<1>5. CASE CreateNew(c, s)
  <2>1. CASE FindNewPort(c, s) = {}
    <3>1. UNCHANGED <<portVars, nat, used>> /\ result' # "OK"
      BY <1>5, <2>1, Zenon DEF CreateNew
    <3> QED BY <1>2, <3>1, Zenon
  <2>2. CASE FindNewPort(c, s) # {}
    <3>1. PICK p \in FindNewPort(c, s) :
            /\ portmap' = [portmap EXCEPT ![k] = [nat_ip |-> s.nat_ip, nat_port |-> p, flow_cnt |-> 1]]
            /\ nat' = [nat EXCEPT ![c] = [nat_ip |-> s.nat_ip, nat_port |-> p]]
            /\ result' = "OK"
      BY <1>5, <2>2, Zenon DEF CreateNew
    <3>2. p \in NatPort
      BY <1>0, FoundPort, Zenon
    <3> DEFINE m == [nat_ip |-> s.nat_ip, nat_port |-> p, flow_cnt |-> 1]
    <3>3. m \in Portmap
      BY <1>0, <3>2, HashAssumption, SMTT(30) DEF Portmap
    <3> HIDE DEF m
    <3>4. portmap' \in [PortmapKey -> Portmap \cup {NONE}]
      BY <1>0, <1>1, <3>1, <3>3, ZenonT(40) DEF m
    <3> QED BY <1>3, <3>1, <3>2, <3>4, Zenon
  <2> QED BY <2>1, <2>2, Zenon
<1>6. CASE OutOfMemory(c, s)
  <2>1. UNCHANGED <<portVars, nat, used>> /\ result' # "OK"
    BY <1>6, Zenon DEF OutOfMemory
  <2> QED BY <1>2, <2>1, Zenon
<1> QED BY <1>4, <1>5, <1>6, Zenon

(* The port of a refused translation is one, too. *)
LEMMA AllocatablePort ==
  ASSUME PortTypes, NEW c \in L4Conn, NEW s \in Snat, NEW p \in Allocatable(c, s)
  PROVE  OverloadOf(c, s.nat_ip, p) \in Tuple
<1>1. KeyOf(c) \in PortmapKey /\ c \in Conn /\ s.nat_ip \in NatIp
  BY ConnTypes, Zenon DEF Snat
<1>2. p \in NatPort
  <2>1. CASE portmap[KeyOf(c)] = NONE
    BY <1>1, <2>1, FoundPort, Zenon DEF Allocatable
  <2>2. CASE portmap[KeyOf(c)] # NONE
    BY <1>1, <2>2, Zenon DEF Allocatable, PortTypes, Portmap
  <2> QED BY <2>1, <2>2, Zenon
<1> QED BY <1>1, <1>2, NatTuple, Zenon

(* What snat_node.c does with a packet: nothing to the flow, or the first  *)
(* translation, which the flow table takes or refuses.                     *)
SnatPlain == UNCHANGED <<flows, table, cache, failures>> /\ UNCHANGED <<portVars, nat, snat, purge, sweep>>

LEMMA SnatCases ==
  ASSUME FlowNone, FlowInv, SnatNode, NEW p, p = Head(burst), NEW c, c = p.key.conn, NEW h, h = p.flow
  PROVE  /\ Sending(p, c, h) /\ Done(1)
         /\ \/ SnatPlain
            \/ /\ ~flows[h].snat /\ PortTypes' /\ UNCHANGED <<snat, purge, sweep, failures>>
               /\ result' = "OK" /\ nat'[c] \in Translation
               /\ \E o \in Tuple : /\ o = OverloadOf(c, nat'[c].nat_ip, nat'[c].nat_port)
                                   /\ Rekey(h, o) /\ last' = [conn |-> c, tuple |-> o]
               /\ \/ UseExisting(c, snat[c.iface].nat_ip)
                  \/ CreateNew(c, snat[c.iface])
                  \/ OutOfMemory(c, snat[c.iface])
            \/ /\ ~flows[h].snat /\ PortTypes' /\ UNCHANGED <<snat, purge, sweep>>
               /\ failures' = failures + 1 /\ \E o \in Tuple : Refused(h, o)
<1> DEFINE s == snat[c.iface]
<1>1. Sending(p, c, h) /\ Done(1) /\ UNCHANGED sweep
  BY SnatHead, Zenon DEF SnatNode
<1>2. c \in L4Conn /\ s \in Snat /\ PortTypes
  BY <1>1, Zenon DEF Sending, FlowInv
<1>3. \/ ~flows[h].snat /\ FirstSnat(h, c, s)
      \/ UNCHANGED <<vars, table, flows, cache, failures>>
  BY Zenon DEF SnatNode
<1>4. CASE UNCHANGED <<vars, table, flows, cache, failures>>
  BY <1>1, <1>4, Zenon DEF SnatPlain, vars
<1>5. ASSUME ~flows[h].snat, UseExisting(c, s.nat_ip) \/ CreateNew(c, s) \/ OutOfMemory(c, s),
             UNCHANGED <<snat, purge, failures>>, result' # "OK", UNCHANGED <<table, flows, cache>>
      PROVE  SnatPlain
  BY <1>1, <1>2, <1>5, AllocationTypes, Zenon DEF SnatPlain
<1>6. ASSUME ~flows[h].snat, UseExisting(c, s.nat_ip) \/ CreateNew(c, s) \/ OutOfMemory(c, s),
             UNCHANGED <<snat, purge, failures>>, result' = "OK",
             Rekey(h, OverloadOf(c, nat'[c].nat_ip, nat'[c].nat_port)),
             last' = [conn |-> c, tuple |-> OverloadOf(c, nat'[c].nat_ip, nat'[c].nat_port)]
      PROVE  /\ PortTypes' /\ nat'[c] \in Translation
             /\ \E o \in Tuple : /\ o = OverloadOf(c, nat'[c].nat_ip, nat'[c].nat_port)
                                 /\ Rekey(h, o) /\ last' = [conn |-> c, tuple |-> o]
  <2>1. /\ portmap' \in [PortmapKey -> Portmap \cup {NONE}] /\ nat' \in [Conn -> Translation \cup {NONE}]
        /\ nat'[c] \in Translation /\ OverloadOf(c, nat'[c].nat_ip, nat'[c].nat_port) \in Tuple
    BY <1>2, <1>6, AllocationTypes, Zenon
  <2>2. PortTypes'
    BY <1>2, <1>6, <2>1, Zenon DEF PortTypes
  <2> QED BY <1>6, <2>1, <2>2, Zenon
<1>7. ASSUME RekeyRefused(h, c, s)
      PROVE  /\ PortTypes' /\ UNCHANGED <<snat, purge>>
             /\ failures' = failures + 1 /\ \E o \in Tuple : Refused(h, o)
  <2>1. PICK q \in Allocatable(c, s) :
           flows' = [flows EXCEPT ![h] =
             [@ EXCEPT !.reply = Wire(OverloadOf(c, s.nat_ip, q)), !.ref = RefsAfter(h), !.snat = TRUE]]
    BY <1>7, Zenon DEF RekeyRefused
  <2> DEFINE o == OverloadOf(c, s.nat_ip, q)
  <2>2. o \in Tuple
    BY <1>2, AllocatablePort, Zenon
  <2>3. Refused(h, o)
    BY <1>7, <2>1, Zenon DEF Refused, RekeyRefused
  <2>4. PortTypes' /\ UNCHANGED <<snat, purge>> /\ failures' = failures + 1
    BY <1>2, <1>7, Zenon DEF RekeyRefused, PortTypes, vars, portVars
  <2> HIDE DEF o
  <2> QED BY <2>2, <2>3, <2>4, Zenon
<1>8. CASE ~flows[h].snat /\ FirstSnat(h, c, s)
  <2>1. CASE RekeyRefused(h, c, s)
    BY <1>1, <1>7, <1>8, <2>1, Zenon
  <2>2. CASE ~RekeyRefused(h, c, s) /\ result' = "OK"
    BY <1>1, <1>6, <1>8, <2>2, Zenon DEF FirstSnat
  <2>3. CASE ~RekeyRefused(h, c, s) /\ result' # "OK"
    BY <1>1, <1>5, <1>8, <2>3, Zenon DEF FirstSnat
  <2> QED BY <2>1, <2>2, <2>3, Zenon
<1> QED BY <1>1, <1>3, <1>4, <1>8, Zenon

LEMMA SnatKeeps == ASSUME FlowNone, FlowInv, SnatNode PROVE FlowInv'
<1> DEFINE p == Head(burst)
           c == p.key.conn
           h == p.flow
<1>0. Inbound = {} /\ burst # <<>>
  BY Zenon DEF SnatNode
<1>1. /\ Sending(p, c, h) /\ Done(1)
      /\ \/ SnatPlain
         \/ /\ ~flows[h].snat /\ PortTypes' /\ UNCHANGED <<snat, purge, sweep>> /\ failures' \in Nat
            /\ \E o \in Tuple : Rekey(h, o) \/ Refused(h, o)
  <2>1. failures \in Nat /\ failures + 1 \in Nat
    BY DEF FlowInv, FlowTypes
  <2> QED BY <2>1, SnatCases, Zenon
<1> HIDE DEF p, c, h
<1>2. CASE SnatPlain
  <2>1. UNCHANGED <<flows, table, cache, failures, portmap, nat, snat, purge, sweep>>
    BY <1>2, Zenon DEF SnatPlain, portVars
  <2>2. Phases'
    BY <1>0, <1>1, <2>1, BurstGoesOn, Zenon
  <2> QED BY <2>1, <2>2, SameTable, Zenon DEF FlowInv, PortTypes, FlowTypes
<1>3. ASSUME ~flows[h].snat, PortTypes', UNCHANGED <<snat, purge, sweep>>, failures' \in Nat,
             NEW o \in Tuple, Rekey(h, o) \/ Refused(h, o)
      PROVE  FlowInv'
  <2>1. TranslateEffect(h, c, o)
    BY <1>1, <1>3, TranslateSteps, Zenon
  <2>2. \A j \in Key : j.kind = "out" => table'[j] = table[j]
    <3>1. In(c).kind = "in" /\ Wire(o).kind = "wire"
      BY <1>1, KeyForms, Zenon DEF Sending
    <3> QED BY <2>1, <3>1, Zenon DEF TranslateEffect
  <2>3. Phases'
    BY <1>0, <1>1, <1>3, <2>2, BurstGoesOn, Zenon
  <2> QED BY <1>1, <1>3, <2>3, TranslateKeeps, Zenon
<1> QED BY <1>1, <1>2, <1>3, Zenon

-------------------------------------------------------------------------------
(* Every step keeps the invariant of the flow table. *)
LEMMA FlowStep == ASSUME FlowNone, FlowInv, [FlowNext]_allVars PROVE FlowInv'
<1>1. CASE UNCHANGED allVars
  <2>1. UNCHANGED <<portmap, snat, nat, purge, flows, table, cache, burst, sweep, failures>>
    BY <1>1, Zenon DEF allVars, vars, portVars, flowVars
  <2>2. Phases' /\ PortTypes'
    BY <2>1, Zenon DEF FlowInv, Phases, Pending, PortTypes
  <2> QED BY <2>1, <2>2, SameTable, Zenon DEF FlowInv, FlowTypes
<1>2. ASSUME NEW c \in L4Conn, Send(c) PROVE FlowInv'
  <2>1. Out(c) \in Key /\ Out(c).kind = "out" /\ Out(c).conn = c
    BY KeyForms, Zenon
  <2> QED BY <1>2, <2>1, ConntrackKeeps, Zenon DEF Send
<1>3. ASSUME NEW o \in Tuple, Receive(o) PROVE FlowInv'
  <2>1. Wire(o) \in Key /\ Wire(o).kind = "wire"
    BY KeyForms, Zenon
  <2> QED BY <1>3, <2>1, ConntrackKeeps, Zenon DEF Receive
<1>4. CASE DnatNode
  BY <1>4, DnatKeeps, Zenon
<1>5. CASE SnatNode
  BY <1>5, SnatKeeps, Zenon
<1>6. ASSUME NEW k \in Key, SweepEntry(k) \/ PurgeEntry(k) PROVE FlowInv'
  BY <1>6, SweepKeeps, PurgeKeeps, Zenon
<1>7. CASE (\E S \in SUBSET Flow : StartSweep(S)) \/ FinishDeleteNat \/ (\E i \in Iface : Request(i))
  BY <1>7, RequestsKeep, Zenon
<1> QED BY <1>1, <1>2, <1>3, <1>4, <1>5, <1>6, <1>7, Zenon DEF FlowNext

LEMMA FlowInitInv == ASSUME FlowNone, FlowInit PROVE FlowInv
<1>1. PortTypes
  BY Zenon DEF FlowInit, Init, PortTypes
<1>2. FlowTypes /\ FlowsCacheIsFresh
  BY Zenon DEF FlowInit, FlowTypes, FlowsCacheIsFresh
<1>3. Phases
  BY DEF FlowInit, Phases
<1>4. Live = {} /\ \A k \in Key : table[k] = NONE
  BY Zenon DEF FlowInit, Live
<1>5. Shape /\ Entries /\ Refs /\ Paired
  BY <1>4, Zenon DEF Shape, Entries, Refs, Paired
<1> QED BY <1>1, <1>2, <1>3, <1>5, Zenon DEF FlowInv

(* The invariant holds in every reachable state, however many additions    *)
(* the flow table refuses.                                                 *)
THEOREM FlowInvariance == ASSUME FlowNone PROVE FlowSpec => []FlowInv
<1>1. FlowInit => FlowInv
  BY FlowInitInv, Zenon
<1>2. FlowInv /\ [FlowNext]_allVars => FlowInv'
  BY FlowStep, Zenon
<1> QED BY <1>1, <1>2, PTL DEF FlowSpec

(* dp_flow.c, dp_cntrack.c: no entry of the table, no cached pointer and   *)
(* no packet between the nodes refers to a flow that has been freed.       *)
THEOREM FlowsAreNotDangling == ASSUME FlowNone PROVE FlowSpec => []FlowsNothingDangles
<1>1. ASSUME FlowInv PROVE FlowsNothingDangles
  <2>1. \A k \in Key : table[k] # NONE => table[k] \in Live
    BY <1>1, Zenon DEF FlowInv, Entries
  <2>2. ASSUME cache # NONE PROVE cache.flow \in Live
    <3>1. cache.key \in Key /\ cache.flow \in Flow /\ cache.flow # NONE
      BY <1>1, <2>2, Zenon DEF FlowInv, FlowTypes, Packet, FlowNone
    <3> QED BY <1>1, <2>1, <2>2, <3>1, Zenon DEF FlowInv, FlowsCacheIsFresh
  <2>3. ASSUME NEW n \in DOMAIN burst PROVE burst[n].flow \in Live
    <3>1. n \in 1 .. Len(burst)
      BY <1>1 DEF FlowInv, Phases
    <3>2. burst[n].key \in Key /\ table[burst[n].key] = burst[n].flow /\ burst[n].flow # NONE
      BY <1>1, <3>1, InBurst, Zenon DEF FlowNone
    <3> QED BY <2>1, <3>2, Zenon
  <2> QED BY <2>1, <2>2, <2>3, Zenon DEF FlowsNothingDangles
<1> QED BY <1>1, FlowInvariance, PTL

(* dp_cntrack.c: the one-entry cache gives what the table would give.      *)
THEOREM CacheStaysFresh == ASSUME FlowNone PROVE FlowSpec => []FlowsCacheIsFresh
<1>1. FlowInv => FlowsCacheIsFresh
  BY Zenon DEF FlowInv
<1> QED BY <1>1, FlowInvariance, PTL

(* dp_delete_flow(): a reference is counted for every entry of the table.  *)
THEOREM ReferencesSuffice == ASSUME FlowNone PROVE FlowSpec => []FlowsRefsCoverEntries
<1>1. ASSUME FlowInv PROVE FlowsRefsCoverEntries
  <2> SUFFICES ASSUME NEW h \in Live PROVE flows[h].ref >= Cardinality(EntriesOf({h}))
    BY Zenon DEF FlowsRefsCoverEntries
  <2> DEFINE a == flows[h].org
             b == flows[h].reply
             E == EntriesOf({h})
  <2>1. /\ h # NONE /\ a # b /\ flows[h].ref \in Nat /\ flows[h].ref >= 1
        /\ table[a] = h /\ table[b] = h => flows[h].ref >= 2
    BY <1>1, LiveFlow, TwoKeys, Zenon DEF FlowInv, Refs
  <2>2. E \subseteq {a, b} /\ (a \in E => table[a] = h) /\ (b \in E => table[b] = h)
    BY <1>1, <2>1, Zenon DEF EntriesOf, FlowInv, Entries
  <2> HIDE DEF a, b, E
  <2>3. E = {} \/ E = {a} \/ E = {b} \/ (E = {a, b} /\ a \in E /\ b \in E)
    BY <2>2, Zenon
  <2>4. Cardinality({}) = 0 /\ Cardinality({a}) = 1 /\ Cardinality({b}) = 1
    BY FS_EmptySet, FS_Singleton, Zenon
  <2>5. Cardinality({a, b}) = 2
    <3>1. {a, b} = {a} \cup {b} /\ b \notin {a} /\ IsFiniteSet({a})
      BY <2>1, FS_Singleton, Zenon
    <3>2. Cardinality({a} \cup {b}) = Cardinality({a}) + 1
      BY <3>1, FS_AddElement, Zenon
    <3> QED BY <2>4, <3>1, <3>2
  <2> QED BY <2>1, <2>2, <2>3, <2>4, <2>5, SMTT(30) DEF E
<1> QED BY <1>1, FlowInvariance, PTL

-----------------------------------------------------------------------------
(* Conntrack and the NAT ports together, while the flow table refuses      *)
(* nothing.  A flow that is not being removed has both its keys in the     *)
(* table, and as many references as entries; a connection has one flow;    *)
(* and the flows that are translated are those that hold a port, the one   *)
(* of their reply key.                                                     *)
Scanned(h) == h \in sweep \/ (purge # NONE /\ flows[h].snat /\ flows[h].org.conn.iface = purge)

Settled ==
  \A h \in Live : flows[h].org.kind = "out" /\ ~Scanned(h) =>
    table[flows[h].org] = h /\ table[flows[h].reply] = h

EntryAt(entries, k, h) == IF entries[k] = h THEN 1 ELSE 0

ExactRefs ==
  \A h \in Live : flows[h].org.kind = "out" =>
    flows[h].ref = EntryAt(table, flows[h].org, h) + EntryAt(table, flows[h].reply, h)

PortOf(held, c) == OverloadOf(c, held[c].nat_ip, held[c].nat_port)

OneFlow == \A g, h \in Live : flows[g].org.kind = "out" /\ flows[g].org = flows[h].org => g = h

PortHeld ==
  \A h \in Live : flows[h].snat =>
    nat[flows[h].org.conn] # NONE /\ flows[h].reply = Wire(PortOf(nat, flows[h].org.conn))

HolderLives ==
  \A c \in Conn : nat[c] # NONE =>
    c \in L4Conn /\ \E h \in Live : flows[h].snat /\ flows[h].org = Out(c)

LastHeld ==
  last # NONE => sweep = {} /\ purge = NONE /\ nat[last.conn] # NONE /\ PortOf(nat, last.conn) = last.tuple

Fits == Settled /\ ExactRefs /\ OneFlow /\ PortHeld /\ HolderLives

HoldInv == failures = 0 => IInv /\ Fits /\ LastHeld

(* The connection of a flow that was sent by an interface. *)
LEMMA OutFlow ==
  ASSUME FlowNone, FlowInv, NEW h \in Live, flows[h].org.kind = "out"
  PROVE  /\ flows[h].org.conn \in L4Conn /\ flows[h].org.conn \in Conn /\ flows[h].org = Out(flows[h].org.conn)
         /\ ~flows[h].snat => flows[h].reply = In(flows[h].org.conn) /\ flows[h].reply.kind = "in"
         /\ flows[h].snat => flows[h].reply.kind = "wire"
<1> DEFINE k == flows[h].org
<1>1. k \in Key
  BY LiveFlow, Zenon DEF FlowInv
<1>2. k.conn \in L4Conn /\ Out(k.conn) = k /\ Inverted(k) = In(k.conn) /\ In(k.conn).kind = "in"
  BY <1>1, KeySplit, KeyForms, Zenon
<1>3. k.conn \in Conn
  BY <1>2, ConnTypes, Zenon
<1> QED BY <1>2, <1>3, Zenon DEF FlowInv, Shape

(* Neither the flows nor the table nor the ports change, and what is being *)
(* removed still is.                                                       *)
LEMMA SameFlowsFit ==
  ASSUME Fits, UNCHANGED <<flows, table, nat>>, \A h \in Live : Scanned(h) => Scanned(h)'
  PROVE  Fits'
<1>1. Live' = Live
  BY Zenon DEF Live
<1>2. Settled'
  BY <1>1, Zenon DEF Fits, Settled
<1>3. ExactRefs'
  BY <1>1, Zenon DEF Fits, ExactRefs
<1>4. OneFlow'
  BY <1>1, Zenon DEF Fits, OneFlow
<1>5. PortHeld'
  BY <1>1, Zenon DEF Fits, PortHeld
<1>6. HolderLives'
  BY <1>1, Zenon DEF Fits, HolderLives
<1> QED BY <1>2, <1>3, <1>4, <1>5, <1>6, Zenon DEF Fits

(* A new flow takes no entry from one that sends. *)
LEMMA InsertFits ==
  ASSUME FlowNone, FlowInv, Fits, NEW k \in Key, k.kind \in {"out", "wire"}, NEW h \in Flow, Inserted(k, h),
         sweep = {}, purge = NONE, UNCHANGED <<sweep, purge, nat>>
  PROVE  Fits'
<1> DEFINE i == Inverted(k)
<1>0. InsertEffect(k, h) /\ h # NONE
  BY InsertSteps, Zenon DEF FlowNone
<1>1. i \in Key /\ i # k /\ i.kind \in {"in", "back"} /\ table[k] = NONE
  BY KeySplit, Zenon DEF Inserted
<1>2. /\ flows'[h].org = k /\ flows'[h].reply = i /\ flows'[h].ref = 2 /\ ~flows'[h].snat
      /\ table'[k] = h /\ table'[i] = h /\ Live' = Live \cup {h} /\ h \notin Live
      /\ \A j \in Key : j # k /\ j # i => table'[j] = table[j]
      /\ \A g \in Live : flows'[g] = flows[g] /\ g # h
  BY <1>0, Zenon DEF InsertEffect, Live
<1>3. \A g \in Live : ~Scanned(g)
  BY Zenon DEF Scanned
<1>4. ASSUME NEW g \in Live, flows[g].org.kind = "out"
      PROVE  /\ flows[g].org # k
             /\ table[flows[g].org] = g /\ table'[flows[g].org] = g
             /\ table[flows[g].reply] = g /\ table'[flows[g].reply] = g
  <2>1. table[flows[g].org] = g /\ table[flows[g].reply] = g
    BY <1>3, <1>4, Zenon DEF Fits, Settled
  <2>2. g # NONE /\ flows[g].org \in Key /\ flows[g].reply \in Key
    BY LiveFlow, Zenon DEF FlowInv
  <2>3. flows[g].org # k /\ flows[g].reply # k
    BY <1>1, <2>1, <2>2, Zenon
  <2>4. flows[g].org # i
    BY <1>1, <1>4, Zenon
  <2>5. flows[g].reply # i
    <3> SUFFICES ASSUME flows[g].reply = i PROVE FALSE
      OBVIOUS
    <3>1. ~flows[g].snat
      BY <1>1, <1>4, OutFlow, Zenon
    <3>2. i = Inverted(flows[g].org)
      BY <3>1, Zenon DEF FlowInv, Shape
    <3>3. k = flows[g].org
      BY <1>4, <2>2, <3>2, InverseUnique, Zenon
    <3> QED BY <2>3, <3>3, Zenon
  <2> QED BY <1>2, <2>1, <2>2, <2>3, <2>4, <2>5, ZenonT(40)
<1> HIDE DEF i
<1>5. Settled'
  <2> SUFFICES ASSUME NEW g \in Live', flows'[g].org.kind = "out"
               PROVE  table'[flows'[g].org] = g /\ table'[flows'[g].reply] = g
    BY Zenon DEF Settled
  <2>1. CASE g = h
    BY <1>2, <2>1, Zenon
  <2>2. CASE g # h
    BY <1>2, <1>4, <2>2
  <2> QED BY <2>1, <2>2, Zenon
<1>6. ExactRefs'
  <2> SUFFICES ASSUME NEW g \in Live', flows'[g].org.kind = "out"
               PROVE  flows'[g].ref = EntryAt(table', flows'[g].org, g) + EntryAt(table', flows'[g].reply, g)
    BY Zenon DEF ExactRefs
  <2>1. CASE g = h
    BY <1>2, <2>1 DEF EntryAt
  <2>2. CASE g # h
    <3>1. g \in Live /\ flows'[g] = flows[g]
      BY <1>2, <2>2, Zenon
    <3>2. /\ flows[g].ref = EntryAt(table, flows[g].org, g) + EntryAt(table, flows[g].reply, g)
          /\ table[flows[g].org] = g /\ table'[flows[g].org] = g
          /\ table[flows[g].reply] = g /\ table'[flows[g].reply] = g
      BY <1>4, <3>1, Zenon DEF Fits, ExactRefs
    <3> QED BY <3>1, <3>2, Zenon DEF EntryAt
  <2> QED BY <2>1, <2>2, Zenon
<1>7. OneFlow'
  <2> SUFFICES ASSUME NEW f \in Live', NEW g \in Live', flows'[f].org.kind = "out", flows'[f].org = flows'[g].org
               PROVE  f = g
    BY Zenon DEF OneFlow
  <2>1. CASE f = h /\ g # h
    BY <1>2, <1>4, <2>1, ZenonT(40)
  <2>2. CASE g = h /\ f # h
    BY <1>2, <1>4, <2>2, ZenonT(40)
  <2>3. CASE f # h /\ g # h
    BY <1>2, <2>3 DEF Fits, OneFlow
  <2> QED BY <2>1, <2>2, <2>3, Zenon
<1>8. PortHeld'
  <2> SUFFICES ASSUME NEW g \in Live', flows'[g].snat
               PROVE  nat'[flows'[g].org.conn] # NONE /\ flows'[g].reply = Wire(PortOf(nat', flows'[g].org.conn))
    BY Zenon DEF PortHeld
  <2>1. g \in Live /\ flows'[g] = flows[g]
    BY <1>2, Zenon
  <2> QED BY <2>1, Zenon DEF Fits, PortHeld
<1>9. HolderLives'
  <2>1. \A g \in Live : g \in Live' /\ flows'[g] = flows[g]
    BY <1>2, Zenon
  <2> QED BY <2>1, Zenon DEF Fits, HolderLives
<1> QED BY <1>5, <1>6, <1>7, <1>8, <1>9, Zenon DEF Fits

(* dp_allocate_network_snat_port() gives a connection a port that nothing  *)
(* else uses towards the same endpoint.                                    *)
LEMMA AllocatedPort ==
  ASSUME PortTypes, NEW c \in L4Conn, NEW s \in Snat, result' = "OK",
         UseExisting(c, s.nat_ip) \/ CreateNew(c, s) \/ OutOfMemory(c, s)
  PROVE  \E t \in Translation : /\ nat' = [nat EXCEPT ![c] = t]
                                /\ OverloadOf(c, t.nat_ip, t.nat_port) \notin overload
<1>0. KeyOf(c) \in PortmapKey /\ c \in Conn /\ s.nat_ip \in NatIp
  BY ConnTypes, Zenon DEF Snat
<1>1. ASSUME NEW p \in NatPort, nat' = [nat EXCEPT ![c] = [nat_ip |-> s.nat_ip, nat_port |-> p]],
             OverloadOf(c, s.nat_ip, p) \notin overload
      PROVE  \E t \in Translation : /\ nat' = [nat EXCEPT ![c] = t]
                                    /\ OverloadOf(c, t.nat_ip, t.nat_port) \notin overload
  <2> DEFINE t == [nat_ip |-> s.nat_ip, nat_port |-> p]
  <2>1. t \in Translation /\ t.nat_ip = s.nat_ip /\ t.nat_port = p
    BY <1>0, Zenon DEF Translation
  <2>2. nat' = [nat EXCEPT ![c] = t]
    BY <1>1, Zenon
  <2> HIDE DEF t
  <2> QED BY <1>1, <2>1, <2>2, Zenon
<1>2. CASE UseExisting(c, s.nat_ip)
  <2> DEFINE p == portmap[KeyOf(c)].nat_port
  <2>1. portmap[KeyOf(c)] \in Portmap
    BY <1>0, <1>2, Zenon DEF UseExisting, PortTypes
  <2>2. p \in NatPort
    BY <2>1, Zenon DEF Portmap
  <2>3. /\ nat' = [nat EXCEPT ![c] = [nat_ip |-> s.nat_ip, nat_port |-> p]]
        /\ OverloadOf(c, s.nat_ip, p) \notin overload
    BY <1>2, Zenon DEF UseExisting
  <2> QED BY <1>1, <2>2, <2>3, Zenon
<1>3. CASE CreateNew(c, s)
  <2>1. PICK p \in FindNewPort(c, s) : nat' = [nat EXCEPT ![c] = [nat_ip |-> s.nat_ip, nat_port |-> p]]
    BY <1>3, Zenon DEF CreateNew
  <2>2. p \in NatPort /\ OverloadOf(c, s.nat_ip, p) \notin overload
    BY <1>0, FoundPort, Zenon
  <2> QED BY <1>1, <2>1, <2>2, Zenon
<1>4. CASE OutOfMemory(c, s)
  BY <1>4, Zenon DEF OutOfMemory
<1> QED BY <1>2, <1>3, <1>4, Zenon

(* The translated key a flow is given is not that of another flow. *)
LEMMA TranslateFits ==
  ASSUME FlowNone, FlowInv, Fits, IInv, NEW p, NEW c, NEW h, Sending(p, c, h), ~flows[h].snat,
         nat[c] = NONE, NEW t \in Translation, nat' = [nat EXCEPT ![c] = t],
         NEW o \in Tuple, o = OverloadOf(c, t.nat_ip, t.nat_port), o \notin overload,
         Rekey(h, o), UNCHANGED <<sweep, purge, failures>>
  PROVE  Fits' /\ nat'[c] # NONE /\ PortOf(nat', c) = o
<1> DEFINE w == Wire(o)
           i == In(c)
           q == Out(c)
<1>0. failures' \in Nat
  BY Zenon DEF FlowInv, FlowTypes
<1>1. /\ h \in Live /\ h \in Flow /\ h # NONE /\ c \in L4Conn /\ c \in Conn /\ sweep = {} /\ purge = NONE
      /\ flows[h].org = q /\ flows[h].reply = i /\ table[q] = h /\ table[i] = h
  BY LiveFlow, Zenon DEF Sending, FlowInv
<1>2. /\ w \in Key /\ i \in Key /\ q \in Key /\ w.kind = "wire" /\ i.kind = "in" /\ q.kind = "out"
      /\ q.conn = c
  BY <1>1, KeyForms, Zenon
<1>3. /\ flows'[h].org = q /\ flows'[h].reply = w /\ flows'[h].snat /\ flows'[h].ref = flows[h].ref
      /\ \A g \in Flow : g # h => flows'[g] = flows[g]
      /\ table'[w] = h /\ \A j \in Key : j # i /\ j # w => table'[j] = table[j]
      /\ Live' = Live
  BY <1>0, TranslateSteps DEF TranslateEffect
<1>4. /\ nat'[c] = t /\ t # NONE /\ \A d \in Conn : d # c => nat'[d] = nat[d]
      /\ PortOf(nat', c) = o /\ \A d \in Conn : d # c => PortOf(nat', d) = PortOf(nat, d)
  <2>1. nat \in [Conn -> Translation \cup {NONE}]
    BY Zenon DEF FlowInv, PortTypes
  <2>2. nat'[c] = t /\ \A d \in Conn : d # c => nat'[d] = nat[d]
    BY <1>1, <2>1, Zenon
  <2>3. t # NONE
    BY NatNoneAssumption, Zenon
  <2> QED BY <2>2, <2>3, Zenon DEF PortOf
<1>5. \A g \in Live : ~Scanned(g)
  BY <1>1, Zenon DEF Scanned
<1>6. \A g \in Live : g # h /\ flows[g].org.kind = "out" =>
        /\ flows[g].org # q /\ flows'[g] = flows[g]
        /\ table[flows[g].org] = g /\ table'[flows[g].org] = g
        /\ table[flows[g].reply] = g /\ table'[flows[g].reply] = g
  <2> SUFFICES ASSUME NEW g \in Live, g # h, flows[g].org.kind = "out"
               PROVE  /\ flows[g].org # q /\ flows'[g] = flows[g]
                      /\ table[flows[g].org] = g /\ table'[flows[g].org] = g
                      /\ table[flows[g].reply] = g /\ table'[flows[g].reply] = g
    OBVIOUS
  <2>1. table[flows[g].org] = g /\ table[flows[g].reply] = g
    BY <1>5, Zenon DEF Fits, Settled
  <2>2. g \in Flow /\ flows[g].org \in Key /\ flows[g].reply \in Key
    BY LiveFlow, Zenon DEF FlowInv
  <2>3. flows[g].org # i /\ flows[g].org # w /\ flows[g].org # q /\ flows[g].reply # i
    BY <1>1, <1>2, <2>1, Zenon
  <2>4. flows[g].reply # w
    <3> SUFFICES ASSUME flows[g].reply = w PROVE FALSE
      OBVIOUS
    <3>1. flows[g].snat /\ flows[g].org.conn \in Conn
      BY <1>2, OutFlow, Zenon
    <3> DEFINE d == flows[g].org.conn
    <3>2. nat[d] # NONE /\ Wire(PortOf(nat, d)) = Wire(o)
      BY <3>1, Zenon DEF Fits, PortHeld
    <3>3. PortOf(nat, d) = o
      BY <3>2, Zenon DEF Wire
    <3>4. Held(d) \in overload
      BY <3>1, <3>2, Zenon DEF IInv, OverloadIsHeld, Translated
    <3> QED BY <3>3, <3>4, Zenon DEF PortOf, Held
  <2> QED BY <1>3, <2>1, <2>2, <2>3, <2>4, ZenonT(40)
<1>7. \A g \in Live : flows'[g].org = flows[g].org
  BY <1>1, <1>3, LiveFlow, Zenon DEF FlowInv
<1>8. q # i /\ q # w /\ table'[q] = h
  BY <1>1, <1>2, <1>3, Zenon
<1> HIDE DEF w, i, q
<1>9. Settled'
  <2> SUFFICES ASSUME NEW g \in Live', flows'[g].org.kind = "out"
               PROVE  table'[flows'[g].org] = g /\ table'[flows'[g].reply] = g
    BY Zenon DEF Settled
  <2>1. CASE g = h
    BY <1>3, <1>8, <2>1, Zenon
  <2>2. CASE g # h
    BY <1>3, <1>6, <1>7, <2>2, SMTT(30)
  <2> QED BY <2>1, <2>2, Zenon
<1>10. ExactRefs'
  <2> SUFFICES ASSUME NEW g \in Live', flows'[g].org.kind = "out"
               PROVE  flows'[g].ref = EntryAt(table', flows'[g].org, g) + EntryAt(table', flows'[g].reply, g)
    BY Zenon DEF ExactRefs
  <2>0. g \in Live /\ flows[g].org.kind = "out"
    BY <1>3, <1>7, Zenon
  <2>1. flows[g].ref = EntryAt(table, flows[g].org, g) + EntryAt(table, flows[g].reply, g)
    BY <2>0, Zenon DEF Fits, ExactRefs
  <2>2. CASE g = h
    BY <1>1, <1>3, <1>8, <2>1, <2>2, Zenon DEF EntryAt
  <2>3. CASE g # h
    <3>1. /\ flows'[g] = flows[g]
          /\ table[flows[g].org] = g /\ table'[flows[g].org] = g
          /\ table[flows[g].reply] = g /\ table'[flows[g].reply] = g
      BY <1>6, <2>0, <2>3, Zenon
    <3> QED BY <2>1, <3>1, Zenon DEF EntryAt
  <2> QED BY <2>2, <2>3, Zenon
<1>11. OneFlow'
  BY <1>3, <1>7 DEF Fits, OneFlow
<1>12. PortHeld'
  <2> SUFFICES ASSUME NEW g \in Live', flows'[g].snat
               PROVE  nat'[flows'[g].org.conn] # NONE /\ flows'[g].reply = Wire(PortOf(nat', flows'[g].org.conn))
    BY Zenon DEF PortHeld
  <2>1. CASE g = h
    BY <1>2, <1>3, <1>4, <2>1, SMTT(30) DEF w
  <2>2. CASE g # h
    <3>1. g \in Live /\ g \in Flow /\ flows'[g] = flows[g] /\ flows[g].snat
      BY <1>3, <2>2, Zenon DEF Live
    <3>2. flows[g].org.kind = "out"
      BY <3>1, Zenon DEF FlowInv, Shape
    <3>3. flows[g].org.conn \in Conn /\ flows[g].org = Out(flows[g].org.conn)
      BY <3>1, <3>2, OutFlow, Zenon
    <3>4. flows[g].org.conn # c
      BY <1>6, <2>2, <3>1, <3>2, <3>3, ZenonT(40) DEF q
    <3>5. nat[flows[g].org.conn] # NONE /\ flows[g].reply = Wire(PortOf(nat, flows[g].org.conn))
      BY <3>1, Zenon DEF Fits, PortHeld
    <3> QED BY <1>4, <3>1, <3>3, <3>4, <3>5, Zenon
  <2> QED BY <2>1, <2>2, Zenon
<1>13. HolderLives'
  <2> SUFFICES ASSUME NEW d \in Conn, nat'[d] # NONE
               PROVE  d \in L4Conn /\ \E g \in Live' : flows'[g].snat /\ flows'[g].org = Out(d)
    BY Zenon DEF HolderLives
  <2>1. CASE d = c
    BY <1>1, <1>3, <2>1, Zenon DEF q
  <2>2. CASE d # c
    <3>1. nat[d] # NONE
      BY <1>4, <2>2, Zenon
    <3>2. d \in L4Conn
      BY <3>1, Zenon DEF Fits, HolderLives
    <3>3. PICK g \in Live : flows[g].snat /\ flows[g].org = Out(d)
      BY <3>1, Zenon DEF Fits, HolderLives
    <3>4. g \in Live' /\ flows'[g] = flows[g]
      BY <1>3, <3>3, Zenon DEF Live
    <3> QED BY <3>2, <3>3, <3>4, Zenon
  <2> QED BY <2>1, <2>2, Zenon
<1> QED BY <1>4, <1>9, <1>10, <1>11, <1>12, <1>13, Zenon DEF Fits

(* dp_free_flow(): the port that goes with a flow is the one its           *)
(* connection holds.                                                       *)
LEMMA FreedPort ==
  ASSUME FlowNone, FlowInv, Fits, NEW h \in Live, flows[h].snat, FreePort(flows[h]),
         UNCHANGED <<snat, purge, result>>
  PROVE  /\ flows[h].org.conn \in Conn /\ Release(flows[h].org.conn)
         /\ flows[h].org.kind = "out" /\ flows[h].org = Out(flows[h].org.conn)
<1> DEFINE c == flows[h].org.conn
<1>1. flows[h].org.kind = "out"
  BY Zenon DEF FlowInv, Shape
<1>2. c \in Conn /\ flows[h].org = Out(c)
  BY <1>1, OutFlow, Zenon
<1>3. nat[c] # NONE /\ flows[h].reply = Wire(PortOf(nat, c))
  BY Zenon DEF Fits, PortHeld
<1>4. flows[h].reply.tuple = Held(c)
  BY <1>3 DEF Wire, PortOf, Held
<1>5. /\ overload' = overload \ {Held(c)} /\ CountDown(KeyOf(c))
      /\ nat' = [nat EXCEPT ![c] = NONE] /\ used' = [used EXCEPT ![c.iface] = @ - 1]
  BY <1>4, Zenon DEF FreePort
<1>6. Release(c)
  BY <1>3, <1>5, Zenon DEF Release, DeleteEntries
<1> QED BY <1>1, <1>2, <1>6, Zenon

(* A scan removes an entry of a flow it is after, and the flow and its     *)
(* port with the last one.                                                 *)
LEMMA DeleteFits ==
  ASSUME FlowNone, FlowInv, FlowInv', Fits, NEW k \in Key, table[k] # NONE, DeleteEffect(k, table[k]),
         Scanned(table[k]), UNCHANGED <<snat, purge, result>>,
         sweep' = sweep \/ \A g \in sweep : \A j \in Key : table'[j] # g
  PROVE  /\ Fits'
         /\ \/ UNCHANGED <<portVars, nat, used>>
            \/ flows[table[k]].snat /\ flows[table[k]].org.conn \in Conn /\ Release(flows[table[k]].org.conn)
<1> DEFINE h == table[k]
<1>1. /\ h \in Live /\ h \in Flow /\ h # NONE /\ k \in {flows[h].org, flows[h].reply}
      /\ table'[k] = NONE /\ \A j \in Key : j # k => table'[j] = table[j]
      /\ \A g \in Flow : g # h => flows'[g] = flows[g]
  BY Zenon DEF DeleteEffect, FlowNone
<1>2. \/ /\ Live' = Live
         /\ flows'[h].org = flows[h].org /\ flows'[h].reply = flows[h].reply
         /\ flows'[h].snat = flows[h].snat /\ flows'[h].ref = flows[h].ref - 1
         /\ UNCHANGED <<portVars, nat, used>>
      \/ Live' = Live \ {h} /\ FreePort(flows[h])
  BY Zenon DEF DeleteEffect
<1>3. \A g \in Live' :
        /\ g \in Live /\ g \in Flow /\ g # NONE
        /\ flows'[g].org = flows[g].org /\ flows'[g].reply = flows[g].reply /\ flows'[g].snat = flows[g].snat
        /\ IF g = h THEN flows'[g].ref = flows[g].ref - 1 ELSE flows'[g].ref = flows[g].ref
  <2> SUFFICES ASSUME NEW g \in Live'
               PROVE  /\ g \in Live /\ g \in Flow /\ g # NONE
                      /\ flows'[g].org = flows[g].org /\ flows'[g].reply = flows[g].reply
                      /\ flows'[g].snat = flows[g].snat
                      /\ IF g = h THEN flows'[g].ref = flows[g].ref - 1 ELSE flows'[g].ref = flows[g].ref
    OBVIOUS
  <2>1. g \in Live
    BY <1>2, Zenon
  <2>2. g \in Flow /\ g # NONE
    BY <2>1, LiveFlow, Zenon DEF FlowInv
  <2>3. CASE g = h
    BY <1>2, <2>1, <2>2, <2>3, Zenon
  <2>4. CASE g # h
    BY <1>1, <2>1, <2>2, <2>4, Zenon
  <2> QED BY <2>3, <2>4, Zenon
<1>4. \/ UNCHANGED <<portVars, nat, used>>
      \/ /\ Live' = Live \ {h} /\ flows[h].snat
         /\ flows[h].org.conn \in Conn /\ Release(flows[h].org.conn)
         /\ flows[h].org.kind = "out" /\ flows[h].org = Out(flows[h].org.conn)
  <2>1. CASE UNCHANGED <<portVars, nat, used>>
    BY <2>1, Zenon
  <2>2. CASE Live' = Live \ {h} /\ FreePort(flows[h])
    <3>1. CASE flows[h].snat
      BY <1>1, <2>2, <3>1, FreedPort, Zenon
    <3>2. CASE ~flows[h].snat
      BY <2>2, <3>2, Zenon DEF FreePort
    <3> QED BY <3>1, <3>2, Zenon
  <2> QED BY <1>2, <2>1, <2>2, Zenon
<1>5. \A g \in Live' : flows[g].org \in Key /\ flows[g].reply \in Key /\ flows[g].org # flows[g].reply
  BY <1>3, LiveFlow, TwoKeys, Zenon DEF FlowInv
<1> HIDE DEF h
<1>6. \A g \in Live' : \A j \in Key : table'[j] = g <=> table[j] = g /\ j # k
  BY <1>1, <1>3, Zenon
<1>7. ExactRefs'
  <2> SUFFICES ASSUME NEW g \in Live', flows'[g].org.kind = "out"
               PROVE  flows'[g].ref = EntryAt(table', flows'[g].org, g) + EntryAt(table', flows'[g].reply, g)
    BY Zenon DEF ExactRefs
  <2> DEFINE a == flows[g].org
             b == flows[g].reply
  <2>1. g \in Live /\ flows'[g].org = a /\ flows'[g].reply = b /\ a.kind = "out"
    BY <1>3, Zenon
  <2>2. flows[g].ref = EntryAt(table, a, g) + EntryAt(table, b, g)
    BY <2>1, Zenon DEF Fits, ExactRefs
  <2>3. a \in Key /\ b \in Key /\ a # b
    BY <1>5, Zenon
  <2>4. CASE g = h
    <3>1. flows'[g].ref = flows[g].ref - 1 /\ k \in {a, b} /\ table[k] = g
      BY <1>1, <1>3, <2>4, Zenon DEF h
    <3>2. CASE k = a
      <4>1. EntryAt(table, a, g) = 1 /\ EntryAt(table', a, g) = 0 /\ EntryAt(table', b, g) = EntryAt(table, b, g)
        BY <1>6, <2>3, <3>1, <3>2, Zenon DEF EntryAt
      <4>2. EntryAt(table, b, g) \in Nat
        BY Zenon DEF EntryAt
      <4> HIDE DEF a, b
      <4> QED BY <2>1, <2>2, <3>1, <4>1, <4>2, SMTT(30)
    <3>3. CASE k = b
      <4>1. EntryAt(table, b, g) = 1 /\ EntryAt(table', b, g) = 0 /\ EntryAt(table', a, g) = EntryAt(table, a, g)
        BY <1>6, <2>3, <3>1, <3>3, Zenon DEF EntryAt
      <4>2. EntryAt(table, a, g) \in Nat
        BY Zenon DEF EntryAt
      <4> HIDE DEF a, b
      <4> QED BY <2>1, <2>2, <3>1, <4>1, <4>2, SMTT(30)
    <3> QED BY <3>1, <3>2, <3>3, Zenon
  <2>5. CASE g # h
    <3>1. flows'[g].ref = flows[g].ref /\ table[k] # g
      BY <1>3, <2>5, Zenon DEF h
    <3>2. EntryAt(table', a, g) = EntryAt(table, a, g) /\ EntryAt(table', b, g) = EntryAt(table, b, g)
      BY <1>6, <2>3, <3>1, Zenon DEF EntryAt
    <3> QED BY <2>1, <2>2, <3>1, <3>2, Zenon
  <2> QED BY <2>4, <2>5, Zenon
<1>8. Settled'
  <2> SUFFICES ASSUME NEW g \in Live', flows'[g].org.kind = "out", ~Scanned(g)'
               PROVE  table'[flows'[g].org] = g /\ table'[flows'[g].reply] = g
    BY Zenon DEF Settled
  <2>1. ASSUME \A j \in Key : table'[j] # g PROVE FALSE
    <3>1. flows'[g].ref = EntryAt(table', flows'[g].org, g) + EntryAt(table', flows'[g].reply, g)
      BY <1>7, Zenon DEF ExactRefs
    <3>2. EntryAt(table', flows'[g].org, g) = 0 /\ EntryAt(table', flows'[g].reply, g) = 0
      BY <1>3, <1>5, <2>1, Zenon DEF EntryAt
    <3>3. flows'[g].ref >= 1
      BY Zenon DEF FlowInv, Refs
    <3> QED BY <3>1, <3>2, <3>3, SMTT(30)
  <2>2. ~Scanned(g)
    <3>1. g \notin sweep
      BY <2>1, Zenon DEF Scanned
    <3> QED BY <1>3, <3>1, Zenon DEF Scanned
  <2>3. table[flows[g].org] = g /\ table[flows[g].reply] = g
    BY <1>3, <2>2, Zenon DEF Fits, Settled
  <2>4. k # flows[g].org /\ k # flows[g].reply
    BY <2>2, <2>3, Zenon
  <2> QED BY <1>3, <1>5, <1>6, <2>3, <2>4, SMTT(30)
<1>9. OneFlow'
  BY <1>3 DEF Fits, OneFlow
<1>10. PortHeld' /\ HolderLives'
  <2>1. CASE UNCHANGED <<portVars, nat, used>>
    <3>1. PortHeld'
      BY <1>3, <2>1, Zenon DEF Fits, PortHeld
    <3>2. ASSUME NEW d \in Conn, nat[d] # NONE, NEW g \in Live, flows[g].snat, flows[g].org = Out(d)
          PROVE  g \in Live' /\ flows'[g].snat /\ flows'[g].org = Out(d)
      <4>1. CASE g \in Live'
        BY <1>3, <3>2, <4>1, Zenon
      <4>2. CASE g \notin Live'
        <5>1. g = h /\ FreePort(flows[g])
          BY <1>2, <4>2, Zenon DEF h
        <5>2. Release(flows[g].org.conn)
          BY <3>2, <5>1, FreedPort, Zenon
        <5>3. nat'[flows[g].org.conn] = NONE /\ nat[flows[g].org.conn] # NONE
          <6>1. nat \in [Conn -> Translation \cup {NONE}] /\ flows[g].org.conn \in Conn
            BY <3>2, <5>1, FreedPort, Zenon DEF FlowInv, PortTypes
          <6> QED BY <5>2, <6>1, Zenon DEF Release
        <5> QED BY <2>1, <5>3, Zenon
      <4> QED BY <4>1, <4>2, Zenon
    <3>3. HolderLives'
      <4> SUFFICES ASSUME NEW d \in Conn, nat'[d] # NONE
                   PROVE  d \in L4Conn /\ \E g \in Live' : flows'[g].snat /\ flows'[g].org = Out(d)
        BY Zenon DEF HolderLives
      <4>1. nat[d] # NONE
        BY <2>1, Zenon
      <4>2. d \in L4Conn
        BY <4>1, Zenon DEF Fits, HolderLives
      <4>3. PICK g \in Live : flows[g].snat /\ flows[g].org = Out(d)
        BY <4>1, Zenon DEF Fits, HolderLives
      <4>4. g \in Live' /\ flows'[g].snat /\ flows'[g].org = Out(d)
        BY <3>2, <4>1, <4>3, Zenon
      <4> QED BY <4>2, <4>4, Zenon
    <3> QED BY <3>1, <3>3, Zenon
  <2>2. CASE /\ Live' = Live \ {h} /\ flows[h].snat
             /\ flows[h].org.conn \in Conn /\ Release(flows[h].org.conn)
             /\ flows[h].org.kind = "out" /\ flows[h].org = Out(flows[h].org.conn)
    <3> DEFINE c == flows[h].org.conn
    <3>1. nat'[c] = NONE /\ \A d \in Conn : d # c => nat'[d] = nat[d] /\ PortOf(nat', d) = PortOf(nat, d)
      <4>1. nat \in [Conn -> Translation \cup {NONE}] /\ nat' = [nat EXCEPT ![c] = NONE] /\ c \in Conn
        BY <2>2, Zenon DEF FlowInv, PortTypes, Release
      <4>2. nat'[c] = NONE /\ \A d \in Conn : d # c => nat'[d] = nat[d]
        BY <4>1, Zenon
      <4> QED BY <4>2, Zenon DEF PortOf
    <3>2. PortHeld'
      <4> SUFFICES ASSUME NEW g \in Live', flows'[g].snat
                   PROVE  /\ nat'[flows'[g].org.conn] # NONE
                          /\ flows'[g].reply = Wire(PortOf(nat', flows'[g].org.conn))
        BY Zenon DEF PortHeld
      <4>1. /\ g \in Live /\ g # h /\ flows[g].snat
            /\ flows'[g].org = flows[g].org /\ flows'[g].reply = flows[g].reply
        BY <1>3, <2>2, Zenon
      <4>2. flows[g].org.kind = "out"
        BY <4>1, Zenon DEF FlowInv, Shape
      <4>3. flows[g].org.conn \in Conn /\ flows[g].org = Out(flows[g].org.conn)
        BY <4>1, <4>2, OutFlow, ZenonT(40)
      <4>4. flows[g].org.conn # c
        BY <1>1, <2>2, <4>1, <4>2, <4>3, SMTT(30) DEF Fits, OneFlow
      <4>5. nat[flows[g].org.conn] # NONE /\ flows[g].reply = Wire(PortOf(nat, flows[g].org.conn))
        BY <4>1, Zenon DEF Fits, PortHeld
      <4> QED BY <3>1, <4>1, <4>3, <4>4, <4>5, Zenon
    <3>3. HolderLives'
      <4> SUFFICES ASSUME NEW d \in Conn, nat'[d] # NONE
                   PROVE  d \in L4Conn /\ \E g \in Live' : flows'[g].snat /\ flows'[g].org = Out(d)
        BY Zenon DEF HolderLives
      <4>1. nat[d] # NONE /\ d # c
        BY <3>1, Zenon
      <4>2. d \in L4Conn
        BY <4>1, Zenon DEF Fits, HolderLives
      <4>3. PICK g \in Live : flows[g].snat /\ flows[g].org = Out(d)
        BY <4>1, Zenon DEF Fits, HolderLives
      <4>4. c \in L4Conn
        BY <1>1, <2>2, OutFlow, Zenon
      <4>5. g # h
        BY <4>1, <4>2, <4>3, <4>4, KeyForms, SMTT(30)
      <4>6. g \in Live'
        BY <2>2, <4>5, Zenon
      <4> QED BY <1>3, <4>2, <4>3, <4>6, ZenonT(40)
    <3> QED BY <3>2, <3>3, Zenon
  <2> QED BY <1>4, <2>1, <2>2, Zenon
<1> QED BY <1>4, <1>7, <1>8, <1>9, <1>10, Zenon DEF Fits, h

-------------------------------------------------------------------------------
(* The steps.  Each is a step of NatPorts or leaves the port tables alone. *)
Moved == Fits' /\ LastHeld' /\ (UNCHANGED vars \/ Next)

LEMMA ConntrackMoves ==
  ASSUME FlowNone, FlowInv, Fits, failures' = 0, NEW k \in Key, Conntrack(k), k.kind \in {"out", "wire"}
  PROVE  Moved
<1>1. sweep = {} /\ purge = NONE /\ UNCHANGED vars /\ UNCHANGED sweep /\ last' = NONE
  BY Zenon DEF Conntrack, CanReceive
<1>2. UNCHANGED <<purge, nat>>
  BY <1>1, Zenon DEF vars
<1>3. LastHeld'
  BY <1>1, Zenon DEF LastHeld
<1>4. ASSUME UNCHANGED <<flows, table>> PROVE Fits'
  BY <1>1, <1>2, <1>4, SameFlowsFit, Zenon DEF Scanned
<1>5. CASE Hit(k)
  BY <1>1, <1>3, <1>4, <1>5, Zenon DEF Hit, Moved
<1>6. CASE Insert(k)
  <2>1. table[k] = NONE
    BY <1>6, LookupIsTable, Zenon DEF FlowInv, Insert
  <2>2. ASSUME NEW h \in Flow, flows[h] = NONE, NewFlow(k, h),
               table' = [table EXCEPT ![k] = h, ![Inverted(k)] = h], Found(k, h), UNCHANGED failures
        PROVE  Fits'
    <3>1. Inserted(k, h)
      BY <2>1, <2>2, Zenon DEF Inserted
    <3> QED BY <1>1, <1>2, <3>1, InsertFits, Zenon
  <2>3. failures' # failures + 1
    BY DEF FlowInv, FlowTypes
  <2> QED BY <1>1, <1>3, <1>6, <2>2, <2>3, Zenon DEF Insert, Moved
<1> QED BY <1>5, <1>6, Zenon DEF Conntrack

(* A reply arrives at the port its connection holds. *)
LEMMA DnatMoves == ASSUME FlowNone, FlowInv, Fits, DnatNode PROVE Moved
<1>0. PICK n \in Inbound :
        /\ last' = IF flows[burst[n].flow].snat /\ flows[burst[n].flow].org # burst[n].key
                   THEN [conn |-> flows[burst[n].flow].org.conn, tuple |-> burst[n].key.tuple] ELSE NONE
        /\ UNCHANGED <<vars, flows, table, sweep>>
  BY Zenon DEF DnatNode
<1> DEFINE k == burst[n].key
           h == burst[n].flow
<1>1. n \in 1 .. Len(burst)
  BY DEF Inbound, FlowInv, Phases
<1>2. /\ k \in Key /\ h \in Flow /\ h # NONE /\ table[k] = h /\ sweep = {} /\ purge = NONE
  BY <1>1, InBurst, Zenon DEF FlowNone
<1>3. h \in Live /\ k \in {flows[h].org, flows[h].reply}
  BY <1>2, Zenon DEF FlowInv, Entries
<1>4. UNCHANGED <<purge, nat>>
  BY <1>0, Zenon DEF vars
<1>5. Fits'
  BY <1>0, <1>4, SameFlowsFit, ZenonT(40) DEF Scanned
<1>6. LastHeld'
  <2> SUFFICES ASSUME last' # NONE
               PROVE  /\ sweep' = {} /\ purge' = NONE /\ nat'[last'.conn] # NONE
                      /\ PortOf(nat', last'.conn) = last'.tuple
    BY Zenon DEF LastHeld
  <2>1. flows[h].snat /\ flows[h].org # k /\ last' = [conn |-> flows[h].org.conn, tuple |-> k.tuple]
    BY <1>0, Zenon
  <2>2. nat[flows[h].org.conn] # NONE /\ k = Wire(PortOf(nat, flows[h].org.conn))
    BY <1>3, <2>1, Zenon DEF Fits, PortHeld
  <2>3. k.tuple = PortOf(nat, flows[h].org.conn)
    BY <2>2 DEF Wire
  <2>4. last'.conn = flows[h].org.conn /\ last'.tuple = k.tuple
    BY <2>1
  <2>5. sweep' = {} /\ purge' = NONE /\ nat' = nat
    BY <1>0, <1>2, <1>4, Zenon
  <2>6. nat'[last'.conn] # NONE
    BY <2>2, <2>4, <2>5, Zenon
  <2>7. PortOf(nat', last'.conn) = last'.tuple
    BY <2>3, <2>4, <2>5, Zenon
  <2> QED BY <2>5, <2>6, <2>7, Zenon
<1> QED BY <1>0, <1>5, <1>6, Zenon DEF Moved

(* A flow without the flag belongs to a connection without a port; it is   *)
(* given one and sends from it.                                            *)
LEMMA SnatMoves == ASSUME FlowNone, FlowInv, Fits, IInv, failures' = 0, SnatNode PROVE Moved
<1> DEFINE p == Head(burst)
           c == p.key.conn
           h == p.flow
           s == snat[c.iface]
<1>0. Inbound = {} /\ burst # <<>> /\ UNCHANGED sweep
  BY Zenon DEF SnatNode
<1>1. Sending(p, c, h)
  BY <1>0, SnatHead, Zenon
<1>2. /\ c \in L4Conn /\ c \in Conn /\ s \in Snat /\ s # NONE /\ h \in Live /\ flows[h].org = Out(c)
      /\ Out(c).kind = "out" /\ Out(c).conn = c /\ sweep = {} /\ purge = NONE
  BY <1>1, KeyForms, Zenon DEF Sending
<1>3. failures' # failures + 1
  BY DEF FlowInv, FlowTypes
<1>4. ASSUME UNCHANGED <<flows, table, nat, purge>> PROVE Fits'
  BY <1>0, <1>4, SameFlowsFit, ZenonT(40) DEF Scanned
<1>5. CASE flows[h].snat
  <2>1. last' = [conn |-> c, tuple |-> flows[h].reply.tuple] /\ UNCHANGED <<vars, table, flows>>
    BY <1>5, Zenon DEF SnatNode
  <2>2. UNCHANGED <<nat, purge>>
    BY <2>1, Zenon DEF vars
  <2>3. nat[c] # NONE /\ flows[h].reply = Wire(PortOf(nat, c))
    BY <1>2, <1>5, Zenon DEF Fits, PortHeld
  <2>4. flows[h].reply.tuple = PortOf(nat, c)
    BY <2>3 DEF Wire
  <2> HIDE DEF c, h
  <2>5. LastHeld'
    BY <1>0, <1>2, <2>1, <2>2, <2>3, <2>4, Zenon DEF LastHeld
  <2> QED BY <1>4, <2>1, <2>2, <2>5, Zenon DEF Moved
<1>6. CASE ~flows[h].snat
  <2>1. /\ UseExisting(c, s.nat_ip) \/ CreateNew(c, s) \/ OutOfMemory(c, s)
        /\ result' = "OK" =>
             /\ Rekey(h, OverloadOf(c, nat'[c].nat_ip, nat'[c].nat_port))
             /\ last' = [conn |-> c, tuple |-> OverloadOf(c, nat'[c].nat_ip, nat'[c].nat_port)]
        /\ result' # "OK" => last' = NONE /\ UNCHANGED <<table, flows>>
        /\ UNCHANGED <<snat, purge, failures>>
    BY <1>3, <1>6, Zenon DEF SnatNode, FirstSnat, RekeyRefused
  <2> HIDE DEF p, c, h, s
  <2>2. nat[c] = NONE
    <3> SUFFICES ASSUME nat[c] # NONE PROVE FALSE
      OBVIOUS
    <3>1. PICK g \in Live : flows[g].snat /\ flows[g].org = Out(c)
      BY <1>2, Zenon DEF Fits, HolderLives
    <3>2. g = h
      BY <1>2, <3>1, Zenon DEF Fits, OneFlow
    <3> QED BY <1>6, <3>1, <3>2, Zenon
  <2>3. Allocate(c)
    BY <1>2, <2>1, <2>2, Zenon DEF Allocate, s
  <2>4. Next
    BY <1>2, <2>3, Zenon DEF Next
  <2>5. PortTypes
    BY Zenon DEF FlowInv
  <2>6. CASE result' = "OK"
    <3>1. PICK t \in Translation : /\ nat' = [nat EXCEPT ![c] = t]
                                   /\ OverloadOf(c, t.nat_ip, t.nat_port) \notin overload
      BY <1>2, <2>1, <2>5, <2>6, AllocatedPort, Zenon
    <3>2. nat'[c] = t
      BY <1>2, <2>5, <3>1, Zenon DEF PortTypes
    <3> DEFINE o == OverloadOf(c, t.nat_ip, t.nat_port)
    <3>3. o \in Tuple
      BY <1>2, <2>1, <2>5, <2>6, <3>2, AllocationTypes, Zenon
    <3>4. Rekey(h, o) /\ last' = [conn |-> c, tuple |-> o]
      BY <2>1, <2>6, <3>2, Zenon
    <3> HIDE DEF o
    <3>5. Fits' /\ nat'[c] # NONE /\ PortOf(nat', c) = o
      BY <1>0, <1>1, <1>6, <2>1, <2>2, <3>1, <3>3, <3>4, TranslateFits, ZenonT(40) DEF o
    <3>6. LastHeld'
      BY <1>0, <1>2, <2>1, <3>4, <3>5, Zenon DEF LastHeld
    <3> QED BY <2>4, <3>5, <3>6, Zenon DEF Moved
  <2>7. CASE result' # "OK"
    <3>1. UNCHANGED nat /\ last' = NONE /\ UNCHANGED <<table, flows>>
      BY <1>2, <2>1, <2>5, <2>7, AllocationTypes, Zenon
    <3>2. LastHeld'
      BY <3>1, Zenon DEF LastHeld
    <3> QED BY <1>4, <2>1, <2>4, <3>1, <3>2, Zenon DEF Moved
  <2> QED BY <2>6, <2>7, Zenon
<1> QED BY <1>5, <1>6, Zenon

LEMMA SweepMoves ==
  ASSUME FlowNone, FlowInv, Fits, LastHeld, NEW k \in Key, SweepEntry(k)
  PROVE  Moved
<1>0. sweep \subseteq Flow /\ FlowInv'
  BY SweepKeeps, Zenon DEF FlowInv, FlowTypes
<1>1. table[k] # NONE /\ table[k] \in sweep /\ purge = NONE
  BY <1>0, Zenon DEF SweepEntry, FlowNone, FlowInv, Phases
<1>2. DeleteFlow(k) /\ UNCHANGED <<snat, purge, result, failures, last>>
  BY Zenon DEF SweepEntry
<1>3. sweep' \in {{}, sweep} /\ (sweep' # sweep => EntriesOf(sweep) = {k})
  BY Zenon DEF SweepEntry
<1>4. DeleteEffect(k, table[k])
  BY <1>0, <1>1, <1>2, <1>3, DeleteSteps, Zenon
<1>5. sweep' = sweep \/ \A g \in sweep : \A j \in Key : table'[j] # g
  <2> SUFFICES ASSUME EntriesOf(sweep) = {k}, NEW g \in sweep, NEW j \in Key PROVE table'[j] # g
    BY <1>3, Zenon
  <2>1. g # NONE
    BY <1>0, Zenon DEF FlowNone
  <2>2. j # k => table[j] # g
    BY Zenon DEF EntriesOf
  <2> QED BY <1>4, <2>1, <2>2, Zenon DEF DeleteEffect
<1>6. /\ Fits'
      /\ \/ UNCHANGED <<portVars, nat, used>>
         \/ flows[table[k]].org.conn \in Conn /\ Release(flows[table[k]].org.conn)
  BY <1>0, <1>1, <1>2, <1>4, <1>5, DeleteFits, Zenon DEF Scanned
<1>7. UNCHANGED vars \/ Next
  BY <1>1, <1>2, <1>6, Zenon DEF vars, Next, Age
<1>8. LastHeld'
  BY <1>1, <1>2, Zenon DEF LastHeld
<1> QED BY <1>6, <1>7, <1>8, Zenon DEF Moved

LEMMA PurgeMoves ==
  ASSUME FlowNone, FlowInv, Fits, LastHeld, NEW k \in Key, PurgeEntry(k)
  PROVE  Moved
<1>0. FlowInv' /\ sweep' \subseteq Flow
  BY PurgeKeeps, Zenon DEF FlowInv, FlowTypes
<1>1. /\ table[k] # NONE /\ table[k] \in Flow /\ purge # NONE
      /\ flows[table[k]].snat /\ flows[table[k]].org.conn.iface = purge
  BY Zenon DEF PurgeEntry, NatFlowsOf, FlowNone
<1>2. DeleteFlow(k) /\ UNCHANGED <<snat, purge, result, sweep, failures, last>>
  BY Zenon DEF PurgeEntry
<1>3. DeleteEffect(k, table[k])
  BY <1>0, <1>1, <1>2, DeleteSteps, Zenon
<1>4. /\ Fits'
      /\ \/ UNCHANGED <<portVars, nat, used>>
         \/ flows[table[k]].org.conn \in Conn /\ Release(flows[table[k]].org.conn)
  BY <1>0, <1>1, <1>2, <1>3, DeleteFits, Zenon DEF Scanned
<1>5. UNCHANGED vars \/ Next
  BY <1>1, <1>2, <1>4, Zenon DEF vars, Next, RemoveNatFlow
<1>6. LastHeld'
  BY <1>1, <1>2, Zenon DEF LastHeld
<1> QED BY <1>4, <1>5, <1>6, Zenon DEF Moved

(* When the scan for the flows of a NAT address finds nothing more, no     *)
(* connection of the interface holds a port.                               *)
LEMMA FinishMoves == ASSUME FlowNone, FlowInv, Fits, LastHeld, FinishDeleteNat PROVE Moved
<1>1. /\ purge # NONE /\ purge' = NONE /\ snat' = [snat EXCEPT ![purge] = NONE]
      /\ EntriesOf(NatFlowsOf(purge)) = {}
      /\ UNCHANGED <<portVars, nat, used, result>> /\ UNCHANGED <<flows, table, sweep, last>>
  BY Zenon DEF FinishDeleteNat, flowVars
<1>2. sweep = {} /\ last = NONE
  BY <1>1, Zenon DEF FlowInv, Phases, LastHeld
<1>3. ASSUME NEW h \in Live, flows[h].snat, flows[h].org.conn.iface = purge PROVE FALSE
  <2>1. h \in NatFlowsOf(purge) /\ flows[h].org \in Key /\ flows[h].reply \in Key
    BY <1>3, LiveFlow, Zenon DEF NatFlowsOf, FlowInv
  <2>2. table[flows[h].org] # h /\ table[flows[h].reply] # h
    BY <1>1, <2>1, Zenon DEF EntriesOf
  <2>3. flows[h].org.kind = "out" /\ flows[h].ref >= 1
    BY <1>3, Zenon DEF FlowInv, Shape, Refs
  <2>4. flows[h].ref = EntryAt(table, flows[h].org, h) + EntryAt(table, flows[h].reply, h)
    BY <2>3, Zenon DEF Fits, ExactRefs
  <2>5. EntryAt(table, flows[h].org, h) = 0 /\ EntryAt(table, flows[h].reply, h) = 0
    BY <2>2, Zenon DEF EntryAt
  <2> QED BY <2>3, <2>4, <2>5, SMTT(30)
<1>4. Fits'
  BY <1>1, <1>2, <1>3, SameFlowsFit, Zenon DEF Scanned
<1>5. ASSUME NEW c \in Conn, c.iface = purge PROVE nat[c] = NONE
  <2> SUFFICES ASSUME nat[c] # NONE PROVE FALSE
    OBVIOUS
  <2>1. c \in L4Conn
    BY Zenon DEF Fits, HolderLives
  <2>2. PICK h \in Live : flows[h].snat /\ flows[h].org = Out(c)
    BY Zenon DEF Fits, HolderLives
  <2>3. flows[h].org.conn = c
    BY <2>1, <2>2, KeyForms, SMTT(30)
  <2> QED BY <1>3, <1>5, <2>2, <2>3, Zenon
<1>6. DelIfaceNatIp
  BY <1>1, <1>5, Zenon DEF DelIfaceNatIp
<1>7. LastHeld'
  BY <1>1, <1>2, Zenon DEF LastHeld
<1> QED BY <1>4, <1>6, <1>7, Zenon DEF Moved, Next

LEMMA RequestsMove ==
  ASSUME FlowNone, FlowInv, Fits, (\E S \in SUBSET Flow : StartSweep(S)) \/ (\E i \in Iface : Request(i))
  PROVE  Moved
<1>1. ASSUME NEW S \in SUBSET Flow, StartSweep(S) PROVE Moved
  <2>1. sweep = {} /\ purge = NONE /\ last' = NONE /\ UNCHANGED vars /\ UNCHANGED <<flows, table>>
    BY <1>1, Zenon DEF StartSweep, Idle
  <2>2. UNCHANGED <<nat, purge>>
    BY <2>1, Zenon DEF vars
  <2>3. Fits'
    BY <2>1, <2>2, SameFlowsFit, Zenon DEF Scanned
  <2> QED BY <2>1, <2>3, Zenon DEF Moved, LastHeld
<1>2. ASSUME NEW i \in Iface, Request(i) PROVE Moved
  <2>1. sweep = {} /\ purge = NONE /\ last' = NONE /\ UNCHANGED <<flows, table, sweep, nat>>
    BY <1>2, Zenon DEF Request, Idle, DeleteNat, CreateNat
  <2>2. Fits'
    BY <2>1, SameFlowsFit, Zenon DEF Scanned
  <2>3. Next
    BY <1>2, Zenon DEF Request, Next
  <2> QED BY <2>1, <2>2, <2>3, Zenon DEF Moved, LastHeld
<1> QED BY <1>1, <1>2, Zenon

(* Nothing takes back that an addition was refused. *)
LEMMA FailuresStay == ASSUME FlowInv, [FlowNext]_allVars PROVE failures' \in {failures, failures + 1}
<1>1. CASE UNCHANGED allVars
  BY <1>1, Zenon DEF allVars, flowVars
<1>2. ASSUME NEW k, Conntrack(k) PROVE failures' \in {failures, failures + 1}
  BY <1>2, Zenon DEF Conntrack, Hit, Insert
<1>3. CASE DnatNode
  BY <1>3, Zenon DEF DnatNode
<1>4. CASE SnatNode
  BY <1>4, Zenon DEF SnatNode, FirstSnat, RekeyRefused
<1>5. ASSUME NEW S, StartSweep(S) PROVE failures' = failures
  BY <1>5, Zenon DEF StartSweep
<1>6. ASSUME NEW k, SweepEntry(k) \/ PurgeEntry(k) PROVE failures' = failures
  BY <1>6, Zenon DEF SweepEntry, PurgeEntry
<1>7. CASE FinishDeleteNat
  BY <1>7, Zenon DEF FinishDeleteNat, flowVars
<1>8. ASSUME NEW i, Request(i) PROVE failures' = failures
  BY <1>8, Zenon DEF Request
<1> QED BY <1>1, <1>2, <1>3, <1>4, <1>5, <1>6, <1>7, <1>8, ZenonT(40) DEF FlowNext, Send, Receive

LEMMA HoldStep ==
  ASSUME FlowNone, CounterFits, FlowInv, HoldInv, [FlowNext]_allVars
  PROVE  HoldInv' /\ (failures' = 0 => UNCHANGED vars \/ Next)
<1> SUFFICES ASSUME failures' = 0
             PROVE  IInv' /\ Fits' /\ LastHeld' /\ (UNCHANGED vars \/ Next)
  BY Zenon DEF HoldInv
<1>0. IInv /\ Fits /\ LastHeld
  <2>1. failures = 0
    BY FailuresStay DEF FlowInv, FlowTypes
  <2> QED BY <2>1, Zenon DEF HoldInv
<1>1. ASSUME UNCHANGED allVars PROVE Moved
  <2>1. UNCHANGED vars /\ UNCHANGED <<flows, table, nat, sweep, purge, last>>
    BY <1>1, Zenon DEF allVars, flowVars, vars
  <2>2. Fits'
    BY <1>0, <2>1, SameFlowsFit, Zenon DEF Scanned
  <2>3. LastHeld'
    BY <1>0, <2>1, Zenon DEF LastHeld
  <2> QED BY <2>1, <2>2, <2>3, Zenon DEF Moved
<1>2. ASSUME NEW c \in L4Conn, Send(c) PROVE Moved
  <2>1. Out(c) \in Key /\ Out(c).kind = "out" /\ Conntrack(Out(c))
    BY <1>2, KeyForms, Zenon DEF Send
  <2> QED BY <1>0, <2>1, ConntrackMoves, Zenon
<1>3. ASSUME NEW o \in Tuple, Receive(o) PROVE Moved
  <2>1. Wire(o) \in Key /\ Wire(o).kind = "wire" /\ Conntrack(Wire(o))
    BY <1>3, KeyForms, Zenon DEF Receive
  <2> QED BY <1>0, <2>1, ConntrackMoves, Zenon
<1>4. ASSUME DnatNode PROVE Moved
  BY <1>0, <1>4, DnatMoves, Zenon
<1>5. ASSUME SnatNode PROVE Moved
  BY <1>0, <1>5, SnatMoves, Zenon
<1>6. ASSUME NEW k \in Key, SweepEntry(k) \/ PurgeEntry(k) PROVE Moved
  BY <1>0, <1>6, SweepMoves, PurgeMoves, Zenon
<1>7. ASSUME FinishDeleteNat PROVE Moved
  BY <1>0, <1>7, FinishMoves, Zenon
<1>8. ASSUME (\E S \in SUBSET Flow : StartSweep(S)) \/ (\E i \in Iface : Request(i)) PROVE Moved
  BY <1>0, <1>8, RequestsMove, Zenon
<1>9. Moved
  BY <1>1, <1>2, <1>3, <1>4, <1>5, <1>6, <1>7, <1>8, ZenonT(40) DEF FlowNext
<1>10. IInv'
  <2>1. [Next]_vars
    BY <1>9, Zenon DEF Moved
  <2> QED BY <1>0, <2>1, NextIInv, Zenon
<1> QED BY <1>9, <1>10, Zenon DEF Moved

LEMMA HoldInit == ASSUME FlowNone, FlowInit PROVE HoldInv
<1>1. Init /\ Live = {} /\ last = NONE /\ \A c \in Conn : nat[c] = NONE
  BY Zenon DEF FlowInit, Init, Live
<1>2. IInv
  BY <1>1, InitIInv, Zenon
<1>3. Settled /\ ExactRefs /\ OneFlow /\ PortHeld /\ HolderLives /\ LastHeld
  BY <1>1, Zenon DEF Settled, ExactRefs, OneFlow, PortHeld, HolderLives, LastHeld
<1> QED BY <1>2, <1>3, Zenon DEF HoldInv, Fits

(* Conntrack and the NAT ports agree for as long as no addition is         *)
(* refused, for any number of interfaces, connections, ports and flows.    *)
THEOREM HoldInvariance == ASSUME FlowNone, CounterFits PROVE FlowSpec => [](FlowInv /\ HoldInv)
<1>1. FlowInit => FlowInv /\ HoldInv
  BY FlowInitInv, HoldInit, Zenon
<1>2. FlowInv /\ HoldInv /\ [FlowNext]_allVars => (FlowInv /\ HoldInv)'
  BY FlowStep, HoldStep, Zenon
<1> QED BY <1>1, <1>2, PTL DEF FlowSpec

(* snat_node.c, dnat_node.c: a packet leaves from, or arrives at, the port *)
(* its connection holds at that moment.                                    *)
THEOREM TranslatedAsHeld == ASSUME FlowNone, CounterFits PROVE FlowSpec => []FlowsTranslatedAsHeld
<1>1. HoldInv => FlowsTranslatedAsHeld
  BY Zenon DEF HoldInv, LastHeld, FlowsTranslatedAsHeld, PortOf, Held
<1> QED BY <1>1, HoldInvariance, PTL

(* dp_free_network_nat_port(): the flow of a connection that holds a port  *)
(* is in the table under both its keys and referred to by nothing else, so *)
(* that its removal gives the port back.                                   *)
THEOREM HoldersAge == ASSUME FlowNone, CounterFits PROVE FlowSpec => []FlowsHoldersAge
<1>1. ASSUME FlowNone, FlowInv, HoldInv PROVE FlowsHoldersAge
  <2> SUFFICES ASSUME failures = 0, NEW c \in Conn, nat[c] # NONE
               PROVE  \E h \in Live :
                        /\ flows[h].snat /\ flows[h].org = Out(c) /\ flows[h].reply = Wire(Held(c))
                        /\ flows[h].ref <= 2
                        /\ purge = NONE /\ sweep = {} => EntriesOf({h}) = {Out(c), Wire(Held(c))}
    BY Zenon DEF FlowsHoldersAge
  <2>1. Fits
    BY <1>1, Zenon DEF HoldInv
  <2>2. c \in L4Conn
    BY <2>1, Zenon DEF Fits, HolderLives
  <2>3. PICK h \in Live : flows[h].snat /\ flows[h].org = Out(c)
    BY <2>1, Zenon DEF Fits, HolderLives
  <2>4. Out(c).conn = c /\ Out(c).kind = "out" /\ Out(c) \in Key
    BY <2>2, KeyForms, Zenon
  <2>5. flows[h].reply = Wire(Held(c))
    BY <2>1, <2>3, <2>4, Zenon DEF Fits, PortHeld, PortOf, Held
  <2>6. flows[h].ref <= 2
    <3>1. flows[h].ref = EntryAt(table, flows[h].org, h) + EntryAt(table, flows[h].reply, h)
      BY <2>1, <2>3, <2>4, Zenon DEF Fits, ExactRefs
    <3>2. EntryAt(table, flows[h].org, h) \in {0, 1} /\ EntryAt(table, flows[h].reply, h) \in {0, 1}
      BY Zenon DEF EntryAt
    <3> QED BY <3>1, <3>2
  <2>7. ASSUME purge = NONE, sweep = {} PROVE EntriesOf({h}) = {Out(c), Wire(Held(c))}
    <3>1. table[Out(c)] = h /\ table[Wire(Held(c))] = h
      BY <2>1, <2>3, <2>4, <2>5, <2>7, Zenon DEF Fits, Settled, Scanned
    <3>2. h # NONE /\ Wire(Held(c)) \in Key
      BY <1>1, <2>3, <2>5, LiveFlow, Zenon DEF FlowInv
    <3>3. \A k \in Key : table[k] = h => k \in {Out(c), Wire(Held(c))}
      BY <1>1, <2>3, <2>5, <3>2, Zenon DEF FlowInv, Entries
    <3> QED BY <2>4, <3>1, <3>2, <3>3, Zenon DEF EntriesOf
  <2> QED BY <2>3, <2>5, <2>6, <2>7, Zenon
<1> QED BY <1>1, HoldInvariance, PTL

(* Conntrack does to the port tables what NatPorts says it may: it asks    *)
(* for a port for a connection that has none, gives a port back once, and  *)
(* the NAT address goes after the last port.                               *)
THEOREM ConntrackUsesPorts == ASSUME FlowNone, CounterFits PROVE FlowSpec => FlowsUseNatPorts
<1>1. ASSUME FlowNone, CounterFits, FlowInv, HoldInv, [FlowNext]_allVars
      PROVE  [failures' > 0 \/ UNCHANGED vars \/ Next]_allVars
  <2>1. failures' \in Nat
    BY <1>1, FailuresStay DEF FlowInv, FlowTypes
  <2> QED BY <1>1, <2>1, HoldStep, SMTT(30)
<1>2. FlowInv /\ HoldInv /\ [FlowNext]_allVars => [failures' > 0 \/ UNCHANGED vars \/ Next]_allVars
  BY <1>1, Zenon
<1> QED BY <1>2, HoldInvariance, PTL DEF FlowSpec, FlowsUseNatPorts

(* So what NatPorts shows of the ports holds of them below conntrack: a    *)
(* reply belongs to one connection, the overload table and the counters    *)
(* are exact, a source port keeps its NAT port, within the range.          *)
THEOREM PortsBelowConntrack ==
  ASSUME FlowNone, CounterFits
  PROVE  FlowSpec => [](failures = 0 => /\ RepliesUnambiguous /\ OverloadIsHeld /\ CountsConnections
                                        /\ MappingIsStable /\ WithinRange /\ UsedCountsPorts)
<1>1. ASSUME IInv PROVE RepliesUnambiguous
  <2> SUFFICES ASSUME NEW c \in Translated, NEW d \in Translated,
                      c.dst = d.dst, c.dst \notin Icmp, nat[c] = nat[d]
               PROVE  c = d
    BY Zenon DEF RepliesUnambiguous
  <2>1. Held(c) = Held(d)
    BY Zenon DEF Held, OverloadOf
  <2> QED BY <1>1, <2>1, Zenon DEF IInv, HeldOnce
<1>2. HoldInv => (failures = 0 => /\ RepliesUnambiguous /\ OverloadIsHeld /\ CountsConnections
                                  /\ MappingIsStable /\ WithinRange /\ UsedCountsPorts)
  BY <1>1, Zenon DEF HoldInv, IInv
<1> QED BY <1>2, HoldInvariance, PTL

=============================================================================
