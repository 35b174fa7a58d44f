--------------------------- MODULE ServicesProofs ---------------------------
(***************************************************************************)
(* Three parts that share no state, each for every value of its constants: *)
(* the port pool of a virtual service, the tables of public addresses, and *)
(* packet capture.                                                         *)
(***************************************************************************)
EXTENDS VirtSvc, NatTables, Capture, TLAPS

-----------------------------------------------------------------------------
(* The port pool of a virtual service, for any number of ports, VFs and    *)
(* connections: the two tables agree, and a live connection keeps its      *)
(* port.                                                                   *)

(* The inductive invariant.  Neither agreement of the two tables is        *)
(* inductive by itself: closing the entry of a port's previous connection  *)
(* is right only because that entry names the port.                        *)
PoolInv ==
  /\ VirtSvcTypeOK
  /\ \A p \in Port : used[p] => key[p] \in Key
  /\ ReplyGoesHome
  /\ ConnectionsAreOpen

(* tcp_state_change() stays within the states of a connection, whatever    *)
(* flags a segment has.                                                    *)
LEMMA StateChanges ==
  ASSUME NEW s \in ConnState, NEW f \in TcpFlags
  PROVE  tcp_state_change(s, f) \in ConnState
  BY Zenon DEF tcp_state_change, ConnState, TcpFlags

(* What dp_virtsvc_use_port() leaves behind, given tables that agree and   *)
(* in which the connection has no port: the tables agree again, and the    *)
(* port has a new connection or the one it had.                            *)
LEMMA UsePort ==
  ASSUME NEW k \in Key, NEW p \in Port,
         NEW openNow \in [Key -> Port \cup {CLOSED}], NEW usedNow \in [Port -> BOOLEAN],
         key \in [Port -> Key \cup {CLOSED}], age \in [Port -> 0 .. MaxAge], refused \in 0 .. MaxRefused,
         openNow[k] = CLOSED,
         \A r \in Port : usedNow[r] => key[r] \in Key,
         \A j \in Key : openNow[j] # CLOSED => usedNow[openNow[j]] /\ key[openNow[j]] = j,
         refused = 0 => \A r \in Port : usedNow[r] => openNow[key[r]] = r,
         use_port(k, p, openNow, usedNow)
  PROVE  /\ open_ports' \in [Key -> Port \cup {CLOSED}] /\ used' \in [Port -> BOOLEAN]
         /\ key' \in [Port -> Key \cup {CLOSED}] /\ age' \in [Port -> 0 .. MaxAge]
         /\ refused' \in 0 .. MaxRefused
         /\ \A r \in Port : used'[r] => key'[r] \in Key
         /\ ReplyGoesHome' /\ ConnectionsAreOpen'
         /\ \A r \in Port : r # p => key'[r] = key[r]
<1> DEFINE closed == IF usedNow[p] THEN [openNow EXCEPT ![key[p]] = CLOSED] ELSE openNow
<1>0. CLOSED \notin Key /\ CLOSED \notin Port /\ 0 \in 0 .. MaxAge /\ MaxRefused \in Nat
  BY PoolAssumption DEF Key, Port, MaxAge
<1>1. /\ closed \in [Key -> Port \cup {CLOSED}] /\ closed[k] = CLOSED
      /\ \A j \in Key : closed[j] # CLOSED => closed[j] = openNow[j] /\ closed[j] # p
  <2>1. CASE usedNow[p]
    BY <2>1, <1>0, Zenon
  <2>2. CASE ~usedNow[p]
    BY <2>2, <1>0
  <2> QED BY <2>1, <2>2, Zenon
<1>2. \A r \in Port : refused = 0 /\ usedNow[r] /\ r # p => closed[key[r]] = r /\ key[r] # k
  <2> SUFFICES ASSUME NEW r \in Port, refused = 0, usedNow[r], r # p
               PROVE  closed[key[r]] = r /\ key[r] # k
    OBVIOUS
  <2>1. openNow[key[r]] = r /\ key[r] \in Key
    OBVIOUS
  <2>2. usedNow[p] => key[p] # key[r]
    BY <2>1, Zenon
  <2> QED BY <2>1, <2>2, <1>0, Zenon
<1>3. CASE /\ open_ports' = [closed EXCEPT ![k] = p]
           /\ key' = [key EXCEPT ![p] = k]
           /\ used' = [usedNow EXCEPT ![p] = TRUE]
           /\ age' = [age EXCEPT ![p] = 0]
           /\ UNCHANGED refused
  <2> HIDE DEF closed
  <2>1. /\ open_ports' \in [Key -> Port \cup {CLOSED}] /\ used' \in [Port -> BOOLEAN]
        /\ key' \in [Port -> Key \cup {CLOSED}] /\ age' \in [Port -> 0 .. MaxAge]
        /\ refused' \in 0 .. MaxRefused
    BY <1>0, <1>1, <1>3, Zenon
  <2>2. \A r \in Port : (used'[r] => key'[r] \in Key) /\ (r # p => key'[r] = key[r])
    BY <1>3
  <2>3. ReplyGoesHome'
    <3> SUFFICES ASSUME NEW j \in Key, open_ports'[j] # CLOSED
                 PROVE  used'[open_ports'[j]] /\ key'[open_ports'[j]] = j
      BY Zenon DEF ReplyGoesHome
    <3>1. CASE j = k
      BY <3>1, <1>1, <1>3
    <3>2. CASE j # k
      <4>1. open_ports'[j] = closed[j]
        BY <3>2, <1>1, <1>3, Zenon
      <4>2. closed[j] \in Port /\ closed[j] # p /\ usedNow[closed[j]] /\ key[closed[j]] = j
        BY <4>1, <1>1
      <4> QED BY <4>1, <4>2, <1>3, Zenon
    <3> QED BY <3>1, <3>2, Zenon
  <2>4. ConnectionsAreOpen'
    <3> SUFFICES ASSUME refused = 0, NEW r \in Port, used'[r]
                 PROVE  open_ports'[key'[r]] = r
      BY <1>3, Zenon DEF ConnectionsAreOpen
    <3>1. CASE r = p
      BY <3>1, <1>1, <1>3
    <3>2. CASE r # p
      BY <3>2, <1>1, <1>2, <1>3
    <3> QED BY <3>1, <3>2, Zenon
  <2> QED BY <2>1, <2>2, <2>3, <2>4, Zenon
<1>4. CASE /\ refused < MaxRefused
           /\ open_ports' = closed
           /\ used' = usedNow
           /\ refused' = refused + 1
           /\ UNCHANGED <<key, age>>
  <2> HIDE DEF closed
  <2>1. refused' # 0 /\ refused' \in 0 .. MaxRefused
    BY <1>0, <1>4
  <2>2. ReplyGoesHome'
    BY <1>1, <1>4, Zenon DEF ReplyGoesHome
  <2> QED BY <2>1, <2>2, <1>1, <1>4, Zenon DEF ConnectionsAreOpen
<1> QED BY <1>3, <1>4, Zenon DEF use_port

(* The pool starts with no connection on any port. *)
LEMMA PoolInitially == VirtSvcInit => PoolInv
<1> SUFFICES ASSUME VirtSvcInit PROVE PoolInv
  OBVIOUS
<1>1. 0 \in Port /\ MaxAge \in 0 .. MaxAge /\ 0 \in 0 .. MaxRefused
  BY PoolAssumption DEF Port, MaxAge
<1>2. VirtSvcTypeOK
  BY <1>1, Zenon DEF VirtSvcInit, VirtSvcTypeOK, ConnState
<1>3. ReplyGoesHome /\ \A p \in Port : ~used[p]
  BY Zenon DEF VirtSvcInit, ReplyGoesHome
<1> QED BY <1>2, <1>3, Zenon DEF PoolInv, ConnectionsAreOpen

(* A packet of a known connection only refreshes its port. *)
LEMMA RequestKnownKeeps ==
  ASSUME PoolInv, NEW k \in Key, NEW f \in TcpFlags, RequestKnown(k, f)
  PROVE  PoolInv' /\ key' = key
<1>1. open_ports[k] \in Port /\ used[open_ports[k]]
  BY DEF PoolInv, VirtSvcTypeOK, ReplyGoesHome, RequestKnown
<1>2. tcp_state_change(state[open_ports[k]], f) \in ConnState
  BY <1>1, StateChanges, Zenon DEF PoolInv, VirtSvcTypeOK
<1>3. VirtSvcTypeOK'
  BY <1>1, <1>2, PoolAssumption DEF PoolInv, VirtSvcTypeOK, RequestKnown, MaxAge
<1>4. used' = used
  BY <1>1, Zenon DEF PoolInv, VirtSvcTypeOK, RequestKnown
<1> QED BY <1>3, <1>4 DEF PoolInv, ReplyGoesHome, ConnectionsAreOpen, RequestKnown

(* A new connection takes over a port whose connection is old. *)
LEMMA RequestNewKeeps ==
  ASSUME PoolInv, NEW k \in Key, NEW f \in TcpFlags, RequestNew(k, f)
  PROVE  PoolInv' /\ \A r \in Port : ~is_connection_old(r) => key'[r] = key[r]
<1>1. PICK p \in Port :
        /\ get_free_port(p)
        /\ last_assigned_port' = p
        /\ use_port(k, p, open_ports, used)
        /\ state' = IF refused' = refused
                    THEN [state EXCEPT ![p] = tcp_state_change("TRANSIENT", f)]
                    ELSE state
  BY Zenon DEF RequestNew
<1>2. /\ open_ports' \in [Key -> Port \cup {CLOSED}] /\ used' \in [Port -> BOOLEAN]
      /\ key' \in [Port -> Key \cup {CLOSED}] /\ age' \in [Port -> 0 .. MaxAge]
      /\ refused' \in 0 .. MaxRefused
      /\ \A r \in Port : used'[r] => key'[r] \in Key
      /\ ReplyGoesHome' /\ ConnectionsAreOpen'
      /\ \A r \in Port : r # p => key'[r] = key[r]
  BY <1>1, UsePort DEF PoolInv, VirtSvcTypeOK, ReplyGoesHome, ConnectionsAreOpen, RequestNew
<1>3. tcp_state_change("TRANSIENT", f) \in ConnState
  BY StateChanges, Zenon DEF ConnState
<1>4. VirtSvcTypeOK'
  BY <1>1, <1>2, <1>3, Zenon DEF PoolInv, VirtSvcTypeOK, RequestNew
<1>5. is_connection_old(p)
  BY <1>1, Zenon DEF get_free_port
<1> QED BY <1>2, <1>4, <1>5, Zenon DEF PoolInv

(* A synchronised connection moves to the port the active process gave it. *)
LEMMA OpenSyncKeeps ==
  ASSUME PoolInv, NEW k \in Key, NEW p \in Port, OpenSync(k, p)
  PROVE  PoolInv'
<1> DEFINE openNow == [open_ports EXCEPT ![k] = CLOSED]
           usedNow == IF open_ports[k] = CLOSED THEN used ELSE [used EXCEPT ![open_ports[k]] = FALSE]
<1>1. openNow \in [Key -> Port \cup {CLOSED}] /\ usedNow \in [Port -> BOOLEAN] /\ openNow[k] = CLOSED
  BY Zenon DEF PoolInv, VirtSvcTypeOK
<1>2. \A r \in Port : usedNow[r] => used[r] /\ key[r] \in Key /\ r # open_ports[k]
  <2>1. \A r \in Port : used[r] => key[r] \in Key
    BY Zenon DEF PoolInv
  <2>2. used \in [Port -> BOOLEAN]
    BY Zenon DEF PoolInv, VirtSvcTypeOK
  <2>3. CASE open_ports[k] = CLOSED
    <3>1. CLOSED \notin Port
      BY PoolAssumption DEF Port
    <3> QED BY <2>1, <2>3, <3>1, Zenon
  <2>4. CASE open_ports[k] # CLOSED
    <3>1. usedNow = [used EXCEPT ![open_ports[k]] = FALSE]
      BY <2>4, Zenon
    <3> HIDE DEF usedNow
    <3> QED BY <2>1, <2>2, <3>1, Zenon
  <2> QED BY <2>3, <2>4, Zenon
<1>3. \A j \in Key : openNow[j] # CLOSED => usedNow[openNow[j]] /\ key[openNow[j]] = j
  <2> SUFFICES ASSUME NEW j \in Key, openNow[j] # CLOSED
               PROVE  usedNow[openNow[j]] /\ key[openNow[j]] = j
    OBVIOUS
  <2>1. j # k /\ openNow[j] = open_ports[j] /\ open_ports[j] \in Port
    BY Zenon DEF PoolInv, VirtSvcTypeOK
  <2>2. used[open_ports[j]] /\ key[open_ports[j]] = j
    BY <2>1, Zenon DEF PoolInv, ReplyGoesHome
  <2>3. open_ports[k] # CLOSED => open_ports[k] # open_ports[j]
    BY <2>1, <2>2, Zenon DEF PoolInv, ReplyGoesHome
  <2> QED BY <2>1, <2>2, <2>3, Zenon DEF PoolInv, VirtSvcTypeOK
<1>4. refused = 0 => \A r \in Port : usedNow[r] => openNow[key[r]] = r
  BY <1>2, Zenon DEF PoolInv, VirtSvcTypeOK, ConnectionsAreOpen
<1>5. use_port(k, p, openNow, usedNow)
  BY Zenon DEF OpenSync
<1> HIDE DEF openNow, usedNow
<1>6. /\ open_ports' \in [Key -> Port \cup {CLOSED}] /\ used' \in [Port -> BOOLEAN]
      /\ key' \in [Port -> Key \cup {CLOSED}] /\ age' \in [Port -> 0 .. MaxAge]
      /\ refused' \in 0 .. MaxRefused
      /\ \A r \in Port : used'[r] => key'[r] \in Key
      /\ ReplyGoesHome' /\ ConnectionsAreOpen'
  BY <1>1, <1>2, <1>3, <1>4, <1>5, UsePort DEF PoolInv, VirtSvcTypeOK
<1>7. VirtSvcTypeOK'
  BY <1>6, Zenon DEF PoolInv, VirtSvcTypeOK, OpenSync, ConnState
<1> QED BY <1>6, <1>7, Zenon DEF PoolInv

(* A deleted interface takes its connections out of both tables. *)
LEMMA DelIfaceKeeps ==
  ASSUME PoolInv, NEW v \in Vf, DelIface(v)
  PROVE  PoolInv' /\ key' = key
<1> DEFINE gone == {p \in Port : used[p] /\ key[p][1] = v}
<1>1. /\ used' = [p \in Port |-> used[p] /\ p \notin gone]
      /\ open_ports' = [k \in Key |-> IF \E p \in gone : key[p] = k THEN CLOSED ELSE open_ports[k]]
      /\ UNCHANGED <<role, last_assigned_port, key, age, state, uptime, refused>>
  BY Zenon DEF DelIface
<1>2. \A p \in gone : p \in Port /\ used[p]
  OBVIOUS
<1> HIDE DEF gone
<1>3. VirtSvcTypeOK'
  BY <1>1, Zenon DEF PoolInv, VirtSvcTypeOK
<1>4. ReplyGoesHome'
  BY <1>1, <1>2 DEF PoolInv, VirtSvcTypeOK, ReplyGoesHome
<1>5. ConnectionsAreOpen'
  <2> SUFFICES ASSUME refused = 0, NEW p \in Port, used[p], p \notin gone
               PROVE  open_ports'[key[p]] = p
    BY <1>1, Zenon DEF ConnectionsAreOpen
  <2>1. open_ports[key[p]] = p /\ key[p] \in Key
    BY Zenon DEF PoolInv, ConnectionsAreOpen
  <2>2. \A q \in gone : key[q] # key[p]
    BY <2>1, <1>2, Zenon DEF PoolInv, ConnectionsAreOpen
  <2> QED BY <2>1, <2>2, <1>1, Zenon
<1> QED BY <1>1, <1>3, <1>4, <1>5, Zenon DEF PoolInv

(* A reply refreshes its port, a take-over and the clock leave the tables  *)
(* alone.                                                                  *)
LEMMA OthersKeep ==
  ASSUME PoolInv,
         \/ \E p \in Port, f \in TcpFlags : Reply(p, f)
         \/ TakeOver
         \/ Tick
  PROVE  PoolInv' /\ key' = key
<1>1. ASSUME NEW p \in Port, NEW f \in TcpFlags, Reply(p, f)
      PROVE  PoolInv' /\ key' = key
  <2>1. tcp_state_change(state[p], f) \in ConnState
    BY StateChanges, Zenon DEF PoolInv, VirtSvcTypeOK
  <2>2. VirtSvcTypeOK'
    BY <1>1, <2>1, PoolAssumption DEF PoolInv, VirtSvcTypeOK, Reply, MaxAge
  <2> QED BY <1>1, <2>2, Zenon DEF PoolInv, ReplyGoesHome, ConnectionsAreOpen, Reply
<1>2. CASE TakeOver
  BY <1>2, Zenon DEF PoolInv, VirtSvcTypeOK, ReplyGoesHome, ConnectionsAreOpen, TakeOver
<1>3. CASE Tick
  <2>1. \A n \in 0 .. MaxAge : Older(n) \in 0 .. MaxAge
    BY PoolAssumption DEF Older, MaxAge
  <2>2. VirtSvcTypeOK'
    BY <1>3, <2>1, Zenon DEF PoolInv, VirtSvcTypeOK, Tick
  <2> QED BY <1>3, <2>2, Zenon DEF PoolInv, ReplyGoesHome, ConnectionsAreOpen, Tick
<1> QED BY <1>1, <1>2, <1>3, Zenon

(* Every step keeps the invariant. *)
LEMMA PoolStep == PoolInv /\ [VirtSvcNext]_virtsvcVars => PoolInv'
<1> SUFFICES ASSUME PoolInv, [VirtSvcNext]_virtsvcVars PROVE PoolInv'
  OBVIOUS
<1>1. CASE UNCHANGED virtsvcVars
  BY <1>1, Zenon DEF PoolInv, VirtSvcTypeOK, ReplyGoesHome, ConnectionsAreOpen, virtsvcVars
<1>2. CASE VirtSvcNext
  BY <1>2, RequestKnownKeeps, RequestNewKeeps, OpenSyncKeeps, DelIfaceKeeps, OthersKeep, Zenon DEF VirtSvcNext
<1> QED BY <1>1, <1>2, Zenon

(* The invariant of the pool holds in every reachable state, whatever      *)
(* messages a standby process missed and whatever insertions were refused. *)
THEOREM PoolInvariance == VirtSvcSpec => []PoolInv
  BY PoolInitially, PoolStep, PTL DEF VirtSvcSpec

(* Replies come back to the VM, address and port whose request left with   *)
(* their port (virtsvc_request_next(), virtsvc_reply_next()).              *)
THEOREM RepliesGoHome == VirtSvcSpec => []ReplyGoesHome
<1>1. PoolInv => ReplyGoesHome
  BY Zenon DEF PoolInv
<1> QED BY <1>1, PoolInvariance, PTL

(* Unless the hash table has refused an insertion, every connection of the *)
(* array has its entry (dp_virtsvc_use_port()).                            *)
THEOREM ConnectionsStayOpen == VirtSvcSpec => []ConnectionsAreOpen
<1>1. PoolInv => ConnectionsAreOpen
  BY Zenon DEF PoolInv
<1> QED BY <1>1, PoolInvariance, PTL

(* An active process never gives the port of a connection that has not     *)
(* timed out to another one (dp_virtsvc_get_free_port()).                  *)
THEOREM LivePortsAreKept == VirtSvcSpec => LivePortKept
<1> DEFINE Kept == \A p \in Port :
             role = "active" /\ used[p] /\ ~is_connection_old(p) => key'[p] = key[p]
<1>1. PoolInv /\ [VirtSvcNext]_virtsvcVars => [Kept]_virtsvcVars
  <2> SUFFICES ASSUME PoolInv, VirtSvcNext PROVE Kept
    OBVIOUS
  <2>1. ASSUME NEW k \in Key, NEW p \in Port, OpenSync(k, p) PROVE Kept
    BY <2>1, Zenon DEF OpenSync
  <2>2. ASSUME NEW k \in Key, NEW f \in TcpFlags, RequestNew(k, f) PROVE Kept
    BY <2>2, RequestNewKeeps, Zenon
  <2> HIDE DEF Kept
  <2>3. key' = key => Kept
    BY Zenon DEF Kept
  <2> QED BY <2>1, <2>2, <2>3, RequestKnownKeeps, DelIfaceKeeps, OthersKeep, Zenon DEF VirtSvcNext
<1> QED BY <1>1, PoolInvariance, PTL DEF VirtSvcSpec, LivePortKept

-----------------------------------------------------------------------------
(* Public addresses, for any ports, VNIs, addresses and ranges.  VIPs:     *)
(* what the DNAT table delivers and what the SNAT records let out name     *)
(* each other, and VIP and NAT address of a record do not disturb one      *)
(* another.  Neighbours: every range can be reached, and by one way only.  *)


Record == [vip : VipIp \cup {EMPTY}, vip_ul : NtUl \cup {EMPTY},
           nat : NatIp \cup {EMPTY}, nat_ul : NtUl \cup {EMPTY}]
Records == [NtAddr \X NtVni -> Record]

(* The inductive invariant: the types of the tables the property is about, *)
(* and the property.                                                       *)
VipInv ==
  /\ nt_iface \in [NtPort -> NtAddr \cup {EMPTY}]
  /\ snat_tbl \in Records
  /\ dnat_tbl \in [NtIp \X NtVni -> NtAddr \cup {SHARED, EMPTY}]
  /\ InboundMatchesOutbound

(* The record of an interface that is there has a key of the table. *)
LEMMA RecordKey ==
  ASSUME VipInv, NEW p \in NtPort, Present(p)
  PROVE  /\ SnatOf(p) \in NtAddr \X NtVni /\ SnatOf(p)[1] \in NtAddr /\ SnatOf(p)[2] \in NtVni
         /\ SnatOf(p) = <<SnatOf(p)[1], SnatOf(p)[2]>> /\ snat_tbl[SnatOf(p)] \in Record
  BY NtAssumption, Zenon DEF VipInv, Records, SnatOf, Present

(* dp_set_iface_vip_ip() writes the VIP address of one record, and         *)
(* dp_del_iface_vip_ip() clears it; both leave its other address.          *)
LEMMA VipSet ==
  ASSUME NEW s \in Records, NEW k \in NtAddr \X NtVni, NEW ip \in VipIp, NEW u \in NtUl
  PROVE  /\ SetVip(s, k, ip, u) \in Records
         /\ SetVip(s, k, ip, u)[k].vip = ip /\ SetVip(s, k, ip, u)[k].nat = s[k].nat
         /\ \A j \in NtAddr \X NtVni : j # k => SetVip(s, k, ip, u)[j] = s[j]
<1> DEFINE r == [s[k] EXCEPT !.vip = ip, !.vip_ul = u]
<1>1. s[k] \in Record
  BY Zenon DEF Records
<1>2. r \in Record /\ r.vip = ip /\ r.nat = s[k].nat
  BY <1>1, Zenon DEF Record
<1>3. SetVip(s, k, ip, u) = [s EXCEPT ![k] = r]
  BY Zenon DEF SetVip, Records
<1> QED BY <1>2, <1>3, Zenon DEF Records

LEMMA VipCleared ==
  ASSUME NEW s \in Records, NEW k \in NtAddr \X NtVni
  PROVE  /\ DelVip(s, k) \in Records
         /\ DelVip(s, k)[k].vip = EMPTY /\ DelVip(s, k)[k].nat = s[k].nat
         /\ \A j \in NtAddr \X NtVni : j # k => DelVip(s, k)[j] = s[j]
<1> DEFINE r == IF s[k].nat # EMPTY THEN [s[k] EXCEPT !.vip = EMPTY, !.vip_ul = EMPTY] ELSE NoRecord
<1>1. s[k] \in Record
  BY Zenon DEF Records
<1>2. r \in Record /\ r.vip = EMPTY /\ r.nat = s[k].nat
  BY <1>1, Zenon DEF Record, NoRecord
<1>3. DelVip(s, k) = [s EXCEPT ![k] = r]
  BY Zenon DEF DelVip, delete_snat_data, Records
<1> HIDE DEF r
<1> QED BY <1>2, <1>3, Zenon DEF Records

(* dp_set_iface_nat_ip() and dp_del_iface_nat_ip(), likewise.              *)
LEMMA NatSet ==
  ASSUME NEW s \in Records, NEW k \in NtAddr \X NtVni, NEW ip \in NatIp, NEW u \in NtUl
  PROVE  /\ SetNat(s, k, ip, u) \in Records
         /\ SetNat(s, k, ip, u)[k].nat = ip /\ SetNat(s, k, ip, u)[k].vip = s[k].vip
         /\ \A j \in NtAddr \X NtVni : j # k => SetNat(s, k, ip, u)[j] = s[j]
<1> DEFINE r == [s[k] EXCEPT !.nat = ip, !.nat_ul = u]
<1>1. s[k] \in Record
  BY Zenon DEF Records
<1>2. r \in Record /\ r.nat = ip /\ r.vip = s[k].vip
  BY <1>1, Zenon DEF Record
<1>3. SetNat(s, k, ip, u) = [s EXCEPT ![k] = r]
  BY Zenon DEF SetNat, Records
<1> QED BY <1>2, <1>3, Zenon DEF Records

LEMMA NatCleared ==
  ASSUME NEW s \in Records, NEW k \in NtAddr \X NtVni
  PROVE  /\ DelNat(s, k) \in Records
         /\ DelNat(s, k)[k].nat = EMPTY /\ DelNat(s, k)[k].vip = s[k].vip
         /\ \A j \in NtAddr \X NtVni : j # k => DelNat(s, k)[j] = s[j]
<1> DEFINE r == IF s[k].vip # EMPTY THEN [s[k] EXCEPT !.nat = EMPTY, !.nat_ul = EMPTY] ELSE NoRecord
<1>1. s[k] \in Record
  BY Zenon DEF Records
<1>2. r \in Record /\ r.nat = EMPTY /\ r.vip = s[k].vip
  BY <1>1, Zenon DEF Record, NoRecord
<1>3. DelNat(s, k) = [s EXCEPT ![k] = r]
  BY Zenon DEF DelNat, delete_snat_data, Records
<1> HIDE DEF r
<1> QED BY <1>2, <1>3, Zenon DEF Records

(* No request touches the VIP and the NAT address of a record at once, and *)
(* the DNAT table follows the VIPs.                                        *)
LEMMA VipSteps ==
  ASSUME VipInv, [NtNext]_ntVars
  PROVE  /\ VipInv'
         /\ \A k \in NtAddr \X NtVni :
              snat_tbl'[k].vip = snat_tbl[k].vip \/ snat_tbl'[k].nat = snat_tbl[k].nat
<1> DEFINE Alone == \A k \in NtAddr \X NtVni :
             snat_tbl'[k].vip = snat_tbl[k].vip \/ snat_tbl'[k].nat = snat_tbl[k].nat
           VipsKept == \A k \in NtAddr \X NtVni : snat_tbl'[k].vip = snat_tbl[k].vip
           EntriesKept ==
             /\ dnat_tbl' \in [NtIp \X NtVni -> NtAddr \cup {SHARED, EMPTY}]
             /\ \A x \in NtIp \X NtVni : dnat_tbl'[x] \in NtAddr => dnat_tbl'[x] = dnat_tbl[x]
<1>0. EMPTY \notin NtAddr /\ SHARED \notin NtAddr /\ EMPTY \notin VipIp /\ EMPTY \notin NatIp
  BY NtAssumption, Zenon
<1>1. CASE UNCHANGED <<nt_iface, snat_tbl, dnat_tbl>>
  BY <1>1, Zenon DEF VipInv, InboundMatchesOutbound
<1>2. ASSUME NEW p \in NtPort, NEW a \in NtAddr, NtCreateIface(p, a) PROVE VipInv' /\ Alone
  BY <1>2, Zenon DEF NtCreateIface, VipInv, InboundMatchesOutbound
<1>3. ASSUME NEW p \in NtPort, NtDeleteIface(p) PROVE VipInv' /\ Alone
  <2>1. nt_iface' \in [NtPort -> NtAddr \cup {EMPTY}] /\ UNCHANGED snat_tbl
    BY <1>3, Zenon DEF NtDeleteIface, VipInv
  <2>2. /\ dnat_tbl' \in [NtIp \X NtVni -> NtAddr \cup {SHARED, EMPTY}]
        /\ \A x \in NtIp \X NtVni : dnat_tbl'[x] \in NtAddr => dnat_tbl'[x] = dnat_tbl[x]
    BY <1>0, <1>3, Zenon DEF NtDeleteIface, VipInv, del_dnat_by_vni
  <2> QED BY <2>1, <2>2, Zenon DEF VipInv, InboundMatchesOutbound
<1>4. ASSUME NEW p \in NtPort, NEW ip \in VipIp, NEW u \in NtUl, CreateVip(p, ip, u) PROVE VipInv' /\ Alone
  <2> DEFINE k == SnatOf(p)
             with == SetVip(snat_tbl, k, ip, u)
  <2>1. k \in NtAddr \X NtVni /\ k[1] \in NtAddr /\ k[2] \in NtVni /\ k = <<k[1], k[2]>>
    BY <1>4, RecordKey, Zenon DEF CreateVip
  <2>2. snat_tbl[k].vip = EMPTY /\ UNCHANGED nt_iface
    BY <1>4, Zenon DEF CreateVip
  <2>3. with \in Records /\ with[k].vip = ip /\ with[k].nat = snat_tbl[k].nat
        /\ \A j \in NtAddr \X NtVni : j # k => with[j] = snat_tbl[j]
    BY <2>1, VipSet DEF VipInv
  <2>4. CASE snat_tbl' = DelVip(with, k) /\ UNCHANGED dnat_tbl
    <3> HIDE DEF k, with
    <3>1. /\ snat_tbl' \in Records /\ snat_tbl'[k].vip = EMPTY /\ snat_tbl'[k].nat = snat_tbl[k].nat
          /\ \A j \in NtAddr \X NtVni : j # k => snat_tbl'[j] = snat_tbl[j]
      BY <2>1, <2>3, <2>4, VipCleared, Zenon
    <3>2. \A j \in NtAddr \X NtVni : snat_tbl'[j].vip = snat_tbl[j].vip
      BY <2>2, <3>1, Zenon
    <3> QED BY <2>2, <2>4, <3>1, <3>2, Zenon DEF VipInv, InboundMatchesOutbound
  <2>5. CASE /\ get_dnat_data(ip, k[2]) = EMPTY /\ snat_tbl' = with
             /\ dnat_tbl' = set_dnat_ip(ip, k[1], k[2])
    <3> HIDE DEF k, with
    <3>1. /\ <<ip, k[2]>> \in NtIp \X NtVni
          /\ dnat_tbl' = [dnat_tbl EXCEPT ![<<ip, k[2]>>] = k[1]]
      BY <2>1, <2>5, Zenon DEF set_dnat_ip, NtIp
    <3>2. dnat_tbl' \in [NtIp \X NtVni -> NtAddr \cup {SHARED, EMPTY}]
      BY <2>1, <3>1, Zenon DEF VipInv
    <3>3. InboundMatchesOutbound'
      <4> SUFFICES ASSUME NEW i \in NtIp, NEW v \in NtVni, dnat_tbl'[<<i, v>>] \in NtAddr
                   PROVE  snat_tbl'[<<dnat_tbl'[<<i, v>>], v>>].vip = i
        BY Zenon DEF InboundMatchesOutbound
      <4>1. CASE <<i, v>> = <<ip, k[2]>>
        BY <2>1, <2>3, <2>5, <3>1, <4>1, Zenon DEF VipInv
      <4>2. CASE <<i, v>> # <<ip, k[2]>>
        <5>1. dnat_tbl'[<<i, v>>] = dnat_tbl[<<i, v>>]
          BY <3>1, <4>2, Zenon DEF VipInv
        <5>2. snat_tbl[<<dnat_tbl[<<i, v>>], v>>].vip = i /\ <<dnat_tbl[<<i, v>>], v>> \in NtAddr \X NtVni
          BY <5>1, Zenon DEF VipInv, InboundMatchesOutbound
        <5>3. <<dnat_tbl[<<i, v>>], v>> # k
          BY <1>0, <2>2, <5>2, Zenon DEF NtIp
        <5> QED BY <2>3, <2>5, <5>1, <5>2, <5>3, Zenon
      <4> QED BY <4>1, <4>2, Zenon
    <3> QED BY <2>2, <2>3, <2>5, <3>2, <3>3, Zenon DEF VipInv
  <2> QED BY <1>4, <2>4, <2>5, Zenon DEF CreateVip
<1>5. ASSUME NEW p \in NtPort, DeleteVip(p) PROVE VipInv' /\ Alone
  <2> DEFINE k == SnatOf(p)
             ip == snat_tbl[k].vip
  <2>1. k \in NtAddr \X NtVni /\ k[1] \in NtAddr /\ k[2] \in NtVni /\ k = <<k[1], k[2]>>
    BY <1>5, RecordKey, Zenon DEF DeleteVip
  <2>2. /\ snat_tbl' = DelVip(snat_tbl, k) /\ UNCHANGED nt_iface
        /\ dnat_tbl' = [dnat_tbl EXCEPT ![<<ip, k[2]>>] = EMPTY]
    BY <1>5, Zenon DEF DeleteVip, del_dnat_ip
  <2> HIDE DEF k
  <2>3. /\ snat_tbl' \in Records /\ snat_tbl'[k].nat = snat_tbl[k].nat
        /\ \A j \in NtAddr \X NtVni : j # k => snat_tbl'[j] = snat_tbl[j]
    BY <2>1, <2>2, VipCleared, Zenon DEF VipInv
  <2>4. dnat_tbl' \in [NtIp \X NtVni -> NtAddr \cup {SHARED, EMPTY}]
    BY <2>2, Zenon DEF VipInv
  <2>5. InboundMatchesOutbound'
    <3> SUFFICES ASSUME NEW i \in NtIp, NEW v \in NtVni, dnat_tbl'[<<i, v>>] \in NtAddr
                 PROVE  snat_tbl'[<<dnat_tbl'[<<i, v>>], v>>].vip = i
      BY Zenon DEF InboundMatchesOutbound
    <3>1. dnat_tbl'[<<i, v>>] = dnat_tbl[<<i, v>>] /\ <<i, v>> # <<ip, k[2]>>
      BY <1>0, <2>2, Zenon DEF VipInv
    <3>2. snat_tbl[<<dnat_tbl[<<i, v>>], v>>].vip = i /\ <<dnat_tbl[<<i, v>>], v>> \in NtAddr \X NtVni
      BY <3>1, Zenon DEF VipInv, InboundMatchesOutbound
    <3>3. <<dnat_tbl[<<i, v>>], v>> # k
      BY <2>1, <3>1, <3>2
    <3> QED BY <2>3, <3>1, <3>2, <3>3, Zenon
  <2> QED BY <2>2, <2>3, <2>4, <2>5, Zenon DEF VipInv
<1>6. ASSUME VipsKept, EntriesKept, snat_tbl' \in Records, UNCHANGED nt_iface PROVE VipInv' /\ Alone
  BY <1>6 DEF VipInv, InboundMatchesOutbound
<1>7. ASSUME NEW ip, NEW v, NEW l, dnat_tbl' = del_vip_from_dnat(l, ip, v) PROVE EntriesKept
  BY <1>0, <1>7, Zenon DEF VipInv, del_vip_from_dnat, del_dnat_ip
<1>8. ASSUME NEW ip \in NtIp, NEW v \in NtVni,
             dnat_tbl' = IF get_dnat_data(ip, v) = EMPTY THEN set_dnat_ip(ip, SHARED, v) ELSE dnat_tbl
      PROVE  EntriesKept
  BY <1>0, <1>8, Zenon DEF VipInv, get_dnat_data, set_dnat_ip
<1>9. ASSUME NEW p \in NtPort, NEW ip \in NatIp, NEW u \in NtUl, CreateNtNat(p, ip, u) PROVE VipInv' /\ Alone
  <2> DEFINE k == SnatOf(p)
             with == SetNat(snat_tbl, k, ip, u)
  <2>1. k \in NtAddr \X NtVni /\ k[2] \in NtVni
    BY <1>9, RecordKey, Zenon DEF CreateNtNat
  <2>2. with \in Records /\ with[k].vip = snat_tbl[k].vip
        /\ \A j \in NtAddr \X NtVni : j # k => with[j] = snat_tbl[j]
    BY <2>1, NatSet DEF VipInv
  <2>3. EntriesKept /\ UNCHANGED nt_iface
    <3>1. CASE UNCHANGED dnat_tbl
      BY <1>9, <3>1, Zenon DEF CreateNtNat, VipInv
    <3>2. CASE dnat_tbl' = IF get_dnat_data(ip, k[2]) = EMPTY THEN set_dnat_ip(ip, SHARED, k[2]) ELSE dnat_tbl
      <4>1. ip \in NtIp
        BY Zenon DEF NtIp
      <4>2. EntriesKept
        <5> HIDE DEF k
        <5> QED BY <1>8, <2>1, <3>2, <4>1, Zenon
      <4> QED BY <1>9, <4>2, Zenon DEF CreateNtNat
    <3> QED BY <1>9, <3>1, <3>2, Zenon DEF CreateNtNat
  <2>4. snat_tbl' = with \/ snat_tbl' = DelNat(with, k)
    BY <1>9, Zenon DEF CreateNtNat
  <2> HIDE DEF k, with
  <2>5. VipsKept /\ snat_tbl' \in Records
    BY <2>1, <2>2, <2>4, NatCleared
  <2> QED BY <1>6, <2>3, <2>5, Zenon
<1>10. ASSUME NEW p \in NtPort, DeleteNtNat(p) PROVE VipInv' /\ Alone
  <2> DEFINE k == SnatOf(p)
  <2>1. k \in NtAddr \X NtVni
    BY <1>10, RecordKey, Zenon DEF DeleteNtNat
  <2>2. EntriesKept /\ UNCHANGED nt_iface
    BY <1>7, <1>10, Zenon DEF DeleteNtNat
  <2>3. snat_tbl' = DelNat(snat_tbl, k)
    BY <1>10, Zenon DEF DeleteNtNat
  <2> HIDE DEF k
  <2>4. VipsKept /\ snat_tbl' \in Records
    BY <2>1, <2>3, NatCleared DEF VipInv
  <2> QED BY <1>6, <2>2, <2>4, Zenon
<1>11. ASSUME NEW ip \in NatIp, NEW v \in NtVni, NEW r \in NtRange, NEW u \in NeighUl,
              CreateNeighNat(ip, v, r, u)
       PROVE  VipInv' /\ Alone
  <2>1. EntriesKept
    BY <1>8, <1>11, Zenon DEF CreateNeighNat, NtIp
  <2> QED BY <1>6, <1>11, <2>1, Zenon DEF CreateNeighNat, VipInv
<1>12. ASSUME NEW e \in neighnat, DeleteNeighNat(e) PROVE VipInv' /\ Alone
  <2>1. EntriesKept
    BY <1>7, <1>12, Zenon DEF DeleteNeighNat
  <2> QED BY <1>6, <1>12, <2>1, Zenon DEF DeleteNeighNat, VipInv
<1>13. CASE NtInitialize \/ (\E f \in NtFlow : RelayStarts(f) \/ RelayEnds(f)) \/ UNCHANGED ntVars
  BY <1>1, <1>13, Zenon DEF NtInitialize, RelayStarts, RelayEnds, ntVars
<1> QED BY <1>2, <1>3, <1>4, <1>5, <1>9, <1>10, <1>11, <1>12, <1>13, Zenon DEF NtNext

(* The invariant holds in every state. *)
THEOREM VipInvariance == NtSpec => []VipInv
<1>1. NtInit => VipInv
  <2> SUFFICES ASSUME NtInit PROVE VipInv
    OBVIOUS
  <2>1. NoRecord \in Record
    BY Zenon DEF NoRecord, Record
  <2>2. snat_tbl \in Records
    BY <2>1, Zenon DEF NtInit, Records
  <2>3. InboundMatchesOutbound
    BY NtAssumption, Zenon DEF NtInit, InboundMatchesOutbound
  <2> QED BY <2>2, <2>3, Zenon DEF NtInit, VipInv
<1>2. VipInv /\ [NtNext]_ntVars => VipInv'
  BY VipSteps, Zenon
<1> QED BY <1>1, <1>2, PTL DEF NtSpec

(* VIPs are delivered where they belong: a public address the DNAT table   *)
(* gives to an interface is the VIP of its SNAT record, whatever requests  *)
(* for interfaces, VIPs, NAT addresses and neighbours came before, and     *)
(* whichever of them failed half-way.                                      *)
THEOREM DeliveredWhereItLeaves == NtSpec => []InboundMatchesOutbound
<1>1. VipInv => InboundMatchesOutbound
  BY Zenon DEF VipInv
<1> QED BY <1>1, VipInvariance, PTL

(* VIP and NAT address share an SNAT record and not a life: no request     *)
(* that sets, clears or takes back one of them changes the other.          *)
THEOREM VipAndNatApart == NtSpec => VipAndNatIndependent
<1> DEFINE Alone == \A k \in DOMAIN snat_tbl :
             snat_tbl'[k].vip = snat_tbl[k].vip \/ snat_tbl'[k].nat = snat_tbl[k].nat
<1>1. VipInv /\ [NtNext]_ntVars => [Alone]_ntVars
  <2> SUFFICES ASSUME VipInv, [NtNext]_ntVars PROVE Alone
    OBVIOUS
  <2>1. DOMAIN snat_tbl = NtAddr \X NtVni
    BY Zenon DEF VipInv, Records
  <2> QED BY <2>1, VipSteps, Zenon
<1>2. VipAndNatIndependent <=> [][Alone]_ntVars
  BY Zenon DEF VipAndNatIndependent
<1> QED BY <1>1, <1>2, VipInvariance, PTL DEF NtSpec
-----------------------------------------------------------------------------
(* Neighbours.  The inductive invariant adds to VipInv that the ranges of  *)
(* the list are ranges, that no two of them overlap, and the property.     *)
Neighbour == [ip : NatIp, vni : NtVni, range : NtRange, ul : NeighUl]

NeighInv ==
  /\ neighnat \subseteq Neighbour
  /\ \A d, e \in neighnat : Overlap(d, e.ip, e.range) => d = e
  /\ NeighboursReachable

(* A range overlaps with another one if that one overlaps with it.         *)
LEMMA OverlapSymmetric ==
  ASSUME NEW d \in Neighbour, NEW e \in Neighbour, Overlap(d, e.ip, e.range)
  PROVE  Overlap(e, d.ip, d.range)
  BY NtAssumption, Zenon DEF Overlap, Neighbour

(* An entry for an address that is nobody's VIP is shared: the DNAT table  *)
(* gives it to no interface.                                               *)
LEMMA NotDelivered ==
  ASSUME VipInv, NEW ip \in NtIp, NEW v \in NtVni, ip \notin VipIp, dnat_tbl[<<ip, v>>] # EMPTY
  PROVE  dnat_tbl[<<ip, v>>] = SHARED
<1> SUFFICES ASSUME dnat_tbl[<<ip, v>>] # SHARED PROVE FALSE
  OBVIOUS
<1>1. dnat_tbl[<<ip, v>>] \in NtAddr
  BY Zenon DEF VipInv
<1>2. snat_tbl[<<dnat_tbl[<<ip, v>>], v>>].vip = ip
  BY <1>1, Zenon DEF VipInv, InboundMatchesOutbound
<1>3. snat_tbl[<<dnat_tbl[<<ip, v>>], v>>] \in Record
  BY <1>1, Zenon DEF VipInv, Records
<1>4. ip # EMPTY
  BY NtAssumption, Zenon DEF NtIp
<1> QED BY <1>2, <1>3, <1>4, Zenon DEF Record

(* Every step keeps the invariant of the neighbours. *)
LEMMA NeighSteps == VipInv /\ NeighInv /\ [NtNext]_ntVars => NeighInv'
<1> SUFFICES ASSUME VipInv, NeighInv, [NtNext]_ntVars PROVE NeighInv'
  OBVIOUS
<1> DEFINE SharedKept(S) == \A e \in S :
             e.ip \notin VipIp /\ dnat_tbl[<<e.ip, e.vni>>] = SHARED => dnat_tbl'[<<e.ip, e.vni>>] = SHARED
<1>1. ASSUME neighnat' \subseteq neighnat, SharedKept(neighnat') PROVE NeighInv'
  BY <1>1, Zenon DEF NeighInv, NeighboursReachable
<1>2. \A e \in neighnat : e.ip \in NatIp /\ e.ip \in NtIp /\ e.vni \in NtVni /\ <<e.ip, e.vni>> \in NtIp \X NtVni
  BY Zenon DEF NeighInv, Neighbour, NtIp
<1>3. ASSUME NEW l, NEW ip, NEW v, dnat_tbl' = del_vip_from_dnat(l, ip, v) PROVE SharedKept(l \cap neighnat)
  BY <1>2, <1>3, Zenon DEF del_vip_from_dnat, del_dnat_ip, VipInv
<1>4. ASSUME NEW ip \in NtIp, NEW v \in NtVni,
             dnat_tbl' = IF get_dnat_data(ip, v) = EMPTY THEN set_dnat_ip(ip, SHARED, v) ELSE dnat_tbl
      PROVE  SharedKept(neighnat) /\ (ip \notin VipIp => dnat_tbl'[<<ip, v>>] = SHARED)
  <2>1. <<ip, v>> \in NtIp \X NtVni
    OBVIOUS
  <2>2. SharedKept(neighnat)
    BY <1>2, <1>4, <2>1, Zenon DEF get_dnat_data, set_dnat_ip, VipInv
  <2>3. ip \notin VipIp => dnat_tbl'[<<ip, v>>] = SHARED
    BY <1>4, <2>1, NotDelivered, Zenon DEF get_dnat_data, set_dnat_ip, VipInv
  <2> QED BY <2>2, <2>3, Zenon
<1>5. CASE UNCHANGED <<dnat_tbl, neighnat>>
  BY <1>1, <1>5, Zenon
<1>6. ASSUME NEW p \in NtPort, NtDeleteIface(p) PROVE NeighInv'
  <2>1. neighnat' \subseteq neighnat
    BY <1>6, Zenon DEF NtDeleteIface, WithoutVni
  <2>2. SharedKept(neighnat')
    BY <1>2, <1>6, Zenon DEF NtDeleteIface, WithoutVni, del_dnat_by_vni, VipInv
  <2> QED BY <1>1, <2>1, <2>2, Zenon
<1>7. ASSUME NEW p \in NtPort, NEW ip \in VipIp, NEW u \in NtUl, CreateVip(p, ip, u) PROVE NeighInv'
  <2>1. SnatOf(p)[2] \in NtVni /\ UNCHANGED neighnat
    BY <1>7, RecordKey, Zenon DEF CreateVip
  <2>2. SharedKept(neighnat)
    BY <1>2, <1>7, <2>1, Zenon DEF CreateVip, set_dnat_ip, VipInv
  <2> QED BY <1>1, <2>1, <2>2, Zenon
<1>8. ASSUME NEW p \in NtPort, DeleteVip(p) PROVE NeighInv'
  <2>1. snat_tbl[SnatOf(p)] \in Record /\ snat_tbl[SnatOf(p)].vip \in VipIp /\ UNCHANGED neighnat
    BY <1>8, RecordKey, Zenon DEF DeleteVip, Record
  <2>2. SharedKept(neighnat)
    BY <1>2, <1>8, <2>1, Zenon DEF DeleteVip, del_dnat_ip, VipInv
  <2> QED BY <1>1, <2>1, <2>2, Zenon
<1>9. ASSUME NEW p \in NtPort, NEW ip \in NatIp, NEW u \in NtUl, CreateNtNat(p, ip, u) PROVE NeighInv'
  <2>1. SnatOf(p)[2] \in NtVni /\ UNCHANGED neighnat /\ ip \in NtIp
    BY <1>9, RecordKey, Zenon DEF CreateNtNat, NtIp
  <2>2. SharedKept(neighnat)
    BY <1>4, <1>9, <2>1, Zenon DEF CreateNtNat
  <2> QED BY <1>1, <2>1, <2>2, Zenon
<1>10. ASSUME NEW p \in NtPort, DeleteNtNat(p) PROVE NeighInv'
  <2>1. UNCHANGED neighnat /\ dnat_tbl' = del_vip_from_dnat(neighnat, snat_tbl[SnatOf(p)].nat, SnatOf(p)[2])
    BY <1>10, Zenon DEF DeleteNtNat
  <2>2. SharedKept(neighnat)
    BY <1>3, <2>1, Zenon
  <2> QED BY <1>1, <2>1, <2>2, Zenon
<1>11. ASSUME NEW ip \in NatIp, NEW v \in NtVni, NEW r \in NtRange, NEW u \in NeighUl,
              CreateNeighNat(ip, v, r, u)
       PROVE  NeighInv'
  <2> DEFINE n == [ip |-> ip, vni |-> v, range |-> r, ul |-> u]
  <2>1. n \in Neighbour /\ n.ip = ip /\ n.vni = v /\ n.range = r
    BY Zenon DEF Neighbour
  <2>2. neighnat' = neighnat \cup {n} /\ \A x \in neighnat : ~Overlap(x, n.ip, n.range)
    BY <1>11, Zenon DEF CreateNeighNat, add_neighnat_entry
  <2>3. SharedKept(neighnat) /\ (n.ip \notin VipIp => dnat_tbl'[<<n.ip, n.vni>>] = SHARED)
    BY <1>4, <1>11, <2>1, Zenon DEF CreateNeighNat, NtIp
  <2> HIDE DEF n
  <2>4. \A x \in neighnat : ~Overlap(n, x.ip, x.range)
    BY <2>1, <2>2, OverlapSymmetric, Zenon DEF NeighInv
  <2>5. NeighboursReachable'
    BY <2>2, <2>3, Zenon DEF NeighInv, NeighboursReachable
  <2> QED BY <2>1, <2>2, <2>4, <2>5, Zenon DEF NeighInv
<1>12. ASSUME NEW e \in neighnat, DeleteNeighNat(e) PROVE NeighInv'
  <2>1. neighnat' \subseteq neighnat /\ dnat_tbl' = del_vip_from_dnat(neighnat', e.ip, e.vni)
    BY <1>12, Zenon DEF DeleteNeighNat, del_neighnat_entry
  <2>2. SharedKept(neighnat')
    BY <1>3, <2>1, Zenon
  <2> QED BY <1>1, <2>1, <2>2, Zenon
<1>13. CASE NtInitialize
  BY <1>1, <1>13, Zenon DEF NtInitialize
<1>14. CASE \/ \E p \in NtPort, a \in NtAddr : NtCreateIface(p, a)
            \/ \E f \in NtFlow : RelayStarts(f) \/ RelayEnds(f)
            \/ UNCHANGED ntVars
  BY <1>5, <1>14, Zenon DEF NtCreateIface, RelayStarts, RelayEnds, ntVars
<1> QED BY <1>6, <1>7, <1>8, <1>9, <1>10, <1>11, <1>12, <1>13, <1>14, Zenon DEF NtNext

(* The invariant of the neighbours holds in every state. *)
THEOREM NeighInvariance == NtSpec => []NeighInv
<1>1. NtInit => NeighInv
  BY Zenon DEF NtInit, NeighInv, NeighboursReachable
<1> QED BY <1>1, NeighSteps, VipInvariance, PTL DEF NtSpec

(* dp_del_vip_from_dnat() keeps the DNAT entry as long as a neighbour      *)
(* needs it: no sequence of requests by the local users of an address,     *)
(* completed or failed, makes a neighbour's range unreachable.             *)
THEOREM NeighboursStayReachable == NtSpec => []NeighboursReachable
<1>1. NeighInv => NeighboursReachable
  BY Zenon DEF NeighInv
<1> QED BY <1>1, NeighInvariance, PTL

(* dp_add_neighnat_entry() keeps the ranges apart, so that the order of    *)
(* the list has no influence on where dp_lookup_neighnat_underlay_ip()     *)
(* relays a packet.                                                        *)
THEOREM OneNeighbourPerPacket == NtSpec => []NeighbourUnambiguous
<1>1. NeighInv => NeighbourUnambiguous
  <2> SUFFICES ASSUME NeighInv, NEW f \in NtFlow, NEW d \in neighnat, NEW e \in neighnat,
                      Covers(d, f), Covers(e, f)
               PROVE  d = e
    BY Zenon DEF NeighbourUnambiguous
  <2>1. d \in Neighbour /\ e \in Neighbour
    BY Zenon DEF NeighInv
  <2>2. Overlap(d, e.ip, e.range)
    BY <2>1, NtAssumption DEF Covers, Overlap, Neighbour
  <2> QED BY <2>2, Zenon DEF NeighInv
<1> QED BY <1>1, NeighInvariance, PTL

(* With the range of a neighbour end the flows that are relayed to it,     *)
(* unless the VNI ends or the service is initialized anew                  *)
(* (dp_remove_neighnat_flows()).                                           *)
THEOREM RelayEndsWithRange == NtSpec => RelayFollowsRange
<1> DEFINE Ends == \A f \in NtFlow :
             /\ \E e \in neighnat : Covers(e, f)
             /\ \A e \in neighnat' : ~Covers(e, f)
             => nt_flow'[f] = EMPTY \/ InVni(f.vni)' = {} \/ nt_reset'
<1>1. VipInv /\ [NtNext]_ntVars => [Ends]_ntVars
  <2> SUFFICES ASSUME VipInv, NtNext, NEW f \in NtFlow, NEW e \in neighnat, Covers(e, f),
                      \A x \in neighnat' : ~Covers(x, f)
               PROVE  nt_flow'[f] = EMPTY \/ InVni(f.vni)' = {} \/ nt_reset'
    BY Zenon DEF ntVars
  <2>1. e \notin neighnat'
    OBVIOUS
  <2>2. CASE neighnat \subseteq neighnat'
    BY <2>1, <2>2, Zenon
  <2>3. ASSUME NEW d \in neighnat, DeleteNeighNat(d) PROVE nt_flow'[f] = EMPTY
    BY <2>1, <2>3, Zenon DEF DeleteNeighNat, del_neighnat_entry, remove_neighnat_flows
  <2>4. ASSUME NEW p \in NtPort, NtDeleteIface(p) PROVE InVni(f.vni)' = {}
    <3>1. InVni(NtVniOf[p]) = {p} /\ e.vni = NtVniOf[p] /\ f.vni = NtVniOf[p]
      BY <2>1, <2>4, Zenon DEF NtDeleteIface, WithoutVni, Covers
    <3>2. nt_iface' = [nt_iface EXCEPT ![p] = EMPTY] /\ nt_iface \in [NtPort -> NtAddr \cup {EMPTY}]
      BY <2>4, Zenon DEF NtDeleteIface, VipInv
    <3> QED BY <3>1, <3>2, Zenon DEF InVni, Present
  <2>5. CASE NtInitialize
    BY <2>5, Zenon DEF NtInitialize
  <2> QED BY <2>2, <2>3, <2>4, <2>5, ZenonT(40)
          DEF NtNext, NtCreateIface, CreateVip, DeleteVip, CreateNtNat, DeleteNtNat,
              CreateNeighNat, add_neighnat_entry, RelayStarts, RelayEnds
<1>2. RelayFollowsRange <=> [][Ends]_ntVars
  BY Zenon DEF RelayFollowsRange
<1> QED BY <1>1, <1>2, VipInvariance, PTL DEF NtSpec

-----------------------------------------------------------------------------
(* Packet capture, for any ports, interfaces, requests and refusals of the *)
(* driver.                                                                 *)

JumpHandle  == {"none", "stale", "vnet", "capture"}
CopyHandle  == {"none", "stale", "on"}
PortRules   == [jump : JumpHandle, copy : CopyHandle, undef : BOOLEAN]

OutcomeOK(o) == o.fails \in Nat /\ o.rules \in PortRules

LEMMA RulesTyped ==
  /\ \A j \in JumpHandle, c \in CopyHandle, u \in BOOLEAN : Rules(j, c, u) \in PortRules
  /\ \A r \in PortRules : r.jump \in JumpHandle /\ r.copy \in CopyHandle /\ r.undef \in BOOLEAN
  BY Zenon DEF Rules, PortRules

LEMMA RulesFields ==
  \A j, c, u : Rules(j, c, u).jump = j /\ Rules(j, c, u).copy = c /\ Rules(j, c, u).undef = u
  BY Zenon DEF Rules

LEMMA OutcomeFields ==
  \A fails, rules : Outcome(fails, rules).fails = fails /\ Outcome(fails, rules).rules = rules
  BY Zenon DEF Outcome

LEMMA TriedOutcomes ==
  ASSUME NEW r \in PortRules, NEW s \in PortRules, NEW o \in Tried(r, s)
  PROVE  OutcomeOK(o) /\ (Ok(o) => o.rules = s)
<1>1. o = Outcome(0, s) \/ o = Outcome(1, r)
  BY Zenon DEF Tried
<1>2. (o.fails = 0 /\ o.rules = s) \/ (o.fails = 1 /\ o.rules = r)
  BY <1>1, OutcomeFields
<1> QED
  BY <1>2 DEF OutcomeOK, Ok

(* dp_destroy_default_flow(): a success leaves no live handle behind, and  *)
(* only a stale one makes it undefined.                                    *)
LEMMA DestroyOutcomes ==
  ASSUME NEW r \in PortRules, NEW o \in destroy_default_flow(r)
  PROVE  /\ OutcomeOK(o)
         /\ Ok(o) => /\ o.rules.jump = Destroyed(r.jump) /\ o.rules.copy = Destroyed(r.copy)
                     /\ o.rules.undef <=> r.undef \/ r.jump = "stale" \/ r.copy = "stale"
<1> DEFINE u1 == r.undef \/ r.jump = "stale"
           gone1 == Rules(Destroyed(r.jump), r.copy, u1)
           u2 == gone1.undef \/ r.copy = "stale"
           gone2 == Rules(Destroyed(r.jump), Destroyed(r.copy), u2)
<1>1. r.jump \in JumpHandle /\ r.copy \in CopyHandle /\ r.undef \in BOOLEAN
  BY RulesTyped, Zenon
<1>2. Destroyed(r.jump) \in JumpHandle /\ Destroyed(r.copy) \in CopyHandle
  BY Zenon DEF Destroyed, JumpHandle, CopyHandle
<1>3. u1 \in BOOLEAN /\ u2 \in BOOLEAN
  OBVIOUS
<1>4. o \in Tried(r, gone2) \/ o = Outcome(1, gone1)
  BY Zenon DEF destroy_default_flow
<1>5. gone1 \in PortRules
  BY <1>1, <1>2, <1>3, RulesTyped, Zenon
<1>6. gone2 \in PortRules
  BY <1>1, <1>2, <1>3, RulesTyped, Zenon
<1>7. gone1.undef <=> u1
  <2> HIDE DEF u1
  <2>1. gone1.undef = u1
    BY RulesFields
  <2> QED
    BY <2>1, Zenon
<1> HIDE DEF gone1
<1>8. gone2.undef = u2 /\ gone2.jump = Destroyed(r.jump) /\ gone2.copy = Destroyed(r.copy)
  <2> HIDE DEF u2
  <2> QED
    BY RulesFields
<1> HIDE DEF gone2
<1>9. gone2.undef <=> r.undef \/ r.jump = "stale" \/ r.copy = "stale"
  BY <1>7, <1>8, Zenon
<1>10. CASE o \in Tried(r, gone2)
  BY <1>6, <1>8, <1>9, <1>10, TriedOutcomes, Zenon
<1>11. CASE o = Outcome(1, gone1)
  <2>1. o.fails = 1 /\ o.rules = gone1
    BY <1>11, OutcomeFields, Zenon
  <2> QED
    BY <1>5, <2>1 DEF OutcomeOK, Ok
<1> QED
  BY <1>4, <1>10, <1>11, Zenon

LEMMA JumpOutcomes ==
  ASSUME NEW r \in PortRules, NEW group \in {"vnet", "capture"}, NEW o \in install_jump_rule(r, group)
  PROVE  /\ OutcomeOK(o)
         /\ Ok(o) => o.rules.jump = group /\ o.rules.copy = r.copy /\ o.rules.undef = r.undef
<1> DEFINE s == Rules(group, r.copy, r.undef)
<1>1. group \in JumpHandle /\ r.copy \in CopyHandle /\ r.undef \in BOOLEAN
  BY RulesTyped, Zenon DEF JumpHandle
<1>2. s \in PortRules /\ s.jump = group /\ s.copy = r.copy /\ s.undef = r.undef
  <2>1. s \in PortRules
    BY <1>1, RulesTyped, Zenon
  <2> QED
    BY <2>1, RulesFields
<1>3. o \in Tried(r, s)
  BY Zenon DEF install_jump_rule
<1> HIDE DEF s
<1> QED
  BY <1>2, <1>3, TriedOutcomes, Zenon

LEMMA CopyOutcomes ==
  ASSUME NEW r \in PortRules, NEW o \in install_capture_rule(r)
  PROVE  /\ OutcomeOK(o)
         /\ Ok(o) => o.rules.jump = r.jump /\ o.rules.copy = "on" /\ o.rules.undef = r.undef
<1> DEFINE s == Rules(r.jump, "on", r.undef)
<1>1. r.jump \in JumpHandle /\ "on" \in CopyHandle /\ r.undef \in BOOLEAN
  BY RulesTyped, Zenon DEF CopyHandle
<1>2. s \in PortRules /\ s.jump = r.jump /\ s.copy = "on" /\ s.undef = r.undef
  <2>1. s \in PortRules
    BY <1>1, RulesTyped, Zenon
  <2> QED
    BY <2>1, RulesFields
<1>3. o \in Tried(r, s)
  BY Zenon DEF install_capture_rule
<1> HIDE DEF s
<1> QED
  BY <1>2, <1>3, TriedOutcomes, Zenon

(* dp_enable_pkt_capture(): a success copies the packets of the port, and  *)
(* lets the ones of a VF jump on; it is undefined only through a stale     *)
(* handle.                                                                 *)
LEMMA EnableOutcomes ==
  ASSUME NEW p \in CapPort, RulesOf(p) \in PortRules, NEW o \in enable_pkt_capture(p)
  PROVE  /\ OutcomeOK(o)
         /\ Ok(o) => /\ o.rules.copy = "on"
                     /\ o.rules.jump = IF p \in CapPf THEN Destroyed(RulesOf(p).jump) ELSE "capture"
                     /\ o.rules.undef <=> RulesOf(p).undef \/ RulesOf(p).jump = "stale" \/ RulesOf(p).copy = "stale"
<1> DEFINE r0 == RulesOf(p)
           Back(r) == Then(destroy_default_flow(r), LAMBDA x : install_jump_rule(x, "vnet"))
           CopyOrBack(r) ==
             UNION {IF Ok(c) THEN {c} ELSE {Outcome(b.fails + 1, b.rules) : b \in Back(r)}
                    : c \in install_capture_rule(r)}
           Both(r) == IF p \in CapPf THEN install_capture_rule(r)
                      ELSE Then(install_jump_rule(r, "capture"), CopyOrBack)
<1>1. ASSUME NEW r \in PortRules, NEW b \in Back(r) PROVE OutcomeOK(b)
  <2>1. PICK a \in destroy_default_flow(r) :
          b \in IF Ok(a) THEN install_jump_rule(a.rules, "vnet") ELSE {a}
    BY <1>1, Zenon DEF Then
  <2>2. OutcomeOK(a) /\ a.rules \in PortRules
    BY DestroyOutcomes, Zenon DEF OutcomeOK
  <2> QED
    BY <2>1, <2>2, JumpOutcomes, Zenon
<1>2. ASSUME NEW r \in PortRules, NEW b \in CopyOrBack(r)
      PROVE  /\ OutcomeOK(b)
             /\ Ok(b) => b.rules.jump = r.jump /\ b.rules.copy = "on" /\ b.rules.undef = r.undef
  <2>1. PICK c \in install_capture_rule(r) :
          b \in IF Ok(c) THEN {c} ELSE {Outcome(d.fails + 1, d.rules) : d \in Back(r)}
    BY <1>2, Zenon
  <2> HIDE DEF Back
  <2>2. CASE Ok(c)
    <3>1. b = c
      BY <2>1, <2>2, Zenon
    <3> QED
      BY <2>1, <3>1, CopyOutcomes, Zenon
  <2>3. CASE ~Ok(c)
    <3>1. PICK d \in Back(r) : b = Outcome(d.fails + 1, d.rules)
      BY <2>1, <2>3, Zenon
    <3>2. OutcomeOK(d)
      BY <1>1, <3>1, Zenon
    <3>3. b.fails = d.fails + 1 /\ b.rules = d.rules
      BY <3>1, OutcomeFields, Zenon
    <3>4. OutcomeOK(b) /\ b.fails # 0
      BY <3>2, <3>3 DEF OutcomeOK
    <3> QED
      BY <3>4, Zenon DEF Ok
  <2> QED
    BY <2>2, <2>3, Zenon
<1>3. ASSUME NEW r \in PortRules, NEW b \in Both(r)
      PROVE  /\ OutcomeOK(b)
             /\ Ok(b) => /\ b.rules.copy = "on" /\ b.rules.undef = r.undef
                         /\ b.rules.jump = IF p \in CapPf THEN r.jump ELSE "capture"
  <2>1. CASE p \in CapPf
    <3>1. b \in install_capture_rule(r)
      BY <1>3, <2>1, Zenon
    <3> QED
      BY <2>1, <3>1, CopyOutcomes, Zenon
  <2>2. CASE p \notin CapPf
    <3>1. PICK a \in install_jump_rule(r, "capture") : b \in IF Ok(a) THEN CopyOrBack(a.rules) ELSE {a}
      BY <1>3, <2>2, Zenon DEF Then
    <3> HIDE DEF CopyOrBack
    <3>2. /\ OutcomeOK(a) /\ a.rules \in PortRules
          /\ Ok(a) => a.rules.jump = "capture" /\ a.rules.copy = r.copy /\ a.rules.undef = r.undef
      BY JumpOutcomes, Zenon DEF OutcomeOK
    <3>3. CASE ~Ok(a)
      BY <3>1, <3>2, <3>3, Zenon
    <3>4. CASE Ok(a)
      BY <1>2, <2>2, <3>1, <3>2, <3>4, Zenon
    <3> QED
      BY <3>3, <3>4, Zenon
  <2> QED
    BY <2>1, <2>2, Zenon
<1>4. PICK a \in destroy_default_flow(r0) : o \in IF Ok(a) THEN Both(a.rules) ELSE {a}
  BY Zenon DEF enable_pkt_capture, Then
<1> HIDE DEF Both, r0
<1>5. /\ OutcomeOK(a) /\ a.rules \in PortRules
      /\ Ok(a) => /\ a.rules.jump = Destroyed(r0.jump)
                  /\ a.rules.undef <=> r0.undef \/ r0.jump = "stale" \/ r0.copy = "stale"
  BY DestroyOutcomes, Zenon DEF OutcomeOK, r0
<1>6. CASE ~Ok(a)
  BY <1>4, <1>5, <1>6, Zenon
<1>7. CASE Ok(a)
  <2>1. /\ OutcomeOK(o)
        /\ Ok(o) => /\ o.rules.copy = "on" /\ o.rules.undef = a.rules.undef
                    /\ o.rules.jump = IF p \in CapPf THEN a.rules.jump ELSE "capture"
    BY <1>3, <1>4, <1>5, <1>7, Zenon
  <2> QED
    BY <1>5, <1>7, <2>1, Zenon DEF r0
<1> QED
  BY <1>6, <1>7, Zenon

-----------------------------------------------------------------------------
CapTypes ==
  /\ cap_allocated \in [CapPort -> BOOLEAN] /\ named \in [CapPort -> BOOLEAN]
  /\ captured \in [CapPort -> BOOLEAN]
  /\ jump_flow \in [CapPort -> JumpHandle] /\ capture_flow \in [CapPort -> CopyHandle]
  /\ undefined \in BOOLEAN /\ cap_failures \in Nat

Handled(p) ==
  IF cap_allocated[p]
  THEN jump_flow[p] = "vnet" \/ (jump_flow[p] = "capture" /\ capture_flow[p] = "on")
  ELSE ~CapLive(jump_flow[p]) /\ ~CapLive(capture_flow[p])

(* While the driver has refused nothing: a VF has an interface exactly     *)
(* while it is started, and a port that is not captured has never had a    *)
(* capture rule.                                                           *)
Tidy(p) ==
  /\ p \in CapVf => named[p] = cap_allocated[p] /\ Handled(p)
  /\ p \in CapPf => jump_flow[p] = "none"
  /\ ~captured[p] => capture_flow[p] = "none"

(* A CaptureStart on its way has captured the ports before the next one.   *)
Underway ==
  cap_last.call = "starting" =>
    /\ cap_last.ports \in Seq(CapPort \cup {UNKNOWN}) /\ cap_last.result \in Nat \ {0}
    /\ \A i \in 1 .. Len(cap_last.ports) : i < cap_last.result =>
         cap_last.ports[i] \in CapPort /\ captured[cap_last.ports[i]]

CapInv ==
  /\ CapTypes /\ Underway /\ StartIsAllOrNothing
  /\ cap_failures = 0 => \A p \in CapPort : Tidy(p)

LEMMA CapStart ==
  CapInit => CapInv
<1> SUFFICES ASSUME CapInit PROVE CapInv
  OBVIOUS
<1>1. CapTypes
  <2>1. /\ cap_allocated \in [CapPort -> BOOLEAN] /\ named \in [CapPort -> BOOLEAN]
        /\ captured \in [CapPort -> BOOLEAN]
    <3> DEFINE pf == [p \in CapPort |-> p \in CapPf]
    <3>1. pf \in [CapPort -> BOOLEAN]
      OBVIOUS
    <3>2. cap_allocated = pf /\ named = pf
      BY Zenon DEF CapInit
    <3> HIDE DEF pf
    <3>3. captured \in [CapPort -> BOOLEAN]
      BY Zenon DEF CapInit
    <3> QED
      BY <3>1, <3>2, <3>3, Zenon
  <2>2. jump_flow \in [CapPort -> JumpHandle] /\ capture_flow \in [CapPort -> CopyHandle]
    BY Zenon DEF CapInit, JumpHandle, CopyHandle
  <2> QED
    BY <2>1, <2>2, Zenon DEF CapInit, CapTypes
<1>2. cap_last.call = "none"
  BY Zenon DEF CapInit
<1>3. \A p \in CapPort : Tidy(p)
  BY CapAssumption, Zenon DEF CapInit, Tidy, Handled, CapLive, CapPort
<1> QED
  BY <1>1, <1>2, <1>3, Zenon DEF CapInv, Underway, StartIsAllOrNothing

LEMMA RulesOfTyped ==
  ASSUME CapTypes, NEW p \in CapPort
  PROVE  /\ RulesOf(p) \in PortRules
         /\ RulesOf(p).jump = jump_flow[p] /\ RulesOf(p).copy = capture_flow[p]
         /\ ~RulesOf(p).undef
<1>1. jump_flow[p] \in JumpHandle /\ capture_flow[p] \in CopyHandle
  BY Zenon DEF CapTypes
<1>2. RulesOf(p) \in PortRules
  BY <1>1, RulesTyped, Zenon DEF RulesOf
<1>3. RulesOf(p).jump = jump_flow[p] /\ RulesOf(p).copy = capture_flow[p]
  BY Zenon DEF RulesOf, Rules
<1>4. ~RulesOf(p).undef
  BY Zenon DEF RulesOf, Rules
<1> QED
  BY <1>2, <1>3, <1>4, Zenon

(* What an outcome changes. *)
LEMMA TookEffect ==
  ASSUME CapTypes, NEW p \in CapPort, NEW o, OutcomeOK(o), Took(p, o)
  PROVE  /\ jump_flow' \in [CapPort -> JumpHandle] /\ capture_flow' \in [CapPort -> CopyHandle]
         /\ undefined' \in BOOLEAN /\ cap_failures' \in Nat
         /\ cap_failures' = 0 => cap_failures = 0 /\ Ok(o)
         /\ jump_flow'[p] = o.rules.jump /\ capture_flow'[p] = o.rules.copy
         /\ undefined' <=> undefined \/ o.rules.undef
         /\ \A q \in CapPort : q # p => jump_flow'[q] = jump_flow[q] /\ capture_flow'[q] = capture_flow[q]
<1>1. o.rules.jump \in JumpHandle /\ o.rules.copy \in CopyHandle /\ o.rules.undef \in BOOLEAN /\ o.fails \in Nat
  BY RulesTyped, Zenon DEF OutcomeOK
<1>2. /\ jump_flow' = [jump_flow EXCEPT ![p] = o.rules.jump]
      /\ capture_flow' = [capture_flow EXCEPT ![p] = o.rules.copy]
      /\ cap_failures' = cap_failures + o.fails
  BY Zenon DEF Took
<1>3. undefined' = (undefined \/ o.rules.undef)
  BY Zenon DEF Took
<1>4. undefined' \in BOOLEAN /\ (undefined' <=> undefined \/ o.rules.undef)
  BY <1>3, Zenon
<1>5. cap_failures' \in Nat /\ (cap_failures' = 0 => cap_failures = 0 /\ Ok(o))
  BY <1>1, <1>2 DEF CapTypes, Ok
<1> QED
  BY <1>1, <1>2, <1>4, <1>5, Zenon DEF CapTypes

LEMMA StartPortKeeps ==
  ASSUME CapInv, NEW p \in CapVf, StartPort(p)
  PROVE  CapInv' /\ undefined' = undefined
<1>1. p \in CapPort /\ CapTypes
  BY Zenon DEF CapPort, CapInv
<1>2. PICK o \in install_jump_rule(RulesOf(p), "vnet") : Ok(o) /\ Took(p, o)
  BY Zenon DEF StartPort
<1>3. OutcomeOK(o) /\ o.rules.jump = "vnet" /\ o.rules.copy = RulesOf(p).copy /\ o.rules.undef = RulesOf(p).undef
  BY <1>1, <1>2, RulesOfTyped, JumpOutcomes, Zenon
<1>4. o.rules.copy = capture_flow[p] /\ ~o.rules.undef
  BY <1>1, <1>3, RulesOfTyped, Zenon
<1>5. /\ cap_allocated' = [cap_allocated EXCEPT ![p] = TRUE]
      /\ named' = [named EXCEPT ![p] = TRUE]
      /\ UNCHANGED captured
  BY Zenon DEF StartPort
<1>6. cap_last'.call = "port"
  BY Zenon DEF StartPort
<1>7. /\ jump_flow' \in [CapPort -> JumpHandle] /\ capture_flow' \in [CapPort -> CopyHandle]
      /\ undefined' \in BOOLEAN /\ cap_failures' \in Nat
      /\ cap_failures' = 0 => cap_failures = 0
      /\ jump_flow'[p] = "vnet" /\ capture_flow'[p] = capture_flow[p]
      /\ undefined' <=> undefined
      /\ \A q \in CapPort : q # p => jump_flow'[q] = jump_flow[q] /\ capture_flow'[q] = capture_flow[q]
  BY <1>1, <1>2, <1>3, <1>4, TookEffect, Zenon
<1>8. CapTypes'
  BY <1>5, <1>7, Zenon DEF CapInv, CapTypes
<1>9. ASSUME cap_failures' = 0, NEW q \in CapPort PROVE Tidy(q)'
  <2>1. Tidy(q) /\ cap_allocated \in [CapPort -> BOOLEAN] /\ named \in [CapPort -> BOOLEAN]
    BY <1>7, <1>9, Zenon DEF CapInv, CapTypes
  <2>2. CASE q = p
    <3>1. q \notin CapPf
      BY <2>2, CapAssumption, Zenon
    <3> QED
      BY <1>1, <1>5, <1>7, <2>1, <2>2, <3>1, Zenon DEF Tidy, Handled
  <2>3. CASE q # p
    BY <1>5, <1>7, <2>1, <2>3, Zenon DEF Tidy, Handled
  <2> QED
    BY <2>2, <2>3, Zenon
<1>10. undefined' = undefined
  BY <1>7 DEF CapInv, CapTypes
<1> QED
  BY <1>6, <1>8, <1>9, <1>10, Zenon DEF CapInv, Underway, StartIsAllOrNothing

LEMMA StopPortKeeps ==
  ASSUME CapInv, NEW p \in CapVf, StopPort(p)
  PROVE  /\ CapInv'
         /\ undefined' /\ ~undefined =>
              cap_failures' > 0 \/ (captured[p] /\ cap_allocated[p] /\ capture_flow[p] = "stale")
<1>1. p \in CapPort /\ CapTypes
  BY Zenon DEF CapPort, CapInv
<1> DEFINE Out(o, d) == Outcome(o.fails + d, o.rules)
<1>2. PICK o \in destroy_default_flow(RulesOf(p)), d \in {0, 1} :
        /\ Took(p, Out(o, d))
        /\ cap_allocated' = [cap_allocated EXCEPT ![p] = ~Ok(o) \/ d = 1]
  BY Zenon DEF StopPort
<1>3. /\ OutcomeOK(o)
      /\ Ok(o) => /\ o.rules.jump = Destroyed(jump_flow[p]) /\ o.rules.copy = Destroyed(capture_flow[p])
                  /\ o.rules.undef <=> jump_flow[p] = "stale" \/ capture_flow[p] = "stale"
  BY <1>1, <1>2, RulesOfTyped, DestroyOutcomes
<1>4. /\ Out(o, d).fails = o.fails + d /\ Out(o, d).rules = o.rules
      /\ OutcomeOK(Out(o, d)) /\ (Ok(Out(o, d)) => Ok(o) /\ d = 0)
  <2>1. Out(o, d).fails = o.fails + d /\ Out(o, d).rules = o.rules
    BY OutcomeFields, Zenon
  <2> HIDE DEF Out
  <2> QED
    BY <1>3, <2>1 DEF OutcomeOK, Ok
<1> HIDE DEF Out
<1>5. named' = [named EXCEPT ![p] = FALSE] /\ UNCHANGED captured /\ named[p]
  BY Zenon DEF StopPort
<1>6. cap_last'.call = "port"
  BY Zenon DEF StopPort
<1>7. /\ jump_flow' \in [CapPort -> JumpHandle] /\ capture_flow' \in [CapPort -> CopyHandle]
      /\ undefined' \in BOOLEAN /\ cap_failures' \in Nat
      /\ cap_failures' = 0 => cap_failures = 0 /\ Ok(Out(o, d))
      /\ jump_flow'[p] = o.rules.jump /\ capture_flow'[p] = o.rules.copy
      /\ undefined' <=> undefined \/ o.rules.undef
      /\ \A q \in CapPort : q # p => jump_flow'[q] = jump_flow[q] /\ capture_flow'[q] = capture_flow[q]
  BY <1>1, <1>2, <1>4, TookEffect
<1>8. CapTypes'
  <2>1. (~Ok(o) \/ d = 1) \in BOOLEAN
    OBVIOUS
  <2>2. cap_allocated' \in [CapPort -> BOOLEAN]
    BY <1>1, <1>2, <2>1, Zenon DEF CapTypes
  <2> QED
    BY <1>5, <1>7, <2>2, Zenon DEF CapInv, CapTypes
<1>9. cap_failures' = 0 => cap_failures = 0 /\ Ok(o) /\ d = 0
  BY <1>4, <1>7, Zenon
<1>10. ASSUME cap_failures' = 0, NEW q \in CapPort PROVE Tidy(q)'
  <2>1. Tidy(q) /\ cap_allocated \in [CapPort -> BOOLEAN] /\ named \in [CapPort -> BOOLEAN]
    BY <1>9, <1>10, Zenon DEF CapInv, CapTypes
  <2>2. CASE q = p
    <3>1. q \notin CapPf
      BY <2>2, CapAssumption, Zenon
    <3>2. ~cap_allocated'[q] /\ ~named'[q] /\ captured'[q] = captured[q]
      <4> DEFINE still == ~Ok(o) \/ d = 1
      <4>1. ~still
        BY <1>9, <1>10
      <4>2. cap_allocated' = [cap_allocated EXCEPT ![p] = still]
        BY <1>2, Zenon
      <4> HIDE DEF still
      <4> QED
        BY <1>1, <1>5, <2>1, <2>2, <4>1, <4>2, Zenon
    <3>3. jump_flow'[q] = Destroyed(jump_flow[q]) /\ capture_flow'[q] = Destroyed(capture_flow[q])
      BY <1>3, <1>7, <1>9, <1>10, <2>2, Zenon
    <3>4. \A h : ~CapLive(Destroyed(h))
      BY Zenon DEF CapLive, Destroyed
    <3>5. Destroyed("none") = "none"
      BY Zenon DEF Destroyed
    <3>6. named'[q] \in BOOLEAN /\ cap_allocated'[q] \in BOOLEAN
      BY <1>8, Zenon DEF CapTypes
    <3>7. named'[q] = cap_allocated'[q]
      BY <3>2, <3>6, Zenon
    <3> QED
      BY <2>1, <3>1, <3>2, <3>3, <3>4, <3>5, <3>7, Zenon DEF Tidy, Handled
  <2>3. CASE q # p
    <3>1. cap_allocated'[q] = cap_allocated[q] /\ named'[q] = named[q] /\ captured'[q] = captured[q]
      BY <1>1, <1>2, <1>5, <2>1, <2>3, Zenon
    <3> QED
      BY <1>7, <2>1, <2>3, <3>1, Zenon DEF Tidy, Handled
  <2> QED
    BY <2>2, <2>3, Zenon
<1>11. ASSUME undefined', ~undefined, ~(cap_failures' > 0)
       PROVE  captured[p] /\ cap_allocated[p] /\ capture_flow[p] = "stale"
  <2>1. cap_failures' = 0
    BY <1>7, <1>11
  <2>2. Tidy(p) /\ (jump_flow[p] = "stale" \/ capture_flow[p] = "stale")
    BY <1>1, <1>3, <1>7, <1>9, <1>11, <2>1, Zenon DEF CapInv
  <2>3. cap_allocated[p] = named[p]
    BY <2>2, Zenon DEF Tidy
  <2>4. cap_allocated[p]
    BY <1>5, <2>3, Zenon
  <2> QED
    BY <2>2, <2>4, Zenon DEF Tidy, Handled
<1> QED
  BY <1>6, <1>8, <1>10, <1>11, Zenon DEF CapInv, Underway, StartIsAllOrNothing

LEMMA StartBegins ==
  ASSUME CapInv, NEW l \in CapRequests, CaptureStart(l)
  PROVE  CapInv'
<1>1. cap_last'.call = "starting" /\ cap_last'.result = 1 /\ cap_last'.ports = l
  BY Zenon DEF CaptureStart
<1>2. UNCHANGED <<cap_allocated, named, captured, jump_flow, capture_flow, undefined, cap_failures>>
  BY Zenon DEF CaptureStart, capRules
<1>3. Underway'
  BY <1>1, CapAssumption DEF Underway
<1>4. StartIsAllOrNothing'
  BY <1>1, Zenon DEF StartIsAllOrNothing
<1> QED
  BY <1>2, <1>3, <1>4, Zenon DEF CapInv, CapTypes, Tidy, Handled

LEMMA StopAnswers ==
  ASSUME CapInv, CaptureStop
  PROVE  CapInv'
<1>1. cap_last'.call = "stop"
  <2>1. \/ cap_last' = [call |-> "stop", result |-> "refused", ports |-> <<>>]
        \/ cap_last' = [call |-> "stop", result |-> "OK", ports |-> <<>>]
    BY Zenon DEF CaptureStop
  <2> QED
    BY <2>1
<1>2. UNCHANGED <<cap_allocated, named, captured, jump_flow, capture_flow, undefined, cap_failures>>
  BY Zenon DEF CaptureStop, capRules
<1> QED
  BY <1>1, <1>2, Zenon DEF CapInv, CapTypes, Tidy, Handled, Underway, StartIsAllOrNothing

(* The answer of a CaptureStart. *)
LEMMA Answers ==
  ASSUME NEW r \in {"OK", "refused"}, StartAnswers(r, captured'), UNCHANGED cap_allocated,
         r = "OK" => \A i \in DOMAIN cap_last.ports : captured'[cap_last.ports[i]]
  PROVE  Underway' /\ StartIsAllOrNothing'
<1>1. /\ cap_last'.call = "start" /\ cap_last'.ports = cap_last.ports
      /\ cap_last'.result = IF r # "OK" /\ DisableAllFails(captured') THEN "ROLLBACK" ELSE r
  BY Zenon DEF StartAnswers
<1>2. Underway'
  BY <1>1, Zenon DEF Underway
<1>3. cap_last'.result = "refused" => \A p \in CapPort : cap_allocated[p] => ~captured'[p]
  BY <1>1, Zenon DEF DisableAllFails
<1>4. cap_last'.result = "OK" => r = "OK"
  BY <1>1, Zenon
<1> QED
  BY <1>1, <1>2, <1>3, <1>4, Zenon DEF StartIsAllOrNothing

LEMMA StartEnds ==
  ASSUME CapInv, CaptureStarted
  PROVE  CapInv'
<1>1. UNCHANGED <<cap_allocated, named, captured, jump_flow, capture_flow, undefined, cap_failures>>
  BY Zenon DEF CaptureStarted, capRules
<1>2. StartAnswers("OK", captured')
  BY <1>1, Zenon DEF CaptureStarted
<1>3. \A i \in DOMAIN cap_last.ports : captured'[cap_last.ports[i]]
  <2>1. /\ cap_last.ports \in Seq(CapPort \cup {UNKNOWN}) /\ cap_last.result \in Nat \ {0}
        /\ \A i \in 1 .. Len(cap_last.ports) : i < cap_last.result =>
             cap_last.ports[i] \in CapPort /\ captured[cap_last.ports[i]]
        /\ cap_last.result > Len(cap_last.ports)
    BY Zenon DEF CapInv, Underway, CaptureStarted
  <2>2. \A i \in DOMAIN cap_last.ports : i \in 1 .. Len(cap_last.ports) /\ i < cap_last.result
    BY <2>1
  <2> QED
    BY <1>1, <2>1, <2>2, Zenon
<1>4. Underway' /\ StartIsAllOrNothing'
  BY <1>1, <1>2, <1>3, Answers, Zenon
<1> QED
  BY <1>1, <1>4, Zenon DEF CapInv, CapTypes, Tidy, Handled

LEMMA StartPortOfList ==
  ASSUME CapInv, CaptureStartPort
  PROVE  /\ CapInv'
         /\ undefined' /\ ~undefined => cap_failures' > 0
<1> DEFINE l == cap_last.ports
           n == cap_last.result
           p == l[n]
<1>1. /\ cap_last.call = "starting" /\ n <= Len(l)
      /\ UNCHANGED <<cap_allocated, named>>
  BY Zenon DEF CaptureStartPort
<1>2. /\ l \in Seq(CapPort \cup {UNKNOWN}) /\ n \in Nat \ {0}
      /\ \A i \in 1 .. Len(l) : i < n => l[i] \in CapPort /\ captured[l[i]]
  BY <1>1, Zenon DEF CapInv, Underway
<1>3. CASE StartAnswers("refused", captured) /\ UNCHANGED <<capRules, undefined, cap_failures>>
  <2>1. UNCHANGED <<cap_allocated, named, captured, jump_flow, capture_flow, undefined, cap_failures>>
    BY <1>1, <1>3, Zenon DEF capRules
  <2>2. StartAnswers("refused", captured')
    BY <1>3, <2>1, Zenon
  <2>3. Underway' /\ StartIsAllOrNothing'
    BY <2>1, <2>2, Answers, Zenon
  <2> QED
    BY <2>1, <2>3, Zenon DEF CapInv, CapTypes, Tidy, Handled
<1>4. ASSUME p # UNKNOWN, named[p], ~captured[p],
             NEW o \in enable_pkt_capture(p), Took(p, o),
             captured' = [captured EXCEPT ![p] = Ok(o)],
             IF Ok(o)
             THEN cap_last' = [call |-> "starting", result |-> cap_last.result + 1, ports |-> cap_last.ports]
             ELSE StartAnswers("refused", captured')
      PROVE  CapInv' /\ (undefined' /\ ~undefined => cap_failures' > 0)
  <2>1. p \in CapPort /\ n \in 1 .. Len(l)
    BY <1>1, <1>2, <1>4
  <2> HIDE DEF p
  <2>2. CapTypes
    BY Zenon DEF CapInv
  <2>3. /\ OutcomeOK(o)
        /\ Ok(o) => /\ o.rules.copy = "on"
                    /\ o.rules.jump = IF p \in CapPf THEN Destroyed(jump_flow[p]) ELSE "capture"
                    /\ o.rules.undef <=> jump_flow[p] = "stale" \/ capture_flow[p] = "stale"
    BY <1>4, <2>1, <2>2, EnableOutcomes, RulesOfTyped
  <2>4. /\ jump_flow' \in [CapPort -> JumpHandle] /\ capture_flow' \in [CapPort -> CopyHandle]
        /\ undefined' \in BOOLEAN /\ cap_failures' \in Nat
        /\ cap_failures' = 0 => cap_failures = 0 /\ Ok(o)
        /\ jump_flow'[p] = o.rules.jump /\ capture_flow'[p] = o.rules.copy
        /\ undefined' <=> undefined \/ o.rules.undef
        /\ \A q \in CapPort : q # p => jump_flow'[q] = jump_flow[q] /\ capture_flow'[q] = capture_flow[q]
    BY <1>4, <2>1, <2>2, <2>3, TookEffect, Zenon
  <2>5. /\ captured' \in [CapPort -> BOOLEAN] /\ captured'[p] = Ok(o)
        /\ \A q \in CapPort : q # p => captured'[q] = captured[q]
    <3> DEFINE ok == Ok(o)
    <3>1. ok \in BOOLEAN
      BY Zenon DEF Ok
    <3>2. captured' = [captured EXCEPT ![p] = ok]
      BY <1>4, Zenon
    <3> HIDE DEF ok
    <3>3. /\ captured' \in [CapPort -> BOOLEAN] /\ captured'[p] = ok
          /\ \A q \in CapPort : q # p => captured'[q] = captured[q]
      BY <2>1, <2>2, <3>1, <3>2, Zenon DEF CapTypes
    <3> QED
      BY <3>3, Zenon DEF ok
  <2>6. CapTypes'
    BY <1>1, <2>2, <2>4, <2>5, Zenon DEF CapTypes
  <2>7. ASSUME cap_failures' = 0
        PROVE  ~o.rules.undef /\ \A q \in CapPort : Tidy(q)'
    <3>1. Ok(o) /\ \A q \in CapPort : Tidy(q)
      BY <2>4, <2>7, Zenon DEF CapInv
    <3>2. capture_flow[p] = "none"
      BY <1>4, <2>1, <3>1, Zenon DEF Tidy, p
    <3>3. p \in CapVf => cap_allocated[p] /\ jump_flow[p] # "stale"
      <4> SUFFICES ASSUME p \in CapVf PROVE cap_allocated[p] /\ jump_flow[p] # "stale"
        OBVIOUS
      <4>1. named[p] = cap_allocated[p] /\ Handled(p)
        BY <2>1, <3>1, Zenon DEF Tidy
      <4>2. cap_allocated[p]
        BY <1>4, <4>1, Zenon DEF p
      <4> QED
        BY <4>1, <4>2, Zenon DEF Handled
    <3>4. p \in CapPf => jump_flow[p] = "none"
      BY <2>1, <3>1, Zenon DEF Tidy
    <3>5. ~o.rules.undef
      BY <2>1, <2>3, <3>1, <3>2, <3>3, <3>4, Zenon DEF CapPort
    <3>6. ASSUME NEW q \in CapPort PROVE Tidy(q)'
      <4>1. CASE q = p
        <5>1. captured'[q] /\ capture_flow'[q] = "on"
          BY <2>3, <2>4, <2>5, <3>1, <4>1, Zenon
        <5>2. CASE p \in CapPf
          <6>1. jump_flow'[q] = "none" /\ q \notin CapVf
            BY <2>3, <2>4, <3>1, <3>4, <4>1, <5>2, CapAssumption, Zenon DEF Destroyed
          <6> QED
            BY <5>1, <6>1, Zenon DEF Tidy
        <5>3. CASE p \notin CapPf
          <6>1. /\ jump_flow'[q] = "capture" /\ cap_allocated'[q]
                /\ named'[q] = cap_allocated'[q]
            BY <1>1, <2>1, <2>3, <2>4, <3>1, <3>3, <4>1, <5>3, Zenon DEF CapPort, Tidy
          <6> QED
            BY <4>1, <5>1, <5>3, <6>1, Zenon DEF Tidy, Handled
        <5> QED
          BY <5>2, <5>3, Zenon
      <4>2. CASE q # p
        BY <1>1, <2>4, <2>5, <3>1, <4>2, Zenon DEF Tidy, Handled
      <4> QED
        BY <4>1, <4>2, Zenon
    <3> QED
      BY <3>5, <3>6, Zenon
  <2>8. Underway' /\ StartIsAllOrNothing'
    <3>1. CASE Ok(o)
      <4>1. cap_last'.call = "starting" /\ cap_last'.result = n + 1 /\ cap_last'.ports = l
        BY <1>4, <3>1
      <4>2. ASSUME NEW i \in 1 .. Len(l), i < n + 1 PROVE l[i] \in CapPort /\ captured'[l[i]]
        <5>1. CASE i = n
          BY <2>1, <2>5, <3>1, <5>1, Zenon DEF p
        <5>2. CASE i # n
          <6>1. i < n
            BY <1>2, <4>2, <5>2
          <6>2. l[i] \in CapPort /\ captured[l[i]]
            BY <1>2, <4>2, <6>1, Zenon
          <6>3. l[i] # p
            BY <1>4, <6>2, Zenon DEF p
          <6> QED
            BY <2>5, <6>2, <6>3, Zenon
        <5> QED
          BY <5>1, <5>2, Zenon
      <4>3. n + 1 \in Nat \ {0}
        BY <1>2
      <4> HIDE DEF l, n
      <4>4. Underway'
        BY <1>2, <4>1, <4>2, <4>3, Zenon DEF Underway
      <4> QED
        BY <4>1, <4>4, Zenon DEF StartIsAllOrNothing
    <3>2. CASE ~Ok(o)
      BY <1>1, <1>4, <3>2, Answers, Zenon
    <3> QED
      BY <3>1, <3>2, Zenon
  <2>9. undefined' /\ ~undefined => cap_failures' > 0
    BY <2>4, <2>7
  <2> QED
    BY <2>6, <2>7, <2>8, <2>9, Zenon DEF CapInv
<1> QED
  BY <1>1, <1>3, <1>4, Zenon DEF CaptureStartPort

LEMMA CapStep ==
  ASSUME CapInv, [CapNext]_capVars
  PROVE  /\ CapInv'
         /\ undefined' /\ ~undefined =>
              cap_failures' > 0 \/ \E p \in CapVf : captured[p] /\ cap_allocated[p] /\ capture_flow[p] = "stale"
<1>1. CASE UNCHANGED capVars
  BY <1>1, Zenon DEF capVars, capRules, CapInv, CapTypes, Tidy, Handled, Underway, StartIsAllOrNothing
<1>2. CASE \E p \in CapVf : StartPort(p)
  BY <1>2, StartPortKeeps, Zenon
<1>3. CASE \E p \in CapVf : StopPort(p)
  BY <1>3, StopPortKeeps, Zenon
<1>4. CASE \E l \in CapRequests : CaptureStart(l)
  BY <1>4, StartBegins DEF CaptureStart
<1>5. CASE CaptureStop
  BY <1>5, StopAnswers, Zenon DEF CaptureStop
<1>6. CASE CaptureStartPort
  BY <1>6, StartPortOfList, Zenon
<1>7. CASE CaptureStarted
  BY <1>7, StartEnds, Zenon DEF CaptureStarted
<1> QED
  BY <1>1, <1>2, <1>3, <1>4, <1>5, <1>6, <1>7, Zenon DEF CapNext

LEMMA CapInvariance ==
  CapSpec => []CapInv
  BY CapStart, CapStep, PTL DEF CapSpec

(***************************************************************************)
(* For every set of ports and requests: while the driver refuses nothing,  *)
(* a started VF's packets reach the group that handles them and a stopped  *)
(* port keeps no rule (dp_enable_pkt_capture, dp_stop_port).               *)
(***************************************************************************)
THEOREM PacketsAreHandled ==
  CapSpec => []PacketsStayHandled
<1>1. CapInv => PacketsStayHandled
  BY Zenon DEF CapInv, Tidy, Handled, PacketsStayHandled, CapPort
<1> QED
  BY <1>1, CapInvariance, PTL

(***************************************************************************)
(* CaptureStart does all or nothing, or answers ROLLBACK, failures of the  *)
(* driver included (dp_process_capture_start).                             *)
(***************************************************************************)
THEOREM CaptureStartIsAtomic ==
  CapSpec => []StartIsAllOrNothing
<1>1. CapInv => StartIsAllOrNothing
  BY Zenon DEF CapInv
<1> QED
  BY <1>1, CapInvariance, PTL

(***************************************************************************)
(* A rule is destroyed through a stale handle only after a refusal of the  *)
(* driver, or on a captured interface that was deleted and created again   *)
(* (dp_destroy_default_flow leaves the handles behind).                    *)
(***************************************************************************)
THEOREM StaleHandlesNeedARestart ==
  CapSpec => StaleOnlyAfterRestart
<1> DEFINE A == undefined' /\ ~undefined =>
                  cap_failures' > 0 \/ \E p \in CapVf : captured[p] /\ cap_allocated[p] /\ capture_flow[p] = "stale"
<1>1. CapInv /\ [CapNext]_capVars => [A]_capVars
  BY CapStep, Zenon
<1> QED
  BY <1>1, CapInvariance, PTL DEF CapSpec, StaleOnlyAfterRestart

=============================================================================
