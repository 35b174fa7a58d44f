------------------------------- MODULE NatFlows -------------------------------
(***************************************************************************)
(* Conntrack below the network NAT: the flow table of src/src/dp_flow.c,   *)
(* which holds a flow_value under the key of each of its directions, its   *)
(* reference counter, the one-entry cache of src/src/dp_cntrack.c, and the *)
(* nodes that carry a pointer to a flow_value through a burst of packets.  *)
(* snat_node.c gives a TCP or UDP flow its NAT port (NatPorts) and moves   *)
(* its reply direction to the translated key.                              *)
(*                                                                         *)
(* A node handles all packets of a burst before the next node does, so the *)
(* pointers conntrack has put into the packets are used after other        *)
(* packets of the burst have changed the table.  Requests and ageing run   *)
(* between bursts.                                                         *)
(***************************************************************************)
EXTENDS NatPorts, Sequences

CONSTANTS
  Flow,          \* addresses rte_zmalloc() returns for a flow_value; bounds the live ones
  MaxBurst,      \* packets of a burst
  MaxFailures    \* additions the flow table may refuse

VARIABLES
  flows,     \* the flow_value at each address
  table,     \* flow_table
  cache,     \* prev_key and cached_flow_val
  burst,     \* packets between conntrack and the NAT nodes, with the flow conntrack found
  walk,      \* the node the burst is in
  sweep,     \* the flows a table scan that is under way removes
  failures,  \* additions refused so far
  last       \* the last packet translated: its connection, and what the remote end sees

flowVars == <<flows, table, cache, burst, walk, sweep, failures, last>>
allVars  == <<vars, flowVars>>

\* Both directions of a connection as the interface sends and expects it, and as it is on the wire.
L4Conn == {c \in Conn : c.dst \notin Icmp}
Tuple  == {o \in OverloadKey : o.dst \notin Icmp /\ o.ident = NONE}
Key    == [kind : {"out", "in"}, conn : L4Conn] \cup [kind : {"wire", "back"}, tuple : Tuple]

Out(c)  == [kind |-> "out", conn |-> c]
In(c)   == [kind |-> "in", conn |-> c]
Wire(o) == [kind |-> "wire", tuple |-> o]

\* dp_invert_flow_key().
Inverted(k) ==
  [k EXCEPT !.kind = CASE @ = "out" -> "in" [] @ = "in" -> "out" [] @ = "wire" -> "back" [] @ = "back" -> "wire"]

FlowValue == [org : Key, reply : Key, ref : Nat, snat : BOOLEAN]
Packet    == [key : Key, flow : Flow]

Idle == burst = <<>> /\ sweep = {} /\ purge = NONE

-------------------------------------------------------------------------------
(* conntrack_node.c *)

\* Mutant: the cache outlives the entry.
CacheKept == cache

\* dp_cntrack_flush_cache(), at the end of dp_delete_flow().
Flushed == NONE

CanReceive == walk = "conntrack" /\ Len(burst) < MaxBurst /\ sweep = {} /\ purge = NONE

\* dp_get_flow_val(): the cached flow if the key is that of the previous packet, else the table's.
Lookup(k) == IF cache # NONE /\ cache.key = k THEN cache.flow ELSE table[k]

Found(k, h) ==
  /\ burst' = Append(burst, [key |-> k, flow |-> h])
  /\ cache' = [key |-> k, flow |-> h]

Hit(k) ==
  /\ Lookup(k) # NONE
  /\ Found(k, Lookup(k))
  /\ UNCHANGED <<flows, table, failures>>

NewFlow(k, h) ==
  flows' = [flows EXCEPT ![h] = [org |-> k, reply |-> Inverted(k), ref |-> 2, snat |-> FALSE]]

\* flow_table_insert_entry().  An addition overwrites an entry that is already there; a refused one
\* is rolled back, which flushes the cache if it is the second.
Insert(k) ==
  /\ Lookup(k) = NONE
  /\ \/ \E h \in Flow :
        /\ flows[h] = NONE
        /\ NewFlow(k, h)
        /\ table' = [table EXCEPT ![k] = h, ![Inverted(k)] = h]
        /\ Found(k, h)
        /\ UNCHANGED failures
     \/ /\ failures < MaxFailures
        /\ failures' = failures + 1
        /\ cache' \in {cache, Flushed}
        /\ UNCHANGED <<flows, table, burst>>

Conntrack(k) ==
  /\ CanReceive
  /\ Hit(k) \/ Insert(k)
  /\ last' = NONE
  /\ UNCHANGED <<vars, walk, sweep>>

\* An interface sends; dp_mark_vnf_type() sets its keys apart while it has a NAT address.
Send(c) == snat[c.iface] # NONE /\ Conntrack(Out(c))

\* A packet for a NAT address of this host arrives, expected or not.
Receive(o) ==
  /\ \E i \in Iface : snat[i] # NONE /\ snat[i].nat_ip = o.nat_ip
  /\ Conntrack(Wire(o))

-------------------------------------------------------------------------------
(* dnat_node.c and snat_node.c *)

Inbound == {n \in DOMAIN burst : burst[n].key.kind = "wire"}

\* The packet leaves the burst.
Without(n) == SubSeq(burst, 1, n - 1) \o SubSeq(burst, n + 1, Len(burst))

Done(n) ==
  /\ burst' = Without(n)
  /\ walk' = IF Len(burst) = 1 THEN "conntrack" ELSE "nat"

\* A reply is given the destination of its flow; a packet that came before the flow it belongs to
\* is dropped.
DnatNode ==
  \E n \in Inbound :
    LET p == burst[n]
        f == flows[p.flow]
    IN  /\ \A m \in Inbound : n <= m
        /\ last' = IF f.snat /\ f.org # p.key THEN [conn |-> f.org.conn, tuple |-> p.key.tuple] ELSE NONE
        /\ Done(n)
        /\ UNCHANGED <<vars, flows, table, cache, sweep, failures>>

\* dp_delete_flow() of the reply key, then dp_add_flow() of the translated one.  The deletion never
\* frees the flow, whose other key is in the table.
RemovedReply(h) == [table EXCEPT ![flows[h].reply] = NONE]
RefsAfter(h)    == IF table[flows[h].reply] = NONE THEN flows[h].ref ELSE flows[h].ref - 1
CacheAfter(h)   == IF table[flows[h].reply] = NONE THEN cache ELSE Flushed

Rekey(h, o) ==
  /\ table' = [RemovedReply(h) EXCEPT ![Wire(o)] = h]
  /\ flows' = [flows EXCEPT ![h] = [@ EXCEPT !.reply = Wire(o), !.ref = RefsAfter(h) + 1, !.snat = TRUE]]
  /\ cache' = CacheAfter(h)

\* The port dp_allocate_network_snat_port() would return.
Allocatable(c, s) ==
  IF portmap[KeyOf(c)] = NONE THEN FindNewPort(c, s)
  ELSE {p \in {portmap[KeyOf(c)].nat_port} : OverloadOf(c, s.nat_ip, p) \notin overload}

\* The translated key is refused: the port is given back, the flow keeps its flag and the key.
RekeyRefused(h, c, s) ==
  /\ failures < MaxFailures
  /\ failures' = failures + 1
  /\ \E p \in Allocatable(c, s) :
       flows' = [flows EXCEPT ![h] =
         [@ EXCEPT !.reply = Wire(OverloadOf(c, s.nat_ip, p)), !.ref = RefsAfter(h), !.snat = TRUE]]
  /\ table' = RemovedReply(h)
  /\ cache' = CacheAfter(h)
  /\ UNCHANGED <<vars, last>>

\* Mutant: the result of the allocation is not checked, the packet is sent from some port.
FirstSnatUnchecked(h, c, s) ==
  LET o == OverloadOf(c, s.nat_ip, s.range[1]) IN
  /\ UseExisting(c, s.nat_ip) \/ CreateNew(c, s) \/ OutOfMemory(c, s)
  /\ Rekey(h, o)
  /\ last' = [conn |-> c, tuple |-> o]
  /\ UNCHANGED <<snat, purge, failures>>

\* dp_process_ipv4_snat(): the first packet of a flow.
FirstSnat(h, c, s) ==
  \/ /\ UseExisting(c, s.nat_ip) \/ CreateNew(c, s) \/ OutOfMemory(c, s)
     /\ IF result' = "OK"
        THEN /\ Rekey(h, OverloadOf(c, nat'[c].nat_ip, nat'[c].nat_port))
             /\ last' = [conn |-> c, tuple |-> OverloadOf(c, nat'[c].nat_ip, nat'[c].nat_port)]
        ELSE last' = NONE /\ UNCHANGED <<table, flows, cache>>
     /\ UNCHANGED <<snat, purge, failures>>
  \/ RekeyRefused(h, c, s)

\* Mutant: every packet that reaches the node is translated afresh.
SnatNodeAgain ==
  /\ Inbound = {}
  /\ burst # <<>>
  /\ LET p == Head(burst) IN FirstSnat(p.flow, p.key.conn, snat[p.key.conn.iface])
  /\ Done(1)
  /\ UNCHANGED sweep

\* A later packet of the burst may find that an earlier one has had the flow translated.
SnatNode ==
  /\ Inbound = {}
  /\ burst # <<>>
  /\ LET p == Head(burst)
         c == p.key.conn
         f == flows[p.flow]
     IN  \/ /\ ~f.snat
            /\ FirstSnat(p.flow, c, snat[c.iface])
         \/ /\ f.snat
            /\ last' = [conn |-> c, tuple |-> f.reply.tuple]
            /\ UNCHANGED <<vars, table, flows, cache, failures>>
  /\ Done(1)
  /\ UNCHANGED sweep

-------------------------------------------------------------------------------
(* Removal of flows: ageing, requests. *)

\* dp_free_network_nat_port().
FreePort(f) ==
  IF f.snat
  THEN /\ overload' = overload \ {f.reply.tuple}
       /\ CountDown(KeyOf(f.org.conn))
       /\ nat' = [nat EXCEPT ![f.org.conn] = NONE]
       /\ used' = [used EXCEPT ![f.org.conn.iface] = @ - 1]
  ELSE UNCHANGED <<portVars, nat, used>>

\* Mutant: the flow is freed with the first of its keys.
DeleteFlowFrees(k) ==
  /\ table' = [table EXCEPT ![k] = NONE]
  /\ cache' = Flushed
  /\ flows' = [flows EXCEPT ![table[k]] = NONE]
  /\ FreePort(flows[table[k]])

\* dp_delete_flow() of an entry a scan has found; dp_free_flow() when the last reference is gone.
DeleteFlow(k) ==
  LET h == table[k] IN
  /\ table' = [table EXCEPT ![k] = NONE]
  /\ cache' = Flushed
  /\ \/ /\ flows[h].ref > 1
        /\ flows' = [flows EXCEPT ![h].ref = @ - 1]
        /\ UNCHANGED <<portVars, nat, used>>
     \/ /\ flows[h].ref = 1
        /\ flows' = [flows EXCEPT ![h] = NONE]
        /\ FreePort(flows[h])

EntriesOf(S) == {k \in Key : table[k] \in S}

\* dp_process_aged_flows_non_offload(), dp_remove_iface_flows(): any of the flows in the table.
StartSweep(S) ==
  /\ Idle
  /\ S # {}
  /\ \A h \in S : EntriesOf({h}) # {}
  /\ sweep' = S
  /\ last' = NONE
  /\ UNCHANGED <<vars, flows, table, cache, burst, walk, failures>>

SweepEntry(k) ==
  /\ table[k] \in sweep
  /\ DeleteFlow(k)
  /\ sweep' = IF EntriesOf(sweep) = {k} THEN {} ELSE sweep
  /\ UNCHANGED <<snat, purge, result, burst, walk, failures, last>>

\* dp_remove_nat_flows().
NatFlowsOf(i) == {h \in Flow : flows[h] # NONE /\ flows[h].snat /\ flows[h].org.conn.iface = i}

PurgeEntry(k) ==
  /\ purge # NONE
  /\ table[k] \in NatFlowsOf(purge)
  /\ DeleteFlow(k)
  /\ UNCHANGED <<snat, purge, result, burst, walk, sweep, failures, last>>

FinishDeleteNat ==
  /\ purge # NONE
  /\ EntriesOf(NatFlowsOf(purge)) = {}
  /\ snat' = [snat EXCEPT ![purge] = NONE]
  /\ purge' = NONE
  /\ UNCHANGED <<portVars, nat, used, result, flowVars>>

Request(i) ==
  /\ Idle
  /\ DeleteNat(i) \/ \E s \in Snat : CreateNat(i, s)
  /\ last' = NONE
  /\ UNCHANGED <<flows, table, cache, burst, walk, sweep, failures>>

-------------------------------------------------------------------------------

FlowInit ==
  /\ Init
  /\ flows = [h \in Flow |-> NONE]
  /\ table = [k \in Key |-> NONE]
  /\ cache = NONE
  /\ burst = <<>>
  /\ walk = "conntrack"
  /\ sweep = {}
  /\ failures = 0
  /\ last = NONE

FlowNext ==
  \/ \E c \in L4Conn : Send(c)
  \/ \E o \in Tuple : Receive(o)
  \/ DnatNode \/ SnatNode
  \/ \E S \in SUBSET Flow : StartSweep(S)
  \/ \E k \in Key : SweepEntry(k) \/ PurgeEntry(k)
  \/ FinishDeleteNat
  \/ \E i \in Iface : Request(i)

FlowSpec == FlowInit /\ [][FlowNext]_allVars

-------------------------------------------------------------------------------
(* Properties. *)

Live == {h \in Flow : flows[h] # NONE}

\* Every variable has its type.
FlowTypeOK ==
  /\ flows \in [Flow -> FlowValue \cup {NONE}]
  /\ table \in [Key -> Flow \cup {NONE}]
  /\ cache \in Packet \cup {NONE}
  /\ burst \in Seq(Packet) /\ Len(burst) <= MaxBurst
  /\ walk \in {"conntrack", "nat"}
  /\ sweep \subseteq Flow
  /\ failures \in 0 .. MaxFailures
  /\ last \in [conn : L4Conn, tuple : Tuple] \cup {NONE}

\* No entry of the table, no cached pointer and no packet on its way through the nodes refers to a
\* flow that has been freed, whatever the rest of the burst does to the table.
FlowsNothingDangles ==
  /\ \A k \in Key : table[k] # NONE => table[k] \in Live
  /\ cache # NONE => cache.flow \in Live
  /\ \A n \in DOMAIN burst : burst[n].flow \in Live

\* dp_delete_flow(): a reference is counted for every entry of the table that points to a flow.
FlowsRefsCoverEntries == \A h \in Live : flows[h].ref >= Cardinality(EntriesOf({h}))

\* The shortcut for packets with the key of the previous packet gives what the table would give.
FlowsCacheIsFresh == cache # NONE => table[cache.key] = cache.flow

\* A packet that leaves or arrives for a connection carries the port the connection holds at that
\* moment: no reply is delivered to a former owner of the port, and none is sent from a port that
\* has been given back.  After a refused re-keying the flow goes on with a port it does not hold.
FlowsTranslatedAsHeld ==
  last # NONE /\ failures = 0 => nat[last.conn] # NONE /\ Held(last.conn) = last.tuple

\* The flow that holds a port has both its keys in the table and no other references, so that
\* ageing it, or withdrawing the NAT address, gives the port back.
FlowsHoldersAge ==
  failures = 0 =>
    \A c \in Conn : nat[c] # NONE =>
      \E h \in Live :
        /\ flows[h].snat /\ flows[h].org = Out(c) /\ flows[h].reply = Wire(Held(c)) /\ flows[h].ref <= 2
        /\ purge = NONE /\ sweep = {} => EntriesOf({h}) = {Out(c), Wire(Held(c))}

\* Conntrack uses the port tables the way NatPorts assumes: it allocates for a connection that has
\* no port, gives a port back once, and the configuration goes after the last port.
FlowsUseNatPorts == [][failures' > 0 \/ UNCHANGED vars \/ Next]_allVars
===============================================================================
