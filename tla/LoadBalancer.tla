---------------------------- MODULE LoadBalancer ----------------------------
(***************************************************************************)
(* Load balancers: dp_lb.c, lb_node.c and their handlers in                *)
(* dp_grpc_impl.c.                                                         *)
(*                                                                         *)
(* A load balancer is stored under its (VNI, address); a second table maps *)
(* the identifier the orchestrator chose to that key.  Its targets are     *)
(* kept as the sorted list and lookup table of Maglev.  A flow is balanced *)
(* once and then sticks to the target that conntrack remembers.            *)
(***************************************************************************)
EXTENDS Maglev, FiniteSets

CONSTANTS
  LbId, LbAddr, LbVni,  \* identifiers, addresses, VNIs
  LbUl,         \* underlay addresses (VNF) load balancers may get
  LbPorts,      \* port lists a CreateLoadBalancer request may carry
  MaxIps,       \* DP_LB_MAX_IPS_PER_VIP
  LbFlow,       \* flows: [vni, addr, port, hash]
  MaxLbFailures,\* bound: allocations and insertions that fail
  MaxGen,       \* bound: load balancers created
  ABSENT, FREED \* no entry; an entry whose value was freed

ASSUME LbAssumption ==
  /\ \A f \in LbFlow : f.vni \in LbVni /\ f.addr \in LbAddr /\ f.hash \in Nat
  /\ MaxGen \in Nat /\ MaxLbFailures \in Nat

VARIABLES
  lb_table,     \* (VNI, address) -> load balancer
  id_map_lb_tbl,\* identifier -> key of lb_table
  lb_vnf,       \* underlay address -> VNI, of the VNF entries of type LB
  lb_vnirefs,   \* VNI -> references load balancers hold on its route tables
  lb_flow,      \* flow -> where conntrack sends it
  lb_failures, lb_gen

lbVars == <<lb_table, id_map_lb_tbl, lb_vnf, lb_vnirefs, lb_flow, lb_failures, lb_gen>>

LbKey == LbVni \X LbAddr
Live(k) == lb_table[k] \notin {ABSENT, FREED}

(* dp_lb_is_back_ip_inserted() *)
IsTarget(k, b) == \E i \in DOMAIN lb_table[k].ips : lb_table[k].ips[i] = b

(* dp_is_ip_lb(): the classification of a flow's first packet.             *)
KeyOf(f) == <<f.vni, f.addr>>
is_ip_lb(f) == lb_table[KeyOf(f)] # ABSENT

(* dp_lb_init() *)
LbInit ==
  /\ lb_table = [k \in LbKey |-> ABSENT]
  /\ id_map_lb_tbl = [i \in LbId |-> ABSENT]
  /\ lb_vnf = [u \in LbUl |-> ABSENT]
  /\ lb_vnirefs = [v \in LbVni |-> 0]
  /\ lb_flow = [f \in LbFlow |-> ABSENT]
  /\ lb_failures = 0 /\ lb_gen = 0

Fails == lb_failures < MaxLbFailures /\ lb_failures' = lb_failures + 1
Works == lb_failures' = lb_failures

(* dp_create_lb() fills the entry; the targets and the table are zeroes.   *)
(* lb_gen tells load balancers apart that use the same key one after the   *)
(* other; the code has no such number.                                     *)
NewLb(i, u, ports) ==
  [lb_id |-> i, ul |-> u, ports |-> ports, ips |-> <<>>,
   maglev_hash |-> [s \in Slot |-> 0], gen |-> lb_gen]

(* dp_map_lb_handle() *)
map_lb_handle(i, k) == id_map_lb_tbl' = [id_map_lb_tbl EXCEPT ![i] = k]

(* dp_get_lb(): where the load balancer named i is, if it is anywhere.     *)
get_lb(i) ==
  IF id_map_lb_tbl[i] # ABSENT /\ Live(id_map_lb_tbl[i]) THEN id_map_lb_tbl[i] ELSE ABSENT

(* dp_delete_lb() *)
delete_lb(i) ==
  /\ lb_table' = [lb_table EXCEPT ![id_map_lb_tbl[i]] = ABSENT]
  /\ id_map_lb_tbl' = [id_map_lb_tbl EXCEPT ![i] = ABSENT]

(* dp_process_create_lb(): VNF entry, load balancer, identifier, VNI.  An  *)
(* identifier that is in use is overwritten in the second table.           *)
CreateLb(i, k, u, ports) ==
  /\ lb_gen < MaxGen /\ lb_gen' = lb_gen + 1
  /\ lb_vnf[u] = ABSENT /\ lb_table[k] = ABSENT
  /\ Works
  /\ lb_vnf' = [lb_vnf EXCEPT ![u] = k[1]]
  /\ lb_table' = [lb_table EXCEPT ![k] = NewLb(i, u, ports)]
  /\ map_lb_handle(i, k)
  /\ lb_vnirefs' = [lb_vnirefs EXCEPT ![k[1]] = @ + 1]
  /\ UNCHANGED lb_flow

(* The same request when the identifier cannot be stored: the VNF entry is *)
(* taken back and the value freed, but lb_table still refers to it.        *)
CreateLbMapFails(i, k, u) ==
  /\ lb_vnf[u] = ABSENT /\ lb_table[k] = ABSENT
  /\ Fails
  /\ lb_table' = [lb_table EXCEPT ![k] = FREED]
  /\ UNCHANGED <<id_map_lb_tbl, lb_vnf, lb_vnirefs, lb_flow, lb_gen>>

(* The same request when the VNI has no route tables and gets none: the    *)
(* load balancer is deleted by its identifier, and so is the identifier,   *)
(* whether or not it stood for another load balancer before.               *)
CreateLbVniFails(i, k, u) ==
  /\ lb_vnf[u] = ABSENT /\ lb_table[k] = ABSENT /\ lb_vnirefs[k[1]] = 0
  /\ Fails
  /\ id_map_lb_tbl' = [id_map_lb_tbl EXCEPT ![i] = ABSENT]
  /\ UNCHANGED <<lb_table, lb_vnf, lb_vnirefs, lb_flow, lb_gen>>

(* dp_process_delete_lb(); the flows it balanced stay.                     *)
DeleteLb(i) ==
  LET k == get_lb(i)
  IN  /\ k # ABSENT
      /\ lb_vnf' = [lb_vnf EXCEPT ![lb_table[k].ul] = ABSENT]
      /\ delete_lb(i)
      /\ lb_vnirefs' = [lb_vnirefs EXCEPT ![k[1]] = @ - 1]
      /\ UNCHANGED <<lb_flow, lb_failures, lb_gen>>

(* A load balancer with other targets, and the table computed for them or  *)
(* the one before.                                                         *)
WithTargets(lb, ips, hash) == [lb EXCEPT !.ips = ips, !.maglev_hash = hash]

(* dp_add_lb_back_ip(), dp_add_maglev_backend(): the address is inserted   *)
(* before the table is computed, which needs memory.                       *)
CreateLbTarget(i, b) ==
  LET k == get_lb(i)
      ips == InsertSorted(lb_table[k].ips, b)
  IN  /\ k # ABSENT
      /\ ~IsTarget(k, b) /\ Len(lb_table[k].ips) < MaxIps
      /\ \/ Works /\ lb_table' = [lb_table EXCEPT ![k] = WithTargets(@, ips, calc_hash_lookup_table(ips))]
         \/ Fails /\ lb_table' = [lb_table EXCEPT ![k] = WithTargets(@, ips, @.maglev_hash)]
      /\ UNCHANGED <<id_map_lb_tbl, lb_vnf, lb_vnirefs, lb_flow, lb_gen>>

(* dp_remove_lbtarget_flows(): by the target alone.                        *)
remove_lbtarget_flows(b) ==
  lb_flow' = [f \in LbFlow |->
    IF lb_flow[f] # ABSENT /\ lb_flow[f].target = b THEN ABSENT ELSE lb_flow[f]]

(* dp_del_lb_back_ip(): the table of the last target stays as it is.       *)
TableAfter(k, ips) ==
  IF ips = <<>> THEN lb_table[k].maglev_hash ELSE calc_hash_lookup_table(ips)

(* Mutant: the flows of the target stay. *)
DeleteLbTargetKeepsFlows(i, b) ==
  LET k == get_lb(i)
      ips == RemoveSorted(lb_table[k].ips, b)
  IN  /\ k # ABSENT /\ IsTarget(k, b)
      /\ lb_table' = [lb_table EXCEPT ![k] = WithTargets(@, ips, TableAfter(k, ips))]
      /\ UNCHANGED <<id_map_lb_tbl, lb_vnf, lb_vnirefs, lb_flow, lb_failures, lb_gen>>

(* dp_process_delete_lbtarget(): the flows stay when the new table finds   *)
(* no memory.                                                              *)
DeleteLbTarget(i, b) ==
  LET k == get_lb(i)
      ips == RemoveSorted(lb_table[k].ips, b)
  IN  /\ k # ABSENT /\ IsTarget(k, b)
      /\ \/ /\ Works
            /\ lb_table' = [lb_table EXCEPT ![k] = WithTargets(@, ips, TableAfter(k, ips))]
            /\ remove_lbtarget_flows(b)
         \/ /\ ips # <<>> /\ Fails
            /\ lb_table' = [lb_table EXCEPT ![k] = WithTargets(@, ips, @.maglev_hash)]
            /\ UNCHANGED lb_flow
      /\ UNCHANGED <<id_map_lb_tbl, lb_vnf, lb_vnirefs, lb_gen>>

(* dp_lb_port_match(): the list ends at the first port 0.                  *)
lb_port_match(ports, port) ==
  \E n \in DOMAIN ports : ports[n] = port /\ \A m \in 1 .. n : ports[m] # 0

(* dp_lb_get_backend_ip(): back_end_ips has MaxIps places; the ones after  *)
(* the last target hold the zero address.                                  *)
get_backend_ip(lb, f) ==
  LET pos == lb.maglev_hash[f.hash % LookupSize]
  IN  IF pos < Len(lb.ips) THEN lb.ips[pos + 1] ELSE 0

(* get_next_index() of lb_node.c for the first packet of a flow; echo      *)
(* requests to a balanced address, which are answered at once, leave no    *)
(* state behind.  Without a target or a port the packet is dropped.  What  *)
(* a freed entry contains is unknown.                                      *)
FlowStarts(f) ==
  LET k == KeyOf(f)
  IN  /\ lb_flow[f] = ABSENT /\ is_ip_lb(f)
      /\ \/ /\ Live(k)
            /\ lb_table[k].ips # <<>> /\ lb_port_match(lb_table[k].ports, f.port)
            /\ lb_flow' = [lb_flow EXCEPT ![f] =
                 [target |-> get_backend_ip(lb_table[k], f), gen |-> lb_table[k].gen]]
         \/ /\ lb_table[k] = FREED
            /\ \E b \in Backend \cup {0} :
                 lb_flow' = [lb_flow EXCEPT ![f] = [target |-> b, gen |-> MaxGen]]
      /\ UNCHANGED <<lb_table, id_map_lb_tbl, lb_vnf, lb_vnirefs, lb_failures, lb_gen>>

(* The flow ages out of the flow table.                                    *)
FlowEnds(f) ==
  /\ lb_flow[f] # ABSENT
  /\ lb_flow' = [lb_flow EXCEPT ![f] = ABSENT]
  /\ UNCHANGED <<lb_table, id_map_lb_tbl, lb_vnf, lb_vnirefs, lb_failures, lb_gen>>

LbNext ==
  \/ \E i \in LbId, k \in LbKey, u \in LbUl :
       \/ \E ports \in LbPorts : CreateLb(i, k, u, ports)
       \/ CreateLbMapFails(i, k, u)
       \/ CreateLbVniFails(i, k, u)
  \/ \E i \in LbId : DeleteLb(i)
  \/ \E i \in LbId, b \in Backend : CreateLbTarget(i, b) \/ DeleteLbTarget(i, b)
  \/ \E f \in LbFlow : FlowStarts(f) \/ FlowEnds(f)

LbSpec == LbInit /\ [][LbNext]_lbVars

-----------------------------------------------------------------------------
(* The type of the tables. *)
LbTypeOK ==
  /\ \A k \in LbKey : Live(k) =>
       /\ lb_table[k].lb_id \in LbId /\ lb_table[k].ul \in LbUl
       /\ Len(lb_table[k].ips) <= MaxIps
       /\ lb_table[k].maglev_hash \in [Slot -> 0 .. MaxIps - 1]
  /\ id_map_lb_tbl \in [LbId -> LbKey \cup {ABSENT}]
  /\ lb_vnf \in [LbUl -> LbVni \cup {ABSENT}]
  /\ lb_vnirefs \in [LbVni -> Nat]

(***************************************************************************)
(* Which target a flow gets depends on the set of targets only, not on the *)
(* order in which they were added and removed: hosts that balance the same *)
(* address agree.  A table that could not be computed breaks this.         *)
(***************************************************************************)
SameTargetsSameTable ==
  lb_failures = 0 =>
    \A k \in LbKey : Live(k) /\ lb_table[k].ips # <<>> =>
      LET S == {lb_table[k].ips[i] : i \in DOMAIN lb_table[k].ips}
          inOrder == CHOOSE s \in [1 .. Cardinality(S) -> S] :
                       \A m, n \in 1 .. Cardinality(S) : m < n => s[m] < s[n]
      IN  lb_table[k].maglev_hash = calc_hash_lookup_table(inOrder)

(***************************************************************************)
(* The rounds of dp_maglev_populate() end, because each turn claims a slot *)
(* until the table is full, and the shares of two targets differ by one    *)
(* slot at most.                                                           *)
(***************************************************************************)
SharesAreEven ==
  lb_failures = 0 =>
    \A k \in LbKey : Live(k) /\ lb_table[k].ips # <<>> =>
      LET Share(i) == Cardinality({s \in Slot : lb_table[k].maglev_hash[s] = i - 1})
      IN  /\ populate_rounds(lb_table[k].ips).num = LookupSize
          /\ \A i, j \in DOMAIN lb_table[k].ips : Share(i) <= Share(j) + 1

(***************************************************************************)
(* A flow of a load balancer is only ever sent to one of its targets, also *)
(* after targets were added and removed.  (A flow that outlives its load   *)
(* balancer keeps its target even when another one takes over the          *)
(* address.)                                                               *)
(***************************************************************************)
FlowsReachTargets ==
  lb_failures = 0 =>
    \A f \in LbFlow :
      lb_flow[f] # ABSENT /\ Live(KeyOf(f)) /\ lb_table[KeyOf(f)].gen = lb_flow[f].gen
        => IsTarget(KeyOf(f), lb_flow[f].target)

(***************************************************************************)
(* What a load balancer holds in other tables is there exactly as long as  *)
(* it is: its underlay address and its reference on the VNI, whichever     *)
(* step of a request failed; and an identifier leads to the load balancer  *)
(* that was created under it last, or nowhere.                             *)
(***************************************************************************)
LbAccounted ==
  /\ \A u \in LbUl : lb_vnf[u] # ABSENT <=>
       \E k \in LbKey : Live(k) /\ lb_table[k].ul = u /\ k[1] = lb_vnf[u]
  /\ \A v \in LbVni : lb_vnirefs[v] = Cardinality({k \in LbKey : Live(k) /\ k[1] = v})
  /\ \A i \in LbId : id_map_lb_tbl[i] # ABSENT =>
       /\ Live(id_map_lb_tbl[i])
       /\ lb_table[id_map_lb_tbl[i]].lb_id = i

=============================================================================
