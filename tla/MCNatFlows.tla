------------------------------ MODULE MCNatFlows ------------------------------
(***************************************************************************)
(* The ports of a network NAT, as two specifications of which a behaviour  *)
(* runs one.  "ports" is NatPorts: two interfaces may share a NAT address, *)
(* with ranges that overlap.  "flows" is NatFlows: source ports of one     *)
(* interface compete for the one port of its range.                        *)
(***************************************************************************)
EXTENDS NatPorts, TLC

CONSTANTS Flow, MaxBurst, MaxFailures   \* of NatFlows

VARIABLES
  instance,
  f_portmap, f_overload, f_snat, f_nat, f_used, f_purge, f_result,
  flows, table, cache, burst, walk, sweep, failures, last

f_vars == <<f_portmap, f_overload, f_snat, f_nat, f_used, f_purge, f_result,
            flows, table, cache, burst, walk, sweep, failures, last>>

MCRanges == {<<1, 2>>, <<1, 3>>, <<2, 4>>}

\* Source ports of an interface collide; interfaces start at different ports.
MCHash == [k \in PortmapKey |-> IF k.iface = "i1" THEN 0 ELSE 1]

\* The addresses of flow_values are interchangeable.
MCSymmetry == Permutations(Flow)

Fl == INSTANCE NatFlows WITH
  portmap <- f_portmap, overload <- f_overload, snat <- f_snat, nat <- f_nat, used <- f_used,
  purge <- f_purge, result <- f_result

MCInit ==
  /\ instance \in {"ports", "flows"}
  /\ Init /\ Fl!FlowInit

\* What the two are configured with.
PortsOnly ==
  /\ \A i \in Iface : snat'[i] # NONE => snat'[i].range # <<1, 2>>
  /\ \A c \in Conn : nat'[c] # NONE => c.dst # "Y"
FlowsOnly ==
  /\ \A i \in Iface : f_snat'[i] # NONE => i = "i1" /\ f_snat'[i].range = <<1, 2>>
  /\ \A k \in Fl!Key : table'[k] # NONE /\ k.kind \in {"wire", "back"} => k.tuple.nat_port = 1

MCNext ==
  /\ UNCHANGED instance
  /\ \/ instance = "ports" /\ Next /\ PortsOnly /\ UNCHANGED f_vars
     \/ instance = "flows" /\ Fl!FlowNext /\ FlowsOnly /\ UNCHANGED vars

MCSpec == MCInit /\ [][MCNext]_<<instance, vars, f_vars>>

(* Every variable of NatFlows has its type.                                 *)
FlowsTypeOK == Fl!FlowTypeOK

(* No entry of the table, no cached pointer and no packet on its way        *)
(* through the nodes refers to a flow that has been freed, whatever the     *)
(* rest of the burst does to the table (dp_flow.c, dp_cntrack.c).           *)
FlowsNothingDangles == Fl!FlowsNothingDangles

(* A reference is counted for every entry of the table that points to a     *)
(* flow (dp_delete_flow()).                                                 *)
FlowsRefsCoverEntries == Fl!FlowsRefsCoverEntries

(* The shortcut for packets with the key of the previous packet gives what  *)
(* the table would give (dp_cntrack.c).                                     *)
FlowsCacheIsFresh == Fl!FlowsCacheIsFresh

(* A packet that leaves or arrives for a connection carries the port the    *)
(* connection holds at that moment (snat_node.c, dnat_node.c).              *)
FlowsTranslatedAsHeld == Fl!FlowsTranslatedAsHeld

(* The flow that holds a port has both its keys in the table and no other   *)
(* references, so that ageing it, or withdrawing the NAT address, gives the *)
(* port back (dp_flow.c).                                                   *)
FlowsHoldersAge == Fl!FlowsHoldersAge

(* Conntrack uses the port tables the way NatPorts assumes: it allocates    *)
(* for a connection that has no port, gives a port back once, and the       *)
(* configuration goes after the last port.                                  *)
FlowsUseNatPorts == Fl!FlowsUseNatPorts
===============================================================================
