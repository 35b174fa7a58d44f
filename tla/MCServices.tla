------------------------------ MODULE MCServices ------------------------------
(***************************************************************************)
(* The parts of dpservice that have something to finish: gRPC calls, the   *)
(* takeover between two processes, the flush of the Rx nodes, the link and *)
(* neighbour monitoring, what interfaces learn about their VM, the NAT     *)
(* connections a takeover hands on, and the rekeying of a tunnel.  They    *)
(* share no state.  A behaviour runs the                                   *)
(* specification that `component' names; the others stay in their initial  *)
(* state, in which none of their fair actions is enabled: where one would  *)
(* be, its fairness is stated for the behaviours of its component.         *)
(***************************************************************************)
EXTENDS GrpcCalls, HaSync, RxNode, Monitoring, LocalNet, NatHandover, IpsecRekey

VARIABLE component

(* Monitoring: no router yet, or one behind a host and the own address. *)

MCNeigh(isRouter, m) == [v6 |-> TRUE, noarp |-> FALSE, router |-> isRouter, mac |-> m]
MCSilent     == <<MCNeigh(TRUE, OwnMac)>>
MCNeighTable == {MCSilent, <<MCNeigh(FALSE, "h"), MCNeigh(TRUE, OwnMac), MCNeigh(TRUE, "r")>>}

(* LocalNet: dual-stack interfaces and ones of a single family. *)

MCLnConfig == [v4 : BOOLEAN, v6 : BOOLEAN] \ {[v4 |-> FALSE, v6 |-> FALSE]}

(* NatHandover: connections of both families that share one port of the    *)
(* NAT range, and an ICMPv6 message that NAT64 does not translate.          *)

MCHoPacket == {
  Pkt(Addr4("vm"), Addr4("r"), TCP, 1, 2, 0, 0, <<>>),
  Pkt(Addr6("vm"), Nat64("r"), TCP, 1, 3, 0, 0, <<>>),
  Pkt(Addr4("vm"), Addr4("r"), ICMP, 0, 0, ECHO_REQUEST, 1, <<>>),
  Pkt(Addr6("vm"), Nat64("r"), ICMPV6, 0, 0, ECHO_REQUEST6, 3, <<>>),
  Pkt(Addr6("vm"), Nat64("r"), ICMPV6, 0, 0, 133, 4, <<>>)}

(* IpsecRekey: three generations, so that the first wire SPI comes into use *)
(* a second time.                                                           *)

MCRekeyed   == [from |-> "A", vni |-> 1, to |-> "B"]
MCHostOf    == [i \in Iface |-> IF i = "a1" THEN "A" ELSE "B"]
MCVniOf     == [i \in Iface |-> 1]
MCKeyTunnel == [k \in KeyMaterial |-> MCRekeyed]
MCTunnelRoute == {<<"a1", "b1">>}

-------------------------------------------------------------------------------
\* Components with several initial states have one while another component runs.
MCInit ==
  /\ component \in {"grpc", "ha", "rx", "monitoring", "localnet", "handover", "rekey"}
  /\ GrpcInit /\ HaInit /\ RxInit /\ MonInit /\ LnInit /\ HoInit /\ RekeyInit
  /\ component # "monitoring" => link = [pf \in LinkPf |-> FALSE] /\ neigh_table = MCSilent
  /\ component # "localnet" => vm = [v \in LnVf |-> "m1"]

MCNext ==
  /\ UNCHANGED component
  /\ \/ component = "grpc" /\ GrpcNext
     \/ component # "grpc" /\ UNCHANGED grpc_vars
  /\ \/ component = "ha" /\ HaNext
     \/ component # "ha" /\ UNCHANGED haVars
  /\ \/ component = "rx" /\ RxNext
     \/ component # "rx" /\ UNCHANGED rx_vars
  /\ \/ component = "monitoring" /\ MonNext
     \/ component # "monitoring" /\ UNCHANGED mon_vars
  /\ \/ component = "localnet" /\ LnNext
     \/ component # "localnet" /\ UNCHANGED ln_vars
  /\ \/ component = "handover" /\ HoNext
     \/ component # "handover" /\ UNCHANGED hoVars
  /\ \/ component = "rekey" /\ RekeyNext
     \/ component # "rekey" /\ UNCHANGED rekeyVars

\* The fairness of RekeySpec and LnSpec, for the behaviours that run them.
Rekeying(A) == component = "rekey" /\ A
Learning(A) == component = "localnet" /\ A

MCSpec ==
  /\ MCInit
  /\ [][MCNext]_<<component, grpc_vars, haVars, rx_vars, mon_vars, ln_vars, hoVars, rekeyVars>>
  /\ GrpcFairness /\ HaFairness /\ RxFairness /\ MonFairness
  /\ WF_ln_vars(Learning(MaintenanceTimer)) /\ WF_ln_vars(Learning(rx_periodic_node_process))
  /\ \A v \in LnVf : WF_ln_vars(Learning(VmAnswers(v))) /\ WF_ln_vars(Learning(WorkerHandles(v)))
  /\ WF_rekeyVars(Rekeying(InstallNew)) /\ WF_rekeyVars(Rekeying(ReplaceOld))
  /\ WF_rekeyVars(Rekeying(DeleteOld))

(* Every variable of every component has its type.                          *)
ServicesTypeOK ==
  GrpcTypeOK /\ HaTypeOK /\ RxTypeOK /\ MonTypeOK /\ LnTypeOK /\ HoTypeOK /\ TypeOK

(* RekeyCompletes of IpsecRekey, for the behaviours that rekey: every key   *)
(* that was provided is reached, although each step is refused unless the   *)
(* one before it took effect (dp_ipsec_create_sa(), dp_ipsec_update_sa()).  *)
RekeyReachesEnd == component = "rekey" => RekeyCompletes
===============================================================================
