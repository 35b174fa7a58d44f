------------------------------- MODULE LocalNet -------------------------------
(***************************************************************************)
(* How dpservice learns the MAC address of the virtual machine on a VF.    *)
(* The maintenance timer (dp_timers.c) has the main core put announcements *)
(* for every VF into periodic_msg_queue (dp_periodic_msg.c), the worker    *)
(* sends them out and handles what the machine sends: ARP, neighbour       *)
(* discovery and DHCP (nodes/arp_node.c, ipv6_nd_node.c, dhcp_node.c).     *)
(* What DHCP answers is in DhcpNodes.                                      *)
(***************************************************************************)
EXTENDS Integers, Sequences, FiniteSets, SequencesExt

CONSTANTS LnVf,           \* the VFs, numbered as the port table numbers them
          LnMac,          \* MAC addresses of virtual machines
          GUESS,          \* the port's own MAC address, the first guess for the machine's
          LnConfig,       \* interface configurations: which address families are set
          StartupCycles,  \* TIMER_DP_MAINTENANCE_STARTUP_CYCLES
          MaxLnFailures,  \* bound on failed buffer allocations
          MaxVms          \* bound on created interfaces

ASSUME LnAssumption ==
  /\ LnVf = 1..Cardinality(LnVf)
  /\ LnConfig \subseteq [v4 : BOOLEAN, v6 : BOOLEAN]
  /\ StartupCycles \in Nat \ {0} /\ MaxLnFailures \in Nat /\ MaxVms \in Nat

VARIABLES ln_iface,      \* dp_port.iface: [ready, arp_done, cfg]
          vf_mac,     \* dp_port.neigh_mac
          vm,         \* the MAC address of the machine on the VF
          asked,      \* the VFs whose machine has an ARP request to answer
          frame,      \* the frame waiting in the Rx queue of the VF
          periodic_msg_queue,
          maint,      \* [signalled, counter, slow] of the maintenance timer
          ln_left     \* what remains of the bounds

ln_vars == <<ln_iface, vf_mac, vm, asked, frame, periodic_msg_queue, maint, ln_left>>

NoConfig == [v4 |-> FALSE, v6 |-> FALSE]
NoIface  == [ready |-> FALSE, arp_done |-> FALSE, cfg |-> NoConfig]
NoFrame  == "none"
QueueMax == 3 * Cardinality(LnVf)      \* DP_PERIODIC_Q_SIZE

LnInit ==
  /\ ln_iface = [v \in LnVf |-> NoIface]
  /\ vf_mac = [v \in LnVf |-> GUESS]
  /\ vm \in [LnVf -> LnMac]
  /\ asked = {}
  /\ frame = [v \in LnVf |-> NoFrame]
  /\ periodic_msg_queue = <<>>
  /\ maint = [signalled |-> FALSE, counter |-> 0, slow |-> FALSE]
  /\ ln_left = [failures |-> MaxLnFailures, vms |-> MaxVms]

-------------------------------------------------------------------------------
(* Interfaces come and go, and with them the machine on the VF. *)

LnCreateIface(v) ==
  /\ ~ln_iface[v].ready /\ ln_left.vms > 0
  /\ ln_left' = [ln_left EXCEPT !.vms = @ - 1]
  /\ \E c \in LnConfig : ln_iface' = [ln_iface EXCEPT ![v] = [NoIface EXCEPT !.ready = TRUE, !.cfg = c]]
  /\ UNCHANGED <<vf_mac, vm, asked, frame, periodic_msg_queue, maint>>

\* The port is stopped, which empties its queues; the MAC address stays as it was.
LnDeleteIface(v) ==
  /\ ln_iface[v].ready
  /\ ln_iface' = [ln_iface EXCEPT ![v] = NoIface]
  /\ frame' = [frame EXCEPT ![v] = NoFrame]
  /\ asked' = asked \ {v}
  /\ \E m \in LnMac : vm' = [vm EXCEPT ![v] = m]
  /\ UNCHANGED <<vf_mac, periodic_msg_queue, maint, ln_left>>

-------------------------------------------------------------------------------
(* The maintenance timer. *)

dp_arp_cycle_needed(v) == ln_iface[v].ready /\ ~ln_iface[v].arp_done

dp_is_ip_set(v, type) == IF type = "arp" THEN ln_iface[v].cfg.v4 ELSE ln_iface[v].cfg.v6

(* Mutant: the ARP copies announce and do not ask. *)
send_to_all_vfsSilent(type, stop) ==
  LET served == SelectSeq([v \in LnVf |-> v], LAMBDA v : ln_iface[v].ready /\ dp_is_ip_set(v, type) /\ v < stop)
  IN [i \in DOMAIN served |-> [vf |-> served[i], ask |-> FALSE]]

(* send_to_all_vfs(): a copy for every VF that is up and has an address of  *)
(* the family.  The ARP copy asks for the address of a machine that has     *)
(* not answered yet.  Without a buffer the VFs from "stop" on go without.   *)
send_to_all_vfs(type, stop) ==
  LET served == SelectSeq([v \in LnVf |-> v], LAMBDA v : ln_iface[v].ready /\ dp_is_ip_set(v, type) /\ v < stop)
  IN [i \in DOMAIN served |-> [vf |-> served[i], ask |-> type = "arp" /\ dp_arp_cycle_needed(served[i])]]

(* dp_maintenance_timer_cb_core(): router advertisements, unsolicited       *)
(* neighbour advertisements, gratuitous ARP.  What finds the ring full is   *)
(* dropped.                                                                 *)
dp_maintenance_timer_cb_core(stop) ==
  LET sent == periodic_msg_queue \o send_to_all_vfs("ipv6", stop) \o send_to_all_vfs("ipv6", stop)
                                 \o send_to_all_vfs("arp", stop)
  IN periodic_msg_queue' = SubSeq(sent, 1, IF Len(sent) < QueueMax THEN Len(sent) ELSE QueueMax)

BackOff(m) ==
  IF m.slow \/ ~m.signalled \/ m.counter > StartupCycles
  THEN m
  ELSE [m EXCEPT !.counter = @ + 1, !.slow = m.counter + 1 = StartupCycles]

\* dp_maintenance_startup_timer_cb(), and dp_maintenance_timer_cb() once the timer is slow.
MaintenanceTimer ==
  /\ \/ dp_maintenance_timer_cb_core(Cardinality(LnVf) + 1) /\ UNCHANGED ln_left
     \/ /\ ln_left.failures > 0
        /\ ln_left' = [ln_left EXCEPT !.failures = @ - 1]
        /\ \E stop \in LnVf : dp_maintenance_timer_cb_core(stop)
  /\ maint' = BackOff(maint)
  /\ UNCHANGED <<ln_iface, vf_mac, vm, asked, frame>>

\* gRPC Initialize
dp_timers_signal_initialization ==
  /\ maint' = [maint EXCEPT !.signalled = TRUE]
  /\ UNCHANGED <<ln_iface, vf_mac, vm, asked, frame, periodic_msg_queue, ln_left>>

\* The worker sends the queue out; a stopped port sends nothing.
rx_periodic_node_process ==
  /\ periodic_msg_queue # <<>>
  /\ periodic_msg_queue' = <<>>
  /\ asked' = asked \cup {m.vf : m \in {m \in ToSet(periodic_msg_queue) : m.ask /\ ln_iface[m.vf].ready}}
  /\ UNCHANGED <<ln_iface, vf_mac, vm, frame, maint, ln_left>>

-------------------------------------------------------------------------------
(* The machine. *)

(* What a machine sends by itself: ARP and neighbour solicitations for the  *)
(* gateway, and the DHCPREQUEST, which dhcp_node drops without an address.  *)
Sendable(v) ==
  (IF ln_iface[v].cfg.v4 THEN {"arp request", "dhcp request"} ELSE {})
    \cup (IF ln_iface[v].cfg.v6 THEN {"nd solicitation"} ELSE {})

VmAnswers(v) ==
  /\ v \in asked /\ frame[v] = NoFrame
  /\ frame' = [frame EXCEPT ![v] = "arp reply"]
  /\ asked' = asked \ {v}
  /\ UNCHANGED <<ln_iface, vf_mac, vm, periodic_msg_queue, maint, ln_left>>

VmSends(v) ==
  /\ ln_iface[v].ready /\ v \notin asked /\ frame[v] = NoFrame
  /\ \E f \in Sendable(v) : frame' = [frame EXCEPT ![v] = f]
  /\ UNCHANGED <<ln_iface, vf_mac, vm, asked, periodic_msg_queue, maint, ln_left>>

-------------------------------------------------------------------------------
(* The nodes that handle it. *)

dp_l2_addr_set(v) == vf_mac' = [vf_mac EXCEPT ![v] = vm[v]]

(* arp_handled(): the first ARP frame that shows the interface's own        *)
(* address tells the MAC address; a later request is only answered.         *)
arp_handled(v) ==
  /\ frame[v] \in {"arp request", "arp reply"}
  /\ IF dp_arp_cycle_needed(v)
     THEN dp_l2_addr_set(v) /\ ln_iface' = [ln_iface EXCEPT ![v].arp_done = TRUE]
     ELSE UNCHANGED <<vf_mac, ln_iface>>

\* ipv6_nd_node and dhcp_node: a solicitation for the gateway and a DHCPREQUEST tell it every time.
AnsweredAndLearned(v) ==
  /\ frame[v] \in {"nd solicitation", "dhcp request"}
  /\ dp_l2_addr_set(v)
  /\ UNCHANGED ln_iface

WorkerHandles(v) ==
  /\ arp_handled(v) \/ AnsweredAndLearned(v)
  /\ frame' = [frame EXCEPT ![v] = NoFrame]
  /\ UNCHANGED <<vm, asked, periodic_msg_queue, maint, ln_left>>

LnNext ==
  \/ MaintenanceTimer \/ dp_timers_signal_initialization \/ rx_periodic_node_process
  \/ \E v \in LnVf : LnCreateIface(v) \/ LnDeleteIface(v) \/ VmAnswers(v) \/ VmSends(v) \/ WorkerHandles(v)

(* The timer keeps firing, the worker keeps walking the graph, and a        *)
(* machine answers ARP requests for its own address.                        *)
LnFairness ==
  /\ WF_ln_vars(MaintenanceTimer) /\ WF_ln_vars(rx_periodic_node_process)
  /\ \A v \in LnVf : WF_ln_vars(VmAnswers(v)) /\ WF_ln_vars(WorkerHandles(v))

LnSpec == LnInit /\ [][LnNext]_ln_vars /\ LnFairness

-------------------------------------------------------------------------------
(* The types of the interfaces and their neighbours; the periodic queue and *)
(* the count of start-up rounds stay within their limits (dp_timers.c).     *)
LnTypeOK ==
  /\ ln_iface \in [LnVf -> [ready : BOOLEAN, arp_done : BOOLEAN, cfg : LnConfig \cup {NoConfig}]]
  /\ vf_mac \in [LnVf -> LnMac \cup {GUESS}] /\ vm \in [LnVf -> LnMac] /\ asked \subseteq LnVf
  /\ Len(periodic_msg_queue) <= QueueMax
  /\ maint.counter \in 0..(StartupCycles + 1)

(* An interface that has done its ARP cycle sends to the machine that is on *)
(* the VF now: nothing learned from an earlier machine counts, although     *)
(* dp_delete_iface() leaves neigh_mac behind.                               *)
LearnedIsPresent == \A v \in LnVf : ln_iface[v].arp_done => vf_mac[v] = vm[v]

(* The machine on a VF with an IPv4 address becomes known: the announcement *)
(* of every maintenance round repeats the question until it is answered.    *)
VmIsLearned ==
  \A v \in LnVf : (ln_iface[v].ready /\ ln_iface[v].cfg.v4) ~> (~ln_iface[v].ready \/ vf_mac[v] = vm[v])

(* After Initialize the maintenance timer changes to its long interval.     *)
MaintenanceSlows == maint.signalled ~> maint.slow
===============================================================================
