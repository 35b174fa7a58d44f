------------------------------ MODULE Monitoring ------------------------------
(***************************************************************************)
(* The events that reach the worker from the other threads: the link       *)
(* status of the physical ports, the MAC address of the router behind      *)
(* them, and the flow-aging tick (dp_event.c, dp_monitoring.c, dp_port.c,  *)
(* dp_netlink.c), and the choice of the egress port that depends on them   *)
(* (dp_multi_path.c).                                                      *)
(*                                                                         *)
(* Two threads put messages into monitoring_rx_queue: the interrupt thread *)
(* of the drivers runs the link status callback, the main core runs the    *)
(* timers.  The ring is created for a single producer.  An enqueue is two  *)
(* steps, taking a slot and publishing it.  Two enqueues that overlap may  *)
(* take the same slot, show a slot that is not written yet, or move the    *)
(* tail back: what the ring holds then is undefined, and a behaviour of    *)
(* the model ends there.                                                   *)
(***************************************************************************)
EXTENDS Integers, Sequences, FiniteSets, SequencesExt

CONSTANTS LinkPf,        \* the physical ports
          Pf0,           \* dp_get_pf0(), the owner port of dp_multi_path.c
          NeighTable,    \* the neighbour tables the kernel may answer with
          OwnMac,        \* the MAC address of the ports themselves
          NOMAC,         \* no address acquired
          WcmpShare,     \* entries of pf0_egress_select_table that name the owner port; -1 when WCMP is off
          MonSize,       \* capacity of the ring
          MaxFlaps,      \* bound on link changes
          MaxMonFailures \* bound on failed mbuf allocations

ASSUME MonAssumption ==
  /\ Pf0 \in LinkPf /\ Cardinality(LinkPf) = 2
  /\ MonSize \in Nat \ {0} /\ MaxFlaps \in Nat /\ MaxMonFailures \in Nat
  /\ WcmpShare \in -1..10

VARIABLES link,          \* what the wire does: TRUE while the link is up
          raised,        \* the ports with an interrupt that is not served yet
          irq, main,     \* what the two threads are doing
          link_status,   \* the worker's view (dp_port.link_status)
          pf_neigh_mac,  \* dp_port.neigh_mac
          neigh_timer,   \* the ports whose neighmac_timer is pending
          neigh_table,   \* the neighbour table of the kernel
          monitoring_rx_queue,
          claim,         \* the message for which a thread has taken a slot it has not published
          mon_lost,      \* the newest event of this kind and port was lost
          collided,      \* two enqueues have overlapped
          mon_started, mon_worker, mon_left

mon_vars == <<link, raised, irq, main, link_status, pf_neigh_mac, neigh_timer, neigh_table,
              monitoring_rx_queue, claim, mon_lost, collided, mon_started, mon_worker, mon_left>>

Thread  == {"irq", "main"}
MonIdle == [at |-> "idle", pf |-> Pf0]
NoSlot  == [kind |-> "none", pf |-> Pf0, value |-> "none"]

MonInit ==
  /\ link \in [LinkPf -> BOOLEAN]
  /\ raised = {}
  /\ irq = MonIdle /\ main = MonIdle
  /\ link_status = [pf \in LinkPf |-> FALSE]
  /\ pf_neigh_mac = [pf \in LinkPf |-> NOMAC]
  /\ neigh_timer = {}
  /\ neigh_table \in NeighTable
  /\ monitoring_rx_queue = <<>>
  /\ claim = [t \in Thread |-> NoSlot]
  /\ mon_lost = {}
  /\ collided = FALSE
  /\ mon_started = {}
  /\ mon_worker = FALSE
  /\ mon_left = [flaps |-> MaxFlaps, failures |-> MaxMonFailures]

-------------------------------------------------------------------------------
(* The messages. *)

LinkMsg(pf, up)  == [kind |-> "link", pf |-> pf, value |-> IF up THEN "up" ELSE "down"]
MacMsg(pf, mac)  == [kind |-> "neighmac", pf |-> pf, value |-> mac]
AgingMsg         == [kind |-> "aging", pf |-> Pf0, value |-> "none"]
KindOf(msg)      == <<msg.kind, msg.pf>>

\* A lost aging tick is made good by the next one.
EventLost(msg) == mon_lost' = mon_lost \cup ({KindOf(msg)} \ {KindOf(AgingMsg)})

(* dp_send_event_msg() up to the slot it takes.  A message that has no      *)
(* buffer or no room is dropped.                                            *)
dp_send_event_msg(t, msg) ==
  \/ /\ mon_left.failures > 0
     /\ mon_left' = [mon_left EXCEPT !.failures = @ - 1]
     /\ EventLost(msg)
     /\ UNCHANGED <<claim, collided>>
  \/ /\ Len(monitoring_rx_queue) = MonSize
     /\ EventLost(msg)
     /\ UNCHANGED <<claim, collided, mon_left>>
  \/ /\ Len(monitoring_rx_queue) < MonSize
     /\ claim' = [claim EXCEPT ![t] = msg]
     /\ collided' = \E u \in Thread \ {t} : claim[u] # NoSlot
     /\ UNCHANGED <<mon_lost, mon_left>>

NothingSent == UNCHANGED <<claim, collided, mon_lost, mon_left>>

\* The second half of the enqueue.
Publish(t) ==
  /\ claim[t] # NoSlot
  /\ monitoring_rx_queue' = Append(monitoring_rx_queue, claim[t])
  /\ claim' = [claim EXCEPT ![t] = NoSlot]
  /\ mon_lost' = mon_lost \ {KindOf(claim[t])}
  /\ UNCHANGED <<link, raised, irq, main, link_status, pf_neigh_mac, neigh_timer, neigh_table, collided,
                 mon_started, mon_worker, mon_left>>

-------------------------------------------------------------------------------
(* The router behind a port. *)

(* dp_nl_read_neigh(): the first router entry of the IPv6 neighbour table   *)
(* whose address is not the port's own.                                     *)
dp_nl_read_neigh(table) ==
  LET usable == {i \in DOMAIN table :
                   table[i].v6 /\ ~table[i].noarp /\ table[i].router /\ table[i].mac # OwnMac}
  IN IF usable = {} THEN NOMAC ELSE table[Min(usable)].mac

(* dp_acquire_neigh_mac(), called by thread t: without a router the timer   *)
(* is set, else the address is sent to the worker and not asked for again.  *)
(* The timer cannot be set by the interrupt thread while its callback runs. *)
dp_acquire_neigh_mac(t, pf) ==
  LET mac == dp_nl_read_neigh(neigh_table) IN
  \/ /\ mac = NOMAC
     /\ neigh_timer' = IF t = "irq" /\ main = [at |-> "timer", pf |-> pf] THEN neigh_timer ELSE neigh_timer \cup {pf}
     /\ NothingSent
  \/ /\ mac # NOMAC
     /\ dp_send_event_msg(t, MacMsg(pf, mac))
     /\ UNCHANGED neigh_timer

-------------------------------------------------------------------------------
(* The wire and the kernel. *)

LinkFlips(pf) ==
  /\ mon_left.flaps > 0
  /\ mon_left' = [mon_left EXCEPT !.flaps = @ - 1]
  /\ link' = [link EXCEPT ![pf] = ~@]
  /\ raised' = raised \cup {pf}
  /\ UNCHANGED <<irq, main, link_status, pf_neigh_mac, neigh_timer, neigh_table, monitoring_rx_queue, claim,
                 mon_lost, collided, mon_started, mon_worker>>

RouterAppears ==
  /\ dp_nl_read_neigh(neigh_table) = NOMAC
  /\ neigh_table' \in {n \in NeighTable : dp_nl_read_neigh(n) # NOMAC}
  /\ UNCHANGED <<link, raised, irq, main, link_status, pf_neigh_mac, neigh_timer, monitoring_rx_queue, claim,
                 mon_lost, collided, mon_started, mon_worker, mon_left>>

-------------------------------------------------------------------------------
(* The interrupt thread: dp_link_status_change_event_callback(). *)

CallbackReadsLink(pf) ==
  /\ irq.at = "idle" /\ claim["irq"] = NoSlot
  /\ pf \in raised
  /\ raised' = raised \ {pf}
  /\ irq' = [at |-> IF link[pf] THEN "up" ELSE "down", pf |-> pf]
  /\ UNCHANGED <<link, main, link_status, pf_neigh_mac, neigh_timer, neigh_table, monitoring_rx_queue, claim,
                 mon_lost, collided, mon_started, mon_worker, mon_left>>

\* Up: dp_start_acquiring_neigh_mac(); down: rte_timer_stop_sync() waits for the running callback.
CallbackSetsTimer ==
  /\ irq.at \in {"up", "down"}
  /\ \/ irq.at = "up" /\ dp_acquire_neigh_mac("irq", irq.pf)
     \/ /\ irq.at = "down"
        /\ main # [at |-> "timer", pf |-> irq.pf]
        /\ neigh_timer' = neigh_timer \ {irq.pf}
        /\ NothingSent
  /\ irq' = [irq EXCEPT !.at = IF irq.at = "up" THEN "send up" ELSE "send down"]
  /\ UNCHANGED <<link, raised, main, link_status, pf_neigh_mac, neigh_table, monitoring_rx_queue, mon_started, mon_worker>>

CallbackSendsLink ==
  /\ irq.at \in {"send up", "send down"} /\ claim["irq"] = NoSlot
  /\ dp_send_event_msg("irq", LinkMsg(irq.pf, irq.at = "send up"))
  /\ irq' = MonIdle
  /\ UNCHANGED <<link, raised, main, link_status, pf_neigh_mac, neigh_timer, neigh_table, monitoring_rx_queue,
                 mon_started, mon_worker>>

-------------------------------------------------------------------------------
(* The main core: dp_start_pf_port(), then the timers. *)

dp_start_pf_port(pf) ==
  /\ main = MonIdle /\ claim["main"] = NoSlot
  /\ pf \notin mon_started /\ ~mon_worker
  /\ mon_started' = mon_started \cup {pf}
  /\ link_status' = [link_status EXCEPT ![pf] = link[pf]]
  /\ main' = IF link[pf] THEN [at |-> "start", pf |-> pf] ELSE MonIdle
  /\ UNCHANGED <<link, raised, irq, pf_neigh_mac, neigh_timer, neigh_table, monitoring_rx_queue, claim,
                 mon_lost, collided, mon_worker, mon_left>>

WorkerStarts ==
  /\ mon_started = LinkPf /\ main = MonIdle /\ claim["main"] = NoSlot
  /\ ~mon_worker /\ mon_worker' = TRUE
  /\ UNCHANGED <<link, raised, irq, main, link_status, pf_neigh_mac, neigh_timer, neigh_table, monitoring_rx_queue, claim, mon_lost, collided, mon_started, mon_left>>

\* dp_neighmac_timer_cb() is called: the timer, set for one shot, is no longer pending.
TimerFires(pf) ==
  /\ mon_worker /\ main = MonIdle /\ claim["main"] = NoSlot
  /\ pf \in neigh_timer
  /\ neigh_timer' = neigh_timer \ {pf}
  /\ main' = [at |-> "timer", pf |-> pf]
  /\ UNCHANGED <<link, raised, irq, link_status, pf_neigh_mac, neigh_table, monitoring_rx_queue, claim,
                 mon_lost, collided, mon_started, mon_worker, mon_left>>

MainAcquires ==
  /\ main.at \in {"start", "timer"}
  /\ dp_acquire_neigh_mac("main", main.pf)
  /\ main' = MonIdle
  /\ UNCHANGED <<link, raised, irq, link_status, pf_neigh_mac, neigh_table, monitoring_rx_queue, mon_started, mon_worker>>

dp_flow_aging_timer_cb ==
  /\ mon_worker /\ main = MonIdle /\ claim["main"] = NoSlot
  /\ dp_send_event_msg("main", AgingMsg)
  /\ UNCHANGED <<link, raised, irq, main, link_status, pf_neigh_mac, neigh_timer, neigh_table, monitoring_rx_queue,
                 mon_started, mon_worker>>

-------------------------------------------------------------------------------
(* The worker: handle_nongraph_queues() takes what is published and applies *)
(* it in order (dp_process_event_msg()).                                    *)

Sent(kind, pf)   == {i \in DOMAIN monitoring_rx_queue : KindOf(monitoring_rx_queue[i]) = <<kind, pf>>}
Newest(kind, pf) == monitoring_rx_queue[Max(Sent(kind, pf))].value

\* Mutant: the messages are taken in bulk, more than the ring ever holds.
handle_nongraph_queuesBulk ==
  /\ mon_worker
  /\ Len(monitoring_rx_queue) > MonSize + Cardinality(Thread)
  /\ monitoring_rx_queue' = <<>>
  /\ UNCHANGED <<link, raised, irq, main, link_status, pf_neigh_mac, neigh_timer, neigh_table, claim,
                 mon_lost, collided, mon_started, mon_worker, mon_left>>

handle_nongraph_queues ==
  /\ mon_worker
  /\ monitoring_rx_queue # <<>>
  /\ pf_neigh_mac' = [pf \in LinkPf |-> IF Sent("neighmac", pf) = {} THEN pf_neigh_mac[pf] ELSE Newest("neighmac", pf)]
  /\ link_status' = [pf \in LinkPf |-> IF Sent("link", pf) = {} THEN link_status[pf] ELSE Newest("link", pf) = "up"]
  /\ monitoring_rx_queue' = <<>>
  /\ UNCHANGED <<link, raised, irq, main, neigh_timer, neigh_table, claim, mon_lost, collided, mon_started,
                 mon_worker, mon_left>>

(* dp_multipath_get_pf(): the port a packet with this hash leaves through. *)
dp_multipath_get_pf(hash) ==
  LET peer == CHOOSE pf \in LinkPf : pf # Pf0
      toPeer == hash % 10 >= WcmpShare
  IN IF WcmpShare = -1
     THEN IF link_status[Pf0] THEN Pf0 ELSE peer
     ELSE IF (toPeer /\ link_status[peer]) \/ (~toPeer /\ ~link_status[Pf0]) THEN peer ELSE Pf0

MonNext ==
  /\ ~collided
  /\ \/ \E pf \in LinkPf : \/ LinkFlips(pf) \/ CallbackReadsLink(pf) \/ dp_start_pf_port(pf) \/ TimerFires(pf)
     \/ RouterAppears \/ CallbackSetsTimer \/ CallbackSendsLink
     \/ WorkerStarts \/ MainAcquires \/ dp_flow_aging_timer_cb \/ handle_nongraph_queues
     \/ \E t \in Thread : Publish(t)

\* Two producers in one slot of the ring: the behaviour is not followed further.
Goes(A) == ~collided /\ A

(* Both threads and the worker keep running, interrupts are delivered and   *)
(* pending timers fire; rte_timer_stop_sync() gets its turn in the second   *)
(* and more between two calls of a timer.  Links and routers may stay as    *)
(* they are, and nothing says that the service is started.                  *)
MonFairness ==
  /\ \A pf \in LinkPf : WF_mon_vars(Goes(CallbackReadsLink(pf))) /\ SF_mon_vars(Goes(TimerFires(pf)))
  /\ SF_mon_vars(Goes(CallbackSetsTimer)) /\ WF_mon_vars(Goes(CallbackSendsLink))
  /\ WF_mon_vars(Goes(MainAcquires)) /\ WF_mon_vars(Goes(handle_nongraph_queues))
  /\ \A t \in Thread : WF_mon_vars(Goes(Publish(t)))

MonSpec == MonInit /\ [][MonNext]_mon_vars /\ MonFairness

-------------------------------------------------------------------------------
(* The types of the links, timers and the ring, which holds no more than    *)
(* its size and one message per producer (dp_event.c, dp_send_event_msg).   *)
MonTypeOK ==
  /\ link \in [LinkPf -> BOOLEAN] /\ link_status \in [LinkPf -> BOOLEAN]
  /\ raised \subseteq LinkPf /\ neigh_timer \subseteq LinkPf /\ mon_started \subseteq LinkPf
  /\ {collided, mon_worker} \subseteq BOOLEAN
  /\ Len(monitoring_rx_queue) <= MonSize + Cardinality(Thread)

\* An event of the link of pf is on its way to the worker.
LinkEventDue(pf) ==
  \/ pf \in raised
  \/ irq.at # "idle" /\ irq.pf = pf
  \/ claim["irq"] = LinkMsg(pf, link[pf])
  \/ Sent("link", pf) # {} /\ (Newest("link", pf) = "up") = link[pf]

(* The worker's view of a link is stale only while the event that corrects  *)
(* it is on its way, unless the event had no buffer or no room in the ring  *)
(* or the two producers got in each other's way (dp_event.c).               *)
LinkViewIsCurrent ==
  \A pf \in mon_started :
    link_status[pf] # link[pf] => LinkEventDue(pf) \/ <<"link", pf>> \in mon_lost \/ collided

(* Packets leave through a port that is up while one is: the egress choice  *)
(* of dp_multi_path.c follows the links, up to events that are on their way *)
(* or were lost.                                                            *)
EgressPortIsUp ==
  (mon_started = LinkPf /\ \E pf \in LinkPf : link[pf]) =>
    \A hash \in 0..9 :
      \/ link[dp_multipath_get_pf(hash)]
      \/ \E pf \in LinkPf : LinkEventDue(pf) \/ <<"link", pf>> \in mon_lost
      \/ collided

(* The worker's view settles on the truth once the service has started: the *)
(* links may change only a bounded number of times.                         *)
LinkViewSettles ==
  <>[](\/ ~mon_worker
       \/ \A pf \in LinkPf : link_status[pf] = link[pf]
       \/ collided \/ \E pf \in LinkPf : <<"link", pf>> \in mon_lost)

(* The address of the router is learned on a port whose link is up, however *)
(* late the router appears: the timer retries.  The one message that        *)
(* carries it is not repeated, so its loss is final.                        *)
RouterIsLearned ==
  \A pf \in LinkPf :
    <>[](link[pf] /\ dp_nl_read_neigh(neigh_table) # NOMAC) /\ <>mon_worker =>
       <>(\/ pf_neigh_mac[pf] # NOMAC /\ pf_neigh_mac[pf] = dp_nl_read_neigh(neigh_table)
          \/ collided \/ <<"neighmac", pf>> \in mon_lost)
===============================================================================
