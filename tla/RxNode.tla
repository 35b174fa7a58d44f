-------------------------------- MODULE RxNode --------------------------------
(***************************************************************************)
(* The Rx nodes of the packet graph around a takeover (nodes/rx_node.c).   *)
(* A process that stands by leaves the packets in the queues of the NIC.   *)
(* When it takes over it reads the clock of the NIC and tells every Rx     *)
(* node to throw away what was received before that moment.  A packet is   *)
(* its port and its receive timestamp, which grows along a queue.          *)
(***************************************************************************)
EXTENDS Integers, Sequences

CONSTANTS RxPort,      \* the ports that have an Rx node
          RxBurst,     \* RTE_GRAPH_BURST_SIZE
          MaxClock     \* bound on the clock of the NIC

ASSUME RxAssumption == RxBurst \in Nat \ {0} /\ MaxClock \in Nat

VARIABLES rx_clock,        \* the clock of the NIC
          rx_queue,        \* the packets waiting in the queue of each port
          rx_standing_by,  \* standing_by of rx_node.c
          flush_timestamp, \* what rx_node_start_processing() read, 0 when the clock cannot be read
          flush_old_packets,
          rx_handed,       \* the packets the latest poll gave to the classifier
          rx_freed,        \* the packets given back to the mempool as old
          rx_forgotten     \* the packets neither handed on nor given back

rx_vars == <<rx_clock, rx_queue, rx_standing_by, flush_timestamp, flush_old_packets,
             rx_handed, rx_freed, rx_forgotten>>

(* The packets of an array. *)
Packets(s) == {s[i] : i \in DOMAIN s}

RxInit ==
  /\ rx_clock = 0
  /\ rx_queue = [p \in RxPort |-> <<>>]
  /\ rx_standing_by = TRUE
  /\ flush_timestamp = 0
  /\ flush_old_packets = [p \in RxPort |-> FALSE]
  /\ rx_handed = <<>>
  /\ rx_freed = {}
  /\ rx_forgotten = {}

\* The NIC receives a packet on port p and stamps it.
RxReceive(p) ==
  /\ rx_clock < MaxClock
  /\ rx_clock' = rx_clock + 1
  /\ rx_queue' = [rx_queue EXCEPT ![p] = Append(@, [port |-> p, at |-> rx_clock'])]
  /\ UNCHANGED <<rx_standing_by, flush_timestamp, flush_old_packets, rx_handed, rx_freed, rx_forgotten>>

\* rte_eth_read_clock() on the ports that are up; no port answers, or the NIC has no timestamps: 0.
get_current_timestamp(readable) == IF readable THEN rx_clock + 1 ELSE 0

rx_node_start_processing ==
  /\ rx_standing_by
  /\ \E readable \in BOOLEAN : flush_timestamp' = get_current_timestamp(readable)
  /\ flush_old_packets' = [p \in RxPort |-> flush_timestamp' > 0]
  /\ rx_standing_by' = FALSE
  /\ UNCHANGED <<rx_clock, rx_queue, rx_handed, rx_freed, rx_forgotten>>

rx_find_old_packets(burst) ==
  LET new == {i \in DOMAIN burst : burst[i].at >= flush_timestamp}
  IN IF new = {} THEN Len(burst) ELSE (CHOOSE i \in new : \A j \in new : i <= j) - 1

\* Mutant: one burst is flushed.
flush_continuesOnce(old, n) == FALSE

\* A burst without a new packet leaves flush_old_packets set.
flush_continues(old, n) == old = n

(* rte_node_next_stream_move() hands on the first node->idx packets of the  *)
(* array the node was called with.                                          *)
stream_move(objs, idx) == SubSeq(objs, 1, idx)

(* One walk over the Rx node of port p.  After a flush that meets a new     *)
(* packet the code advances its own pointer into the array and lowers the   *)
(* count, and then moves the stream of the node.                            *)
rx_node_process(p) ==
  LET n     == IF Len(rx_queue[p]) < RxBurst THEN Len(rx_queue[p]) ELSE RxBurst
      burst == SubSeq(rx_queue[p], 1, n)
      old   == IF flush_old_packets[p] THEN rx_find_old_packets(burst) ELSE 0
      moved == stream_move(burst, n - old)
  IN /\ ~rx_standing_by
     /\ n > 0
     /\ rx_queue' = [rx_queue EXCEPT ![p] = SubSeq(@, n + 1, Len(@))]
     /\ rx_freed' = rx_freed \cup Packets(SubSeq(burst, 1, old))
     /\ flush_old_packets' = [flush_old_packets EXCEPT ![p] = @ /\ flush_continues(old, n)]
     /\ rx_handed' = moved
     /\ rx_forgotten' = rx_forgotten \cup (Packets(SubSeq(burst, old + 1, n)) \ Packets(moved))
     /\ UNCHANGED <<rx_clock, rx_standing_by, flush_timestamp>>

RxNext ==
  \/ rx_node_start_processing
  \/ \E p \in RxPort : RxReceive(p) \/ rx_node_process(p)

\* The worker keeps walking the graph.
RxFairness == \A p \in RxPort : WF_rx_vars(rx_node_process(p))

RxSpec == RxInit /\ [][RxNext]_rx_vars /\ RxFairness

(* The types of the state of the Rx nodes: timestamps stay within the clock *)
(* and a queue holds packets of its own port only.                          *)
RxTypeOK ==
  /\ rx_clock \in 0..MaxClock /\ flush_timestamp \in 0..(MaxClock + 1)
  /\ rx_standing_by \in BOOLEAN /\ flush_old_packets \in [RxPort -> BOOLEAN]
  /\ \A p \in RxPort : \A i \in DOMAIN rx_queue[p] : rx_queue[p][i] \in [port : {p}, at : 1..MaxClock]

(* Once an Rx node has left the flush, its queue holds nothing from before  *)
(* the takeover: the flush ends at the first new packet and not earlier     *)
(* (rx_node.c, rx_node_process).                                            *)
FlushedToTheEnd ==
  ~rx_standing_by /\ flush_timestamp > 0 =>
    \A p \in RxPort : ~flush_old_packets[p] =>
      \A i \in DOMAIN rx_queue[p] : rx_queue[p][i].at >= flush_timestamp

(* Traffic flows again: a packet received after the takeover ends the flush *)
(* of its port.                                                             *)
FlushEnds ==
  \A p \in RxPort :
    (~rx_standing_by /\ \E i \in DOMAIN rx_queue[p] : rx_queue[p][i].at >= flush_timestamp)
      ~> ~flush_old_packets[p]

(* What the flush has given back to the mempool never enters the graph: the *)
(* comments of rx_node.c ask for the old packets to be flushed.             *)
FlushedNotProcessed == Packets(rx_handed) \cap rx_freed = {}
===============================================================================
