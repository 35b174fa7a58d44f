------------------------------ MODULE VirtSvc ------------------------------
(***************************************************************************)
(* The port pool of one virtual service: dp_virtsvc.c and virtsvc_node.c.  *)
(*                                                                         *)
(* A VM reaches an IPv6 service behind a virtual IPv4 address.  Each       *)
(* connection of a VM takes one port of the service's pool; two tables     *)
(* must agree on it: open_ports (a hash table from the VM's end to the     *)
(* port, read for requests) and connections (an array over the ports, read *)
(* for replies).  The array is split into one function per field.          *)
(*                                                                         *)
(* Time is relative: the code compares time stamps only with "now", so the *)
(* model keeps the age of the last packet of each port, and the time since *)
(* the host started (what an untouched slot, whose time stamp is 0, is     *)
(* compared with), both cut off just above the longest timeout.            *)
(***************************************************************************)
EXTENDS Naturals

CONSTANTS
  Vf,           \* ports of the host that VMs are attached to
  Src,          \* address and source port of a connection on its VF
  PortCount,    \* DP_VIRTSVC_PORTCOUNT
  PortTimeout,  \* port_timeout: 30 seconds
  EstTimeout,   \* established_port_timeout: 24 hours
  MaxRefused,   \* bound: insertions the hash table refuses
  CLOSED

VARIABLES
  role,         \* a standby process only applies synchronisation messages
  open_ports,   \* key -> port, CLOSED where the table has no entry
  last_assigned_port,
  key,          \* port -> (vf_port_id, vf_ip and vf_l4_port)
  used,         \* port -> last_pkt_timestamp # 0
  age,          \* port -> time since last_pkt_timestamp
  state,        \* port -> state of the TCP connection
  uptime,
  refused       \* insertions refused so far

virtsvcVars == <<role, open_ports, last_assigned_port, key, used, age, state, uptime, refused>>

ASSUME PoolAssumption ==
  /\ PortCount \in Nat \ {0}
  /\ PortTimeout \in Nat /\ EstTimeout \in Nat /\ PortTimeout <= EstTimeout
  /\ MaxRefused \in Nat
  /\ CLOSED \notin Vf \X Src /\ CLOSED \notin Nat

Key == Vf \X Src
Port == 0 .. PortCount - 1
ConnState == {"TRANSIENT", "TRANSIENT_SYN", "TRANSIENT_SYNACK", "ESTABLISHED"}
TcpFlags == {"SYN", "SYNACK", "ACK", "FIN", "RST", "other"}  \* UDP counts as "other"
MaxAge == EstTimeout + 1

(* virtsvc_tcp_state_change(); the direction of the packet plays no part. *)
tcp_state_change(s, f) ==
  CASE f \in {"RST", "FIN"}                       -> "TRANSIENT"
    [] s = "TRANSIENT" /\ f = "SYN"               -> "TRANSIENT_SYN"
    [] s = "TRANSIENT_SYN" /\ f = "SYNACK"        -> "TRANSIENT_SYNACK"
    [] s = "TRANSIENT_SYNACK" /\ f = "ACK"        -> "ESTABLISHED"
    [] OTHER                                      -> s

(* dp_virtsvc_is_connection_old(): a slot without a connection is measured *)
(* by the time stamp 0 and by the state its last connection left in it.    *)
is_connection_old(p) ==
  (IF used[p] THEN age[p] ELSE uptime)
    > (IF state[p] = "ESTABLISHED" THEN EstTimeout ELSE PortTimeout)

(* dp_virtsvc_get_free_port(): first the ports after the last one given    *)
(* out, then the ones before it.                                           *)
get_free_port(p) ==
  LET Rank(q) == IF q > last_assigned_port THEN q ELSE q + PortCount
  IN  /\ is_connection_old(p)
      /\ \A q \in Port : is_connection_old(q) => Rank(p) <= Rank(q)

(* Mutant: the entry of the previous connection stays. *)
use_portKeepsEntry(k, p, openNow, usedNow) ==
  /\ open_ports' = [openNow EXCEPT ![k] = p]
  /\ key' = [key EXCEPT ![p] = k]
  /\ used' = [usedNow EXCEPT ![p] = TRUE]
  /\ age' = [age EXCEPT ![p] = 0]
  /\ UNCHANGED refused

(* dp_virtsvc_use_port(), given the two tables as they are by then.  The   *)
(* entry of the port's previous connection goes first; when the table then *)
(* refuses the new one, the array still holds the previous connection.     *)
use_port(k, p, openNow, usedNow) ==
  LET closed == IF usedNow[p] THEN [openNow EXCEPT ![key[p]] = CLOSED] ELSE openNow
  IN  \/ /\ open_ports' = [closed EXCEPT ![k] = p]
         /\ key' = [key EXCEPT ![p] = k]
         /\ used' = [usedNow EXCEPT ![p] = TRUE]
         /\ age' = [age EXCEPT ![p] = 0]
         /\ UNCHANGED refused
      \/ /\ refused < MaxRefused
         /\ open_ports' = closed
         /\ used' = usedNow
         /\ refused' = refused + 1
         /\ UNCHANGED <<key, age>>

VirtSvcInit ==
  /\ role \in {"active", "standby"}
  /\ open_ports = [k \in Key |-> CLOSED]
  /\ last_assigned_port = 0
  /\ key \in [Port -> {CLOSED}]
  /\ used = [p \in Port |-> FALSE]
  /\ age = [p \in Port |-> MaxAge]   \* not read before the port is used
  /\ state = [p \in Port |-> "TRANSIENT"]
  /\ uptime \in 0 .. MaxAge
  /\ refused = 0

(* virtsvc_request_next() for a packet of a connection that has a port,    *)
(* however long ago it was last used.                                      *)
RequestKnown(k, f) ==
  /\ role = "active" /\ open_ports[k] # CLOSED
  /\ used' = [used EXCEPT ![open_ports[k]] = TRUE]
  /\ age' = [age EXCEPT ![open_ports[k]] = 0]
  /\ state' = [state EXCEPT ![open_ports[k]] = tcp_state_change(@, f)]
  /\ UNCHANGED <<role, open_ports, last_assigned_port, key, uptime, refused>>

(* virtsvc_request_next() for one that has none: dp_virtsvc_get_pf_route() *)
(* and dp_virtsvc_create_connection().  The position in the pool advances  *)
(* even when the insertion fails; with no port to give the packet is       *)
(* dropped and nothing changes.                                            *)
RequestNew(k, f) ==
  /\ role = "active" /\ open_ports[k] = CLOSED
  /\ \E p \in Port :
       /\ get_free_port(p)
       /\ last_assigned_port' = p
       /\ use_port(k, p, open_ports, used)
       /\ state' = IF refused' = refused
                   THEN [state EXCEPT ![p] = tcp_state_change("TRANSIENT", f)]
                   ELSE state
  /\ UNCHANGED <<role, uptime>>

(* virtsvc_reply_next() for a packet of the service to port p.             *)
Reply(p, f) ==
  /\ role = "active" /\ used[p]
  /\ age' = [age EXCEPT ![p] = 0]
  /\ state' = [state EXCEPT ![p] = tcp_state_change(@, f)]
  /\ UNCHANGED <<role, open_ports, last_assigned_port, key, used, uptime, refused>>

(* dp_virtsvc_del_iface(): the time stamp is cleared, the state is not.    *)
DelIface(v) ==
  LET gone == {p \in Port : used[p] /\ key[p][1] = v}
  IN  /\ gone # {}
      /\ used' = [p \in Port |-> used[p] /\ p \notin gone]
      /\ open_ports' = [k \in Key |-> IF \E p \in gone : key[p] = k
                                      THEN CLOSED ELSE open_ports[k]]
      /\ UNCHANGED <<role, last_assigned_port, key, age, state, uptime, refused>>

(* dp_virtsvc_open_sync_connection(): a standby process puts the           *)
(* connection where the active one has it.                                 *)
OpenSync(k, p) ==
  LET q == open_ports[k]
  IN  /\ role = "standby"
      /\ use_port(k, p, [open_ports EXCEPT ![k] = CLOSED],
                  IF q = CLOSED THEN used ELSE [used EXCEPT ![q] = FALSE])
      /\ IF refused' = refused
         THEN /\ state' = [state EXCEPT ![p] = "TRANSIENT"]
              /\ last_assigned_port' = p
         ELSE UNCHANGED <<state, last_assigned_port>>
      /\ UNCHANGED <<role, uptime>>

(* The process takes over; from now on its rx nodes pass packets on.       *)
TakeOver ==
  /\ role = "standby" /\ role' = "active"
  /\ UNCHANGED <<open_ports, last_assigned_port, key, used, age, state, uptime, refused>>

Older(t) == IF t < MaxAge THEN t + 1 ELSE t

Tick ==
  /\ uptime' = Older(uptime)
  /\ age' = [p \in Port |-> Older(age[p])]
  /\ UNCHANGED <<role, open_ports, last_assigned_port, key, used, state, refused>>

VirtSvcNext ==
  \/ \E k \in Key, f \in TcpFlags : RequestKnown(k, f) \/ RequestNew(k, f)
  \/ \E p \in Port, f \in TcpFlags : Reply(p, f)
  \/ \E v \in Vf : DelIface(v)
  \/ \E k \in Key, p \in Port : OpenSync(k, p)
  \/ TakeOver
  \/ Tick

VirtSvcSpec == VirtSvcInit /\ [][VirtSvcNext]_virtsvcVars

-----------------------------------------------------------------------------
(* The type of the tables. *)
VirtSvcTypeOK ==
  /\ role \in {"active", "standby"}
  /\ open_ports \in [Key -> Port \cup {CLOSED}]
  /\ last_assigned_port \in Port
  /\ key \in [Port -> Key \cup {CLOSED}]
  /\ used \in [Port -> BOOLEAN]
  /\ age \in [Port -> 0 .. MaxAge]
  /\ state \in [Port -> ConnState]
  /\ uptime \in 0 .. MaxAge
  /\ refused \in 0 .. MaxRefused

(***************************************************************************)
(* A packet of a VM leaves with a source port whose replies come back to   *)
(* the same VM, address and port: the hash table and the array agree on    *)
(* every open connection, whatever messages a standby process missed and   *)
(* whatever insertions were refused.                                       *)
(***************************************************************************)
ReplyGoesHome ==
  \A k \in Key : open_ports[k] # CLOSED =>
    used[open_ports[k]] /\ key[open_ports[k]] = k

(***************************************************************************)
(* No connection of the array is without its entry of the hash table, and  *)
(* no two share one (the comment in dp_virtsvc_open_sync_connection() says *)
(* why that "would be really bad": taking over the port of the one closes  *)
(* the other).  A refused insertion breaks this.                           *)
(***************************************************************************)
ConnectionsAreOpen ==
  refused = 0 => \A p \in Port : used[p] => open_ports[key[p]] = p

(***************************************************************************)
(* The port of a connection that has not timed out is never given to       *)
(* another one, neither when the pool is exhausted nor after a take-over.  *)
(***************************************************************************)
LivePortKept ==
  [][\A p \in Port : role = "active" /\ used[p] /\ ~is_connection_old(p)
       => key'[p] = key[p]]_virtsvcVars
=============================================================================
