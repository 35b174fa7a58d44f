------------------------------ MODULE Interfaces ------------------------------
(***************************************************************************)
(* The tables behind an interface: ports and interface identifiers         *)
(* (src/src/dp_iface.c), the underlay addresses of network functions and   *)
(* their reverse table (dp_vnf.c), reference counted VNIs (dp_vni.c) and   *)
(* their routes (dp_lpm.c), under the request handlers of                  *)
(* grpc/dp_grpc_impl.c.                                                    *)
(*                                                                         *)
(* A request is one step of the graph worker.  A handler is a chain of     *)
(* calls on the tables, each of which may fail; what it leaves behind then *)
(* is what its clean-up labels make of the tables it has built.  The IPv4  *)
(* and the IPv6 table of a VNI are one function.                           *)
(***************************************************************************)
EXTENDS Integers, FiniteSets

CONSTANTS
  N,           \* VF ports
  Id, Vni, Ul,
  Addr4, Addr6,
  Zero4, Zero6,   \* the address of an interface without IPv4, without IPv6
  Prefix,      \* alias and load balancer prefixes, external routes; none is a host route
  IfaceReq,    \* interfaces that are asked for
  PF, NONE

Port     == 1 .. N
RouteKey == Prefix \cup Addr4 \cup Addr6 \cup {Zero4, Zero6}
NextHop  == Port \cup {PF}
Vnf      == [type : {"iface", "pfx", "lbpfx"}, port : Port, vni : Vni, pfx : Prefix \cup {NONE}]
Iface    == [id : Id, vni : Vni, v4 : Addr4 \cup {Zero4}, v6 : Addr6 \cup {Zero6}, ul : Ul]

ASSUME IfaceAssumption ==
  /\ N \in Nat \ {0}
  /\ PF \notin Port
  /\ IfaceReq \subseteq [id : Id, vni : Vni, v4 : Addr4 \cup {Zero4}, v6 : Addr6 \cup {Zero6}]
  /\ Prefix \cap (Addr4 \cup Addr6 \cup {Zero4, Zero6}) = {}
  /\ (Addr4 \cup {Zero4}) \cap (Addr6 \cup {Zero6}) = {}
ASSUME IfaceNoneAssumption ==
  /\ NONE \notin NextHop /\ NONE \notin Vnf /\ NONE \notin Ul /\ NONE \notin Iface /\ NONE \notin Prefix

VARIABLES
  allocated,  \* ports that are started
  iface,      \* port->iface, while it is ready
  ids,        \* iface_id_table
  vnf,        \* vnf_handle_tbl: what an underlay address stands for
  value,      \* vnf_value_tbl: the underlay address of a network function
  vnis,       \* reference counts; 0: not in vni_handle_tbl
  routes,     \* the port each route of a VNI leads to
  result      \* "OK"; "REFUSED": an error, undone; "PARTIAL": an error of a clean-up or reset

vars == <<allocated, iface, ids, vnf, value, vnis, routes, result>>

NoRoutes == [k \in RouteKey |-> NONE]

-------------------------------------------------------------------------------
(* dp_vnf.c *)

VnfOf(t, p, v, k) == [type |-> t, port |-> p, vni |-> v, pfx |-> k]

AddVnf(u, x) ==
  /\ vnf[u] = NONE
  /\ vnf' = [vnf EXCEPT ![u] = x]
  /\ value' = [value EXCEPT ![x] = u]

\* dp_del_vnf(), from tables h and w.  The reverse entry goes whether or not it leads back to u.
DelVnf(h, w, u) ==
  /\ vnf' = [h EXCEPT ![u] = NONE]
  /\ value' = IF h[u] = NONE THEN w ELSE [w EXCEPT ![h[u]] = NONE]

\* dp_add_vnf() fails: the address is taken or there is no room for it, or there is none for the
\* reverse entry.
AddVnfFails(u, x) ==
  \/ UNCHANGED <<vnf, value>>
  \/ vnf[u] = NONE /\ DelVnf([vnf EXCEPT ![u] = x], value, u)

\* dp_add_vnf() followed by dp_del_vnf() in a clean-up.
UndoVnf(u, x) == DelVnf([vnf EXCEPT ![u] = x], [value EXCEPT ![x] = u], u)

\* dp_del_vnf_by_value().
DelVnfByValue(x) ==
  IF value[x] = NONE THEN UNCHANGED <<vnf, value>> ELSE DelVnf(vnf, value, value[x])

-------------------------------------------------------------------------------
(* dp_lpm.c; r is a table of routes, and a VNI has one while it is referenced. *)

AddRoute(r, h, v, k) == [r EXCEPT ![v][k] = h]

DelRoute(r, h, v, k) == IF r[v][k] = h THEN [r EXCEPT ![v][k] = NONE] ELSE r

-------------------------------------------------------------------------------
(* dp_iface.c, dp_vni.c *)

\* dp_create_vni_route_tables() allocates the tables with the first reference,
\* dp_delete_vni_route_tables() frees them with the last.
RefVni(v)        == [vnis EXCEPT ![v] = @ + 1]
ReleaseVni(n, v) == [n EXCEPT ![v] = @ - 1]

\* dp_delete_iface(), from reference counts n and routes r: the routes of the interface's own
\* addresses, then a reference to the VNI, with the last of which its tables go.
DeleteIface(n, r, p, f) ==
  LET own == DelRoute(DelRoute(r, p, f.vni, f.v4), p, f.vni, f.v6) IN
  /\ iface' = [iface EXCEPT ![p] = NONE]
  /\ vnis' = ReleaseVni(n, f.vni)
  /\ routes' = IF n[f.vni] = 1 THEN [own EXCEPT ![f.vni] = NoRoutes] ELSE own

-------------------------------------------------------------------------------
(* Handlers *)

Refused == result' = "REFUSED"

\* dp_map_iface_id() followed by dp_unmap_iface_id() in a clean-up.
UndoId(i, p) == ids' = [[ids EXCEPT ![i] = p] EXCEPT ![i] = NONE]

\* Mutant: the port counts as allocated although it did not start.
CreateInterfaceFailsAllocated(p, f, x) ==
  /\ Refused
  /\ allocated' = [allocated EXCEPT ![p] = TRUE]
  /\ UNCHANGED <<iface, ids, vnf, value, vnis, routes>>

\* The labels of dp_process_create_interface(), after the calls up to each of them succeeded: the
\* identifier is known, the VNI cannot be set up, a route is refused, or the port does not start.
CreateInterfaceFails(p, f, x) ==
  LET n    == RefVni(f.vni)
      has4 == IF f.v4 = Zero4 THEN routes ELSE AddRoute(routes, p, f.vni, f.v4)
      has6 == IF f.v6 = Zero6 THEN has4 ELSE AddRoute(has4, p, f.vni, f.v6)
      undone4(r) == DelRoute(r, p, f.vni, f.v4)
      undone6(r) == undone4(DelRoute(r, p, f.vni, f.v6))
  IN  /\ Refused
      /\ UNCHANGED allocated
      /\ vnf[f.ul] = NONE
      /\ UndoVnf(f.ul, x)
      /\ \/ ids[f.id] # NONE /\ UNCHANGED <<ids, iface, vnis, routes>>
         \/ /\ ids[f.id] = NONE
            /\ UndoId(f.id, p)
            /\ \/ UNCHANGED <<iface, vnis, routes>>
               \/ f.v4 # Zero4 /\ DeleteIface(n, routes, p, f)
               \/ /\ f.v4 # Zero4 => routes[f.vni][f.v4] = NONE
                  /\ \/ f.v6 # Zero6 /\ DeleteIface(n, undone4(has4), p, f)
                     \/ /\ f.v6 # Zero6 => routes[f.vni][f.v6] = NONE
                        /\ DeleteIface(n, undone6(has6), p, f)

CreateInterfaceSucceeds(p, f, x) ==
  /\ result' = "OK"
  /\ AddVnf(f.ul, x)
  /\ ids[f.id] = NONE
  /\ ids' = [ids EXCEPT ![f.id] = p]
  /\ iface' = [iface EXCEPT ![p] = f]
  /\ vnis' = RefVni(f.vni)
  /\ \A k \in {f.v4, f.v6} \ {Zero4, Zero6} : routes[f.vni][k] = NONE
  /\ routes' = [routes EXCEPT ![f.vni] =
                  [k \in RouteKey |-> IF k \in {f.v4, f.v6} \ {Zero4, Zero6} THEN p ELSE @[k]]]
  /\ allocated' = [allocated EXCEPT ![p] = TRUE]

CreateInterface(p, q, u) ==
  LET f == [id |-> q.id, vni |-> q.vni, v4 |-> q.v4, v6 |-> q.v6, ul |-> u]
      x == VnfOf("iface", p, q.vni, NONE)
  IN  \/ /\ allocated[p]
         /\ Refused
         /\ UNCHANGED <<allocated, iface, ids, vnf, value, vnis, routes>>
      \/ /\ ~allocated[p]
         /\ \/ /\ Refused
               /\ AddVnfFails(u, x)
               /\ UNCHANGED <<allocated, iface, ids, vnis, routes>>
            \/ CreateInterfaceFails(p, f, x)
            \/ CreateInterfaceSucceeds(p, f, x)

\* A port that does not stop stays allocated, and the clean-up goes on.
DeleteInterface(i) ==
  /\ ids[i] # NONE
  /\ LET p == ids[i] IN
     /\ DelVnf(vnf, value, iface[p].ul)
     /\ ids' = [ids EXCEPT ![i] = NONE]
     /\ DeleteIface(vnis, routes, p, iface[p])
     /\ \/ allocated' = [allocated EXCEPT ![p] = FALSE] /\ result' \in {"OK", "PARTIAL"}
        \/ UNCHANGED allocated /\ result' = "PARTIAL"

\* What every handler says of an identifier it does not know.
UnknownInterface(i) ==
  /\ ids[i] = NONE
  /\ Refused
  /\ UNCHANGED <<allocated, iface, ids, vnf, value, vnis, routes>>

CreatePrefix(i, k, u) ==
  /\ ids[i] # NONE
  /\ UNCHANGED <<allocated, iface, ids, vnis>>
  /\ LET p == ids[i]
         v == iface[p].vni
         x == VnfOf("pfx", p, v, k)
     IN  \/ Refused /\ UNCHANGED <<vnf, value, routes>>  \* there is a route, or no room for it
         \/ /\ routes[v][k] = NONE
            /\ \/ /\ Refused
                  /\ AddVnfFails(u, x)
                  /\ routes' = DelRoute(AddRoute(routes, p, v, k), p, v, k)
               \/ /\ result' = "OK"
                  /\ AddVnf(u, x)
                  /\ routes' = AddRoute(routes, p, v, k)

DeletePrefix(i, k) ==
  /\ ids[i] # NONE
  /\ LET p == ids[i]
         v == iface[p].vni
         x == VnfOf("pfx", p, v, k)
     IN  /\ routes' = DelRoute(routes, p, v, k)
         /\ DelVnfByValue(x)
         /\ result' = IF routes[v][k] = p /\ value[x] # NONE THEN "OK" ELSE "PARTIAL"
  /\ UNCHANGED <<allocated, iface, ids, vnis>>

LbPrefixExists(x) == value[x] # NONE

CreateLbPrefix(i, k, u) ==
  /\ ids[i] # NONE
  /\ UNCHANGED <<allocated, iface, ids, vnis, routes>>
  /\ LET x == VnfOf("lbpfx", ids[i], iface[ids[i]].vni, k) IN
     \/ LbPrefixExists(x) /\ Refused /\ UNCHANGED <<vnf, value>>
     \/ ~LbPrefixExists(x) /\ Refused /\ AddVnfFails(u, x)
     \/ ~LbPrefixExists(x) /\ result' = "OK" /\ AddVnf(u, x)

DeleteLbPrefix(i, k) ==
  /\ ids[i] # NONE
  /\ LET x == VnfOf("lbpfx", ids[i], iface[ids[i]].vni, k) IN
     /\ DelVnfByValue(x)
     /\ result' = IF value[x] = NONE THEN "REFUSED" ELSE "OK"
  /\ UNCHANGED <<allocated, iface, ids, vnis, routes>>

\* External routes lead to the PF.
CreateRoute(v, k) ==
  /\ \/ Refused /\ UNCHANGED routes  \* no VNI, there is a route, or no room for it
     \/ /\ vnis[v] > 0
        /\ routes[v][k] = NONE
        /\ routes' = AddRoute(routes, PF, v, k)
        /\ result' = "OK"
  /\ UNCHANGED <<allocated, iface, ids, vnf, value, vnis>>

DeleteRoute(v, k) ==
  /\ routes' = DelRoute(routes, PF, v, k)
  /\ result' = IF routes[v][k] = PF THEN "OK" ELSE "REFUSED"
  /\ UNCHANGED <<allocated, iface, ids, vnf, value, vnis>>

\* dp_lpm_fill_route_tables() for a port in one of the VNIs V, unless an earlier port has failed.
FillPort(a, p, V) ==
  LET f  == iface[p]
      r4 == AddRoute(a.routes, p, f.vni, f.v4)
  IN  IF ~a.ok \/ f = NONE \/ f.vni \notin V THEN a
      ELSE IF a.routes[f.vni][f.v4] # NONE THEN [routes |-> a.routes, ok |-> FALSE]
      ELSE IF r4[f.vni][f.v6] # NONE THEN [routes |-> r4, ok |-> FALSE]
      ELSE [routes |-> AddRoute(r4, p, f.vni, f.v6), ok |-> TRUE]

Fill(r, V) ==
  LET fill[p \in 0 .. N] ==
        IF p = 0 THEN [routes |-> r, ok |-> TRUE] ELSE FillPort(fill[p - 1], p, V)
  IN  fill[N]

Emptied(V) == [v \in Vni |-> IF v \in V THEN NoRoutes ELSE routes[v]]

\* Mutant: the tables are emptied and nothing is put back.
ResetVnisEmpty(V) ==
  /\ routes' = Emptied(V)
  /\ result' = "OK"
  /\ UNCHANGED <<allocated, iface, ids, vnf, value, vnis>>

\* dp_lpm_reset_route_tables(), dp_lpm_reset_all_route_tables(): the tables are emptied, and the
\* interfaces put their own addresses back, zero addresses included.
ResetVnis(V) ==
  LET a == Fill(Emptied(V), V) IN
  /\ routes' = a.routes
  /\ result' = IF a.ok THEN "OK" ELSE "PARTIAL"
  /\ UNCHANGED <<allocated, iface, ids, vnf, value, vnis>>

-------------------------------------------------------------------------------

Init ==
  /\ allocated = [p \in Port |-> FALSE]
  /\ iface = [p \in Port |-> NONE]
  /\ ids = [i \in Id |-> NONE]
  /\ vnf = [u \in Ul |-> NONE]
  /\ value = [x \in Vnf |-> NONE]
  /\ vnis = [v \in Vni |-> 0]
  /\ routes = [v \in Vni |-> NoRoutes]
  /\ result = "OK"

Next ==
  \/ \E p \in Port, q \in IfaceReq, u \in Ul : CreateInterface(p, q, u)
  \/ \E i \in Id : DeleteInterface(i) \/ UnknownInterface(i)
  \/ \E i \in Id, k \in Prefix, u \in Ul : CreatePrefix(i, k, u) \/ CreateLbPrefix(i, k, u)
  \/ \E i \in Id, k \in Prefix : DeletePrefix(i, k) \/ DeleteLbPrefix(i, k)
  \/ \E v \in Vni, k \in Prefix \cup Addr4 \cup Addr6 : CreateRoute(v, k) \/ DeleteRoute(v, k)
  \/ \E V \in {{v} : v \in Vni} \cup {Vni} : ResetVnis(V)

Spec == Init /\ [][Next]_vars

-------------------------------------------------------------------------------
(* Properties. *)

Used == {p \in Port : iface[p] # NONE}

\* Every table has its type.
TypeOK ==
  /\ allocated \in [Port -> BOOLEAN]
  /\ iface \in [Port -> Iface \cup {NONE}]
  /\ ids \in [Id -> Port \cup {NONE}]
  /\ vnf \in [Ul -> Vnf \cup {NONE}]
  /\ value \in [Vnf -> Ul \cup {NONE}]
  /\ vnis \in [Vni -> Nat]
  /\ routes \in [Vni -> [RouteKey -> NextHop \cup {NONE}]]
  /\ result \in {"OK", "REFUSED", "PARTIAL"}

\* A VNI has a reference for every interface in it: no clean-up path drops one twice or keeps one.
VniCounted ==
  \A v \in Vni : vnis[v] = Cardinality({p \in Used : iface[p].vni = v})

\* A VNI without interfaces has no routes: none is put in without a table, and none survives the
\* last interface.
RoutesNeedVni == \A v \in Vni : vnis[v] = 0 => routes[v] = NoRoutes

\* The identifier table and the interfaces name each other.
IdsMatch ==
  /\ \A i \in Id : ids[i] # NONE => ids[i] \in Used /\ iface[ids[i]].id = i
  /\ \A p \in Used : ids[iface[p].id] = p /\ allocated[p]

\* An interface can be reached under its underlay address as long as it exists, and no address
\* still leads to it when it does not.
UnderlayMatches ==
  /\ \A p \in Used : vnf[iface[p].ul] = VnfOf("iface", p, iface[p].vni, NONE)
  /\ \A u \in Ul : vnf[u] # NONE /\ vnf[u].type = "iface" =>
       vnf[u].port \in Used /\ iface[vnf[u].port].ul = u

\* The reverse table never names an address that belongs to something else, and for interfaces and
\* load balancer prefixes it names the one that does, so that deletion by value finds it.
ReverseMatches ==
  /\ \A x \in Vnf : value[x] # NONE => vnf[value[x]] = x
  /\ \A u \in Ul : vnf[u] # NONE /\ vnf[u].type # "pfx" => value[vnf[u]] = u

LeavesNoTrace ==
  /\ UNCHANGED <<allocated, iface, ids, vnf, vnis>>
  /\ \A x \in Vnf : value'[x] # value[x] => x.type = "pfx" /\ value'[x] = NONE

\* A refused request leaves no trace in these tables, wherever it failed.  The reverse entry of an
\* alias prefix that was registered twice, around a reset, is the exception.
RefusedLeavesNoTrace == [][result' = "REFUSED" => LeavesNoTrace]_vars

\* A refused request leaves the routes as they were: its clean-up removes what it has put in, and
\* not what it collided with.
RefusedKeepsRoutes == [][result' = "REFUSED" => UNCHANGED routes]_vars

Routed(f, p, r) ==
  /\ f.v4 # Zero4 => r[f.vni][f.v4] = p
  /\ f.v6 # Zero6 => r[f.vni][f.v6] = p

\* A new interface has the routes of its addresses, and no request that succeeds takes them away,
\* neither one for another interface nor a reset.
OwnRoutesKept ==
  [][result' = "OK" =>
       \A p \in Used' :
         p \notin Used \/ Routed(iface[p], p, routes) => Routed(iface'[p], p, routes')]_vars

\* dpdk.proto: deleting an interface removes all of its configuration.
NothingLeftBehind ==
  \A p \in Port \ Used :
    /\ \A u \in Ul : vnf[u] # NONE => vnf[u].port # p
    /\ \A v \in Vni, k \in RouteKey : routes[v][k] # p
===============================================================================
