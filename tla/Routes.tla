------------------------------ MODULE Routes ------------------------------
(***************************************************************************)
(* Routes as a client of the API sees them: the CreateRoute, DeleteRoute,  *)
(* ListRoutes and ResetVni calls (dp_async_grpc.cpp, dp_grpc_impl.c), the  *)
(* routing tables of a VNI (dp_lpm.c, dp_vni.c) and the lookup that sends  *)
(* a packet out (dp_get_ip4_out_port(), dp_get_ip6_out_port()).  A client  *)
(* names a route by an address and a length, and the address may have host *)
(* bits; the table, DPDK's rte_rib, clears them.  Addresses are RtBits     *)
(* wide in both families.                                                  *)
(***************************************************************************)
EXTENDS Integers, FiniteSets

CONSTANTS
  RtBits,      \* width of an address (32, 128)
  RtVni,       \* VNIs a request may name
  RtPort,      \* the interfaces of this host
  RtVniOf,     \* the VNI of each interface
  RtOwn,       \* the address of each interface (own_ip, own_ipv6)
  RtRequests,  \* the routes a client may ask for
  MaxRoutes,   \* bound: routes created and not deleted
  PF0,         \* dp_get_pf0(), the port of every external route
  REFUSED      \* an error answer, or no port

ASSUME RtAssumption ==
  /\ RtBits \in Nat \ {0}
  /\ RtVniOf \in [RtPort -> RtVni]
  /\ RtOwn \in [RtPort -> 0 .. 2^RtBits - 1]

VARIABLES
  rt_ready,    \* interfaces that are up, each holds its VNI's tables
  rt_table,    \* rte_rib, rte_rib6 of all VNIs: prefix -> next hop
  rt_asked     \* what clients created and did not delete, in their own words

rt_vars == <<rt_ready, rt_table, rt_asked>>

\* rte_rib_depth_to_mask(): the address without its host bits.
Masked(ip, len) == ip - (ip % 2^(RtBits - len))

\* CreateRouteCall::FillRequest(), DeleteRouteCall::FillRequest(): each address is written in
\* the family it claims, and the length fits a byte.
RouteFamilyOK(r) == r.form = r.ver /\ r.len <= 255

\* A prefix as rte_rib_insert() and rte_rib_lookup_exact() use it; they refuse a depth beyond
\* the width of the address.
RtPrefix(vni, ver, ip, len) ==
  IF len > RtBits THEN REFUSED ELSE [vni |-> vni, ver |-> ver, ip |-> Masked(ip, len), len |-> len]

PrefixOf(r) == RtPrefix(r.vni, r.ver, r.ip, r.len)

Hop(port, hop, hopvni) == [port |-> port, hop |-> hop, vni |-> hopvni]

\* dp_lpm_fill_route_tables(): the host routes of an interface.
HostRoutes(p) == {RtPrefix(RtVniOf[p], ver, RtOwn[p], RtBits) : ver \in {"v4", "v6"}}

HostTable(P) ==
  [x \in UNION {HostRoutes(p) : p \in P} |->
     Hop(CHOOSE p \in P : x \in HostRoutes(p), 0, 0)]

\* dp_get_vni_route4_table(): there are tables while some interface uses the VNI.
HasTables(vni) == \E p \in rt_ready : RtVniOf[p] = vni

Drop(f, S) == [x \in DOMAIN f \ S |-> f[x]]

Merge(f, g) == [x \in DOMAIN f \cup DOMAIN g |-> IF x \in DOMAIN f THEN f[x] ELSE g[x]]

RtInit ==
  /\ rt_ready = {}
  /\ rt_table = HostTable({})
  /\ rt_asked = {}

-----------------------------------------------------------------------------
\* An interface comes up: its VNI's tables exist from now on, with its host routes.  It is
\* refused when one of these is taken.
RtIfaceUp(p) ==
  /\ p \notin rt_ready
  /\ HostRoutes(p) \cap DOMAIN rt_table = {}
  /\ rt_ready' = rt_ready \cup {p}
  /\ rt_table' = Merge(rt_table, HostTable({p}))
  /\ UNCHANGED rt_asked

\* An interface goes: its host routes are deleted, and the tables with the last interface.
RtIfaceDown(p) ==
  LET left == {q \in rt_ready \ {p} : RtVniOf[q] = RtVniOf[p]}
      gone == HostRoutes(p) \cup IF left = {} THEN {x \in DOMAIN rt_table : x.vni = RtVniOf[p]} ELSE {}
  IN  /\ p \in rt_ready
      /\ rt_ready' = rt_ready \ {p}
      /\ rt_table' = Drop(rt_table, gone)
      /\ rt_asked' = {r \in rt_asked : left # {} \/ r.vni # RtVniOf[p]}

\* dp_process_create_route(), dp_add_route(), dp_add_route6(): the next hop is an underlay
\* address, so it must be IPv6, and the prefix must not be taken, by an interface neither.
RtCreate(r) ==
  /\ RouteFamilyOK(r)
  /\ r.hopver = "v6"
  /\ HasTables(r.vni)
  /\ PrefixOf(r) \notin DOMAIN rt_table \cup {REFUSED}
  /\ Cardinality(rt_asked) < MaxRoutes
  /\ rt_table' = Merge(rt_table, [x \in {PrefixOf(r)} |-> Hop(PF0, r.hop, r.hopvni)])
  /\ rt_asked' = rt_asked \cup {r}
  /\ UNCHANGED rt_ready

\* The addresses a request is about, in the client's words: same leading bits.
CoveredBy(r) == {a \in 0 .. 2^RtBits - 1 : a \div 2^(RtBits - r.len) = r.ip \div 2^(RtBits - r.len)}

SameRoute(r, s) == r.vni = s.vni /\ r.ver = s.ver /\ r.len = s.len /\ CoveredBy(r) = CoveredBy(s)

\* dp_process_delete_route(), dp_del_route(), dp_del_route6(): only a route of the PF can be
\* deleted this way.
RtDelete(r) ==
  /\ RouteFamilyOK(r)
  /\ HasTables(r.vni)
  /\ PrefixOf(r) \in DOMAIN rt_table
  /\ rt_table[PrefixOf(r)].port = PF0
  /\ rt_table' = Drop(rt_table, {PrefixOf(r)})
  /\ rt_asked' = {s \in rt_asked : ~SameRoute(r, s)}
  /\ UNCHANGED rt_ready

\* ResetVni and Initialize: the tables are emptied and the host routes filled in again.
ResetRoutes(V) ==
  /\ rt_table' = Merge(Drop(rt_table, {x \in DOMAIN rt_table : x.vni \in V}),
                       HostTable({p \in rt_ready : RtVniOf[p] \in V}))
  /\ rt_asked' = {r \in rt_asked : r.vni \notin V}
  /\ UNCHANGED rt_ready

RtNext ==
  \/ \E p \in RtPort : RtIfaceUp(p) \/ RtIfaceDown(p)
  \/ \E r \in RtRequests : RtCreate(r) \/ RtDelete(r)
  \/ \E V \in {{v} : v \in RtVni} \cup {RtVni} : ResetRoutes(V)

RtSpec == RtInit /\ [][RtNext]_rt_vars

-----------------------------------------------------------------------------
\* dp_list_routes(), dp_list_route_entry() and ListRoutesCall::ParseReply(): the external
\* routes of a VNI, or of all VNIs when the request names VNI 0; only of the IPv4 table.
ListRoutes(vni) ==
  {[ip |-> x.ip, len |-> x.len, hop |-> rt_table[x].hop, hopvni |-> rt_table[x].vni] :
     x \in {y \in DOMAIN rt_table : y.ver = "v4" /\ vni \in {0, y.vni} /\ rt_table[y].port = PF0}}

\* Mutant: the shortest prefix.
out_portShortest(vni, ver, dst) ==
  LET match == {x \in DOMAIN rt_table : x.vni = vni /\ x.ver = ver /\ Masked(dst, x.len) = x.ip}
  IN  IF match = {} THEN REFUSED
      ELSE LET best == CHOOSE x \in match : \A y \in match : x.len <= y.len
           IN  [hop |-> rt_table[best], is_default_route |-> best.len = 0]

\* dp_get_ip4_out_port(), dp_get_ip6_out_port(), on top of rte_rib_lookup(): the next hop of
\* the longest prefix that matches, and whether that is the default route.
out_port(vni, ver, dst) ==
  LET match == {x \in DOMAIN rt_table : x.vni = vni /\ x.ver = ver /\ Masked(dst, x.len) = x.ip}
  IN  IF match = {} THEN REFUSED
      ELSE LET best == CHOOSE x \in match : \A y \in match : y.len <= x.len
           IN  [hop |-> rt_table[best], is_default_route |-> best.len = 0]

-----------------------------------------------------------------------------
\* Type invariant: prefixes have no host bits.
RtTypeOK ==
  /\ rt_ready \subseteq RtPort
  /\ rt_asked \subseteq RtRequests
  /\ \A x \in DOMAIN rt_table :
       /\ x.vni \in RtVni /\ x.ver \in {"v4", "v6"} /\ x.len \in 0 .. RtBits
       /\ x.ip = Masked(x.ip, x.len)
       /\ rt_table[x].port \in RtPort \cup {PF0}

\* ListRoutes shows the IPv4 routes that clients created and did not delete, each once, under
\* an address of the same prefix: whatever the host bits in the request that created it and in
\* the one that would delete it.
ListedAsAsked ==
  \A vni \in RtVni \cup {0} :
    {<<CoveredBy(s), s.len, s.hop, s.hopvni>> : s \in ListRoutes(vni)}
      = {<<CoveredBy(r), r.len, r.hop, r.hopvni>> :
           r \in {q \in rt_asked : q.ver = "v4" /\ vni \in {0, q.vni}}}

\* A packet leaves by the most specific route a client asked for, unless an interface of this
\* host has the address; and is dropped when there is neither.
MostSpecificWins ==
  \A vni \in RtVni, ver \in {"v4", "v6"}, dst \in 0 .. 2^RtBits - 1 :
    LET local  == {p \in rt_ready : RtVniOf[p] = vni /\ RtOwn[p] = dst}
        routes == {r \in rt_asked : r.vni = vni /\ r.ver = ver /\ dst \in CoveredBy(r)}
        out    == out_port(vni, ver, dst)
    IN  IF local # {} THEN out # REFUSED /\ out.hop.port \in local
        ELSE IF routes = {} THEN out = REFUSED
        ELSE \E r \in routes :
               /\ \A q \in routes : CoveredBy(r) \subseteq CoveredBy(q)
               /\ out # REFUSED /\ out.hop = Hop(PF0, r.hop, r.hopvni)
               /\ out.is_default_route <=> CoveredBy(r) = 0 .. 2^RtBits - 1
=============================================================================
