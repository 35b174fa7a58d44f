---------------------------- MODULE ApiObjects ----------------------------
(***************************************************************************)
(* What the API's objects look like on the way in and on the way out: the  *)
(* FillRequest() that turns a request into the worker's structure, the     *)
(* fields the worker keeps, and the ParseReply() that shows them again     *)
(* (dp_async_grpc.cpp, dp_grpc_conv.cpp, the Get and List handlers of      *)
(* dp_grpc_impl.c).  The tables these objects live in are modelled in      *)
(* Interfaces, NatTables, LoadBalancer, Capture and IpsecSad; here a       *)
(* request is created and read back at once.                               *)
(***************************************************************************)
EXTENDS Integers, Sequences

CONSTANTS
  ApiRequests,  \* the requests: records [class, ...], well formed or not
  BAD,          \* a string that does not parse as an address or digit, or is too long
  GENERATED     \* an underlay address of dp_generate_ul_ipv6()

VARIABLE api    \* the request and the object it reads back as, or REFUSED

UINT8_MAX  == 255
UINT16_MAX == 65535
LbMaxPorts == 16       \* DP_LB_MAX_PORTS
VniMax     == 16777215 \* DP_VNI_MAX_SIZE

ApiRefused == [refused |-> TRUE]

\* (uint16_t), (uint8_t)
Uint16(n) == n % (UINT16_MAX + 1)
Uint8(n)  == n % (UINT8_MAX + 1)

\* SNPRINTF_FAILED(): an empty name is refused, and one that does not fit.
NameOK(s) == s \notin {"", BAD}

\* StrToDpAddress(), GrpcToDpAddress(): the string must be of the family the client states.
AddressOK(a) == a.ver \in {"v4", "v6"} /\ a.form = a.ver

\* StrToPreferredUnderlay(): none (or ::), or one of the host's prefix that is flagged as
\* generated by the client.
UnderlayOK(u) == u \in {"", "::", "own_external"}

\* dp_create_vnf_route(): an address is generated when the client did not ask for one.
UnderlayOf(u) == IF u \in {"", "::"} THEN GENERATED ELSE u

\* DpToGrpcAddress(), dp_ipaddr_to_str()
ShowAddress(a) == [ver |-> a.ver, form |-> a.ver, val |-> a.val]

-----------------------------------------------------------------------------
\* CreateInterfaceCall::FillRequest(), IsInterfaceIdValid(): the PXE server is an address of
\* the family the interface has, IPv6 when it has both.
InterfaceOK(r) ==
  /\ NameOK(r.id) /\ NameOK(r.device)
  /\ r.ip4 # BAD /\ r.ip6 # BAD
  /\ r.ip4 # 0 \/ r.ip6 # 0
  /\ r.pxe # "" => r.pxe = (IF r.ip6 = 0 THEN "v4" ELSE "v6") /\ NameOK(r.boot)
  /\ r.hostname # BAD
  /\ UnderlayOK(r.ul)

\* dp_process_get_interface(), dp_process_list_interfaces(), DpToGrpcInterface().
ShowInterface(r) ==
  [id |-> r.id, device |-> r.device, vni |-> r.vni, ip4 |-> r.ip4, ip6 |-> r.ip6,
   hostname |-> r.hostname, ul |-> UnderlayOf(r.ul), encrypt |-> r.encrypt]

\* CreatePrefixCall and CreateLoadBalancerPrefixCall::FillRequest()
PrefixOK(r) ==
  NameOK(r.id) /\ AddressOK(r.addr) /\ r.length <= UINT8_MAX /\ UnderlayOK(r.ul)

\* dp_list_vnf_alias_prefixes(), ListPrefixesCall and ListLoadBalancerPrefixesCall::ParseReply()
ShowPrefix(r) ==
  [addr |-> ShowAddress(r.addr), length |-> Uint8(r.length), ul |-> UnderlayOf(r.ul)]

\* CreateVipCall::FillRequest(); the worker refuses an IPv6 address.
VipOK(r) == NameOK(r.id) /\ AddressOK(r.addr) /\ r.addr.ver = "v4" /\ UnderlayOK(r.ul)

\* dp_process_get_vip(), GetVipCall::ParseReply()
ShowVip(r) == [addr |-> ShowAddress(r.addr), ul |-> UnderlayOf(r.ul)]

\* Mutant: only the order of the ports is checked.
PortRangeOKUnbounded(r) == r.min < r.max

\* CreateNatCall, CreateNeighborNatCall and DeleteNeighborNatCall::FillRequest(): the ranges are
\* compared as the client wrote them; a neighbour's underlay address is not this host's choice.
PortRangeOK(r) == r.min <= UINT16_MAX /\ r.max <= UINT16_MAX /\ r.min < r.max

NatOK(r) == VipOK(r) /\ PortRangeOK(r)

NeighNatOK(r) == AddressOK(r.addr) /\ r.addr.ver = "v4" /\ PortRangeOK(r) /\ r.ul # BAD

\* dp_process_get_nat(), dp_list_nat_local_entries(), dp_list_nat_neigh_entries() with the
\* ParseReply() of GetNatCall, ListLocalNatsCall and ListNeighborNatsCall.
ShowNat(r) ==
  [addr |-> ShowAddress(r.addr), min |-> Uint16(r.min), max |-> Uint16(r.max),
   ul |-> IF r.class = "nat" THEN UnderlayOf(r.ul) ELSE r.ul]

\* CreateLoadBalancerCall::FillRequest(): fewer ports than there is room for, each once.
LoadBalancerOK(r) ==
  /\ NameOK(r.id) /\ AddressOK(r.addr) /\ UnderlayOK(r.ul)
  /\ r.vni <= VniMax
  /\ Len(r.ports) < LbMaxPorts
  /\ \A i \in 1 .. Len(r.ports) :
       /\ r.ports[i].port <= UINT16_MAX
       /\ r.ports[i].protocol \in {"TCP", "UDP"}
       /\ \A j \in 1 .. i - 1 : r.ports[j] # r.ports[i]

\* dp_get_lb(), dp_list_lbs(), GetLoadBalancerCall::ParseReply(), DpToGrpcLoadBalancer(): the
\* unused rest of the array has port 0, and whatever has port 0 is left out.
ShowLoadBalancer(r) ==
  LET kept == [i \in 1 .. LbMaxPorts |->
                 IF i <= Len(r.ports) THEN [r.ports[i] EXCEPT !.port = Uint16(@)]
                 ELSE [port |-> 0, protocol |-> "none"]]
      Used(p) == p.port # 0
  IN  [id |-> r.id, vni |-> r.vni, addr |-> ShowAddress(r.addr), ul |-> UnderlayOf(r.ul),
       ports |-> SelectSeq(kept, Used)]

\* HexDigit(): digits are modelled by three of them, one in both cases.
HexDigit(c) == CASE c = "0" -> 0 [] c = "1" -> 1 [] c = "a" -> 10 [] c = "A" -> 10 [] OTHER -> -1

\* dp_ipsec_get_key_len(), reduced to one and two bytes.
key_len(algo) == IF algo = "AES_128_GCM" THEN 1 ELSE 2

\* HexToBytes(): exactly two digits to a byte.
HexOK(str, len) ==
  Len(str) = 2 * len /\ \A i \in 1 .. Len(str) : HexDigit(str[i]) >= 0

HexToBytes(str, len) == [i \in 1 .. len |-> 16 * HexDigit(str[2 * i - 1]) + HexDigit(str[2 * i])]

\* BytesToHex(): lower-case digits.
BytesToHex(src, len) ==
  LET Digit(n) == CHOOSE c \in {"0", "1", "a"} : HexDigit(c) = n
  IN  [i \in 1 .. 2 * len |->
         Digit(IF i % 2 = 1 THEN src[(i + 1) \div 2] \div 16 ELSE src[i \div 2] % 16)]

\* FillSecurityAssociationId(), FillSecurityAssociationParams(), GrpcToDpIpsecDir(),
\* GrpcToDpIpsecAlgo(); what the window may be is for dp_ipsec_create_sa() to judge.
SecurityAssociationOK(r) ==
  /\ r.dir \in {"INGRESS", "EGRESS"}
  /\ r.src # BAD /\ r.dst # BAD
  /\ r.algo \in {"AES_128_GCM", "AES_256_GCM"}
  /\ HexOK(r.key, key_len(r.algo))

\* dp_process_get_security_association(), GetSecurityAssociationCall::ParseReply(),
\* IpsecDirToGrpc(), IpsecAlgoToGrpc(): what is neither EGRESS nor AES-256 is the other.
ShowSecurityAssociation(r) ==
  LET algo == IF r.algo = "AES_256_GCM" THEN "AES_256_GCM" ELSE "AES_128_GCM"
  IN  [dir |-> IF r.dir = "EGRESS" THEN "EGRESS" ELSE "INGRESS",
       src |-> r.src, dst |-> r.dst, algo |-> algo, window |-> r.window,
       key |-> BytesToHex(HexToBytes(r.key, key_len(r.algo)), key_len(algo))]

\* CaptureStartCall::FillRequest(), without its interfaces (see Capture).
CaptureOK(r) == r.src_port <= UINT16_MAX /\ r.dst_port <= UINT16_MAX /\ r.sink # BAD

\* dp_process_capture_status(), CaptureStatusCall::ParseReply()
ShowCapture(r) ==
  [src_port |-> Uint16(r.src_port), dst_port |-> Uint16(r.dst_port), sink |-> r.sink]

-----------------------------------------------------------------------------
\* Which calls create an object of a class, and which show it.
ReadBack(r) ==
  CASE r.class = "interface" -> IF InterfaceOK(r) THEN ShowInterface(r) ELSE ApiRefused
    [] r.class = "prefix"    -> IF PrefixOK(r) THEN ShowPrefix(r) ELSE ApiRefused
    [] r.class = "vip"       -> IF VipOK(r) THEN ShowVip(r) ELSE ApiRefused
    [] r.class = "nat"       -> IF NatOK(r) THEN ShowNat(r) ELSE ApiRefused
    [] r.class = "neighnat"  -> IF NeighNatOK(r) THEN ShowNat(r) ELSE ApiRefused
    [] r.class = "lb"        -> IF LoadBalancerOK(r) THEN ShowLoadBalancer(r) ELSE ApiRefused
    [] r.class = "sa"        -> IF SecurityAssociationOK(r) THEN ShowSecurityAssociation(r) ELSE ApiRefused
    [] r.class = "capture"   -> IF CaptureOK(r) THEN ShowCapture(r) ELSE ApiRefused

NoRequest == [class |-> "none"]

ApiInit == api = [request |-> NoRequest, shown |-> ApiRefused]

CreateAndRead(r) ==
  /\ api.request = NoRequest
  /\ api' = [request |-> r, shown |-> ReadBack(r)]

\* The client goes on to another request.
GoOn ==
  /\ api.request # NoRequest
  /\ api' = [request |-> NoRequest, shown |-> ApiRefused]

ApiNext == GoOn \/ \E r \in ApiRequests : CreateAndRead(r)

ApiSpec == ApiInit /\ [][ApiNext]_api

Lower(s) == [i \in 1 .. Len(s) |-> IF s[i] = "A" THEN "a" ELSE s[i]]

\* An object that the API accepts reads back as the client wrote it, field by field: no number
\* is truncated to the worker's width, no address changes its family, no digit of a key is
\* lost.  The exceptions are what the API documents or leaves open: an underlay address that
\* was not chosen is generated, hexadecimal digits come back in lower case, and a load balancer
\* does not show a port 0.
ReadsBackAsWritten ==
  api.shown # ApiRefused =>
    \A f \in DOMAIN api.shown :
      LET written == api.request[f]
          shown   == api.shown[f]
          NotZero(p) == p.port # 0
      IN  CASE f = "ul" /\ written \in {"", "::"} -> shown = GENERATED
            [] f = "key"   -> shown = Lower(written)
            [] f = "ports" -> shown = SelectSeq(written, NotZero)
            [] OTHER       -> shown = written
=============================================================================
