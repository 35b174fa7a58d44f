SPECIFICATION MCSpec
CONSTANTS
  Host = {"A", "B"}
  Iface = {"a1", "b1"}
  HostOf <- MCHostOf
  VniOf <- MCVniOf
  Route <- MCTunnelRoute
  Spi = {1, 2}
  KeyMaterial = {"k1", "k2"}
  KeyTunnel <- MCKeyTunnel
  Window = {0}
  SqnMax = 1
  MaxPackets = 2
  MaxDeliveries = 1
  NONE = NONE
  ApiRequests <- MCApiRequests
  BAD = BAD
  GENERATED = GENERATED
  RtBits = 2
  RtVni = {1, 2}
  RtPort = {"v1", "v2"}
  RtVniOf <- MCRtVniOf
  RtOwn <- MCRtOwn
  RtRequests <- MCRtRequests
  MaxRoutes = 3
  PF0 = PF0
  REFUSED = REFUSED
  LookupSize = 5
  Backend = {1, 2, 3}
  Murmur <- MCMurmur
  Djb <- MCDjb
  LbId = {"a", "b"}
  LbAddr = {"x", "y"}
  LbVni = {"v"}
  LbUl = {"u1", "u2"}
  LbPorts <- MCLbPorts
  MaxIps = 3
  LbFlow <- MCLbFlow
  MaxLbFailures = 1
  MaxGen = 2
  ABSENT = ABSENT
  FREED = FREED
  FwPort = {"v1", "v2", "pf"}
  FwPf = {"pf"}
  FwRequest <- MCFwRequest
  FwFlow <- MCFwFlow
  MaxRules = 2
  UNJUDGED = UNJUDGED
  MtPort = {"v1"}
  MtRates = {0, 7, 8, 100, 32767, 32768, 32800, 40000}
  MtLimit = 32999
  CapVf = {"v1", "v2"}
  CapPf = {"pf"}
  CapRequests <- MCCapRequests
  MaxCapFailures = 2
  UNKNOWN = UNKNOWN
  NtPort = {"p1", "p2"}
  NtVni = {1}
  NtVniOf <- MCNtVniOf
  NtAddr = {"a", "b"}
  VipIp = {"v", "n"}
  NatIp = {"n", "m"}
  NtRange <- MCNtRange
  NtUl = {"u1", "u2"}
  NeighUl = {"w"}
  NtFlow <- MCNtFlow
  MaxNeigh = 2
  SHARED = SHARED
  EMPTY = EMPTY
  DhVf = {1, 2}
  DhConfig <- MCDhConfig
  DhOptions <- MCDhOptions
  Dh6Request <- MCDh6Request
  Vf = {"v1", "v2"}
  Src = {1}
  PortCount = 2
  PortTimeout = 1
  EstTimeout = 2
  MaxRefused = 1
  CLOSED = CLOSED
CHECK_DEADLOCK FALSE
INVARIANTS TablesTypeOK NonceUsedOnce   SameTargetsSameTable FlowsReachTargets
INVARIANTS VerdictIsBySet LimitsInForce PacketsStayHandled InboundMatchesOutbound NeighboursReachable 
INVARIANTS BootFilesFollowRequests
PROPERTIES UsesSaTable RelayFollowsRange
