SPECIFICATION MCSpec
CONSTANTS
  RepCapacity = 2
  MaxReplies = 2
  RxSize = 2
  MaxEntries = 5
  MaxGrpcFailures = 2
  NOCALL = NOCALL
  Proc = {"p1", "p2"}
  Overload = {"o1"}
  NOBODY = NOBODY
  MaxQueue = 1
  MaxEnds = 1
  RxPort = {"p0", "p1"}
  RxBurst = 2
  MaxClock = 4
  LinkPf = {"pf0", "pf1"}
  Pf0 = "pf0"
  OwnMac = "own"
  NOMAC = "nomac"
  NeighTable <- MCNeighTable
  WcmpShare = 5
  MonSize = 1
  MaxFlaps = 1
  MaxMonFailures = 1
  LnVf = {1}
  LnMac = {"m1", "m2"}
  GUESS = "guess"
  LnConfig <- MCLnConfig
  StartupCycles = 2
  MaxLnFailures = 1
  MaxVms = 2
  Host = {"A", "B"}
  Iface = {"a1", "b1"}
  HostOf <- MCHostOf
  VniOf <- MCVniOf
  Route <- MCTunnelRoute
  Spi = {1, 2}
  KeyMaterial = {0, 1, 2, 3}
  KeyTunnel <- MCKeyTunnel
  Window = {0}
  SqnMax = 4
  MaxPackets = 4
  MaxDeliveries = 2
  NONE = NONE
  Rekeyed <- MCRekeyed
  MaxGen = 3
  HoPacket <- MCHoPacket
  HoNatIp = "n"
  HoNatPort = {9}
  MaxTakeovers = 2
  DROPPED = DROPPED
CHECK_DEADLOCK FALSE
INVARIANTS ServicesTypeOK SleepMissesNothing FlowsConverge FlushedToTheEnd Gapless
PROPERTIES CallsFinish StandbyTakesOver  VmIsLearned RekeyReachesEnd ConnectionsSurvive
