SPECIFICATION MCSpec
CONSTANTS
  Iface = {"i1", "i2"}
  SrcPort = {1, 2}
  Endpoint = {"X", "Y", "ping"}
  Icmp = {"ping"}
  NatIp = {"n"}
  NatPort = {1, 2, 3}
  PortRange <- MCRanges
  Hash <- MCHash
  HashMod = 8
  FlowCntMod = 4
  Flow = {h1, h2, h3}
  MaxBurst = 2
  MaxFailures = 1
  NONE = NONE
SYMMETRY MCSymmetry
INVARIANTS RepliesUnambiguous MappingIsStable  FlowsNothingDangles FlowsCacheIsFresh FlowsTranslatedAsHeld
PROPERTIES FlowsUseNatPorts
