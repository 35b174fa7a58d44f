SPECIFICATION Spec
CONSTANTS
  Iface = {"i1"}
  SrcPort = {1, 2}
  Endpoint = {"ping"}
  Icmp = {"ping"}
  NatIp = {"n"}
  NatPort = {1, 2, 3}
  PortRange <- MCRange
  Hash <- MCHash
  HashMod = 8
  FlowCntMod = 4
  NONE = NONE
INVARIANTS EchoIdentifiersDiffer
