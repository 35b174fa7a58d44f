SPECIFICATION Spec
CONSTANTS
  h1 = h1  h2 = h2  h3 = h3
  s1 = s1  s2 = s2
  local = local  peer = peer
  k1 = k1
  Number = {1, 2}
  Prefix = {local, peer}
  Suffix <- MCSuffix
  ZeroSuffix = 0
  LocalPrefix = local
  ReplayWindow = {0, 2}
  DP_IPSEC_REPLAY_WINDOW_MAX = 1
  KeyMaterial = {k1}
  DP_IPSEC_MAX_SA = 2
  Handle = {h1, h2, h3}
  Session = {s1, s2}
  NONE = NONE
SYMMETRY Symmetry
INVARIANTS OwnedOnce
PROPERTIES ImplementsSaTable
