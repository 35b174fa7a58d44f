CONSTANTS
  N = 2
  A4 = A4
  A6 = A6
  V1 = V1
  V2 = V2
  Id = {i1, i2}
  Vni = {V1, V2}
  Ul = {u1, u2, u3}
  Addr4 = {A4}
  Addr6 = {A6}
  Zero4 = Zero4
  Zero6 = Zero6
  Prefix = {k1}
  IfaceReq <- MCIfaceReq
  PF = PF
  NONE = NONE
SPECIFICATION Spec
SYMMETRY MCSymmetry
PROPERTIES RefusedLeavesNoTrace 
