SPECIFICATION Spec
CONSTANTS
  Host <- MCHost
  Iface = {"a1", "b1", "b2"}
  HostOf <- MCHostOf
  VniOf <- MCVniOf
  Route <- MCRoute
  Spi = {1}
  KeyMaterial = {"k1", "k2"}
  KeyTunnel <- MCKeyTunnel
  Window = {0, 1}
  SqnMax = 3
  MaxPackets = 3
  MaxDeliveries = 2
  NONE = NONE
CONSTRAINT MCBound
INVARIANTS NeverInTheClear TenantIsolation DeliveredOnce
