SPECIFICATION Spec
CONSTANTS
  Adapters = {a1, a2}
  NoAdapter = NoAdapter
  Tunnels = {t1, t2}
  NoTunnel = NoTunnel
  PrimaryAttempts = 2
  FallbackAttempts = 1
  Disturbances = {}
SYMMETRY MCSymmetry
INVARIANTS
  IInv
PROPERTIES
  LiveTunnelStaysIPv6Only
