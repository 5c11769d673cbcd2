SPECIFICATION Spec
CONSTANTS
  Adapters = {a1}
  NoAdapter = NoAdapter
  Tunnels = {t1}
  NoTunnel = NoTunnel
  PrimaryAttempts = 1
  FallbackAttempts = 1
  Disturbances = {"autostart"}
INVARIANTS
  TunnelsExclusive
