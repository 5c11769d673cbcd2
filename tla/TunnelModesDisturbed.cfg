SPECIFICATION FairSpec
CONSTANTS
  Adapters = {a1}
  NoAdapter = NoAdapter
  Tunnels = {t1}
  NoTunnel = NoTunnel
  PrimaryAttempts = 2
  FallbackAttempts = 1
  Disturbances = {"autostart", "probe", "retry", "settings"}
INVARIANTS
  FailedStartRollsBack
  ProtocolRolledBack
PROPERTIES
  EveryHandlerAnswers
