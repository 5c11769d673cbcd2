SPECIFICATION RetrySpec
CONSTANTS
  Tunnels = {t1, t2}
  Adapters = {a1, a2}
  Options = {forwarding}
  Endpoints = {e1}
  Markers = {m1}
  Foreign = Foreign
  NoRecord = NoRecord
INVARIANTS
  IInv
  Recoverable
PROPERTIES
  ImplementsLease
  ProtectionOutlivesTunnel
  ForeignRoutesUntouched
  RetryCleansUp
