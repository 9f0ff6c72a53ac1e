SPECIFICATION Safety
CONSTANTS
  Zones = {z1, z2}
  Densities = {10, 30}
  Limits = {30}
  DefaultLimit = 30
  Foreign = {z1, z2}
  Kinds = {"veto"}
  MaxTelemetry = 2
  MaxRequests = 2
  Malformed = Malformed
  NoScript = NoScript
INVARIANTS
  VetoStopsCountdown
