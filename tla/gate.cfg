SPECIFICATION Spec
CONSTANTS
  Zones = {z1, z2}
  Densities = {10, 30}
  Limits = {30}
  DefaultLimit = 30
  Foreign = {z1, z2}
  Kinds = {"veto", "approve", "panic", "calm"}
  MaxTelemetry = 2
  MaxRequests = 1
  Malformed = Malformed
  NoScript = NoScript
PROPERTIES
  ImplementsGate
  EveryWindowCloses
  TelemetryConsumed
