SPECIFICATION Safety
CONSTANTS
  Zones = {z1}
  Densities = {10, 30}
  Limits = {30}
  DefaultLimit = 30
  Foreign = {}
  Kinds = {"panic"}
  MaxTelemetry = 2
  MaxRequests = 2
  Malformed = Malformed
  NoScript = NoScript
PROPERTIES
  NoActuationInPanic
