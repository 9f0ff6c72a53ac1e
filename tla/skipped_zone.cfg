SPECIFICATION Safety
CONSTANTS
  Zones = {z1}
  Densities = {10, 30}
  Limits = {30}
  DefaultLimit = 30
  Foreign = {}
  Kinds = {"veto", "approve", "panic", "calm"}
  MaxTelemetry = 2
  MaxRequests = 2
  Malformed = Malformed
  NoScript = NoScript
PROPERTIES
  SkippedZoneIsAttended
