SPECIFICATION ServiceSafety
CONSTANTS
  Zones = {z1}
  Densities = {10, 16, 30}
  Limits = {40, 60}
  DefaultLimit = 40
  Foreign = {}
  Kinds = {"veto", "approve", "panic", "calm", "config"}
  MaxTelemetry = 2
  MaxRequests = 1
  ZoneTopics = {z1}
  MaxAttempts = 2
  Malformed = Malformed
  NoScript = NoScript
INVARIANTS
  ServiceTypeOK
  NoHiddenCountdown
  ScriptHasItsTask
  DashboardsCurrent
  CountdownIsOnScreen
  NoLeakedSubscription
  ListensWhenUp
  FlagsTellLink
