SPECIFICATION Safety
CONSTANTS
  Zones = {z1}
  Densities = {14, 20, 30}
  Limits = {30, 60}
  DefaultLimit = 30
  Foreign = {}
  Kinds = {"veto", "approve", "panic", "calm", "config"}
  MaxTelemetry = 3
  MaxRequests = 2
  Malformed = Malformed
  NoScript = NoScript
INVARIANTS
  TypeOK
  NoHiddenCountdown
  ScriptHasItsTask
  TimerNeverOverrules
  VetoedMeansVetoed
  VetoStopsCountdown
  QosFollowsDensity
  NoWakeupLost
PROPERTIES
  NoScriptOverwritten
  PanicWithdrawsAll
  GateIsKept
