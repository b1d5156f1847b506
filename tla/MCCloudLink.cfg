SPECIFICATION FairSpec
CONSTANTS
  alarm = alarm
  temp = temp
  setpoint = setpoint
  logging = logging
  t1 = t1
  t2 = t2
  None = None
  Services <- MCServices
  AlarmKeys <- MCAlarmKeys
  OtherKeys <- MCOtherKeys
  Untracked <- MCUntracked
  Params <- MCParams
  Fits <- MCFits
  Tenants <- MCTenants
  MAX_WRITES = 1
  MAX_TROUBLE = 2
INVARIANTS
  ConfigInUse
PROPERTIES
  DisabledStops
  TelemetryCatchesUp
  AlarmsCatchUp
  ShadowCatchesUp
CHECK_DEADLOCK FALSE
