SPECIFICATION Spec
CONSTANTS
  proxy = proxy
  key = key
  Modules <- MCModules
  Keys <- MCKeys
  Followed <- MCKeys
  OwnLoads = {4, 5}
  Loads = {5, 6, 16}
  MaxHis = 7
PROPERTIES OwnGuardExact NoFalseKill GuardRunsDry
CHECK_DEADLOCK FALSE
