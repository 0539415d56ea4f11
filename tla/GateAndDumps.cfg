CONSTANTS
  Server = {s1}
  ConnId = {1, 2}
  Jobs = {j1}
  Heavy = {}
  DefaultNeeds = {}
  Views = {{}}
  PoolMax = 2
  Batches = 1
  NoServer = NoServer
  NoJob = NoJob
  Menu = {"connect", "disconnect", "sql", "write", "apply", "dump", "canceldump"}
  MaxCmds = 2
  MaxEvs = 1
  MaxBacklog = 3
  MaxEpoch = 3
SPECIFICATION AppSpec
INVARIANTS
  AppTypeOK
  DumpShown
  GateFollowsSwitch
CHECK_DEADLOCK FALSE
