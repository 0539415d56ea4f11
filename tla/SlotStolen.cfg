CONSTANTS
  Server = {s1, s2}
  ConnId = {1, 2}
  Jobs = {j1, j2}
  Heavy = {}
  DefaultNeeds = {}
  Views = {{}}
  PoolMax = 2
  Batches = 0
  NoServer = NoServer
  NoJob = NoJob
  Menu = {"connect", "disconnect", "sql"}
  MaxCmds = 1
  MaxEvs = 1
  MaxBacklog = 3
  MaxEpoch = 3
SYMMETRY Tasks
SPECIFICATION AppSpec
PROPERTIES
  SlotIsKept
CHECK_DEADLOCK FALSE
