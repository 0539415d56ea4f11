CONSTANTS
  Server = {s1}
  ConnId = {1, 2}
  Jobs = {j1, j2}
  Heavy = {}
  DefaultNeeds = {}
  PoolMax = 2
  Batches = 1
  NoServer = NoServer
  NoJob = NoJob
  Menu = {"connect", "sql", "apply", "cancelsql", "dump", "write"}
  MaxCmds = 1
  MaxEvs = 1
  MaxEpoch = 1
SYMMETRY Tasks
SPECIFICATION MCSpec
INVARIANTS
  TypeOK
  BusyCount
  InflightSound
CHECK_DEADLOCK FALSE
