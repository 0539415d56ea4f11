CONSTANTS
  Server = {s1}
  ConnId = {1, 2}
  Jobs = {j1}
  Heavy = {"digests", "replication"}
  DefaultNeeds = {"digests"}
  Views = {{"digests"}, {"replication"}}
  PoolMax = 1
  Batches = 0
  NoServer = NoServer
  NoJob = NoJob
  Menu = {"connect", "disconnect", "tick", "sql", "pause", "views", "tune"}
  MaxCmds = 1
  MaxEvs = 2
  MaxBacklog = 4
  MaxEpoch = 2
SPECIFICATION FairSpec
INVARIANTS
  SessionIsCurrent
  SamplesBelongToScreen
PROPERTIES
  DisconnectHonoured
