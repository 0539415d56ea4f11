CONSTANTS
  Server = {s1, s2}
  NoServer = NoServer
  Order <- TheOrder
  Minute = 2
  RawKept = 3
  RollupKept = 6
  MaxPoints = 2
  Spans = {2, 4}
  MaxNow = 8
  MaxCmds = 3
  MaxWrites = 3
SPECIFICATION MCSpec
INVARIANTS
  HistoryTypeOK
  NothingLost
  NeverBlank
  ChartSettles
