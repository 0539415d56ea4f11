CONSTANTS
  Intervals = {1, 8}
  MinBase = 4
  Costs = {0, 20}
  Screens = {{}, {"locks", "replication"}, {"digests", "innodb"}}
SPECIFICATION WatchSpec
INVARIANTS
  SchedulerTypeOK
  NoStarvation
  ScreenFills
  Recovers
PROPERTIES
  NoFlap
