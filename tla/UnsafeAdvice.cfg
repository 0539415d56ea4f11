CONSTANTS
  Parts = {"advisor"}
  Quantities = {"q"}
  Readings = {0, 2}
  Limits = {1}
  Holds = {0, 2}
  LogCap = 2
  MaxRules = 2
  MaxT = 4
  Names = {"prod", "dev"}
  Targets = {"h1", "h2"}
  Passwords = {"p1", "p2"}
  Legacy = "p0"
  NoName = "none"
  Empty = ""
  NoEntry = "no entry"
  Faults = TRUE
  MaxActs = 5
  Order <- TheTables
  BaseOf <- NoViews
  RowIds = {1, 2, 3}
  Weight <- Weights
  BatchRows = 2
  BatchBytes = 3
  MaxCommits = 1
  IndexNames <- TheIndexNames
  Keys <- TheKeys
  Statements <- TheStatements
  MaxDigests = 2
  MinExecutions = 2
  MinUptime = 1
  Inputs <- TheInputs
  Queries <- TheQueries
  Locks = {"l1", "l2"}
  MaxHeld = 2
SPECIFICATION DeskSpec
INVARIANTS
  ConstraintsSurvive
CHECK_DEADLOCK FALSE
