\* One process, whose administrator stores settings of a target database twice.
SPECIFICATION ConnectorsSpec
CONSTANTS
  Servers = {s1}
  Callers = {c1, c2}
  NoServer = NoServer
  MaxVersion = 3
  MaxConnectors = 3
  MaxDrops = 0
  MaxCalls = 4
CHECK_DEADLOCK FALSE
INVARIANT
  CreatedIsTheSame
