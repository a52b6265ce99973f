\* Two of everything that competes, one crash, and limits of one or two.
SPECIFICATION Spec
CONSTANTS
  NoUnit = NoUnit
  NoPeriod = NoPeriod
  NoKey = NoKey
  NoServer = NoServer
  Chunks = {d1, d2}
  Jobs = {j1, j2}
  Watchers = {v1}
  Units = {team, corp}
  Owner = team
  MaxCrashes = 1
  MaxJobs = 2
  Endpoints = {e1}
  Senders = {w1, w2}
  MaxAttempts = 2
  MaxLosses = 1
  MaxChanges = 2
  Periods = {t1, t2}
  PayKeys = {k1}
  Payments = {p1, p2}
  Clients = {b1, b2}
  MaxUsage = 1
  MaxRequests = 4
  Servers = {s1, s2}
  Callers = {c1, c2}
  MaxVersion = 3
  MaxConnectors = 3
  MaxDrops = 1
  MaxCalls = 3
  Tasks = {x1, x2}
  MaxActive = 1
  MaxFacts = 2
  MaxRows = 4
  MaxTurns = 1
  MaxEdits = 1
  Turns = {a1, a2}
  Threshold = 2
  ModelRetries = 1
  ToolRetries = 1
  HasFallback = TRUE
  MaxRounds = 1
  Budget = 5
  CutSize = 2
  ResultSizes = {4, 7}
  TextSizes = {0}
  MaxToolCalls = 1
CHECK_DEADLOCK FALSE
INVARIANTS
  ServicesAreSound
  ReadyIsSearchable
  DeletedIsForgotten
  ConnectorIsCurrent
  OneReviewPerCall
  ContextFits
PROPERTIES
  StreamsEnd
  DeliveriesEnd
  BillingKeepsPromise
  OutboxKeepsPromise
  TurnsEnd
