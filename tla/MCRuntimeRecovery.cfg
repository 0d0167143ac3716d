SPECIFICATION RecoverySpec
CONSTANTS
  p1 = p1  p2 = p2  p3 = p3  r1 = r1
  army = army  builder = builder
  ok = ok  ko = ko  lost = lost  NoReport = NoReport

  Planner = {p1, p2}
  Reflex = {}
  Actor = {army, builder}
  Report = {ok, lost}
  Missing = lost
  Result = {"over"}
  NoResult = NoResult
  ActorOf <- MCActorOf
  KeyOf <- MCKeyOf
  Priority <- MCPriority
  OutcomeOf <- MCOutcomeOf
  TTL = 2
  Interval = 2
  MaxActions = 1
  MaxRestarts = 1
  MaxSnapshots = 1
  MaxLog = 7
  Lapses = {1}
  PlannerEnabled = TRUE
  Deterministic = FALSE
  AwaitFirstPlan = TRUE
INVARIANTS MemoryIsReplay EveryCutRecovers OneReportPerCommand LogFollowsTable
PROPERTY CommittedDispatchIsFinal
CHECK_DEADLOCK FALSE
