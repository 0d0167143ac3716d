SPECIFICATION FairSpec
CONSTANTS
  p1 = p1  p2 = p2  p3 = p3  r1 = r1
  army = army  builder = builder
  ok = ok  ko = ko  lost = lost  NoReport = NoReport

  Planner = {p1, p3}
  Reflex = {r1}
  Actor = {army, builder}
  Report = {ok, lost}
  Missing = lost
  Result = {"over"}
  NoResult = NoResult
  ActorOf <- MCActorOf
  KeyOf <- MCKeyOf
  Priority <- MCPriority
  OutcomeOf <- MCOutcomeOf
  TTL = 2
  Interval = 2
  MaxActions = 1
  Lapses = {1}
  PlannerEnabled = TRUE
  Deterministic = FALSE
  AwaitFirstPlan = TRUE
INVARIANTS TypeOK ReportClosesCommand NoOrphanedPlanCommand DeliveredOnce
PROPERTIES Implements UrgentPlanServed PlanCommandResolved
CHECK_DEADLOCK FALSE
