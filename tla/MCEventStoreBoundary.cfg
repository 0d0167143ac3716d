SPECIFICATION Spec
CONSTANTS
  c1 = c1  c2 = c2  t1 = t1  p1 = p1  p2 = p2  None = None

  Caller = {c1, c2}
  Transition = {t1}
  Payload = {p1, p2}
  QueueSize = 2
  BatchSize = 2
  MaxEvents = 3
  MaxSnapshots = 1
  MaxFailures = 2
SYMMETRY CallerSymmetry
INVARIANT BoundarySeparates
CHECK_DEADLOCK FALSE
