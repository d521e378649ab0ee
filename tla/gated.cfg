SPECIFICATION Spec
CONSTANTS
  t1 = t1
  t2 = t2
  p1 = p1
  p2 = p2
  Task = {t1}
  Deps <- MCNoDeps
  Terminal = {p1}
  Gate = {g1, g2}
  NoTask = NoTask
  NoTerminal = NoTerminal
  MaxDispatches = 2
  BreakAt = 2
  UpdateStatuses = {}
  Hosts = {}
  Injections = {"loop"}
INVARIANT PendingGateHoldsTask
