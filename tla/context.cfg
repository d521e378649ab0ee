SPECIFICATION Spec
CONSTANTS
  t1 = t1
  t2 = t2
  p1 = p1
  p2 = p2
  Task = {t1}
  Deps <- MCNoDeps
  Terminal = {p1}
  Gate = {g1}
  NoTask = NoTask
  NoTerminal = NoTerminal
  MaxDispatches = 3
  BreakAt = 3
  UpdateStatuses = {"pending", "ready", "dispatched", "completed", "failed", "blocked"}
  Hosts = {}
  Injections = {"inject", "loop", "track"}
INVARIANT CircuitBreaks
