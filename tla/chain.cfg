SPECIFICATION Spec
CONSTANTS
  t1 = t1
  t2 = t2
  p1 = p1
  p2 = p2
  Task = {t1, t2}
  Deps <- MCChain
  Terminal = {p1}
  Gate = {}
  NoTask = NoTask
  NoTerminal = NoTerminal
  MaxDispatches = 2
  BreakAt = 2
  UpdateStatuses = {"completed", "failed", "ready", "blocked"}
  Hosts = {"local"}
  Injections = {"loop"}
INVARIANT OneActivePerTerminal
INVARIANT NoStrandedPending
