SPECIFICATION Spec
CONSTANTS
  t1 = t1
  t2 = t2
  p1 = p1
  p2 = p2
  Task = {t1}
  Deps <- MCNoDeps
  Terminal = {p1}
  Gate = {}
  NoTask = NoTask
  NoTerminal = NoTerminal
  MaxDispatches = 1
  BreakAt = 2
  UpdateStatuses = {"ready"}
  Hosts = {"remote"}
  Injections = {"inject"}
INVARIANT RemoteReportAccepted
