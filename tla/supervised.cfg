SPECIFICATION Spec
CONSTANTS
  t1 = t1
  t2 = t2
  p1 = p1
  p2 = p2
  Task = {t1}
  Deps <- MCNoDeps
  Terminal = {p1}
  Gate = {}
  NoTask = NoTask
  NoTerminal = NoTerminal
  MaxDispatches = 3
  BreakAt = 2
  UpdateStatuses = {"pending", "ready", "dispatched", "completed", "failed", "blocked"}
  Hosts = {"local"}
  Injections = {"inject"}
INVARIANT TypeOK
INVARIANT ReadyWorkerCanReport
INVARIANT NoQuestionAfterSettling
PROPERTY SettledStaysSettled
PROPERTY CompletionIsReported
