SPECIFICATION Spec
CONSTANTS
  t1 = t1
  t2 = t2
  p1 = p1
  p2 = p2
  Task = {t1}
  Deps <- MCNoDeps
  Terminal = {p1, p2}
  Gate = {g1}
  NoTask = NoTask
  NoTerminal = NoTerminal
  MaxDispatches = 2
  BreakAt = 2
  UpdateStatuses = {"pending", "ready", "completed", "failed", "blocked"}
  Hosts = {"local", "remote"}
  Injections = {"inject"}
SYMMETRY MCSymmetry
INVARIANT OneActivePerTask
INVARIANT ActiveOnlyWhileWorked
INVARIANT DeadWorkerReleased
INVARIANT AuthorityEndsWithDispatch
INVARIANT AuthorityInv
INVARIANT LiveWorkerKeepsDispatch
INVARIANT OwnershipInv
INVARIANT NoStrandedTask
PROPERTY CompletedStaysCompleted
PROPERTY ImplementsOwnership
