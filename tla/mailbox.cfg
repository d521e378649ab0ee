SPECIFICATION Spec
CONSTANTS
  a = a
  b = b
  w = w
  c1 = c1
  c2 = c2
  status = status
  Heartbeat = Heartbeat
  WorkerDone = WorkerDone
  NoPane = NoPane
  Coordinators = {a, b}
  Workers = {w}
  Callers = {c1, c2}
  Types = {Heartbeat, WorkerDone, status}
  Filters <- Reports
  Modes <- ReadsAndLooks
  Batch = 1
  MaxMail = 2
  MaxBinds = 2
  MaxDeliveries = 2
SYMMETRY Alike
INVARIANT TypeOK
INVARIANT OneIntactBatch
INVARIANT NoSleepingConsumer
PROPERTY AnswersCurrentConsumer
PROPERTY ImplementsLease
CHECK_DEADLOCK FALSE
