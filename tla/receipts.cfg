SPECIFICATION Spec
CONSTANTS
  send = send
  start = start
  release = release
  x = x
  y = y
  c1 = c1
  c2 = c2
  NoCall = NoCall
  NoPayload = NoPayload
  Requests = {send, start, release}
  Payloads = {x, y}
  Calls = {c1, c2}
  Starts = {start}
  Releases = {release}
  Early = {send}
  Capacity = 2
  PruneBatch = 1
  MaxEffects = 2
SYMMETRY Alike
INVARIANT TypeOK
INVARIANT EffectOnce
INVARIANT EffectHasReceipt
INVARIANT AnswersRepeat
INVARIANT HandlersExclude
CHECK_DEADLOCK FALSE
