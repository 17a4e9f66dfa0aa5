CONSTANTS
  None = None
  Session = {a}
  Targets = 3
  Keypads = {3}
  Nukis = {2}
  MaxOps = 2
  MaxEdits = 3
  MaxRetries = 1

SPECIFICATION Spec
INVARIANTS
  TypeOK
  DeviceFirstUndisturbed
  ClearedOnce
  ClearsSettled
  NothingLeftBehind
  AuthorityGoesInOrder
PROPERTIES
  RemovedOnlyIfConfirmed
