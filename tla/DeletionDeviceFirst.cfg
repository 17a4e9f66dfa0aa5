CONSTANTS
  None = None
  Session = {a}
  Targets = 1
  Keypads = {}
  Nukis = {}
  MaxOps = 1
  MaxEdits = 1
  MaxRetries = 0

SPECIFICATION Spec
INVARIANT DeviceFirst
