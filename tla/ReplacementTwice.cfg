CONSTANTS
  None = None
  Session = {a, b}
  Targets = 1
  Keypads = {}
  Nukis = {}
  MaxReplacements = 1
  MaxEdits = 0
  MaxRetries = 0
  Pin = {p0, p1}
  FirstPin = p0
SPECIFICATION Spec
INVARIANT SentOnce
