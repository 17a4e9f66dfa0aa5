CONSTANTS
  None = None
  Credential = {c1, c2}
  Handle = {h1}
  Secret = {s1, s2}
  Key = {k1}
SPECIFICATION Spec
INVARIANT StoredLoads
