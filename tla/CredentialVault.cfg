CONSTANTS
  None = None
  Credential = {c1, c2, c3}
  Handle = {h1, h2, h3}
  Secret = {s1, s2}
  Key = {k1, k2}
SYMMETRY Symmetry
SPECIFICATION Spec
INVARIANTS
  TypeOK
  StagesUpToDate
  ReceiptsOrdered
  Decryptable
  CacheCoherent
PROPERTY ImplementsRegister
