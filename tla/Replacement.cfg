CONSTANTS
  None = None
  Session = {a}
  Targets = 3
  Keypads = {3}
  Nukis = {2}
  MaxReplacements = 3
  MaxEdits = 2
  MaxRetries = 1
  Pin = {p0, p1, p2}
  FirstPin = p0
SPECIFICATION FairSpec
INVARIANTS
  TypeOK
  PromotedOnlyIfConfirmed
  RegistryFollowsVault
  AgreeAtRest
  ZWaveSentOnce
PROPERTY CallsEnd
