CONSTANTS
  None = None
  p = p
  d = d
  t = t
  u = u
  x = x
  k = k
  l = l
  i = i
  j = j
  y = y
  Person = {p}
  Door = {d}
  Tag = {t, u}
  Test = {x, y}
  Passkey = {k, l}
  Invite = {i, j}
  Request = {r1, r2}
  Admin = {a1, a2}
  Key = {1, 2, 3, 4, 5}
  Counter = {1, 2}
  DaysPerWeek = 3
  MinutesPerDay = 3
  TapTtl = 1
  CeremonyTtl = 2
  EnrolTtl = 2
  InviteTtl = 3
  TestTtl = 3
  MaxItems = 2
  LastToken = 5
  LastInstant = 10
  Offset <- MCOffset
  Installations <- MCInstallations
SPECIFICATION Spec
CHECK_DEADLOCK FALSE
INVARIANTS TypeOK SpentOnce RevocationHolds VaultFollowsTags PolicyRespected
