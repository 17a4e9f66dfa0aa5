CONSTANTS
  None = None
  Inline = Inline
  Person = {a, b}
  Slots = 2
  MaxCalls = 3
  MaxFaults = 1
  MaxAir = 3

SPECIFICATION Spec
SYMMETRY Symmetry
INVARIANTS
  SynchronizedWorks
  ConfirmedStaysRecorded
  ClearedBySaveOnce
