CONSTANTS
  None = None
  anna = anna
  ben = ben
  first = first
  second = second
  Owner = {anna, ben}
  CodeId = {first, second}
  Call = {c1, c2, c3}
  Person = {p}
  Transactions = {t}
  Expiry = 2
  Wait = 1
  ProviderWait = 1
  Window = 1
  TransactionTtl = 1
  FailureWindow = 1
  MaxFailures = 1
  Installations <- MCInstallations
SPECIFICATION Spec
SYMMETRY Symmetry
CHECK_DEADLOCK FALSE
INVARIANTS
  CommandsMatched
  EachReportOnce
  EvidenceOfItsUnlock
  LockoutHolds
  TransactionsActOnce
  ConfirmedTruly
