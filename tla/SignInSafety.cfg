\* Handlers of one account overlap with each other, with administrators and payments.
SPECIFICATION Spec
CONSTANTS
  None = None
  Accounts = {u1}
  Aliases = {"fan"}
  Balances = {0, 1}
  Workers = {w1, w2}
INVARIANTS
  TypeOK
  LinkSignsInOnce
  LinkedAccountsHaveWallets
PROPERTY
  UnblockedOnlyByStaleRow
SYMMETRY WorkerSymmetry
