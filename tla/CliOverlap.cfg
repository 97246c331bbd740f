\* Commands that overlap, may die at any point, and else run on.
SPECIFICATION FairSpec
CONSTANTS
  Terminal   = {t1, t2}
  Passphrase = {p1}
  Plaintext  = {msg}
  Command    = {"init", "add", "seal", "open"}
  None       = None
  MAX_SLOTS  = 2
  MaxDraws   = 2
INVARIANTS
  TypeOK
  OpensWholeTables
PROPERTIES
  BoundedSteps
  CommandsEnd
