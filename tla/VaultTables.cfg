\* Vaults, their tables and the kept tables, callers changing kept tables too.
SPECIFICATION OpenSpec
CONSTANTS
  Handle     = {h1}
  Passphrase = {p1, p2}
  KdfParam  <- TwoKdfParams
  RawMaster  = {raw}
  Plaintext  = {msg}
  Aad        = {aad1}
  None       = None
  MAX_SLOTS  = 2
  MaxDraws   = 3
  MaxSaved   = 2
  MaxBlobs   = 0
INVARIANTS
  VaultCoherent
  RevokedSlotsAreEmpty
  RotationStartsAfresh
PROPERTIES
  TablesOpenedWhole
