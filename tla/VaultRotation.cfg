\* A rotated master and the tables kept from before the rotation.
SPECIFICATION Spec
CONSTANTS
  Handle     = {h1}
  Passphrase = {p1}
  KdfParam  <- OneKdfParam
  RawMaster  = {raw}
  Plaintext  = {msg}
  Aad        = {aad1}
  None       = None
  MAX_SLOTS  = 1
  MaxDraws   = 2
  MaxSaved   = 1
  MaxBlobs   = 0
PROPERTIES
  RotationInvalidatesTable
