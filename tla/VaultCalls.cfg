\* All calls of a vault: members, data and the roster it implements.
SPECIFICATION Spec
CONSTANTS
  Handle     = {h1}
  Passphrase = {p1, p2}
  KdfParam  <- OneKdfParam
  RawMaster  = {}
  Plaintext  = {msg}
  Aad        = {aad1, aad2}
  None       = None
  MAX_SLOTS  = 2
  MaxDraws   = 3
  MaxSaved   = 1
  MaxBlobs   = 1
SYMMETRY Symmetry
INVARIANTS
  MembersAdmitted
  TypeOK
  CiphertextsOpenAtHome
PROPERTIES
  SlotIndicesStable
  RosterSpec
