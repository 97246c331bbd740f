\* One command at a time changes files, others read; any of them may die.
SPECIFICATION SerialSpec
CONSTANTS
  Terminal   = {t1, t2}
  Passphrase = {p1, p2}
  Plaintext  = {msg}
  Command    = {"init", "add", "seal", "open", "verify"}
  None       = None
  MAX_SLOTS  = 2
  MaxDraws   = 3
SYMMETRY Symmetry
INVARIANTS
  MembersKept
  SealedReadable
PROPERTIES
  FileSpec
