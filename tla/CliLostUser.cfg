\* Two people add users at the same time.
SPECIFICATION Spec
CONSTANTS
  Terminal   = {t1, t2}
  Passphrase = {p1, p2}
  Plaintext  = {msg}
  Command    = {"init", "add"}
  None       = None
  MAX_SLOTS  = 2
  MaxDraws   = 3
SYMMETRY Symmetry
INVARIANTS
  AddedUsersHaveSlots
CHECK_DEADLOCK FALSE
