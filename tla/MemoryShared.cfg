\* Keys that share pages, made and dropped by different threads.
SPECIFICATION Spec
CONSTANTS
  Key          = {k1, k2, k3}
  Page         = {g1, g2}
  CellsPerPage = 2
  Nobody       = Nobody
SYMMETRY Symmetry
INVARIANTS
  TypeOK
  FreedMemoryIsClean
  LocksAreReturned
  ExclusionsFollowKeys
  KeysAlonePinned
