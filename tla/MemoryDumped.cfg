\* A key in the middle of a page.
SPECIFICATION Spec
CONSTANTS
  Key          = {k1, k2, k3}
  Page         = {g1, g2}
  CellsPerPage = 2
  Nobody       = Nobody
SYMMETRY Symmetry
INVARIANTS
  LiveKeysUndumped
