\* A table is written and read back whole, cut short, or as another program wrote it.
SPECIFICATION Spec
CONSTANTS
  Salt      <- Salts
  Table     <- Tables
  Foreign   <- OtherBodies
  MAX_SLOTS = 2
  U8        = 3
\* A call of from_bytes returns, and that is the end.
CHECK_DEADLOCK FALSE
INVARIANTS
  TypeOK
  RoundTrip
  CutsRefused
  AcceptedAsLaidOut
  PanicsAtUncheckedBytes
