\* Bodies with a right MAC that end before a field.
SPECIFICATION Spec
CONSTANTS
  Salt      <- Salts
  Table     <- Tables
  Foreign   <- OtherBodies
  MAX_SLOTS = 2
  U8        = 3
\* A call of from_bytes returns, and that is the end.
CHECK_DEADLOCK FALSE
INVARIANTS
  ParserAnswers
