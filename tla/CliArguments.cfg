\* All lines of five commands, whole or with a value left out.
SPECIFICATION Spec
CONSTANTS
  Symbol <- Symbols
  Value <- Values
  Typed <- Commands
INVARIANTS
  TypeOK
  RunsAsTyped
  OmissionNoticed
\* A command line is looked at once.
CHECK_DEADLOCK FALSE
