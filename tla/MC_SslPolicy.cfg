CONSTANTS
  NULL = NULL
  Levels <- MC_Levels
  Bits <- MC_Bits
  Versions <- MC_Versions
  CipherFlags <- MC_CipherFlags
SPECIFICATION Spec
\* A call of the callback returns, and nothing follows it.
CHECK_DEADLOCK FALSE
INVARIANTS PolicyMonotone
