CONSTANTS
  BN_BITS2 = 4
  BN_BITS4 = 2
  BN_TBIT = 8
  BN_MASK2 = 15
  BN_MASK2l = 3
  BN_LLONG = FALSE
  C2Words = {0, 1, 14, 15}
SPECIFICATION Spec
\* A call of a pure primitive returns, and nothing follows it.
CHECK_DEADLOCK FALSE
INVARIANTS CarryIdentity ProductIdentity ZeroTests
