CONSTANTS
  NULL = NULL
  KeyBits <- MC_KeyBits
  SigAlgs <- MC_SigAlgs
  Levels <- MC_Levels
  Callbacks = {"default", "dummy"}
  MaxStack = 2
SPECIFICATION FairSpec
INVARIANTS TypeOK ChainVerdict
PROPERTIES Termination
