CONSTANTS
  Chains <- MCChains
  MAX_CHAIN_NAMES = 4
  MAX_CHAIN_CONSTRAINTS = 2
  ExtractNames <- ExtractNamesCode
  ExtractConstraints <- ExtractConstraintsCode
  DOMAIN_PART_MAX_LEN = 255
  LOCAL_PART_MAX_LEN = 64
  LABEL_MAX_LEN = 63

SPECIFICATION Spec

INVARIANTS
  TypeOK
  NamesConstrained
  ViolationAtFirstDepth
