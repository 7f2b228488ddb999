SPECIFICATION Spec
CONSTANTS
  Lengths = {0, 4, 5, 7, 10}
  FixedLengths = {3, 8}
  StaticTokens = {0, 2}
  SoftCaps <- MCCaps
INVARIANTS
  TypeOK
  NeverUnderestimates
  EstimateDrift
  FitsOrNothingLeft
  LeastImportantFirst
