CONSTANTS
  Wraps = {w1, w2, w3}
  Keys = {k1, k2}
  Handles = {h1, h2}
  None = None
  MaxFailures = 1
  MaxLosses = 1
SPECIFICATION Spec
SYMMETRY Symmetry
INVARIANTS
  TypeOK
  NeverWithoutAWrap
  EveryHandleHasTheKey
  TheFileIsWhatWasTold
CHECK_DEADLOCK FALSE
