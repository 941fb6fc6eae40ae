CONSTANTS
  Contents = {c, d}
  Uploads = {u1, u2}
  None = None
  MaxCrashes = 2
  MaxLosses = 2
SPECIFICATION Spec
SYMMETRY Symmetry
INVARIANTS
  TypeOK
  VisibleIsWhole
  WritableIsExplained
  TempsHaveUploads
PROPERTY ImplementsContentStore
