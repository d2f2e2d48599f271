SPECIFICATION Spec
CONSTANTS
  s1 = s1
  s2 = s2
  s3 = s3
  Sessions = {s1, s2, s3}
  Legacy = {s3}
  MaxVersion = 2
  WriteMayFail = TRUE
  UnlinkMayFail = FALSE
  RenameMayFail = FALSE
  SplitMayHappen = TRUE
SYMMETRY Symmetry
INVARIANTS
  OnlyOpenFileAtRisk
  DeletedStaysDeleted
  IdleMatchesDisk
