SPECIFICATION Spec
CONSTANTS
  w1 = w1
  w2 = w2
  w3 = w3
  s1 = s1
  s2 = s2
  f1 = f1
  f2 = f2
  f3 = f3
  f4 = f4
  NoFile = NoFile
  NoSave = NoSave
  Torn = Torn
  Savers <- MCSavers
  Contents <- MCContents
  Files <- MCFiles
SYMMETRY MCSymmetry
INVARIANT
  LastSaveLoads
PROPERTY
  FileSurvives
CHECK_DEADLOCK FALSE
